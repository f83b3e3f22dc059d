------------------------ MODULE MCIdentityCorrection ------------------------
(***************************************************************************)
(* IdentityCorrection for TLC: papers and clients are interchangeable, and  *)
(* only safety is checked, so permuting them is sound.                      *)
(***************************************************************************)
EXTENDS IdentityCorrection, TLC

PaperSymmetry == Permutations(Paper) \cup Permutations(Client)
=============================================================================
