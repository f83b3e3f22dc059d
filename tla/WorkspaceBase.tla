--------------------------- MODULE WorkspaceBase ---------------------------
(* What the modules of the workspace's operations share: the value of a      *)
(* missing file or an idle process, and the faults of a behaviour.           *)
EXTENDS Naturals, FiniteSets
CONSTANTS
    Nothing,       \* a file that does not exist, a process that does not run
    MaxFaults,     \* bound: deaths, failures and damages in one behaviour
    TornWrites     \* may a death leave the temporary file of a write behind?
ASSUME FaultAssumption == MaxFaults \in Nat /\ TornWrites \in BOOLEAN
ASSUME NothingIsNoNumber == Nothing \notin Nat
=============================================================================
