------------------------------ MODULE MCServices ------------------------------
(* What becomes of a source: its intake, the parse of what was taken in, the *)
(* receipts of where it lies, what its pages may be used for, and the review *)
(* of what a check reports.  Each is explored on its own, from every state   *)
(* the others may hand it: a behaviour moves the component of one area only, *)
(* and the others stay as one start of theirs.                               *)
EXTENDS SourceIntake, TrustedParse, SourceAssets, AdequacyDecision, GuardianReview
VARIABLE area
Areas == {"intake", "trusted", "assets", "adequacy", "review"}
servicesVars == <<intakeVars, trustedVars, assetVars, decisionVars, reviewVars, area>>

ServicesInit ==
    /\ IntakeInit /\ TrustedInit /\ AssetInit /\ DecisionInit /\ ReviewInit
    /\ area \in Areas
    /\ area # "intake" => mode = "upload" /\ policy = "trusted_supervised_parse"
    /\ area # "trusted" => route = "decided" /\ verdict = "yes"
    /\ area # "assets" => filed[1].paper
    /\ area # "adequacy" => pages[1].ordered /\ pages[2].complete /\ pages[2].ordered
    /\ area # "review" => present = {} /\ reports = <<>>

ServicesNext ==
    /\ UNCHANGED area
    /\ area # "intake" => UNCHANGED intakeVars
    /\ area # "trusted" => UNCHANGED trustedVars
    /\ area # "assets" => UNCHANGED assetVars
    /\ area # "adequacy" => UNCHANGED decisionVars
    /\ area # "review" => UNCHANGED reviewVars
    /\ CASE area = "intake" -> IntakeNext
         [] area = "trusted" -> TrustedNext
         [] area = "assets" -> AssetNext
         [] area = "adequacy" -> DecisionNext
         [] area = "review" -> ReviewNext

\* IntakeFairness and TrustedFairness, each asked of the behaviours in its area.
ServicesFairness ==
    /\ \A c \in Caller : WF_intakeVars(area = "intake" /\ (IntakeStep(c) \/ Refuse(c)))
    /\ SF_intakeVars(area = "intake" /\ \E c \in Caller : ReplayJob(c))
    /\ WF_intakeVars(area = "intake" /\ RecoverTransactions)
    /\ \A c \in Approver : WF_trustedVars(area = "trusted" /\
            (ApprovalStep(c) \/ FailApproval(c) \/ RefuseApproval(c)))
    /\ SF_trustedVars(area = "trusted" /\ \E c \in Approver : Prepare(c))
    /\ WF_trustedVars(area = "trusted" /\ RecoverCommits)
ServicesSpec == ServicesInit /\ [][ServicesNext]_servicesVars /\ ServicesFairness

\* Every variable of the five components keeps its type.
ServicesTypeOK == IntakeTypeOK /\ TrustedTypeOK /\ AssetTypeOK /\ DecisionTypeOK /\ ReviewTypeOK

(* What a trusted job names belongs together: the authority and the run it   *)
(* is reconciled with, and the pages the user has accepted.                  *)
ParsesAreBound == ReconcileBindsReceipts /\ AcceptanceIsBound

(* What went its way to the end is nothing a check reports, however many     *)
(* calls it took and wherever they died.                                     *)
FinishedWorkIsClean ==
    FinishedIntakeIsClean /\ ParseIsSound /\ UndisturbedSourcesAreClean

(* With the client repeating its call, an intake and a trusted intake end or *)
(* come to where only the user can move them, or meet a dead end they name.  *)
IntakesSettle ==
    /\ area = "intake" => IntakeSettles
    /\ area = "trusted" => TrustedIntakeSettles
===============================================================================
