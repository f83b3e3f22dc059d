---------------------- MODULE WorkspaceMaterialization ----------------------
(* The two-phase creation of a workspace directory                           *)
(* (services/workspace_materialization.py).  A proposal is previewed, then   *)
(* committed under a mutex of its target: a staging directory is generated,  *)
(* validated, renamed to the target and receipted, each step recorded in an  *)
(* append-only journal inside it.  Nothing is undone when a step raises or   *)
(* the process dies: recovery classifies what it finds and offers one action.*)
EXTENDS WorkspaceBase
CONSTANTS Proposal    \* proposals for one target, each with its operation id

\* What a directory holds, as its generation digest tells it apart: nothing,
\* some of the generated files, all of them, or something else.
Generation == {"empty", "part", "whole", "changed"}
\* The last journal entry; a torn line makes the reader return no entry at all.
Head == {"absent", "torn", "intent", "generated", "validated", "complete"}

VARIABLES
    staging,    \* per proposal: Nothing or [files, head, digest]
    target,     \* Nothing or [owner, files, head, digest, receipt, jammed]
    working,    \* Nothing or [by, doing]: the call that holds the mutex
    mishaps
materializationVars == <<staging, target, working, mishaps>>

Foreign == "foreign"
StagingDirectory == [files : Generation, head : Head, digest : Generation]
TargetDirectory == [owner : Proposal \cup {Foreign}, files : Generation,
    head : Head, digest : Generation, receipt : BOOLEAN, jammed : BOOLEAN]
ASSUME ForeignAssumption == Foreign \notin Proposal
Call == [by : Proposal, doing : {"commit", "resume", "discard"}]
\* A directory that is there is not one that is missing, nor a call no call.
ASSUME NothingIsNoDirectory == Nothing \notin StagingDirectory \cup TargetDirectory \cup Call
MaterializationTypeOK ==
    /\ staging \in [Proposal -> {Nothing} \cup StagingDirectory]
    /\ target \in {Nothing} \cup TargetDirectory /\ working \in {Nothing} \cup Call
    /\ mishaps \in 0..MaxFaults

MaterializationInit ==
    /\ staging = [p \in Proposal |-> Nothing] /\ target = Nothing
    /\ working = Nothing /\ mishaps = 0

Mine(p) == target # Nothing /\ target.owner = p
Doing(p, what) == working = [by |-> p, doing |-> what]

-----------------------------------------------------------------------------
\* A commit with nothing at the target and no stage of its own starts one.
\* Roots and proposal are revalidated; every other case is Resume or refused.
BeginCommit(p) ==
    /\ working = Nothing /\ target = Nothing /\ staging[p] = Nothing
    /\ staging' = [staging EXCEPT ![p] =
         [files |-> "empty", head |-> "absent", digest |-> "empty"]]
    /\ working' = [by |-> p, doing |-> "commit"]
    /\ UNCHANGED <<target, mishaps>>

Record(p, head) ==
    staging' = [staging EXCEPT ![p].head = head, ![p].digest = staging[p].files]
JournalIntent(p) ==
    /\ Doing(p, "commit") /\ staging[p] # Nothing
    /\ staging[p].head = "absent" /\ staging[p].files = "empty"
    /\ Record(p, "intent")
    /\ UNCHANGED <<target, working, mishaps>>
Generate(p) ==
    /\ Doing(p, "commit") /\ staging[p] # Nothing /\ staging[p].head = "intent"
    /\ staging[p].files \in {"empty", "part"}
    /\ staging' = [staging EXCEPT ![p].files = IF @ = "empty" THEN "part" ELSE "whole"]
    /\ UNCHANGED <<target, working, mishaps>>
\* Validation reads the generation back before either entry is written.
JournalGeneration(p) ==
    /\ Doing(p, "commit") /\ staging[p] # Nothing /\ staging[p].files = "whole"
    /\ \/ staging[p].head = "intent" /\ Record(p, "generated")
       \/ staging[p].head = "generated" /\ Record(p, "validated")
    /\ UNCHANGED <<target, working, mishaps>>
PublishOverTargetOf(p) ==
    /\ Doing(p, "commit") /\ staging[p] # Nothing /\ staging[p].head = "validated"
    /\ target' = [owner |-> p, files |-> staging[p].files, head |-> "validated",
                  digest |-> staging[p].digest, receipt |-> FALSE, jammed |-> FALSE]
    /\ staging' = [staging EXCEPT ![p] = Nothing]
    /\ UNCHANGED <<working, mishaps>>
Publish(p) ==
    /\ Doing(p, "commit") /\ staging[p] # Nothing
    /\ staging[p].head = "validated" /\ target = Nothing
    /\ target' = [owner |-> p, files |-> staging[p].files, head |-> "validated",
                  digest |-> staging[p].digest, receipt |-> FALSE, jammed |-> FALSE]
    /\ staging' = [staging EXCEPT ![p] = Nothing]
    /\ UNCHANGED <<working, mishaps>>

\* The published generation must still be the validated one.
WriteReceipt(p) ==
    /\ (Doing(p, "commit") /\ staging[p] = Nothing) \/ Doing(p, "resume")
    /\ Mine(p) /\ target.head = "validated" /\ ~target.receipt
    /\ target.files = target.digest /\ ~target.jammed
    /\ target' = [target EXCEPT !.receipt = TRUE]
    /\ UNCHANGED <<staging, working, mishaps>>
CloseJournal(p) ==
    /\ (Doing(p, "commit") /\ staging[p] = Nothing) \/ Doing(p, "resume")
    /\ Mine(p) /\ target.head = "validated" /\ target.receipt
    /\ target' = [target EXCEPT !.head = "complete"]
    /\ working' = Nothing
    /\ UNCHANGED <<staging, mishaps>>

\* The commit raises when the target is taken, is not what was validated, or
\* holds the temporary file of an earlier receipt.
Refuse(p) ==
    /\ \/ /\ Doing(p, "commit") /\ staging[p] # Nothing
          /\ staging[p].head = "validated" /\ target # Nothing
       \/ /\ Doing(p, "commit") \/ Doing(p, "resume")
          /\ Mine(p) /\ ~target.receipt
          /\ target.files # target.digest \/ target.jammed
    /\ working' = Nothing
    /\ UNCHANGED <<staging, target, mishaps>>

-----------------------------------------------------------------------------
(* What an inspection finds, and the one action it offers.  It reads every    *)
(* directory of the parent, so another operation's torn journal is in the way. *)
Closing(p) ==
    CASE target.head = "complete" -> "complete"
      [] target.head = "validated" /\ target.receipt -> "receipt_close_pending"
      [] target.head = "validated" /\ ~target.receipt -> "published_receipt_missing"
Staged(p) ==
    CASE staging[p].head \in {"absent", "torn"} -> "foreign"
      [] staging[p].head \notin {"absent", "torn"} /\ staging[p].files = staging[p].digest -> "owned_incomplete"
      [] OTHER -> "changed"
RecoveryState(p) ==
    CASE \E q \in Proposal \ {p} : staging[q] # Nothing /\ staging[q].head = "torn" -> "corrupt"
      [] Mine(p) /\ target.head = "torn" -> "corrupt"
      [] OTHER ->
           CASE Mine(p) /\ target.files # target.digest -> "changed"
             [] Mine(p) /\ target.files = target.digest -> Closing(p)
             [] ~Mine(p) /\ staging[p] = Nothing -> "absent"
             [] ~Mine(p) /\ staging[p] # Nothing -> Staged(p)

\* A repeated commit, or recovery's resume, completes what was published; the
\* commit looks at its own target only.
Resume(p) ==
    /\ working = Nothing /\ Mine(p)
    /\ target.head = "validated" /\ target.files = target.digest
    /\ working' = [by |-> p, doing |-> "resume"]
    /\ UNCHANGED <<staging, target, mishaps>>

\* Recovery discards an unchanged stage: it empties the directory, then
\* removes it.
BeginDiscard(p) ==
    /\ working = Nothing /\ RecoveryState(p) = "owned_incomplete"
    /\ staging' = [staging EXCEPT ![p].files = "changed", ![p].head = "absent"]
    /\ working' = [by |-> p, doing |-> "discard"]
    /\ UNCHANGED <<target, mishaps>>
EndDiscard(p) ==
    /\ Doing(p, "discard")
    /\ staging' = [staging EXCEPT ![p] = Nothing]
    /\ working' = Nothing
    /\ UNCHANGED <<target, mishaps>>

-----------------------------------------------------------------------------
\* A step raises or the process dies.  An append to a journal may be torn,
\* and then no entry of that journal is read any more; a death in the receipt's
\* write leaves a temporary file whose name the operation fixes.
WorkEnds ==
    /\ working # Nothing /\ mishaps < MaxFaults /\ mishaps' = mishaps + 1
    /\ working' = Nothing
    /\ \/ UNCHANGED <<staging, target>>
       \/ /\ TornWrites /\ working.doing = "commit" /\ staging[working.by] # Nothing
          /\ <<staging[working.by].files, staging[working.by].head>> \in
               {<<"empty", "absent">>, <<"whole", "intent">>, <<"whole", "generated">>}
          /\ staging' = [staging EXCEPT ![working.by].head = "torn"]
          /\ UNCHANGED target
       \/ /\ TornWrites /\ working.doing # "discard" /\ Mine(working.by)
          /\ target' = IF target.receipt THEN [target EXCEPT !.head = "torn"]
                       ELSE [target EXCEPT !.jammed = TRUE]
          /\ UNCHANGED staging
\* Somebody else puts a directory at the target, or edits or uses a directory.
ForeignTarget ==
    /\ mishaps < MaxFaults /\ mishaps' = mishaps + 1
    /\ target = Nothing
    /\ target' = [owner |-> Foreign, files |-> "changed", head |-> "absent",
                  digest |-> "changed", receipt |-> FALSE, jammed |-> FALSE]
    /\ UNCHANGED <<staging, working>>
ChangeFiles ==
    /\ mishaps < MaxFaults /\ mishaps' = mishaps + 1
    /\ \/ /\ target # Nothing /\ target' = [target EXCEPT !.files = "changed"]
          /\ UNCHANGED staging
       \/ \E p \in Proposal :
            /\ staging[p] # Nothing /\ working = Nothing
            /\ staging' = [staging EXCEPT ![p].files = "changed"]
            /\ UNCHANGED target
    /\ UNCHANGED working

MaterializationStep(p) ==
    \/ JournalIntent(p) \/ Generate(p) \/ JournalGeneration(p) \/ Publish(p)
    \/ WriteReceipt(p) \/ CloseJournal(p) \/ Refuse(p) \/ EndDiscard(p)
MaterializationNext ==
    \/ \E p \in Proposal :
        BeginCommit(p) \/ MaterializationStep(p) \/ Resume(p) \/ BeginDiscard(p)
    \/ WorkEnds \/ ForeignTarget \/ ChangeFiles
MaterializationFairness ==
    \A p \in Proposal :
        WF_materializationVars(MaterializationStep(p)) /\ SF_materializationVars(Resume(p))
MaterializationSpec ==
    MaterializationInit /\ [][MaterializationNext]_materializationVars /\ MaterializationFairness

-----------------------------------------------------------------------------
\* Nobody's directory is taken: the owner of a target never changes, files
\* that somebody changed in it are never put back, and a stage in which
\* somebody changed files stays where it is, unless it was being discarded
\* already.
NothingForeignIsTouched == [][
    /\ target # Nothing =>
        /\ target' # Nothing /\ target'.owner = target.owner
        /\ target.files = "changed" => target'.files = "changed"
    /\ \A p \in Proposal :
        staging[p] # Nothing /\ staging[p].files = "changed" =>
            staging'[p] # Nothing \/ Doing(p, "discard")]_materializationVars

\* A published workspace gets its receipt and a closed journal when its
\* commit is repeated, unless somebody changed its files, an append to its
\* journal was torn, or a temporary file is in the receipt's way.
PublishedIsCompleted ==
    \A p \in Proposal : Mine(p) ~>
        (Mine(p) /\ (target.head \in {"complete", "torn"} \/ target.jammed
                      \/ target.files = "changed"))
=============================================================================
