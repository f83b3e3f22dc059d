----------------------------- MODULE CommitLog -----------------------------
(* A store whose commits are single steps: the log of what was committed,    *)
(* each entry with what became of its process event (storage/transactions.py; *)
(* TransactionKernel has the steps inside a commit).                         *)
EXTENDS WorkspaceBase, Sequences

(* A commit's process event is written, left to recovery, or given up.  A    *)
(* commit that does not reach its event has ended its call: an error or a    *)
(* death leaves the journal open, a failed check after the replacement parks *)
(* it.  What the store holds is replaced all the same.                       *)
Outcome == {"recorded", "open", "parked"}
Outcomes(faults) == {"recorded"} \cup (IF faults < MaxFaults THEN {"open", "parked"} ELSE {})
Cost(event) == IF event = "recorded" THEN 0 ELSE 1

Recorded(log) == {n \in 1..Len(log) : log[n].event = "recorded"}
\* Recovery records what the store still holds and parks what was overwritten.
Resolved(log) ==
    [n \in 1..Len(log) |-> IF log[n].event # "open" THEN log[n]
        ELSE [log[n] EXCEPT !.event = IF n = Len(log) THEN "recorded" ELSE "parked"]]
=============================================================================
