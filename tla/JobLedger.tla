------------------------------ MODULE JobLedger ------------------------------
(***************************************************************************)
(* What the callers of Pipeline Jobs rely on                                *)
(* (docs/p3a-pipeline-job-kernel-closure-manifest.md, Fixed Invariants):    *)
(* each job has one durable history of revisions, which only ever grows at  *)
(* its end; nothing follows a terminal revision, committed outputs do not   *)
(* disappear, retries are not taken back, and a key belongs to one job.     *)
(***************************************************************************)
EXTENDS Naturals, Sequences

CONSTANTS
    Job,        \* possible jobs
    Final       \* terminal statuses

VARIABLE ledger \* each job's durable revisions, oldest first

LInit == ledger = [j \in Job |-> <<>>]

Grows(old, new) ==
    /\ Len(old) < Len(new)
    /\ SubSeq(new, 1, Len(old)) = old

Orderly(h) ==
    \A n \in 1 .. Len(h) - 1 :
        /\ h[n].status \notin Final
        /\ h[n].outputs \subseteq h[n + 1].outputs
        /\ h[n].retry <= h[n + 1].retry
        /\ h[n].key = h[n + 1].key

KeysAreUnique ==
    \A i, j \in {k \in Job : ledger[k] # <<>>} :
        ledger[i][1].key = ledger[j][1].key => i = j

Extend(j) ==
    /\ Grows(ledger[j], ledger'[j])
    /\ Orderly(ledger'[j])
    /\ KeysAreUnique'
    /\ ledger' = [ledger EXCEPT ![j] = ledger'[j]]

LSpec == LInit /\ [][\E j \in Job : Extend(j)]_ledger
=============================================================================
