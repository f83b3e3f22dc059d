---------------------------- MODULE ValidatedStore ----------------------------
(***************************************************************************)
(* How a LitGrove service changes an append-only store: it reads the store  *)
(* without a lock, computes the new record, takes the store's digest as its *)
(* compare-and-swap token, and asks the transaction kernel to promote the   *)
(* file it computed.  The kernel works under the workspace lock and calls   *)
(* the service's validator, which checks the whole workspace, on the new    *)
(* file; the process can stop at each of its steps, and recovery settles    *)
(* what is left from the store's digest.                                    *)
(*                                                                          *)
(* The token is taken after the read (services/pipeline_job.py:400,         *)
(* services/registry_identity.py:149 and a dozen others), so it says        *)
(* nothing of what the read saw.  What stands between a stale reader and a  *)
(* lost update is that process events may only name records that exist.     *)
(*                                                                          *)
(* A store's content is the sequence of its records' ids; a record never    *)
(* changes, so its body is kept by the service's module.  Ids are never     *)
(* reused, so equal contents are equal digests.  TransactionKernel is the   *)
(* detailed model of a promotion; here it has three steps and its lock.     *)
(***************************************************************************)
EXTENDS Integers, Sequences, FiniteSets

CONSTANTS
    Client,     \* processes that run a service
    Store,      \* append-only stores
    Id,         \* record ids
    Nobody,     \* no client
    MaxFaults   \* bound on crashes and I/O errors in one behaviour

ASSUME NobodyAssumption == Nobody \notin Client
ASSUME IdAssumption == Id \subseteq Nat

VARIABLES
    store,      \* the content of each store
    recorded,   \* records that a success event in process_events.jsonl announces
    named,      \* every record id that some process event refers to
    open,       \* transaction journals that are neither complete nor parked
    parked,     \* journals in needs_resolution
    holder,     \* the client that holds the workspace lock
    pc,         \* where each client is
    work,       \* each client's locals
    taken,      \* ids allocated so far
    acked,      \* records whose promotion returned to its caller
    installed,  \* history: records that were ever in a store
    faults      \* faults so far

storevars ==
    <<store, recorded, named, open, parked, holder, pc, work, taken, acked, installed, faults>>

Content == Seq(Id)
Ids(s) == {s[i] : i \in DOMAIN s}
Stored == UNION {Ids(store[s]) : s \in Store}

(* What a client carries from its read to the end of the promotion.         *)
Work == [store : Store, read : Content, token : Content, new : Id, inputs : SUBSET Id]
NoWork == [new |-> 0]

(* The file the client wants to install, and the journal of its promotion.  *)
Proposal(c) == Append(work[c].read, work[c].new)
Journal == [store : Store, before : Content, after : Content, new : Id, inputs : SUBSET Id]
JournalOf(c) ==
    [store |-> work[c].store, before |-> work[c].token, after |-> Proposal(c),
     new |-> work[c].new, inputs |-> work[c].inputs]

Locked == {"prepared", "replaced", "recorded"}

StoreTypeOK ==
    /\ store \in [Store -> Content]
    /\ recorded \subseteq Id
    /\ named \subseteq Id
    /\ open \subseteq Journal
    /\ parked \subseteq Journal
    /\ holder \in Client \cup {Nobody}
    /\ pc \in [Client -> Locked \cup {"idle", "proposed", "promote"}]
    /\ work \in [Client -> Work \cup {NoWork}]
    /\ taken \subseteq Id
    /\ acked \subseteq Id
    /\ installed \subseteq Id
    /\ faults \in Nat

StoreInit ==
    /\ store = [s \in Store |-> <<>>]
    /\ recorded = {}
    /\ named = {}
    /\ open = {}
    /\ parked = {}
    /\ holder = Nobody
    /\ pc = [c \in Client |-> "idle"]
    /\ work = [c \in Client |-> NoWork]
    /\ taken = {}
    /\ acked = {}
    /\ installed = {}
    /\ faults = 0

-----------------------------------------------------------------------------
(* Ids are allocated without coordination and never twice; which fresh id   *)
(* comes next does not matter, so the next number stands for it.            *)
Fresh(i) == i \in Id \ taken /\ \A j \in Id \ taken : i <= j

(* The service reads store s and computes record i, which its event will    *)
(* announce with the given input references.                                *)
Propose(c, s, i, inputs) ==
    /\ pc[c] = "idle"
    /\ Fresh(i)
    /\ taken' = taken \cup {i}
    /\ pc' = [pc EXCEPT ![c] = "proposed"]
    /\ work' = [work EXCEPT ![c] =
         [store |-> s, read |-> store[s], token |-> <<>>, new |-> i, inputs |-> inputs]]
    /\ UNCHANGED <<store, recorded, named, open, parked, holder, acked, installed, faults>>

(* before_sha256 = file_sha256(target): a second, later read of the file.   *)
TakeToken(c) ==
    /\ pc[c] = "proposed"
    /\ pc' = [pc EXCEPT ![c] = "promote"]
    /\ work' = [work EXCEPT ![c].token = store[work[c].store]]
    /\ UNCHANGED <<store, recorded, named, open, parked, holder, taken, acked, installed, faults>>

(* The client's call ends: the lock is free again and its locals go.        *)
Leave(c) ==
    /\ pc' = [pc EXCEPT ![c] = "idle"]
    /\ work' = [work EXCEPT ![c] = NoWork]
    /\ holder' = IF holder = c THEN Nobody ELSE holder

(* promote_bytes under the lock: the store moved since the token was taken, *)
(* and nothing is written ...                                               *)
Conflict(c) ==
    /\ pc[c] = "promote"
    /\ holder = Nobody
    /\ store[work[c].store] # work[c].token
    /\ Leave(c)
    /\ UNCHANGED <<store, recorded, named, open, parked, taken, acked, installed, faults>>

(* ... or it did not, and the journal is written.                           *)
Prepare(c) ==
    /\ pc[c] = "promote"
    /\ holder = Nobody
    /\ store[work[c].store] = work[c].token
    /\ holder' = c
    /\ open' = open \cup {JournalOf(c)}
    /\ pc' = [pc EXCEPT ![c] = "prepared"]
    /\ UNCHANGED <<store, recorded, named, parked, work, taken, acked, installed, faults>>

NamesIgnored(s, content) == TRUE  \* Mutation: events are not checked.

(* validate_workspace_entries on the workspace with the new file: every id  *)
(* that an event names must be a record.                                    *)
NamesResolve(s, content) ==
    named \subseteq Ids(content) \cup UNION {Ids(store[t]) : t \in Store \ {s}}

(* The service's validator accepts (valid is its verdict on its own store)  *)
(* and the file replaces the store ...                                      *)
Replace(c, valid) ==
    /\ pc[c] = "prepared"
    /\ valid /\ NamesResolve(work[c].store, Proposal(c))
    /\ store' = [store EXCEPT ![work[c].store] = Proposal(c)]
    /\ installed' = installed \cup {work[c].new}
    /\ pc' = [pc EXCEPT ![c] = "replaced"]
    /\ UNCHANGED <<recorded, named, open, parked, holder, work, taken, acked, faults>>

RecordFailureWithOutput(c) ==  \* Mutation: the failure event announces the record.
    /\ named' = named \cup work[c].inputs \cup {work[c].new}
    /\ open' = open \ {JournalOf(c)}
    /\ Leave(c)
    /\ UNCHANGED <<store, recorded, parked, taken, acked, installed>>

(* The failure event names what the request read; the journal is complete.  *)
RecordFailure(c) ==
    /\ named' = named \cup work[c].inputs
    /\ open' = open \ {JournalOf(c)}
    /\ Leave(c)
    /\ UNCHANGED <<store, recorded, parked, taken, acked, installed>>

(* ... or it refuses.                                                       *)
Refuse(c, valid) ==
    /\ pc[c] = "prepared"
    /\ ~(valid /\ NamesResolve(work[c].store, Proposal(c)))
    /\ RecordFailure(c)
    /\ UNCHANGED faults

(* The success event.                                                       *)
Record(c) ==
    /\ pc[c] = "replaced"
    /\ recorded' = recorded \cup {work[c].new}
    /\ named' = named \cup work[c].inputs \cup {work[c].new}
    /\ pc' = [pc EXCEPT ![c] = "recorded"]
    /\ UNCHANGED <<store, open, parked, holder, work, taken, acked, installed, faults>>

(* The journal is complete and the promotion returns.                       *)
Close(c) ==
    /\ pc[c] = "recorded"
    /\ open' = open \ {JournalOf(c)}
    /\ acked' = acked \cup {work[c].new}
    /\ Leave(c)
    /\ UNCHANGED <<store, recorded, named, parked, taken, installed, faults>>

(* An I/O error before the replacement that the kernel records as a failure.*)
FailedWrite(c) ==
    /\ pc[c] = "prepared"
    /\ faults < MaxFaults
    /\ faults' = faults + 1
    /\ RecordFailure(c)

(* A crash, or an error after the replacement: the journal stays open.      *)
Stop(c) ==
    /\ pc[c] \in Locked
    /\ faults < MaxFaults
    /\ faults' = faults + 1
    /\ Leave(c)
    /\ UNCHANGED <<store, recorded, named, open, parked, taken, acked, installed>>

(* recover: a journal's store holds what it wrote, what it found, or        *)
(* neither.  A recovery that stops early settles only some of the journals. *)
Holds(j, content) == store[j.store] = content
NeverUndecidable(j) == FALSE  \* Mutation: an ambiguous journal is dropped.

Undecidable(j) == ~Holds(j, j.after) /\ ~Holds(j, j.before)

Recover(visited) ==
    LET succeeded == {j \in visited : Holds(j, j.after)}
        failed == {j \in visited : Holds(j, j.before)}
    IN  /\ holder = Nobody
        /\ visited \subseteq open /\ visited # {}
        /\ recorded' = recorded \cup {j.new : j \in succeeded}
        /\ named' = named \cup {j.new : j \in succeeded}
                          \cup UNION {j.inputs : j \in succeeded \cup failed}
        /\ open' = open \ visited
        /\ parked' = parked \cup {j \in visited : Undecidable(j)}
        /\ UNCHANGED <<store, holder, pc, work, taken, acked, installed, faults>>

(* What a client does once its request is computed.                         *)
Proceed(c, valid) ==
    \/ TakeToken(c) \/ Conflict(c) \/ Prepare(c)
    \/ Replace(c, valid) \/ Refuse(c, valid) \/ Record(c) \/ Close(c)

Disturb ==
    \/ \E c \in Client : FailedWrite(c) \/ Stop(c)
    \/ \E visited \in SUBSET open : Recover(visited)

(* Any service: whatever it proposes and whatever its validator says.       *)
StoreNext ==
    \/ \E c \in Client, s \in Store, i \in Id, inputs \in SUBSET Stored :
         Propose(c, s, i, inputs)
    \/ \E c \in Client, valid \in BOOLEAN : Proceed(c, valid)
    \/ Disturb

StoreSpec == StoreInit /\ [][StoreNext]_storevars

-----------------------------------------------------------------------------
(***************************************************************************)
(* Properties                                                               *)
(***************************************************************************)

(* No lost update: a record whose promotion returned success stays in its   *)
(* store, although every writer replaces the whole file with one computed   *)
(* from a read that may be older than its compare-and-swap token.           *)
AckedDurable == acked \subseteq Stored

Unsettled == {j.new : j \in open \cup parked}

(* A record that was ever in a store is still there, or its transaction is  *)
(* one that recovery or a person has still to settle: a crash can cost an   *)
(* update that was never acknowledged, but not without a trace.             *)
LossIsAccounted == installed \subseteq Stored \cup Unsettled

(* The process events refer only to records that are there, or to ones lost *)
(* in a transaction that a person has to settle.                            *)
NamesResolveOrUnsettled == named \subseteq Stored \cup Unsettled
=============================================================================
