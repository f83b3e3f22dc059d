-------------------------- MODULE TransactionKernel --------------------------
(***************************************************************************)
(* The transaction kernel of storage/transactions.py: the one path by which *)
(* LitGrove changes a canonical store.                                      *)
(*                                                                          *)
(* TransactionManager.promote_bytes journals the intent, replaces the       *)
(* store, appends a process event and closes the journal; every one of      *)
(* those is a separate file, so the process can stop between any two of     *)
(* them.  TransactionManager.recover later compares each open journal with  *)
(* the store and finishes or parks it.  All of it runs under the workspace  *)
(* lock, so at most one promotion or recovery is under way: pc, mode, cur,  *)
(* mem, outcome and todo are the locals of the process that holds the lock. *)
(*                                                                          *)
(* Contents are abstracted to their digest and every transaction writes new *)
(* bytes (records carry fresh ids and timestamps), so the digest a          *)
(* transaction installs is named by its event id; bytes that some program   *)
(* outside the kernel writes are members of Edit, each used once.           *)
(***************************************************************************)
EXTENDS Integers, Sequences, FiniteSets

CONSTANTS
    EventId,    \* process event ids: recovery visits journals in id order
    Target,     \* canonical stores
    Guarded,    \* stores whose service passes a post_replace_validator
    Edit,       \* contents that arrive from outside the kernel
    Absent,     \* the digest (None) of a store that does not exist
    MaxFaults,  \* bound on crashes and I/O errors in one behaviour
    TornWrites  \* may a fault strike while a temporary file is open?

ASSUME EventIdAssumption == EventId \subseteq Nat
ASSUME DigestAssumption ==
    /\ EventId \cap Edit = {}
    /\ Absent \notin EventId \cup Edit
ASSUME GuardedAssumption == Guarded \subseteq Target
ASSUME FaultAssumption == MaxFaults \in Nat /\ TornWrites \in BOOLEAN

VARIABLES
    target,     \* the digest of each canonical store
    journal,    \* the journal files, by event id
    events,     \* process_events.jsonl, in file order
    tmps,       \* temporary files left behind by an interrupted write
    pc,         \* where the holder of the workspace lock is
    mode,       \* which of the kernel's entry points it runs
    cur,        \* the event id it is working on
    mem,        \* its in-memory copy of the journal
    outcome,    \* the result of the event it is about to append
    todo,       \* the journals recover has still to visit
    faults,     \* faults so far
    installed,  \* history: transactions that replaced their target
    drifted,    \* history: transactions whose post-replacement check failed
    edited      \* history: outside contents already used

disk == <<target, journal, events, tmps>>
locals == <<pc, mode, cur, mem, outcome, todo>>
history == <<installed, drifted, edited>>
vars == <<disk, locals, faults, history>>

Digest == EventId \cup Edit \cup {Absent}

Phase == {"prepared", "target_replaced", "event_recorded", "complete", "needs_resolution"}
Open == {"prepared", "target_replaced", "event_recorded"}
Result == {"none", "success", "failure", "needs_resolution"}

NoJournal == [phase |-> "none"]
Journal == [target : Target, before : Digest, phase : Phase, result : Result]

Event == [id : EventId, result : {"success", "failure"}]
Temporary == {"journal", "events"} \X EventId

(* The phases at which the lock holder rewrites the journal file.           *)
JournalWrites == {"prepare", "mark", "record", "finish", "park"}
Busy == {"prepare", "install", "mark", "check", "append", "record", "finish", "park", "scan"}

(* _set_state: a journal that moved to phase p with result r.               *)
SetState(j, p, r) == [j EXCEPT !.phase = p, !.result = r]

(* What read_process_events knows of an event id.                           *)
Log == {events[i] : i \in DOMAIN events}
RecordedAs(e, r) == [id |-> e, result |-> r] \in Log
Recorded(e) == \E r \in {"success", "failure"} : RecordedAs(e, r)

TypeOK ==
    /\ target \in [Target -> Digest]
    /\ journal \in [EventId -> Journal \cup {NoJournal}]
    /\ events \in Seq(Event)
    /\ tmps \subseteq Temporary
    /\ pc \in Busy \cup {"idle"}
    /\ mode \in {"promote", "failing", "note", "recover"}
    /\ cur \in EventId
    /\ mem \in Journal \cup {NoJournal}
    /\ outcome \in {"success", "failure"}
    /\ todo \subseteq EventId
    /\ faults \in 0 .. MaxFaults
    /\ installed \subseteq EventId
    /\ drifted \subseteq EventId
    /\ edited \subseteq Edit

Init ==
    /\ target = [t \in Target |-> Absent]
    /\ journal = [e \in EventId |-> NoJournal]
    /\ events = <<>>
    /\ tmps = {}
    /\ pc = "idle"
    /\ mode = "promote"
    /\ cur \in EventId
    /\ mem = NoJournal
    /\ outcome = "success"
    /\ todo = {}
    /\ faults = 0
    /\ installed = {}
    /\ drifted = {}
    /\ edited = {}

(***************************************************************************)
(* promote_bytes                                                            *)
(***************************************************************************)

(* Mutation: an id whose journal exists but has no event yet is reused.     *)
EventIdUnrecorded(e) == ~Recorded(e)

(* _ensure_event_id_available: neither an event nor a journal has the id.   *)
EventIdAvailable(e) == ~Recorded(e) /\ journal[e] = NoJournal

(* Mutation: the store is replaced before the prepared journal is written.  *)
BeginUnjournaled(e, t) ==
    /\ pc = "idle"
    /\ EventIdAvailable(e)
    /\ pc' = "install"
    /\ mode' = "promote"
    /\ cur' = e
    /\ mem' = [target |-> t, before |-> target[t], phase |-> "prepared", result |-> "none"]
    /\ outcome' = "success"
    /\ UNCHANGED <<disk, todo, faults, history>>

(* Under the lock: capture the store's digest and build the journal.  A     *)
(* caller's expected digest that differs is refused here, before anything   *)
(* is written, so a refused promotion is no step of the kernel.             *)
BeginPromotion(e, t) ==
    /\ pc = "idle"
    /\ EventIdAvailable(e)
    /\ pc' = "prepare"
    /\ mode' = "promote"
    /\ cur' = e
    /\ mem' = [target |-> t, before |-> target[t], phase |-> "prepared", result |-> "none"]
    /\ outcome' = "success"
    /\ UNCHANGED <<disk, todo, faults, history>>

(* record_failure: an event without a journal.                              *)
BeginNote(e) ==
    /\ pc = "idle"
    /\ EventIdAvailable(e)
    /\ pc' = "append"
    /\ mode' = "note"
    /\ cur' = e
    /\ mem' = NoJournal
    /\ outcome' = "failure"
    /\ UNCHANGED <<disk, todo, faults, history>>

(* Where the holder goes once a journal write has returned.                 *)
AfterJournalWrite(at) ==
    CASE at = "prepare" -> "install"
      [] at = "mark" -> IF mem.target \in Guarded THEN "check" ELSE "append"
      [] at = "record" -> "finish"
      [] at \in {"finish", "park"} -> IF mode = "recover" THEN "scan" ELSE "idle"

(* _write_journal through atomic_write_bytes.  The temporary file's name is *)
(* fixed by the event id and opened with O_EXCL.                            *)
WriteJournal ==
    /\ pc \in JournalWrites
    /\ <<"journal", cur>> \notin tmps
    /\ journal' = [journal EXCEPT ![cur] = mem]
    /\ pc' = AfterJournalWrite(pc)
    /\ mem' = IF pc = "record" THEN [mem EXCEPT !.phase = "complete"] ELSE mem
    /\ UNCHANGED <<target, events, tmps, mode, cur, outcome, todo, faults, history>>

(* The temporary file passes the caller's validator and replaces the store. *)
Install ==
    /\ pc = "install"
    /\ target' = [target EXCEPT ![mem.target] = cur]
    /\ installed' = installed \cup {cur}
    /\ mem' = [mem EXCEPT !.phase = "target_replaced"]
    /\ pc' = "mark"
    /\ UNCHANGED <<journal, events, tmps, mode, cur, outcome, todo, faults, drifted, edited>>

(* post_replace_validator accepts ...                                       *)
CheckPasses ==
    /\ pc = "check"
    /\ pc' = "append"
    /\ UNCHANGED <<disk, mode, cur, mem, outcome, todo, faults, history>>

(* ... or reports that the source moved, and the journal is parked.         *)
CheckFails ==
    /\ pc = "check"
    /\ drifted' = drifted \cup {cur}
    /\ mem' = SetState(mem, "needs_resolution", "needs_resolution")
    /\ pc' = "park"
    /\ UNCHANGED <<disk, mode, cur, outcome, todo, faults, installed, edited>>

(* append_process_event rewrites the event file with one more line.         *)
AppendEvent ==
    /\ pc = "append"
    /\ <<"events", cur>> \notin tmps
    /\ events' = Append(events, [id |-> cur, result |-> outcome])
    /\ IF mode = "note"
         THEN pc' = "idle" /\ mem' = mem
         ELSE /\ pc' = "record"
              /\ mem' = SetState(mem, "event_recorded", outcome)
    /\ UNCHANGED <<target, journal, tmps, mode, cur, outcome, todo, faults, history>>

(***************************************************************************)
(* Failures.  An exception raised inside promote_bytes' try block reaches   *)
(* _handle_failure, which decides by the store's digest; one raised while a *)
(* failure, a note or a recovery is being written leaves the kernel.        *)
(***************************************************************************)
FailWithoutLooking ==  \* Mutation: the failure handler does not look at the store.
    /\ mode' = "failing"
    /\ outcome' = "failure"
    /\ pc' = "append"
    /\ mem' = mem

HandleFailure ==
    IF target[mem.target] = mem.before
      THEN /\ mode' = "failing"
           /\ outcome' = "failure"
           /\ pc' = "append"
           /\ mem' = mem
      ELSE IF target[mem.target] = cur
        THEN pc' = "idle" /\ UNCHANGED <<mode, outcome, mem>>
        ELSE /\ mem' = SetState(mem, "needs_resolution", "needs_resolution")
             /\ pc' = "park"
             /\ UNCHANGED <<mode, outcome>>

Raise ==
    /\ IF mode = "promote" /\ pc \notin {"prepare", "park"}
         THEN HandleFailure
         ELSE pc' = "idle" /\ UNCHANGED <<mode, outcome, mem>>
    /\ UNCHANGED <<cur, todo>>

(* The caller's validator refuses the temporary file.                       *)
Reject ==
    /\ pc = "install"
    /\ Raise
    /\ UNCHANGED <<disk, faults, history>>

(* The temporary file the step at pc writes through.                        *)
OwnTemporary ==
    IF pc \in JournalWrites THEN {<<"journal", cur>>}
    ELSE IF pc = "append" THEN {<<"events", cur>>}
    ELSE {}

(* open(O_CREAT | O_EXCL) meets the file an earlier interrupted write left. *)
TemporaryExists ==
    /\ OwnTemporary \cap tmps # {}
    /\ Raise
    /\ UNCHANGED <<disk, faults, history>>

(* The file write_fsynced_temp leaves when it fails part-way; the event     *)
(* store's writer removes its own in a finally clause.                      *)
LeftByError == {f \in OwnTemporary : TornWrites /\ pc # "append"}

(* An I/O error at a journal write, at the replacement or at the append.    *)
WriteError ==
    /\ pc \in JournalWrites \cup {"install", "append"}
    /\ OwnTemporary \cap tmps = {}
    /\ faults < MaxFaults
    /\ faults' = faults + 1
    /\ \E left \in SUBSET LeftByError : tmps' = tmps \cup left
    /\ Raise
    /\ UNCHANGED <<target, journal, events, history>>

(* The process stops anywhere: the lock is released and the locals go.      *)
Crash ==
    /\ pc \in Busy
    /\ faults < MaxFaults
    /\ faults' = faults + 1
    /\ \E left \in SUBSET {f \in OwnTemporary : TornWrites} : tmps' = tmps \cup left
    /\ pc' = "idle"
    /\ UNCHANGED <<target, journal, events, mode, cur, mem, outcome, todo, history>>

(***************************************************************************)
(* recover                                                                  *)
(***************************************************************************)
Pending(e) == journal[e].phase \in Open

BeginPartialRecovery ==  \* Mutation: recovery lists only replaced targets.
    /\ pc = "idle"
    /\ pc' = "scan"
    /\ mode' = "recover"
    /\ todo' = {e \in EventId : journal[e].phase = "target_replaced"}
    /\ UNCHANGED <<disk, cur, mem, outcome, faults, history>>

(* recover(dry_run=False): list the journals in name order.                 *)
BeginRecovery ==
    /\ pc = "idle"
    /\ pc' = "scan"
    /\ mode' = "recover"
    /\ todo' = {e \in EventId : journal[e] # NoJournal}
    /\ UNCHANGED <<disk, cur, mem, outcome, faults, history>>

Visit(e) ==
    /\ pc = "scan"
    /\ e \in todo
    /\ \A f \in todo : e <= f
    /\ todo' = todo \ {e}
    /\ cur' = e

(* The result the store's digest implies: after means success.              *)
Expected(e) == IF target[journal[e].target] = e THEN "success" ELSE "failure"

UncontradictedByStore(e) ==  \* Mutation: a store that holds neither digest is accepted.
    \/ journal[e].result \notin {"none", Expected(e)}
    \/ Recorded(e) /\ ~RecordedAs(e, Expected(e))

Contradicted(e) ==
    \/ target[journal[e].target] \notin {journal[e].before, e}
    \/ journal[e].result \notin {"none", Expected(e)}
    \/ Recorded(e) /\ ~RecordedAs(e, Expected(e))

InconsistentNow(e) ==  \* Mutation: closed journals are compared with the store of today.
    IF journal[e].phase = "complete"
      THEN ~RecordedAs(e, Expected(e))
      ELSE Pending(e) /\ Contradicted(e)

(* What recover must not guess about: a closed journal without its event,    *)
(* or an open one that the store or the events contradict.                  *)
Inconsistent(e) ==
    IF journal[e].phase = "complete"
      THEN ~RecordedAs(e, journal[e].result)
      ELSE Pending(e) /\ Contradicted(e)

(* A closed journal that agrees with its event, or a parked one, is left.   *)
ScanSkip(e) ==
    /\ Visit(e)
    /\ ~Pending(e) /\ ~Inconsistent(e)
    /\ UNCHANGED <<disk, pc, mode, mem, outcome, faults, history>>

(* _needs_resolution: the journal contradicts the store or the events.      *)
ScanPark(e) ==
    /\ Visit(e)
    /\ Inconsistent(e)
    /\ mem' = SetState(journal[e], "needs_resolution", "needs_resolution")
    /\ pc' = "park"
    /\ UNCHANGED <<disk, mode, outcome, faults, history>>

(* _complete_recovery: the event is there, only the journal is behind.      *)
ScanClose(e) ==
    /\ Visit(e)
    /\ Pending(e) /\ ~Contradicted(e) /\ Recorded(e)
    /\ mem' = SetState(journal[e], "complete", Expected(e))
    /\ pc' = "finish"
    /\ UNCHANGED <<disk, mode, outcome, faults, history>>

(* _recover_event: append the event the store's digest implies.             *)
ScanAppend(e) ==
    /\ Visit(e)
    /\ Pending(e) /\ ~Contradicted(e) /\ ~Recorded(e)
    /\ mem' = journal[e]
    /\ outcome' = Expected(e)
    /\ pc' = "append"
    /\ UNCHANGED <<disk, mode, faults, history>>

RecoveryDone ==
    /\ pc = "scan"
    /\ todo = {}
    /\ pc' = "idle"
    /\ UNCHANGED <<disk, mode, cur, mem, outcome, todo, faults, history>>

(* Someone edits a canonical file without taking the workspace lock.        *)
ExternalEdit(t, x) ==
    /\ x \notin edited
    /\ target' = [target EXCEPT ![t] = x]
    /\ edited' = edited \cup {x}
    /\ UNCHANGED <<journal, events, tmps, locals, faults, installed, drifted>>

(***************************************************************************)
(* The specification                                                        *)
(***************************************************************************)
Work ==
    \/ WriteJournal \/ Install \/ CheckPasses \/ CheckFails \/ AppendEvent
    \/ Reject \/ TemporaryExists \/ RecoveryDone
    \/ \E e \in EventId : ScanSkip(e) \/ ScanPark(e) \/ ScanClose(e) \/ ScanAppend(e)

Next ==
    \/ \E e \in EventId, t \in Target : BeginPromotion(e, t)
    \/ \E e \in EventId : BeginNote(e)
    \/ BeginRecovery
    \/ Work
    \/ WriteError \/ Crash
    \/ \E t \in Target, x \in Edit : ExternalEdit(t, x)

Spec == Init /\ [][Next]_vars

(* A holder of the lock runs on until it releases it, and an operator who   *)
(* keeps asking for recovery gets the lock again and again: the lock is     *)
(* polled, so a steady stream of promotions can delay but not exclude him.  *)
FairSpec == Spec /\ WF_vars(Work) /\ SF_vars(BeginRecovery)

-----------------------------------------------------------------------------
(***************************************************************************)
(* Safety                                                                   *)
(***************************************************************************)

(* A success event exists only for a transaction whose bytes replaced the   *)
(* store and a failure event only for one whose bytes never did, whoever    *)
(* appended it: the promotion, its failure handler or a later recovery.     *)
EventsAreTruthful ==
    \A v \in Log : v.result = "success" <=> v.id \in installed

(* A complete journal is bound to exactly one process event, and the event  *)
(* has the journal's result, however often recovery ran in between.         *)
CompleteMatchesEvent ==
    \A e \in EventId : journal[e].phase = "complete" =>
        /\ RecordedAs(e, journal[e].result)
        /\ \A i, j \in DOMAIN events : events[i].id = e /\ events[j].id = e => i = j

(* At every instant, whatever a transaction put in a store is either        *)
(* recorded as a success or still has a journal that recovery or a person   *)
(* must settle: no replacement goes unaccounted for.                        *)
NoSilentReplacement ==
    \A e \in installed :
        RecordedAs(e, "success") \/ journal[e].phase \in Open \cup {"needs_resolution"}

On(t) == {e \in EventId : journal[e] # NoJournal /\ journal[e].target = t}
Untouched(t) == edited = {} /\ \A e \in On(t) : journal[e].phase = "complete"
(* The places of a store's success events; the digest that the last of some *)
(* places in a log has left.                                                *)
Successes(t) == {i \in DOMAIN events : events[i].id \in On(t) /\ events[i].result = "success"}
LeftBy(log, places, digest) ==
    IF places = {} THEN digest = Absent
    ELSE \E last \in places : (\A i \in places : i <= last) /\ digest = log[last].id

(* The stores tell one story: while nobody edits a store from outside and   *)
(* all its journals are complete, the successful transactions on it, in     *)
(* event order, form an unbroken before/after chain that ends in the        *)
(* store's current digest.                                                  *)
SuccessesChain ==
    \A t \in Target : Untouched(t) =>
        /\ \A i \in Successes(t) :
             LeftBy(events, {k \in Successes(t) : k < i}, journal[events[i].id].before)
        /\ LeftBy(events, Successes(t), target[t])

(***************************************************************************)
(* Action properties                                                        *)
(***************************************************************************)

KeepsSettled ==
    \A e \in EventId : journal[e].phase \in {"complete", "needs_resolution"} =>
        journal'[e] = journal[e] /\ Recorded(e)' = Recorded(e)

(* A closed or parked journal is final: recovery never rewrites it and      *)
(* never gives a parked transaction the event it lacks.                     *)
SettledIsFinal == [][KeepsSettled]_vars

(***************************************************************************)
(* Liveness                                                                 *)
(***************************************************************************)

Settled(e) == journal[e].phase \in {"complete", "needs_resolution"}

(* Every journal that is open is eventually closed or parked when recovery  *)
(* is run again and again, as long as no interrupted write has left its     *)
(* temporary file behind.                                                   *)
RecoveryCompletesIfClean == \A e \in EventId : Pending(e) ~> Settled(e) \/ tmps # {}

(***************************************************************************)
(* Refinement: the kernel implements AtomicPromotion.  A transaction's      *)
(* verdict is its event if there is one, whoever appended it.               *)
(***************************************************************************)
KernelVerdict(e) ==
    IF RecordedAs(e, "success") THEN "success"
    ELSE IF RecordedAs(e, "failure") THEN "failure"
    ELSE IF journal[e].phase = "needs_resolution" THEN "parked"
    ELSE IF journal[e] # NoJournal THEN "open"
    ELSE "none"

Promise == INSTANCE AtomicPromotion WITH
    Transaction <- EventId, Store <- Target, Outside <- Edit, Nothing <- Absent,
    content <- target, verdict <- [e \in EventId |-> KernelVerdict(e)],
    placed <- installed, spent <- edited

(* Every behaviour of the kernel, with its crashes and recoveries, is a     *)
(* behaviour of the atomic promotion its clients rely on.                   *)
ImplementsAtomicPromotion == Promise!ASpec

(***************************************************************************)
(* What the repository says of the kernel and the code does not keep        *)
(***************************************************************************)

(* Recovery appends the exact journal-derived event and completes the       *)
(* journal whenever the store holds one of its digests                      *)
(* (docs/decisions/0006, Recovery), whatever the crash left on disk.        *)
RecoveryCompletes == \A e \in EventId : Pending(e) ~> Settled(e)

(* A service that saw its source change after the replacement emits no      *)
(* success event (docs/decisions/0006).                                     *)
DetectedDriftNeverSucceeds == \A e \in drifted : ~RecordedAs(e, "success")

(* transaction_integrity_diagnostics: the journals of a store in the order  *)
(* of their events; each must start from the digest its predecessor ended   *)
(* in, a failed one ending where it began, and the last must end in the     *)
(* store's digest.                                                          *)
EndDigest(v) ==
    IF journal[v.id].result = "success" THEN v.id ELSE journal[v.id].before
IntegrityClean(t) ==
    LET s == SelectSeq(events, LAMBDA v : v.id \in On(t))
    IN  /\ \A i \in 2 .. Len(s) : journal[s[i].id].before = EndDigest(s[i - 1])
        /\ s # <<>> => target[t] = EndDigest(s[Len(s)])

(* A workspace that nobody edited and whose journals are all complete       *)
(* passes the integrity diagnostics.                                        *)
RecoveredWorkspaceIsClean == \A t \in Target : Untouched(t) => IntegrityClean(t)
=============================================================================
