----------------------- MODULE TransactionKernelProofs -----------------------
(***************************************************************************)
(* Proofs about TransactionKernel for every value of its constants: type    *)
(* correctness, the safety invariants, finality of settled journals, the    *)
(* refinement of AtomicPromotion, and the chain of a store's successes.     *)
(***************************************************************************)
EXTENDS TransactionKernel, TLAPS

-----------------------------------------------------------------------------
(* The event log as a set: what an append adds, and that nothing else       *)
(* changes it.                                                              *)
LEMMA LogAppend ==
  ASSUME NEW v \in Event, events \in Seq(Event), events' = Append(events, v)
  PROVE  /\ events' \in Seq(Event)
         /\ Log' = Log \cup {v}
<1>1. /\ Len(events') = Len(events) + 1
      /\ DOMAIN events' = 1 .. Len(events) + 1
      /\ \A i \in 1 .. Len(events) : events'[i] = events[i]
      /\ events'[Len(events) + 1] = v
      /\ DOMAIN events = 1 .. Len(events)
      /\ Len(events) \in Nat
  OBVIOUS
<1>2. Log' = {events'[i] : i \in 1 .. Len(events) + 1}
  BY DEF Log
<1>3. Log = {events[i] : i \in 1 .. Len(events)}
  BY DEF Log
<1> QED  BY <1>2, <1>3

(* An unchanged event file has the same events.                             *)
LEMMA LogSame == ASSUME UNCHANGED events PROVE Log' = Log
  BY DEF Log

(* What the event file holds are process events.                            *)
LEMMA LogType == ASSUME events \in Seq(Event) PROVE Log \subseteq Event
  BY DEF Log

-----------------------------------------------------------------------------
(***************************************************************************)
(* The inductive invariant                                                  *)
(***************************************************************************)

(* Digests that are or were in a store.  A new one is none of these.        *)
Used == installed \cup edited \cup {Absent}

(* Every event is unique and true, and a transaction without a journal has  *)
(* neither replaced anything nor succeeded.                                 *)
Truth ==
  /\ EventsAreTruthful
  /\ \A i, j \in DOMAIN events : events[i].id = events[j].id => i = j
  /\ \A e \in installed : journal[e] # NoJournal

(* A store never returns to the digest a transaction replaced, so the       *)
(* digest tells recovery whether the replacement took place.                *)
NoReturn ==
  /\ \A t \in Target : target[t] \in Used
  /\ \A e \in EventId : journal[e] # NoJournal =>
       /\ journal[e].before \in Used \ {e}
       /\ e \in installed => target[journal[e].target] # journal[e].before

(* A complete journal has the event of its result.                          *)
Closed ==
  \A e \in EventId : journal[e].phase = "complete" => RecordedAs(e, journal[e].result)

(* What the holder of the lock knows at each point.                         *)
AtWork == {"install", "mark", "check", "record", "finish", "park"}

KnowsEntry ==
  /\ mode = "note" => pc \in {"append", "idle"}
  /\ pc = "scan" => mode = "recover"
  /\ pc # "idle" /\ mode = "recover" => \A e \in todo : journal[e] # NoJournal

Preparing ==
  pc = "prepare" =>
    /\ mode = "promote"
    /\ outcome = "success"
    /\ EventIdAvailable(cur)
    /\ mem \in Journal
    /\ mem.phase = "prepared"
    /\ mem.before \in Used \ {cur}

(* The file is open and names the same store and digest as the copy.        *)
Journaling ==
  pc \in AtWork \/ (pc = "append" /\ mode # "note") =>
    /\ journal[cur] \in Journal
    /\ journal[cur].phase \in Open
    /\ mem \in Journal
    /\ mem.target = journal[cur].target
    /\ mem.before = journal[cur].before

Installing ==
  pc = "install" =>
    /\ mode = "promote"
    /\ cur \notin installed
    /\ ~Recorded(cur)
    /\ outcome = "success"

Replaced ==
  pc \in {"mark", "check"} =>
    /\ mode = "promote"
    /\ cur \in installed
    /\ ~Recorded(cur)
    /\ outcome = "success"
    /\ mem.phase = "target_replaced"

Deciding ==
  pc = "append" =>
    /\ ~Recorded(cur)
    /\ outcome = "success" <=> cur \in installed
    /\ mode = "promote" => outcome = "success"
    /\ mode = "note" => journal[cur] = NoJournal

Closing ==
  /\ pc = "record" => mem.phase = "event_recorded"
  /\ pc = "finish" => mem.phase = "complete"
  /\ pc \in {"record", "finish"} => RecordedAs(cur, mem.result)
  /\ pc \in {"record", "finish"} /\ mode = "promote" => cur \in installed

Parking == pc = "park" => mem.phase = "needs_resolution"
NotYet == pc = "install" => mem.phase = "prepared"

Holder ==
  /\ KnowsEntry /\ Preparing /\ Journaling /\ Installing /\ NotYet
  /\ Replaced /\ Deciding /\ Closing /\ Parking

IInv == TypeOK /\ Truth /\ NoReturn /\ Closed /\ Holder

(* Moving a journal to another phase keeps its store and digests.           *)
LEMMA JournalAtPhase ==
  ASSUME NEW j \in Journal, NEW p \in Phase
  PROVE  /\ [j EXCEPT !.phase = p] \in Journal
         /\ [j EXCEPT !.phase = p].phase = p
         /\ [j EXCEPT !.phase = p].target = j.target
         /\ [j EXCEPT !.phase = p].before = j.before
         /\ [j EXCEPT !.phase = p].result = j.result
  BY DEF Journal

(* A journal moved by _set_state has the phase and result it was given.     *)
LEMMA SetStateType ==
  ASSUME NEW j \in Journal, NEW p \in Phase, NEW r \in Result
  PROVE  /\ SetState(j, p, r) \in Journal
         /\ SetState(j, p, r).phase = p
         /\ SetState(j, p, r).target = j.target
         /\ SetState(j, p, r).before = j.before
         /\ SetState(j, p, r).result = r
  BY DEF Journal, SetState

(* The inductive invariant holds initially.                                 *)
THEOREM InitIInv == Init => IInv
<1> SUFFICES ASSUME Init PROVE IInv
  OBVIOUS
<1> USE DEF Init
<1>1. Log = {}
  BY DEF Log
<1>2. TypeOK
  BY FaultAssumption DEF TypeOK, Digest
<1>3. Truth
  BY <1>1 DEF Truth, EventsAreTruthful
<1>4. NoReturn /\ Closed
  BY DEF NoReturn, Closed, Used, NoJournal
<1>5. Holder
  BY DEF Holder, KnowsEntry, Preparing, Journaling, Installing, NotYet, Replaced,
    Deciding, Closing, Parking, AtWork
<1> QED  BY <1>2, <1>3, <1>4, <1>5 DEF IInv

(* BeginPromotion keeps the inductive invariant.                            *)
LEMMA BeginPromotionStep == ASSUME NEW e \in EventId, NEW t \in Target, IInv, BeginPromotion(e, t) PROVE IInv'
<1> USE DEF BeginPromotion, EventIdAvailable, vars, disk, locals, history
<1>0. Log' = Log
  BY LogSame
<1>1. TypeOK'
  BY DEF IInv, TypeOK, Journal, Phase, Result, Busy
<1>2. Truth'
  BY <1>0 DEF IInv, Truth, EventsAreTruthful
<1>3. NoReturn'
  BY DEF IInv, NoReturn, Used
<1>4. Closed'
  BY <1>0 DEF IInv, Closed, RecordedAs
<1>5. Holder'
  <2>1. KnowsEntry'
    BY DEF KnowsEntry
  <2>2. Preparing'
    <3>1. target[t] \in Used \ {e}
      BY DigestAssumption DEF IInv, TypeOK, Truth, NoReturn, Used
    <3>2. target[t] \in Digest
      BY DEF IInv, TypeOK
    <3>3. mem' \in Journal /\ mem'.phase = "prepared" /\ mem'.before = target[t]
      BY <3>2 DEF Journal, Phase, Result
    <3>4. EventIdAvailable(cur)'
      BY <1>0 DEF Recorded, RecordedAs
    <3> QED  BY <3>1, <3>3, <3>4 DEF Preparing, Used
  <2>3. Journaling'
    BY DEF Journaling, AtWork
  <2>4. Installing'
    BY DEF Installing
  <2>5. NotYet'
    BY DEF NotYet
  <2>6. Replaced'
    BY DEF Replaced
  <2>7. Deciding'
    BY DEF Deciding
  <2>8. Closing'
    BY DEF Closing
  <2>9. Parking'
    BY DEF Parking
  <2> QED  BY <2>1, <2>2, <2>3, <2>4, <2>5, <2>6, <2>7, <2>8, <2>9 DEF Holder
<1> QED  BY <1>1, <1>2, <1>3, <1>4, <1>5 DEF IInv

(* BeginNote keeps the inductive invariant.                                 *)
LEMMA BeginNoteStep == ASSUME NEW e \in EventId, IInv, BeginNote(e) PROVE IInv'
<1> USE DEF BeginNote, EventIdAvailable, vars, disk, locals, history
<1>0. Log' = Log
  BY LogSame
<1>1. TypeOK'
  BY DEF IInv, TypeOK, Busy
<1>2. Truth'
  BY <1>0 DEF IInv, Truth, EventsAreTruthful
<1>3. NoReturn'
  BY DEF IInv, NoReturn, Used
<1>4. Closed'
  BY <1>0 DEF IInv, Closed, RecordedAs
<1>5. Holder'
  BY <1>0 DEF IInv, Holder, KnowsEntry, Preparing, Journaling, Installing, NotYet,
    Replaced, Deciding, Closing, Parking, Truth, RecordedAs, Recorded, AtWork
<1> QED  BY <1>1, <1>2, <1>3, <1>4, <1>5 DEF IInv

(* BeginRecovery keeps the inductive invariant.                             *)
LEMMA BeginRecoveryStep == ASSUME IInv, BeginRecovery PROVE IInv'
<1> USE DEF BeginRecovery, vars, disk, locals, history
<1>0. Log' = Log
  BY LogSame
<1>1. TypeOK'
  BY DEF IInv, TypeOK, Busy
<1>2. Truth'
  BY <1>0 DEF IInv, Truth, EventsAreTruthful
<1>3. NoReturn'
  BY DEF IInv, NoReturn, Used
<1>4. Closed'
  BY <1>0 DEF IInv, Closed, RecordedAs
<1>5. Holder'
  BY DEF Holder, KnowsEntry, Preparing, Journaling, Installing, NotYet, Replaced,
    Deciding, Closing, Parking, AtWork
<1> QED  BY <1>1, <1>2, <1>3, <1>4, <1>5 DEF IInv

(* WriteJournal keeps the inductive invariant.                              *)
LEMMA WriteJournalStep == ASSUME IInv, WriteJournal PROVE IInv'
<1> USE DEF WriteJournal, AfterJournalWrite, JournalWrites, vars, disk, locals, history
<1>0. Log' = Log
  BY LogSame
<1>1. TypeOK'
  BY DEF IInv, TypeOK, Holder, Journaling, Journal, Phase, Busy, AtWork
<1>2. Truth'
  BY <1>0 DEF IInv, Truth, Holder, Preparing, Replaced, Closing, Parking,
    EventsAreTruthful, NoJournal
<1>3. NoReturn'
  BY DEF IInv, NoReturn, Truth, Holder, Preparing, Journaling, Used, AtWork,
    NoJournal, Journal, EventIdAvailable
<1>4. Closed'
  BY <1>0 DEF IInv, Closed, Holder, Preparing, Replaced, Closing, Parking,
    RecordedAs
<1>5. Holder'
  <2>1. KnowsEntry'
    BY DEF IInv, Holder, KnowsEntry, Preparing, Replaced, Closing, Parking,
      NoJournal
  <2>2. Preparing'
    BY DEF Preparing
  <2>3. Journaling'
    <3>1. CASE pc \in {"prepare", "mark", "record"}
      <4>1. /\ mem \in Journal /\ mem.phase \in Open
            /\ journal'[cur] = mem /\ cur' = cur
            /\ mode' = mode
        BY <3>1 DEF IInv, TypeOK, Holder, Preparing, Replaced, Closing, Journaling,
          AtWork, Open
      <4>2. /\ mem' \in Journal
            /\ mem'.target = mem.target /\ mem'.before = mem.before
        BY <4>1, JournalAtPhase DEF Phase
      <4> QED  BY <4>1, <4>2 DEF Journaling
    <3>2. CASE pc \in {"finish", "park"}
      BY <3>2 DEF Journaling, AtWork
    <3> QED  BY <3>1, <3>2
  <2>4. Installing'
    <3>1. CASE pc = "prepare"
      BY <1>0 DEF IInv, Truth, Holder, Preparing, Installing, EventIdAvailable,
        Recorded, RecordedAs
    <3>2. CASE pc # "prepare"
      BY <3>2 DEF Installing
    <3> QED  BY <3>1, <3>2
  <2>5. NotYet'
    BY DEF IInv, Holder, Preparing, NotYet
  <2>6. Replaced'
    BY <1>0 DEF IInv, Holder, Replaced, RecordedAs, Recorded
  <2>7. Deciding'
    BY <1>0 DEF IInv, Holder, Replaced, Deciding, RecordedAs, Recorded
  <2>8. Closing'
    BY <1>0 DEF IInv, Holder, Closing, RecordedAs
  <2>9. Parking'
    BY DEF Parking
  <2> QED  BY <2>1, <2>2, <2>3, <2>4, <2>5, <2>6, <2>7, <2>8, <2>9 DEF Holder
<1> QED  BY <1>1, <1>2, <1>3, <1>4, <1>5 DEF IInv

(* Install keeps the inductive invariant.                                   *)
LEMMA InstallStep == ASSUME IInv, Install PROVE IInv'
<1> USE DEF Install, vars, disk, locals, history
<1>0. Log' = Log
  BY LogSame
<1>1. TypeOK'
  BY DEF IInv, TypeOK, Holder, Journaling, Journal, Phase, Digest, Busy, AtWork
<1>2. Truth'
  <2>1. ~Recorded(cur) /\ cur \in EventId /\ journal[cur] # NoJournal
    BY DEF IInv, TypeOK, Holder, Installing, Journaling, AtWork, Journal, NoJournal
  <2>2. \A v \in Log : v.id # cur
    <3>1. Log \subseteq Event
      BY LogType DEF IInv, TypeOK
    <3>2. \A v \in Log : v = [id |-> v.id, result |-> v.result] /\ v.result \in {"success", "failure"}
      BY <3>1 DEF Event
    <3> QED  BY <2>1, <3>2 DEF Recorded, RecordedAs
  <2>3. EventsAreTruthful'
    BY <1>0, <2>2 DEF IInv, Truth, EventsAreTruthful
  <2> QED  BY <2>1, <2>3 DEF IInv, Truth
<1>3. NoReturn'
  BY DigestAssumption DEF IInv, TypeOK, NoReturn, Holder, Journaling, Installing,
    Used, AtWork, Journal
<1>4. Closed'
  BY <1>0 DEF IInv, Closed, RecordedAs
<1>5. Holder'
  <2>1. KnowsEntry'
    BY DEF IInv, Holder, KnowsEntry
  <2>2. Preparing'
    BY DEF Preparing
  <2>3. Journaling'
    <3>1. mem \in Journal /\ "target_replaced" \in Phase
      BY DEF IInv, Holder, Journaling, AtWork, Phase
    <3>2. /\ mem' \in Journal
          /\ mem'.target = mem.target /\ mem'.before = mem.before
      BY <3>1, JournalAtPhase
    <3> QED  BY <3>2 DEF IInv, Holder, Journaling, AtWork
  <2>4. Installing'
    BY DEF Installing
  <2>5. NotYet'
    BY DEF NotYet
  <2>6. Replaced'
    BY <1>0 DEF IInv, Holder, Installing, Replaced, RecordedAs, Recorded
  <2>7. Deciding'
    BY DEF Deciding
  <2>8. Closing'
    BY DEF Closing
  <2>9. Parking'
    BY DEF Parking
  <2> QED  BY <2>1, <2>2, <2>3, <2>4, <2>5, <2>6, <2>7, <2>8, <2>9 DEF Holder
<1> QED  BY <1>1, <1>2, <1>3, <1>4, <1>5 DEF IInv

(* CheckPasses keeps the inductive invariant.                               *)
LEMMA CheckPassesStep == ASSUME IInv, CheckPasses PROVE IInv'
<1> USE DEF CheckPasses, vars, disk, locals, history
<1>0. Log' = Log
  BY LogSame
<1>1. TypeOK'
  BY DEF IInv, TypeOK, Busy
<1>2. Truth'
  BY <1>0 DEF IInv, Truth, EventsAreTruthful
<1>3. NoReturn'
  BY DEF IInv, NoReturn, Used
<1>4. Closed'
  BY <1>0 DEF IInv, Closed, RecordedAs
<1>5. Holder'
  BY <1>0 DEF IInv, Holder, KnowsEntry, Preparing, Journaling, Installing, NotYet,
    Replaced, Deciding, Closing, Parking, RecordedAs, Recorded, AtWork
<1> QED  BY <1>1, <1>2, <1>3, <1>4, <1>5 DEF IInv

(* CheckFails keeps the inductive invariant.                                *)
LEMMA CheckFailsStep == ASSUME IInv, CheckFails PROVE IInv'
<1> USE DEF CheckFails, vars, disk, locals, history
<1>0. Log' = Log
  BY LogSame
<1>m. /\ mem' \in Journal /\ mem'.phase = "needs_resolution"
      /\ mem'.target = mem.target /\ mem'.before = mem.before
  <2>1. mem \in Journal /\ "needs_resolution" \in Phase \cap Result
    BY DEF IInv, Holder, Journaling, AtWork, Phase, Result
  <2> QED  BY <2>1, SetStateType
<1>1. TypeOK'
  BY <1>m DEF IInv, TypeOK, Busy
<1>2. Truth'
  BY <1>0 DEF IInv, Truth, EventsAreTruthful
<1>3. NoReturn'
  BY DEF IInv, NoReturn, Used
<1>4. Closed'
  BY <1>0 DEF IInv, Closed, RecordedAs
<1>5. Holder'
  <2>1. KnowsEntry'
    BY DEF IInv, Holder, KnowsEntry
  <2>2. Preparing'
    BY DEF Preparing
  <2>3. Journaling'
    BY <1>m DEF IInv, Holder, Journaling, AtWork
  <2>4. Installing'
    BY DEF Installing
  <2>5. NotYet'
    BY DEF NotYet
  <2>6. Replaced'
    BY DEF Replaced
  <2>7. Deciding'
    BY DEF Deciding
  <2>8. Closing'
    BY DEF Closing
  <2>9. Parking'
    BY <1>m DEF Parking
  <2> QED  BY <2>1, <2>2, <2>3, <2>4, <2>5, <2>6, <2>7, <2>8, <2>9 DEF Holder
<1> QED  BY <1>1, <1>2, <1>3, <1>4, <1>5 DEF IInv

(* AppendEvent keeps the inductive invariant.                               *)
LEMMA AppendEventStep == ASSUME IInv, AppendEvent PROVE IInv'
<1> USE DEF AppendEvent, Event, vars, disk, locals, history
<1>0. /\ events' \in Seq(Event)
      /\ Log' = Log \cup {[id |-> cur, result |-> outcome]}
  BY LogAppend DEF IInv, TypeOK
<1>m. mode # "note" =>
        /\ mem' \in Journal /\ mem'.phase = "event_recorded" /\ mem'.result = outcome
        /\ mem'.target = mem.target /\ mem'.before = mem.before
  <2> SUFFICES ASSUME mode # "note" PROVE (mem' \in Journal /\ mem'.phase = "event_recorded" /\ mem'.result = outcome
        /\ mem'.target = mem.target /\ mem'.before = mem.before)
    OBVIOUS
  <2>1. mem \in Journal /\ "event_recorded" \in Phase /\ outcome \in Result
    BY DEF IInv, TypeOK, Holder, Journaling, Phase, Result
  <2> QED  BY <2>1, SetStateType
<1>1. TypeOK'
  BY <1>m DEF IInv, TypeOK, Busy
<1>2. Truth'
  <2> DEFINE n == Len(events) + 1
  <2>1. ~Recorded(cur) /\ cur \in EventId /\ outcome \in {"success", "failure"}
    BY DEF IInv, TypeOK, Holder, Deciding
  <2>2. EventsAreTruthful'
    BY <1>0 DEF IInv, Truth, EventsAreTruthful, Holder, Deciding
  <2>3. \A i \in DOMAIN events : events[i].id # cur
    <3>1. \A v \in Log : v = [id |-> v.id, result |-> v.result] /\ v.result \in {"success", "failure"}
      BY LogType DEF IInv, TypeOK
    <3>2. \A v \in Log : v.id # cur
      BY <2>1, <3>1 DEF Recorded, RecordedAs
    <3> QED  BY <3>2 DEF Log
  <2>4. /\ DOMAIN events' = DOMAIN events \cup {n} /\ n \notin DOMAIN events
        /\ \A i \in DOMAIN events : events'[i] = events[i]
        /\ events'[n].id = cur
    BY DEF TypeOK
  <2>5. \A i, j \in DOMAIN events' : events'[i].id = events'[j].id => i = j
    BY <2>3 DEF IInv, Truth
  <2> QED  BY <2>2, <2>5 DEF IInv, Truth
<1>3. NoReturn'
  BY DEF IInv, NoReturn, Used
<1>4. Closed'
  BY <1>0 DEF IInv, Closed, RecordedAs
<1>5. Holder'
  <2>1. KnowsEntry'
    BY DEF IInv, Holder, KnowsEntry
  <2>2. Preparing'
    BY DEF Preparing
  <2>3. Journaling'
    BY <1>m DEF IInv, Holder, Journaling, AtWork
  <2>4. Installing'
    BY DEF Installing
  <2>5. NotYet'
    BY DEF NotYet
  <2>6. Replaced'
    BY DEF Replaced
  <2>7. Deciding'
    BY DEF Deciding
  <2>8. Closing'
    BY <1>0, <1>m DEF IInv, Holder, Deciding, Closing, RecordedAs
  <2>9. Parking'
    BY DEF Parking
  <2> QED  BY <2>1, <2>2, <2>3, <2>4, <2>5, <2>6, <2>7, <2>8, <2>9 DEF Holder
<1> QED  BY <1>1, <1>2, <1>3, <1>4, <1>5 DEF IInv

(* RecoveryDone keeps the inductive invariant.                              *)
LEMMA RecoveryDoneStep == ASSUME IInv, RecoveryDone PROVE IInv'
<1> USE DEF RecoveryDone, vars, disk, locals, history
<1>0. Log' = Log
  BY LogSame
<1>1. TypeOK'
  BY DEF IInv, TypeOK
<1>2. Truth'
  BY <1>0 DEF IInv, Truth, EventsAreTruthful
<1>3. NoReturn'
  BY DEF IInv, NoReturn, Used
<1>4. Closed'
  BY <1>0 DEF IInv, Closed, RecordedAs
<1>5. Holder'
  BY DEF Holder, KnowsEntry, Preparing, Journaling, Installing, NotYet, Replaced,
    Deciding, Closing, Parking, AtWork
<1> QED  BY <1>1, <1>2, <1>3, <1>4, <1>5 DEF IInv

(* Crash keeps the inductive invariant.                                     *)
LEMMA CrashStep == ASSUME IInv, Crash PROVE IInv'
<1> USE DEF Crash, OwnTemporary, JournalWrites, Temporary, vars, disk, locals, history
<1>0. Log' = Log
  BY LogSame
<1>1. TypeOK'
  <2>1. faults' \in 0 .. MaxFaults
    BY FaultAssumption DEF IInv, TypeOK
  <2>2. tmps' \subseteq Temporary
    BY DEF IInv, TypeOK
  <2> QED  BY <2>1 DEF IInv, TypeOK
<1>2. Truth'
  BY <1>0 DEF IInv, Truth, EventsAreTruthful
<1>3. NoReturn'
  BY DEF IInv, NoReturn, Used
<1>4. Closed'
  BY <1>0 DEF IInv, Closed, RecordedAs
<1>5. Holder'
  BY DEF Holder, KnowsEntry, Preparing, Journaling, Installing, NotYet, Replaced,
    Deciding, Closing, Parking, AtWork
<1> QED  BY <1>1, <1>2, <1>3, <1>4, <1>5 DEF IInv

(* ExternalEdit keeps the inductive invariant.                              *)
LEMMA ExternalEditStep == ASSUME NEW t \in Target, NEW x \in Edit, IInv, ExternalEdit(t, x) PROVE IInv'
<1> USE DEF ExternalEdit, vars, disk, locals, history
<1>0. Log' = Log
  BY LogSame
<1>1. TypeOK'
  BY DEF IInv, TypeOK, Digest
<1>2. Truth'
  BY <1>0 DEF IInv, Truth, EventsAreTruthful
<1>3. NoReturn'
  BY DigestAssumption DEF IInv, TypeOK, NoReturn, Used
<1>4. Closed'
  BY <1>0 DEF IInv, Closed, RecordedAs
<1>5. Holder'
  BY <1>0 DEF IInv, Holder, KnowsEntry, Preparing, Journaling, Installing, NotYet,
    Replaced, Deciding, Closing, Parking, EventIdAvailable, RecordedAs, Recorded,
    Used
<1> QED  BY <1>1, <1>2, <1>3, <1>4, <1>5 DEF IInv

(* ScanSkip keeps the inductive invariant.                                  *)
LEMMA ScanSkipStep == ASSUME NEW e \in EventId, IInv, ScanSkip(e) PROVE IInv'
<1> USE DEF ScanSkip, Visit, vars, disk, locals, history
<1>0. Log' = Log
  BY LogSame
<1>1. TypeOK'
  BY DEF IInv, TypeOK
<1>2. Truth'
  BY <1>0 DEF IInv, Truth, EventsAreTruthful
<1>3. NoReturn'
  BY DEF IInv, NoReturn, Used
<1>4. Closed'
  BY <1>0 DEF IInv, Closed, RecordedAs
<1>5. Holder'
  BY DEF IInv, Holder, KnowsEntry, Preparing, Journaling, Installing, NotYet,
    Replaced, Deciding, Closing, Parking, AtWork
<1> QED  BY <1>1, <1>2, <1>3, <1>4, <1>5 DEF IInv

(* ScanPark keeps the inductive invariant.                                  *)
LEMMA ScanParkStep == ASSUME NEW e \in EventId, IInv, ScanPark(e) PROVE IInv'
<1> USE DEF ScanPark, Visit, Inconsistent, Pending, vars, disk, locals, history
<1>0. Log' = Log
  BY LogSame
<1>m. /\ journal[e] \in Journal /\ journal[e].phase \in Open
      /\ mem' \in Journal /\ mem'.phase = "needs_resolution"
      /\ mem'.target = journal[e].target /\ mem'.before = journal[e].before
  <2>1. journal[e] \in Journal
    BY DEF IInv, TypeOK, Holder, KnowsEntry
  <2>2. journal[e].phase \in Open
    BY DEF IInv, Closed
  <2>3. "needs_resolution" \in Phase \cap Result
    BY DEF Phase, Result
  <2> QED  BY <2>1, <2>2, <2>3, SetStateType
<1>1. TypeOK'
  BY <1>m DEF IInv, TypeOK, Busy
<1>2. Truth'
  BY <1>0 DEF IInv, Truth, EventsAreTruthful
<1>3. NoReturn'
  BY DEF IInv, NoReturn, Used
<1>4. Closed'
  BY <1>0 DEF IInv, Closed, RecordedAs
<1>5. Holder'
  <2>1. KnowsEntry'
    BY DEF IInv, Holder, KnowsEntry
  <2>2. Preparing'
    BY DEF Preparing
  <2>3. Journaling'
    BY <1>m DEF Journaling
  <2>4. Installing'
    BY DEF Installing
  <2>5. NotYet'
    BY DEF NotYet
  <2>6. Replaced'
    BY DEF Replaced
  <2>7. Deciding'
    BY DEF Deciding
  <2>8. Closing'
    BY DEF Closing
  <2>9. Parking'
    BY <1>m DEF Parking
  <2> QED  BY <2>1, <2>2, <2>3, <2>4, <2>5, <2>6, <2>7, <2>8, <2>9 DEF Holder
<1> QED  BY <1>1, <1>2, <1>3, <1>4, <1>5 DEF IInv

(* ScanClose keeps the inductive invariant.                                 *)
LEMMA ScanCloseStep == ASSUME NEW e \in EventId, IInv, ScanClose(e) PROVE IInv'
<1> USE DEF ScanClose, Visit, Pending, Contradicted, Expected, vars, disk, locals, history
<1>0. Log' = Log
  BY LogSame
<1>m. /\ journal[e] \in Journal /\ journal[e].phase \in Open
      /\ mem' \in Journal /\ mem'.phase = "complete" /\ mem'.result = Expected(e)
      /\ mem'.target = journal[e].target /\ mem'.before = journal[e].before
  <2>1. journal[e] \in Journal
    BY DEF IInv, TypeOK, Holder, KnowsEntry
  <2>2. "complete" \in Phase /\ Expected(e) \in Result
    BY DEF Phase, Result
  <2> QED  BY <2>1, <2>2, SetStateType
<1>1. TypeOK'
  BY <1>m DEF IInv, TypeOK, Busy
<1>2. Truth'
  BY <1>0 DEF IInv, Truth, EventsAreTruthful
<1>3. NoReturn'
  BY DEF IInv, NoReturn, Used
<1>4. Closed'
  BY <1>0 DEF IInv, Closed, RecordedAs
<1>5. Holder'
  <2>1. KnowsEntry'
    BY DEF IInv, Holder, KnowsEntry
  <2>2. Preparing'
    BY DEF Preparing
  <2>3. Journaling'
    BY <1>m DEF Journaling
  <2>4. Installing'
    BY DEF Installing
  <2>5. NotYet'
    BY DEF NotYet
  <2>6. Replaced'
    BY DEF Replaced
  <2>7. Deciding'
    BY DEF Deciding
  <2>8. Closing'
    BY <1>0, <1>m DEF IInv, Holder, KnowsEntry, Closing, RecordedAs
  <2>9. Parking'
    BY DEF Parking
  <2> QED  BY <2>1, <2>2, <2>3, <2>4, <2>5, <2>6, <2>7, <2>8, <2>9 DEF Holder
<1> QED  BY <1>1, <1>2, <1>3, <1>4, <1>5 DEF IInv

(* ScanAppend keeps the inductive invariant.                                *)
LEMMA ScanAppendStep == ASSUME NEW e \in EventId, IInv, ScanAppend(e) PROVE IInv'
<1> USE DEF ScanAppend, Visit, Pending, Contradicted, Expected, vars, disk, locals, history
<1>0. Log' = Log
  BY LogSame
<1>1. TypeOK'
  BY DEF IInv, TypeOK, Busy
<1>2. Truth'
  BY <1>0 DEF IInv, Truth, EventsAreTruthful
<1>3. NoReturn'
  BY DEF IInv, NoReturn, Used
<1>4. Closed'
  BY <1>0 DEF IInv, Closed, RecordedAs
<1>5. Holder'
  BY <1>0, DigestAssumption DEF IInv, TypeOK, Holder, KnowsEntry, Preparing,
    Journaling, Installing, NotYet, Replaced, Deciding, Closing, Parking, NoReturn,
    RecordedAs, Recorded, Journal, Used
<1> QED  BY <1>1, <1>2, <1>3, <1>4, <1>5 DEF IInv

(* The exception path, shared by a refused file, a leftover temporary and   *)
(* an I/O error.                                                            *)
LEMMA RaiseStep ==
  ASSUME IInv, Raise, pc \in JournalWrites \cup {"install", "append"},
         UNCHANGED <<target, journal, events, history>>,
         tmps' \subseteq Temporary, faults' \in 0 .. MaxFaults
  PROVE  IInv'
<1> USE DEF Raise, HandleFailure, JournalWrites, history
<1>0. Log' = Log
  BY LogSame
<1>1. CASE pc' = "idle"
  <2>1. TypeOK'
    BY <1>1 DEF IInv, TypeOK
  <2>2. Holder'
    BY <1>1 DEF Holder, KnowsEntry, Preparing, Journaling, Installing, NotYet,
      Replaced, Deciding, Closing, Parking, AtWork
  <2> QED  BY <1>0, <2>1, <2>2 DEF IInv, Truth, NoReturn, Closed, EventsAreTruthful,
        Used, RecordedAs
<1>2. CASE pc' # "idle"
  <2>1. mode = "promote" /\ pc \in {"install", "mark", "append", "record", "finish"}
    BY <1>2
  <2>2. /\ mem \in Journal /\ mem.target \in Target
        /\ journal[cur] \in Journal /\ journal[cur].phase \in Open
        /\ mem.target = journal[cur].target /\ mem.before = journal[cur].before
        /\ cur \in EventId /\ cur' = cur /\ todo' = todo
    BY <2>1 DEF IInv, TypeOK, Holder, Journaling, AtWork, Journal
  <2>3. CASE target[mem.target] = mem.before
    <3>1. cur \notin installed
      BY <2>2, <2>3 DEF IInv, NoReturn, NoJournal, Journal
    <3>2. ~Recorded(cur)
      BY <2>1, <3>1 DEF IInv, Holder, Installing, Replaced, Deciding, Closing
    <3>3. pc' = "append" /\ mode' = "failing" /\ outcome' = "failure" /\ mem' = mem
      BY <2>1, <2>3
    <3>4. TypeOK'
      BY <3>3 DEF IInv, TypeOK, Busy
    <3>5. Holder'
      BY <1>0, <2>2, <3>1, <3>2, <3>3 DEF Holder, KnowsEntry, Preparing, Journaling,
        Installing, NotYet, Replaced, Deciding, Closing, Parking, Recorded,
        RecordedAs
    <3> QED  BY <1>0, <3>4, <3>5 DEF IInv, Truth, NoReturn, Closed,
          EventsAreTruthful, Used, RecordedAs
  <2>4. CASE target[mem.target] # mem.before
    <3>1. /\ pc' = "park" /\ mode' = "promote" /\ outcome' = outcome
          /\ mem' = SetState(mem, "needs_resolution", "needs_resolution")
      BY <1>2, <2>4
    <3>2. /\ mem' \in Journal /\ mem'.phase = "needs_resolution"
          /\ mem'.target = mem.target /\ mem'.before = mem.before
      BY <2>2, <3>1, SetStateType DEF Phase, Result
    <3>3. TypeOK'
      BY <3>2 DEF IInv, TypeOK, Busy
    <3>4. Holder'
      BY <2>2, <3>1, <3>2 DEF Holder, KnowsEntry, Preparing, Journaling, Installing,
        NotYet, Replaced, Deciding, Closing, Parking
    <3> QED  BY <1>0, <3>3, <3>4 DEF IInv, Truth, NoReturn, Closed,
          EventsAreTruthful, Used, RecordedAs
  <2> QED  BY <2>3, <2>4
<1> QED  BY <1>1, <1>2

(* Every step, and every stutter, keeps the inductive invariant.            *)
LEMMA NextIInv == ASSUME IInv, [Next]_vars PROVE IInv'
<1>1. CASE UNCHANGED vars
  <2>1. Log' = Log
    BY <1>1, LogSame DEF vars, disk
  <2> QED  BY <1>1, <2>1 DEF vars, disk, locals, history, IInv, TypeOK, Truth,
        NoReturn, Closed, Holder, KnowsEntry, Preparing, Journaling, Installing,
        NotYet, Replaced, Deciding, Closing, Parking, EventsAreTruthful, Used,
        Recorded, RecordedAs, EventIdAvailable
<1>2. CASE Reject
  <2>1. tmps' \subseteq Temporary /\ faults' \in 0 .. MaxFaults
    BY <1>2 DEF Reject, disk, IInv, TypeOK
  <2> QED  BY <1>2, <2>1, RaiseStep DEF Reject, disk
<1>3. CASE TemporaryExists
  <2>1. tmps' \subseteq Temporary /\ faults' \in 0 .. MaxFaults
    BY <1>3 DEF TemporaryExists, disk, IInv, TypeOK
  <2>2. pc \in JournalWrites \cup {"install", "append"}
    BY <1>3 DEF TemporaryExists, OwnTemporary
  <2> QED  BY <1>3, <2>1, <2>2, RaiseStep DEF TemporaryExists, disk
<1>4. CASE WriteError
  <2>1. tmps' \subseteq Temporary
    BY <1>4 DEF WriteError, LeftByError, OwnTemporary, IInv, TypeOK, Temporary
  <2>2. faults' \in 0 .. MaxFaults
    BY <1>4, FaultAssumption DEF WriteError, IInv, TypeOK
  <2> QED  BY <1>4, <2>1, <2>2, RaiseStep DEF WriteError
<1> QED
  BY <1>1, <1>2, <1>3, <1>4, BeginPromotionStep, BeginNoteStep, BeginRecoveryStep,
    WriteJournalStep, InstallStep, CheckPassesStep, CheckFailsStep, AppendEventStep,
    RecoveryDoneStep, CrashStep, ExternalEditStep, ScanSkipStep, ScanParkStep,
    ScanCloseStep, ScanAppendStep DEF Next, Work

-----------------------------------------------------------------------------
(***************************************************************************)
(* The theorems                                                             *)
(***************************************************************************)

(* The inductive invariant holds in every reachable state of the kernel.    *)
THEOREM KernelInvariant == Spec => []IInv
<1>1. Init => IInv
  BY InitIInv
<1>2. IInv /\ [Next]_vars => IInv'
  BY NextIInv
<1> QED  BY <1>1, <1>2, PTL DEF Spec

(* Every variable of the kernel keeps its type, whatever crashes.           *)
THEOREM KernelTypeOK == Spec => []TypeOK
<1>1. IInv => TypeOK
  BY DEF IInv
<1> QED  BY <1>1, KernelInvariant, PTL

(* An event says success exactly when its transaction replaced the store.   *)
THEOREM KernelTruthful == Spec => []EventsAreTruthful
<1>1. IInv => EventsAreTruthful
  BY DEF IInv, Truth
<1> QED  BY <1>1, KernelInvariant, PTL

(* A complete journal has exactly one event, with its result.               *)
THEOREM KernelCompleteMatchesEvent == Spec => []CompleteMatchesEvent
<1>1. IInv => CompleteMatchesEvent
  BY DEF IInv, Truth, Closed, CompleteMatchesEvent
<1> QED  BY <1>1, KernelInvariant, PTL

(* Nothing replaces a store without an event or an open or parked journal.  *)
THEOREM KernelNoSilentReplacement == Spec => []NoSilentReplacement
<1>1. IInv => NoSilentReplacement
  <2> SUFFICES ASSUME IInv, NEW e \in installed
               PROVE RecordedAs(e, "success") \/ journal[e].phase \in Open \cup {"needs_resolution"}
    BY DEF NoSilentReplacement
  <2>1. e \in EventId /\ journal[e] \in Journal
    BY DEF IInv, TypeOK, Truth
  <2>2. CASE journal[e].phase = "complete"
    <3>1. RecordedAs(e, journal[e].result)
      BY <2>1, <2>2 DEF IInv, Closed
    <3>2. [id |-> e, result |-> journal[e].result] \in Event
      BY <3>1, LogType DEF IInv, TypeOK, RecordedAs
    <3>3. journal[e].result = "success"
      BY <3>1 DEF IInv, Truth, EventsAreTruthful, RecordedAs
    <3> QED  BY <3>1, <3>3
  <2>3. CASE journal[e].phase # "complete"
    BY <2>1, <2>3 DEF Journal, Phase, Open
  <2> QED  BY <2>2, <2>3
<1> QED  BY <1>1, KernelInvariant, PTL

-----------------------------------------------------------------------------
(* Which steps touch the journal files and which the event log.             *)
LEMMA JournalFrame ==
  ASSUME Next, ~WriteJournal
  PROVE  UNCHANGED journal
  BY DEF Next, Work, BeginPromotion, BeginNote, BeginRecovery, Install, CheckPasses,
    CheckFails, AppendEvent, Reject, TemporaryExists, RecoveryDone, WriteError,
    Crash, ScanSkip, ScanPark, ScanClose, ScanAppend, ExternalEdit, disk

(* Which steps leave the event log as it is.                               *)
LEMMA EventsFrame ==
  ASSUME Next, ~AppendEvent
  PROVE  UNCHANGED events
  BY DEF Next, Work, BeginPromotion, BeginNote, BeginRecovery, Install, CheckPasses,
    CheckFails, WriteJournal, Reject, TemporaryExists, RecoveryDone, WriteError,
    Crash, ScanSkip, ScanPark, ScanClose, ScanAppend, ExternalEdit, disk

(* Which steps touch a store, what was installed and what was edited.       *)
LEMMA StoreFrame ==
  ASSUME Next, ~Install, \A t \in Target, x \in Edit : ~ExternalEdit(t, x)
  PROVE  UNCHANGED <<target, installed, edited>>
  BY DEF Next, Work, BeginPromotion, BeginNote, BeginRecovery, CheckPasses,
    AppendEvent, CheckFails, WriteJournal, Reject, TemporaryExists, RecoveryDone,
    WriteError, Crash, ScanSkip, ScanPark, ScanClose, ScanAppend, disk, history

(* Closed and parked journals are never rewritten and gain no event.        *)
THEOREM KernelSettledIsFinal == Spec => SettledIsFinal
<1>1. ASSUME IInv, Next, NEW e \in EventId,
             journal[e].phase \in {"complete", "needs_resolution"}
      PROVE  journal'[e] = journal[e] /\ Recorded(e)' = Recorded(e)
  <2>1. journal'[e] = journal[e]
    <3>1. CASE WriteJournal
      <4>1. cur # e
        BY <1>1, <3>1 DEF WriteJournal, JournalWrites, IInv, Holder, Preparing,
          Journaling, AtWork, Open, EventIdAvailable, NoJournal
      <4> QED  BY <3>1, <4>1 DEF WriteJournal
    <3>2. CASE ~WriteJournal
      BY <1>1, <3>2, JournalFrame
    <3> QED  BY <3>1, <3>2
  <2>2. Recorded(e)' = Recorded(e)
    <3>1. CASE AppendEvent
      <4>1. cur # e
        BY <1>1, <3>1 DEF AppendEvent, IInv, Holder, Journaling, Deciding, Open,
          NoJournal
      <4>2. Log' = Log \cup {[id |-> cur, result |-> outcome]}
        BY <1>1, <3>1, LogAppend DEF AppendEvent, IInv, TypeOK, Event
      <4> QED  BY <4>1, <4>2 DEF Recorded, RecordedAs
    <3>2. CASE ~AppendEvent
      BY <1>1, <3>2, EventsFrame, LogSame DEF Recorded, RecordedAs
    <3> QED  BY <3>1, <3>2
  <2> QED  BY <2>1, <2>2
<1>2. IInv /\ [Next]_vars => [KeepsSettled]_vars
  BY <1>1 DEF KeepsSettled
<1> QED  BY <1>2, KernelInvariant, PTL DEF Spec, SettledIsFinal

-----------------------------------------------------------------------------
(***************************************************************************)
(* Refinement of AtomicPromotion                                            *)
(***************************************************************************)
Verdicts == [e \in EventId |-> KernelVerdict(e)]

(* As long as no journal is created or parked and no event is appended, no  *)
(* verdict changes.                                                         *)
LEMMA VerdictsSame ==
  ASSUME Log' = Log,
         \A e \in EventId : /\ (journal'[e] = NoJournal) <=> (journal[e] = NoJournal)
                            /\ (journal'[e].phase = "needs_resolution")
                                 <=> (journal[e].phase = "needs_resolution")
  PROVE  Verdicts' = Verdicts
  BY DEF Verdicts, KernelVerdict, RecordedAs

(* WriteJournal is a step of AtomicPromotion or leaves it alone.            *)
LEMMA WriteJournalRefines ==
  ASSUME IInv, WriteJournal
  PROVE  Promise!OpenIt(cur) \/ Promise!Park(cur) \/ UNCHANGED Promise!avars
<1> USE DEF WriteJournal, disk, history
<1>1. Log' = Log /\ cur \in EventId
  BY LogSame DEF IInv, TypeOK
<1>2. journal' = [journal EXCEPT ![cur] = mem] /\ journal \in [EventId -> Journal \cup {NoJournal}]
  BY DEF IInv, TypeOK
<1>3. CASE pc = "prepare"
  <2>1. /\ journal[cur] = NoJournal /\ ~Recorded(cur)
        /\ mem \in Journal /\ mem.phase = "prepared"
    BY <1>3 DEF IInv, Holder, Preparing, EventIdAvailable
  <2>2. KernelVerdict(cur) = "none"
    BY <2>1 DEF KernelVerdict, Recorded, NoJournal
  <2>3. Verdicts' = [Verdicts EXCEPT ![cur] = "open"]
    <3>1. KernelVerdict(cur)' = "open"
      BY <1>1, <1>2, <2>1 DEF KernelVerdict, Recorded, RecordedAs, NoJournal
    <3>2. \A e \in EventId \ {cur} : KernelVerdict(e)' = KernelVerdict(e)
      BY <1>1 DEF KernelVerdict, RecordedAs
    <3> QED  BY <3>1, <3>2 DEF Verdicts
  <2>4. Verdicts[cur] = "none"
    BY <1>1, <2>2 DEF Verdicts
  <2> QED  BY <2>3, <2>4 DEF Promise!OpenIt, Verdicts
<1>4. CASE pc # "prepare"
  <2>1. /\ journal[cur] \in Journal /\ journal[cur].phase \in Open
        /\ mem \in Journal
    BY <1>4 DEF IInv, Holder, Journaling, AtWork, JournalWrites
  <2>2. CASE pc = "park" /\ ~Recorded(cur)
    <3>1. mem.phase = "needs_resolution"
      BY <2>2 DEF IInv, Holder, Parking
    <3>2. KernelVerdict(cur) = "open"
      BY <2>1, <2>2 DEF KernelVerdict, Recorded, NoJournal, Open
    <3>3. KernelVerdict(cur)' = "parked"
      BY <1>1, <1>2, <2>2, <3>1 DEF KernelVerdict, Recorded, RecordedAs
    <3>4. \A e \in EventId \ {cur} : KernelVerdict(e)' = KernelVerdict(e)
      BY <1>1 DEF KernelVerdict, RecordedAs
    <3>5. Verdicts' = [Verdicts EXCEPT ![cur] = "parked"] /\ Verdicts[cur] = "open"
      BY <1>1, <3>2, <3>3, <3>4 DEF Verdicts
    <3> QED  BY <3>5 DEF Promise!Park, Verdicts
  <2>3. CASE ~(pc = "park" /\ ~Recorded(cur))
    <3>1. KernelVerdict(cur)' = KernelVerdict(cur)
      <4>1. CASE Recorded(cur)
        BY <1>1, <4>1 DEF KernelVerdict, Recorded, RecordedAs
      <4>2. CASE ~Recorded(cur)
        <5>0. ~RecordedAs(cur, mem.result)
          BY <4>2, LogType DEF IInv, TypeOK, Recorded, RecordedAs, Event
        <5>1. pc = "mark"
          BY <1>4, <2>3, <4>2, <5>0 DEF IInv, Holder, Closing, JournalWrites
        <5>2. mem.phase = "target_replaced"
          BY <5>1 DEF IInv, Holder, Replaced
        <5> QED  BY <1>1, <2>1, <5>2 DEF KernelVerdict, RecordedAs, NoJournal, Open
      <4> QED  BY <4>1, <4>2
    <3>2. \A e \in EventId \ {cur} : KernelVerdict(e)' = KernelVerdict(e)
      BY <1>1 DEF KernelVerdict, RecordedAs
    <3>3. Verdicts' = Verdicts
      BY <3>1, <3>2 DEF Verdicts
    <3> QED  BY <3>3 DEF Promise!avars, Verdicts
  <2> QED  BY <2>2, <2>3
<1> QED  BY <1>3, <1>4

(* AppendEvent is a step of AtomicPromotion or leaves it alone.             *)
LEMMA AppendEventRefines ==
  ASSUME IInv, AppendEvent
  PROVE  Promise!Succeed(cur) \/ Promise!Fail(cur)
<1> USE DEF AppendEvent, history
<1>1. /\ cur \in EventId /\ outcome \in {"success", "failure"}
      /\ Log' = Log \cup {[id |-> cur, result |-> outcome]}
  BY LogAppend DEF IInv, TypeOK, Event
<1>2. ~Recorded(cur) /\ (outcome = "success" <=> cur \in installed)
  BY DEF IInv, Holder, Deciding
<1>3. Verdicts' = [Verdicts EXCEPT ![cur] = outcome]
  <2>1. KernelVerdict(cur)' = outcome
    BY <1>1, <1>2 DEF KernelVerdict, Recorded, RecordedAs
  <2>2. \A e \in EventId \ {cur} : KernelVerdict(e)' = KernelVerdict(e)
    BY <1>1 DEF KernelVerdict, RecordedAs
  <2> QED  BY <2>1, <2>2 DEF Verdicts
<1>4. Verdicts[cur] \in {"none", "open"} /\ (cur \in installed => Verdicts[cur] = "open")
  <2>1. CASE mode = "note"
    BY <1>1, <2>1 DEF Verdicts, KernelVerdict, Recorded, NoJournal, IInv, Holder,
      Deciding, Truth
  <2>2. CASE mode # "note"
    <3>1. journal[cur] \in Journal /\ journal[cur].phase \in Open
      BY <2>2 DEF IInv, Holder, Journaling
    <3> QED  BY <1>1, <1>2, <3>1 DEF Verdicts, KernelVerdict, Recorded, NoJournal,
          Open
  <2> QED  BY <2>1, <2>2
<1> QED  BY <1>1, <1>2, <1>3, <1>4 DEF Promise!Succeed, Promise!Fail, Verdicts

(* Install is a step of AtomicPromotion or leaves it alone.                 *)
LEMMA InstallRefines ==
  ASSUME IInv, Install
  PROVE  Promise!Place(cur, mem.target) /\ mem.target \in Target
<1> USE DEF Install
<1>1. Log' = Log /\ cur \in EventId
  BY LogSame DEF IInv, TypeOK
<1>2. /\ journal[cur] \in Journal /\ journal[cur].phase \in Open /\ mem \in Journal
      /\ cur \notin installed /\ ~Recorded(cur)
  BY DEF IInv, Holder, Installing, Journaling, AtWork
<1>3. Verdicts[cur] = "open"
  BY <1>1, <1>2 DEF Verdicts, KernelVerdict, Recorded, NoJournal, Open
<1>4. Verdicts' = Verdicts
  BY <1>1, VerdictsSame
<1> QED  BY <1>2, <1>3, <1>4 DEF Promise!Place, Verdicts, Journal

(* Every behaviour of the kernel is one of the atomic promotion: a crash, a *)
(* failure or a recovery either decides a transaction as AtomicPromotion    *)
(* may, or changes nothing a client can see.                                *)
THEOREM KernelImplementsAtomicPromotion == Spec => ImplementsAtomicPromotion
<1>1. Init => Promise!AInit
  <2> SUFFICES ASSUME Init PROVE Promise!AInit
    OBVIOUS
  <2>1. Log = {}
    BY DEF Init, Log
  <2> QED  BY <2>1 DEF Init, Promise!AInit, KernelVerdict, RecordedAs, NoJournal
<1>2. IInv /\ [Next]_vars => [Promise!ANext]_(Promise!avars)
  <2> SUFFICES ASSUME IInv, [Next]_vars PROVE Promise!ANext \/ UNCHANGED Promise!avars
    OBVIOUS
  <2>1. cur \in EventId
    BY DEF IInv, TypeOK
  <2>2. CASE WriteJournal
    BY <2>1, <2>2, WriteJournalRefines DEF Promise!ANext
  <2>3. CASE AppendEvent
    BY <2>1, <2>3, AppendEventRefines DEF Promise!ANext
  <2>4. CASE Install
    BY <2>1, <2>4, InstallRefines DEF Promise!ANext
  <2>5. ASSUME NEW t \in Target, NEW x \in Edit, ExternalEdit(t, x)
        PROVE  Promise!Overwrite(t, x)
    <3>1. Verdicts' = Verdicts
      BY <2>5, LogSame, VerdictsSame DEF ExternalEdit
    <3> QED  BY <2>5, <3>1 DEF ExternalEdit, Promise!Overwrite, Verdicts
  <2>6. CASE UNCHANGED <<target, journal, events, installed, edited>>
    <3>1. Verdicts' = Verdicts
      BY <2>6, LogSame, VerdictsSame
    <3> QED  BY <2>6, <3>1 DEF Promise!avars, Verdicts
  <2>7. CASE UNCHANGED vars
    BY <2>6, <2>7 DEF vars, disk, history
  <2>8. CASE Next /\ ~WriteJournal /\ ~AppendEvent /\ ~Install
             /\ \A t \in Target, x \in Edit : ~ExternalEdit(t, x)
    BY <2>6, <2>8, JournalFrame, EventsFrame, StoreFrame
  <2> QED  BY <2>2, <2>3, <2>4, <2>5, <2>7, <2>8 DEF Promise!ANext
<1> QED  BY <1>1, <1>2, KernelInvariant, PTL DEF Spec, ImplementsAtomicPromotion,
      Promise!ASpec
-----------------------------------------------------------------------------
(* The chain of a store, while nobody edits it.  What the last transaction   *)
(* put there is announced, or it is a transaction that follows the last      *)
(* announced one and may be announced itself; once it is overtaken before    *)
(* that, its journal never becomes complete.                                 *)
Linked(t) ==
  \A i \in Successes(t) :
    LeftBy(events, {k \in Successes(t) : k < i}, journal[events[i].id].before)
Topped(t) ==
  \/ LeftBy(events, Successes(t), target[t])
  \/ /\ target[t] \in On(t) \cap installed /\ ~RecordedAs(target[t], "success")
     /\ LeftBy(events, Successes(t), journal[target[t]].before)
Overtaken(t) ==
  \E e \in On(t) : e \in installed /\ target[t] # e /\ ~RecordedAs(e, "success")
ChainStands(t) == Overtaken(t) \/ (Linked(t) /\ Topped(t))

(* The holder of the lock has seen the store as it is until it replaces it,  *)
(* and announces a success only of what is there.                            *)
Seeing == pc \in {"prepare", "install"} => mem.before = target[mem.target]
Announcing ==
  pc \in {"mark", "check"} \/ (pc = "append" /\ outcome = "success") =>
    target[journal[cur].target] = cur
ChainInv == edited = {} => Seeing /\ Announcing /\ \A t \in Target : ChainStands(t)

(* At first no store exists and nothing was announced.                       *)
LEMMA ChainInit == Init => ChainInv
<1> SUFFICES ASSUME Init, NEW t \in Target PROVE Seeing /\ Announcing /\ ChainStands(t)
  BY DEF ChainInv, Init, Seeing, Announcing
<1>1. Successes(t) = {}
  BY DEF Init, Successes
<1>2. target[t] = Absent /\ pc = "idle"
  BY DEF Init
<1> QED  BY <1>1, <1>2 DEF Seeing, Announcing, ChainStands, Linked, Topped, LeftBy

(* What leaves stores and events alone and starts a journal at most for a    *)
(* transaction without event keeps the chain.                                *)
LEMMA ChainFrame ==
  ASSUME UNCHANGED <<target, events, installed>>, NEW t \in Target, ChainStands(t),
         \A v \in Log : v.id \in EventId,
         \A e \in EventId : journal[e] # NoJournal =>
           /\ journal'[e] # NoJournal /\ journal'[e].target = journal[e].target
           /\ journal'[e].before = journal[e].before,
         \A e \in EventId : journal[e] = NoJournal /\ journal'[e] # NoJournal =>
           \A v \in Log : v.id # e
  PROVE  ChainStands(t)'
<1>0. \A e : RecordedAs(e, "success")' <=> RecordedAs(e, "success")
  BY LogSame DEF RecordedAs
<1>1. On(t) \subseteq On(t)'
  BY DEF On
<1>2. \A i \in DOMAIN events : events[i].id \in EventId /\ events[i] \in Log
  BY DEF Log
<1>3. \A i \in DOMAIN events : events[i].id \in On(t)' <=> events[i].id \in On(t)
  BY <1>2 DEF On
<1>4. Successes(t)' = Successes(t)
  BY <1>3 DEF Successes
<1>5. events' = events /\ target' = target /\ installed' = installed
  OBVIOUS
<1>6. CASE Overtaken(t)
  <2>1. Overtaken(t)'
    BY <1>0, <1>1, <1>5, <1>6 DEF Overtaken
  <2> QED  BY <2>1 DEF ChainStands
<1>7. CASE Linked(t) /\ Topped(t)
  <2>1. \A e \in On(t) : journal'[e].before = journal[e].before
    BY DEF On
  <2>2. Linked(t)'
    <3> SUFFICES ASSUME NEW i \in Successes(t)
                 PROVE  LeftBy(events', {k \in Successes(t)' : k < i}, journal'[events'[i].id].before)
      BY <1>4 DEF Linked
    <3>1. LeftBy(events, {k \in Successes(t) : k < i}, journal[events[i].id].before)
      BY <1>7 DEF Linked
    <3>2. journal'[events[i].id].before = journal[events[i].id].before
      BY <2>1 DEF Successes
    <3>3. {k \in Successes(t)' : k < i} = {k \in Successes(t) : k < i}
      BY <1>4
    <3> QED  BY <1>5, <3>1, <3>2, <3>3
  <2>3. Topped(t)'
    BY <1>0, <1>1, <1>4, <1>5, <1>7, <2>1 DEF Topped
  <2> QED  BY <2>2, <2>3 DEF ChainStands
<1> QED  BY <1>6, <1>7 DEF ChainStands

(* An event's transaction.                                                   *)
LEMMA EventsNameIds == ASSUME IInv PROVE \A v \in Log : v.id \in EventId /\ Recorded(v.id)
<1>1. \A v \in Log : v \in Event
  BY LogType DEF IInv, TypeOK
<1> QED  BY <1>1 DEF Event, Recorded, RecordedAs

(* A step that touches no file the chain is about keeps it.                  *)
LEMMA ChainKeeps ==
  ASSUME IInv, UNCHANGED <<target, events, installed, journal>>, NEW t \in Target, ChainStands(t)
  PROVE  ChainStands(t)'
BY ChainFrame, EventsNameIds

(* The journal file that is written is of a transaction without event, or it *)
(* was there.                                                                *)
LEMMA ChainWriteJournal ==
  ASSUME IInv, WriteJournal, NEW t \in Target, ChainStands(t) PROVE ChainStands(t)'
<1>0. UNCHANGED <<target, events, installed>> /\ journal' = [journal EXCEPT ![cur] = mem]
      /\ journal \in [EventId -> Journal \cup {NoJournal}] /\ cur \in EventId
  BY DEF WriteJournal, history, IInv, TypeOK
<1>1. \A e \in EventId \ {cur} : journal'[e] = journal[e]
  BY <1>0
<1>2. journal'[cur] = mem
  BY <1>0
<1>3. CASE pc = "prepare"
  <2>1. journal[cur] = NoJournal /\ ~Recorded(cur)
    BY <1>3 DEF IInv, Holder, Preparing, EventIdAvailable
  <2> QED  BY <1>0, <1>1, <2>1, ChainFrame, EventsNameIds
<1>4. CASE pc # "prepare"
  <2>1. /\ journal[cur] \in Journal /\ mem \in Journal
        /\ mem.target = journal[cur].target /\ mem.before = journal[cur].before
    BY <1>4 DEF WriteJournal, JournalWrites, IInv, Holder, Journaling, AtWork
  <2>2. mem # NoJournal /\ journal[cur] # NoJournal
    BY <2>1 DEF Journal, NoJournal, Phase
  <2> QED  BY <1>0, <1>1, <1>2, <2>1, <2>2, ChainFrame, EventsNameIds
<1> QED  BY <1>3, <1>4

(* A replacement tops the chain, or overtakes what had not been announced.   *)
LEMMA ChainInstall ==
  ASSUME IInv, Seeing, Install, NEW t \in Target, ChainStands(t) PROVE ChainStands(t)'
<1>0. \A e : RecordedAs(e, "success")' <=> RecordedAs(e, "success")
  BY LogSame DEF RecordedAs, Install
<1>1. /\ On(t)' = On(t) /\ Successes(t)' = Successes(t)
      /\ events' = events /\ journal' = journal /\ installed' = installed \cup {cur}
      /\ target' = [target EXCEPT ![mem.target] = cur] /\ target \in [Target -> Digest]
  BY DEF On, Successes, Install, IInv, TypeOK
<1>3. /\ cur \notin installed /\ ~Recorded(cur) /\ cur \in EventId
      /\ journal[cur] # NoJournal /\ journal[cur] \in Journal
      /\ journal[cur].before = target[journal[cur].target]
      /\ mem.target = journal[cur].target /\ mem.target \in Target
  BY DEF Install, IInv, TypeOK, Holder, Installing, Journaling, AtWork, Journal, NoJournal, Seeing
<1>4. Linked(t) => Linked(t)'
  BY <1>1 DEF Linked
<1>5. CASE mem.target # t
  <2>1. target'[t] = target[t]
    BY <1>1, <1>3, <1>5
  <2>2. Overtaken(t) => Overtaken(t)'
    BY <1>0, <1>1, <2>1 DEF Overtaken
  <2>3. Topped(t) => Topped(t)'
    BY <1>0, <1>1, <2>1 DEF Topped
  <2> QED  BY <1>4, <2>2, <2>3 DEF ChainStands
<1>6. CASE mem.target = t
  <2>1. target'[t] = cur
    BY <1>1, <1>3, <1>6
  <2>2. Overtaken(t) => Overtaken(t)'
    BY <1>0, <1>1, <1>3, <2>1 DEF Overtaken
  <2>3. ASSUME Linked(t), Topped(t), ~LeftBy(events, Successes(t), target[t])
        PROVE  Overtaken(t)'
    <3>1. target[t] \in On(t) \cap installed /\ ~RecordedAs(target[t], "success")
      BY <2>3 DEF Topped
    <3>2. target[t] # cur
      BY <3>1, <1>3
    <3> QED  BY <3>1, <3>2, <1>0, <1>1, <2>1 DEF Overtaken
  <2>4. ASSUME LeftBy(events, Successes(t), target[t])
        PROVE  Topped(t)'
    <3>1. cur \in On(t) /\ ~RecordedAs(cur, "success")
      BY <1>3, <1>6 DEF On, Recorded
    <3>2. LeftBy(events', Successes(t)', journal'[cur].before)
      BY <1>1, <1>3, <1>6, <2>4
    <3> QED  BY <3>1, <3>2, <1>0, <1>1, <2>1 DEF Topped
  <2> QED  BY <1>4, <2>2, <2>3, <2>4 DEF ChainStands
<1> QED  BY <1>5, <1>6

(* An announced success is of what is in its store, and is the last of it.   *)
LEMMA ChainAppend ==
  ASSUME IInv, Announcing, AppendEvent, NEW t \in Target, ChainStands(t) PROVE ChainStands(t)'
<1> DEFINE n == Len(events) + 1
<1>1. /\ ~Recorded(cur) /\ cur \in EventId /\ events \in Seq(Event)
      /\ outcome \in {"success", "failure"}
      /\ events' = Append(events, [id |-> cur, result |-> outcome])
      /\ target' = target /\ installed' = installed /\ journal' = journal
  BY DEF AppendEvent, IInv, TypeOK, Holder, Deciding, history
<1>2. /\ DOMAIN events' = DOMAIN events \cup {n} /\ DOMAIN events = 1 .. Len(events)
      /\ Len(events) \in Nat /\ n \notin DOMAIN events
      /\ \A i \in DOMAIN events : events'[i] = events[i]
      /\ events'[n].id = cur /\ events'[n].result = outcome
  BY <1>1 DEF Event
<1>3. Log' = Log \cup {[id |-> cur, result |-> outcome]}
  BY <1>1, LogAppend DEF Event
<1>4. On(t)' = On(t)
  BY <1>1 DEF On
<1>5. Successes(t) \subseteq DOMAIN events
  BY DEF Successes
<1>6. \A k \in Successes(t) : k \in Nat /\ n \in Nat /\ k < n /\ ~(n < k)
  BY <1>2, <1>5
<1> HIDE DEF n
<1>7. IF cur \in On(t) /\ outcome = "success" THEN Successes(t)' = Successes(t) \cup {n}
      ELSE Successes(t)' = Successes(t)
  BY <1>2, <1>4 DEF Successes
<1>8. ASSUME NEW S \in SUBSET Successes(t), NEW x, LeftBy(events, S, x)
      PROVE  LeftBy(events', S, x)
  BY <1>2, <1>5, <1>8 DEF LeftBy
<1>9. \A e : e # cur => (RecordedAs(e, "success")' <=> RecordedAs(e, "success"))
  BY <1>3 DEF RecordedAs
<1>10. outcome = "success" /\ cur \in On(t) => target[t] = cur
  BY DEF AppendEvent, Announcing, On
<1>11. ~RecordedAs(cur, "success")
  BY <1>1 DEF Recorded
<1>12. CASE Overtaken(t)
  <2>1. PICK e \in On(t) : e \in installed /\ target[t] # e /\ ~RecordedAs(e, "success")
    BY <1>12 DEF Overtaken
  <2>2. ~RecordedAs(e, "success")'
    BY <1>3, <1>10, <2>1 DEF RecordedAs
  <2> QED  BY <1>1, <1>4, <2>1, <2>2 DEF Overtaken, ChainStands
<1>13. ASSUME Linked(t), NEW i \in Successes(t)
       PROVE  LeftBy(events', {k \in Successes(t)' : k < i}, journal'[events'[i].id].before)
  <2>1. LeftBy(events, {k \in Successes(t) : k < i}, journal[events[i].id].before)
    BY <1>13 DEF Linked
  <2>2. {k \in Successes(t)' : k < i} = {k \in Successes(t) : k < i}
    BY <1>6, <1>7
  <2>3. journal'[events'[i].id].before = journal[events[i].id].before
    BY <1>1, <1>2, <1>5
  <2> QED  BY <1>8, <2>1, <2>2, <2>3
<1>14. CASE Linked(t) /\ Topped(t) /\ ~(outcome = "success" /\ cur \in On(t))
  <2>1. Successes(t)' = Successes(t)
    BY <1>7, <1>14
  <2>2. Linked(t)'
    BY <1>13, <1>14, <2>1 DEF Linked
  <2>3. LeftBy(events, Successes(t), target[t]) => LeftBy(events', Successes(t)', target'[t])
    BY <1>1, <1>8, <2>1
  <2>4. LeftBy(events, Successes(t), journal[target[t]].before)
          => LeftBy(events', Successes(t)', journal'[target'[t]].before)
    BY <1>1, <1>8, <2>1
  <2>5. \A e \in On(t) : ~RecordedAs(e, "success") => ~RecordedAs(e, "success")'
    BY <1>3, <1>14 DEF RecordedAs
  <2>6. Topped(t)'
    BY <1>1, <1>4, <1>14, <2>3, <2>4, <2>5 DEF Topped
  <2> QED  BY <2>2, <2>6 DEF ChainStands
<1>15. CASE Linked(t) /\ Topped(t) /\ outcome = "success" /\ cur \in On(t)
  <2>1. Successes(t)' = Successes(t) \cup {n} /\ n \in Nat
    BY <1>2, <1>7, <1>15 DEF n
  <2>2. ~LeftBy(events, Successes(t), target[t])
    <3> SUFFICES ASSUME LeftBy(events, Successes(t), cur) PROVE FALSE
      BY <1>10, <1>15
    <3>1. Successes(t) # {}
      BY <1>1, DigestAssumption DEF LeftBy
    <3>2. PICK i \in Successes(t) : events[i].id = cur
      BY <3>1 DEF LeftBy
    <3>3. events[i] \in Log /\ events[i].result = "success" /\ events[i] \in Event
      BY <3>2, <1>1, <1>5 DEF Log, Successes
    <3>4. events[i] = [id |-> cur, result |-> "success"]
      BY <3>2, <3>3 DEF Event
    <3> QED  BY <1>11, <3>3, <3>4 DEF RecordedAs
  <2>3. LeftBy(events, Successes(t), journal[cur].before)
    BY <1>10, <1>15, <2>2 DEF Topped
  <2>4. LeftBy(events', {k \in Successes(t)' : k < n}, journal'[events'[n].id].before)
    <3>1. {k \in Successes(t)' : k < n} = Successes(t)
      BY <1>6, <2>1
    <3>2. journal'[events'[n].id].before = journal[cur].before
      BY <1>1, <1>2
    <3> QED  BY <1>8, <2>3, <3>1, <3>2
  <2>5. Linked(t)'
    BY <1>13, <1>15, <2>1, <2>4 DEF Linked
  <2>6. LeftBy(events', Successes(t)', target'[t])
    BY <1>1, <1>2, <1>6, <1>10, <1>15, <2>1 DEF LeftBy
  <2> QED  BY <2>5, <2>6 DEF ChainStands, Topped
<1> QED  BY <1>12, <1>14, <1>15 DEF ChainStands

(* Raising ends what the holder claims about the store.                      *)
LEMMA SeeingRaises ==
  ASSUME IInv, Seeing, Announcing, Raise, UNCHANGED <<target, journal>>
  PROVE  (Seeing /\ Announcing)'
<1>1. cur' = cur
  BY DEF Raise
<1>2. pc' \in {"idle", "park"} \/ (pc' = "append" /\ outcome' = "failure")
  BY DEF Raise, HandleFailure
<1> QED  BY <1>1, <1>2 DEF Seeing, Announcing

(* What the holder has seen stays so while it holds the lock.                *)
LEMMA SeeingNext ==
  ASSUME IInv, Seeing, Announcing, Next, \A t \in Target, x \in Edit : ~ExternalEdit(t, x)
  PROVE  (Seeing /\ Announcing)'
<1> USE DEF Seeing, Announcing, disk, locals, history
<1>1. ASSUME NEW e \in EventId, NEW t \in Target, BeginPromotion(e, t) PROVE (Seeing /\ Announcing)'
  BY <1>1 DEF BeginPromotion
<1>2. ASSUME NEW e \in EventId, BeginNote(e) PROVE (Seeing /\ Announcing)'
  BY <1>2 DEF BeginNote
<1>3. CASE BeginRecovery \/ RecoveryDone \/ CheckFails \/ Crash
  BY <1>3 DEF BeginRecovery, RecoveryDone, CheckFails, Crash
<1>4. CASE CheckPasses
  BY <1>4 DEF CheckPasses
<1>5. CASE Install
  BY <1>5 DEF Install, IInv, TypeOK, Holder, Journaling, AtWork, Journal
<1>6. CASE AppendEvent
  BY <1>6 DEF AppendEvent
<1>7. CASE WriteJournal
  <2>1. journal' = [journal EXCEPT ![cur] = mem] /\ target' = target /\ cur' = cur
        /\ outcome' = outcome /\ pc' = AfterJournalWrite(pc) /\ pc \in JournalWrites
    BY <1>7 DEF WriteJournal
  <2>2. CASE pc = "prepare"
    BY <1>7, <2>1, <2>2 DEF AfterJournalWrite, WriteJournal
  <2>3. CASE pc = "mark"
    <3>1. mem.target = journal[cur].target /\ journal'[cur] = mem
      BY <2>1, <2>3 DEF IInv, TypeOK, Holder, Journaling, AtWork
    <3> QED  BY <2>1, <2>3, <3>1 DEF AfterJournalWrite
  <2>4. CASE pc \in {"record", "finish", "park"}
    <3>1. pc' \in {"finish", "scan", "idle"}
      BY <2>1, <2>4 DEF AfterJournalWrite
    <3> QED  BY <3>1
  <2> QED  BY <2>1, <2>2, <2>3, <2>4 DEF JournalWrites
<1>8. CASE Reject \/ TemporaryExists \/ WriteError
  <2>1. Raise /\ UNCHANGED <<target, journal>>
    BY <1>8 DEF Reject, TemporaryExists, WriteError
  <2> QED  BY <2>1, SeeingRaises
<1>9. ASSUME NEW e \in EventId, ScanSkip(e) \/ ScanPark(e) \/ ScanClose(e)
      PROVE  (Seeing /\ Announcing)'
  BY <1>9 DEF ScanSkip, ScanPark, ScanClose, Visit
<1>10. ASSUME NEW e \in EventId, ScanAppend(e) PROVE (Seeing /\ Announcing)'
  BY <1>10 DEF ScanAppend, Visit, Expected
<1> QED
  BY <1>1, <1>2, <1>3, <1>4, <1>5, <1>6, <1>7, <1>8, <1>9, <1>10 DEF Next, Work

(* Every step keeps the chains.                                              *)
LEMMA ChainNext == ASSUME IInv, ChainInv, [Next]_vars PROVE ChainInv'
<1> SUFFICES ASSUME edited' = {} PROVE (Seeing /\ Announcing /\ \A t \in Target : ChainStands(t))'
  BY DEF ChainInv
<1>1. CASE \E t \in Target, x \in Edit : ExternalEdit(t, x)
  BY <1>1 DEF ExternalEdit
<1>2. CASE UNCHANGED vars
  <2>1. UNCHANGED <<target, events, installed, journal, edited, pc, mem, outcome, cur>>
    BY <1>2 DEF vars, disk, locals, history
  <2>2. (Seeing /\ Announcing)'
    BY <2>1 DEF ChainInv, Seeing, Announcing
  <2> QED  BY <2>1, <2>2, ChainKeeps DEF ChainInv
<1>3. ASSUME Next, \A t \in Target, x \in Edit : ~ExternalEdit(t, x)
      PROVE (Seeing /\ Announcing /\ \A t \in Target : ChainStands(t))'
  <2>1. edited = {}
    BY <1>3, StoreFrame DEF Install
  <2>2. Seeing /\ Announcing /\ \A t \in Target : ChainStands(t)
    BY <2>1 DEF ChainInv
  <2>3. \A t \in Target : ChainStands(t)'
    <3>1. CASE WriteJournal
      BY <2>2, <3>1, ChainWriteJournal
    <3>2. CASE Install
      BY <2>2, <3>2, ChainInstall
    <3>3. CASE AppendEvent
      BY <2>2, <3>3, ChainAppend
    <3>4. CASE ~WriteJournal /\ ~Install /\ ~AppendEvent
      BY <1>3, <2>2, <3>4, JournalFrame, EventsFrame, StoreFrame, ChainKeeps
    <3> QED  BY <3>1, <3>2, <3>3, <3>4
  <2>4. (Seeing /\ Announcing)'
    BY <1>3, <2>2, SeeingNext
  <2> QED  BY <2>3, <2>4
<1> QED  BY <1>1, <1>2, <1>3

(* An overtaken transaction has no complete journal.                         *)
LEMMA ChainPromise == ASSUME IInv, ChainInv PROVE SuccessesChain
<1> SUFFICES ASSUME NEW t \in Target, Untouched(t)
             PROVE  Linked(t) /\ LeftBy(events, Successes(t), target[t])
  BY DEF SuccessesChain, Linked
<1>1. ASSUME NEW e \in On(t), e \in installed PROVE RecordedAs(e, "success")
  <2>1. RecordedAs(e, journal[e].result)
    BY DEF Untouched, On, IInv, Closed
  <2> QED  BY <1>1, <2>1 DEF IInv, Truth, EventsAreTruthful, RecordedAs
<1>2. ~Overtaken(t)
  BY <1>1 DEF Overtaken
<1>3. Linked(t) /\ Topped(t)
  BY <1>2 DEF Untouched, ChainInv, ChainStands
<1> QED  BY <1>1, <1>3 DEF Topped

(* While nobody edits a store and all its journals are complete, its success *)
(* events form an unbroken chain that ends in what is there, whatever died   *)
(* and was recovered in between.                                             *)
THEOREM KernelSuccessesChain == Spec => []SuccessesChain
<1>1. IInv /\ ChainInv /\ [Next]_vars => ChainInv'
  BY ChainNext
<1>2. IInv /\ ChainInv => SuccessesChain
  BY ChainPromise
<1> QED  BY <1>1, <1>2, ChainInit, KernelInvariant, PTL DEF Spec
=============================================================================
