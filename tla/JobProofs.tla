------------------------------- MODULE JobProofs -------------------------------
(***************************************************************************)
(* Proofs about ValidatedStore, PipelineJob and IdentityCorrection, for any *)
(* clients, stores, ids, nodes, keys, papers, outputs and faults.           *)
(*                                                                          *)
(* Any service, whatever it proposes and whatever its validator says: a     *)
(* record that is lost was not named by any event (NamesResolve), so its    *)
(* success event is missing and its journal is still to be settled; and     *)
(* recovery never settles such a journal as a failure, because a store      *)
(* never returns to a content it once had.                                  *)
(*                                                                          *)
(* Jobs are one such service, so this invariant carries over; and because   *)
(* the chain validator runs under the lock on the file that is about to be  *)
(* installed, the job store is always a valid chain, which leaves room for  *)
(* only one revision of a number and only one job of a key; and the events  *)
(* announce of each job a beginning of its chain, which is what JobLedger   *)
(* promises.                                                                *)
(*                                                                          *)
(* Jobs and corrections are two services that share one protocol: what is   *)
(* validated under the lock on one store and on the other as it is then,    *)
(* here the references between them, holds in every state; and so does what *)
(* only an accepted file of corrections ensures, that the last decision     *)
(* about a paper is its identity.                                           *)
(***************************************************************************)
EXTENDS IdentityCorrection, FiniteSetTheorems, WellFoundedInduction, TLAPS

-----------------------------------------------------------------------------
(* A set of numbers up to a bound has a last one, for growing intervals are  *)
(* finite sets; and a first one.                                             *)
LEMMA LastNumber ==
    ASSUME NEW n \in Nat, NEW S \in SUBSET (1 .. n), S # {}
    PROVE  \E x \in S : \A y \in S : y <= x
<1> DEFINE I == 1..n
           T == {x..n : x \in S}
<1>1. T \subseteq FiniteSubsetsOf(I) /\ T # {}
  <2>1. IsFiniteSet(I)
    BY FS_Interval
  <2>2. \A x \in S : x..n \subseteq I
    OBVIOUS
  <2>3. FiniteSubsetsOf(I) = SUBSET I
    BY <2>1, FS_FiniteSubsetsOfFinite
  <2>4. T # {}
    OBVIOUS
  <2>5. \A t \in T : t \in SUBSET I
    BY <2>2
  <2> HIDE DEF T, I
  <2> QED  BY <2>3, <2>4, <2>5
<1> HIDE DEF I, T
<1>2. PICK t \in T : \A u \in T : ~(<<u, t>> \in StrictSubsetOrdering(I))
  BY <1>1, WFMin, FS_StrictSubsetOrderingWellFounded
<1>3. PICK x \in S : t = x..n
  BY DEF T
<1>4. ASSUME NEW y \in S, y > x
      PROVE  FALSE
  <2>1. x \in 1..n /\ y \in 1..n
    OBVIOUS
  <2>2. y..n \subseteq x..n /\ x \in x..n /\ x \notin y..n /\ y..n \subseteq I /\ x..n \subseteq I
    BY <1>4, <2>1 DEF I
  <2>3. <<y..n, x..n>> \in StrictSubsetOrdering(I)
    BY <2>2 DEF StrictSubsetOrdering
  <2> QED  BY <1>2, <1>3, <2>3 DEF T
<1>5. \A y \in S : y \in Int /\ x \in Int
  OBVIOUS
<1> QED  BY <1>4, <1>5

(* And a first one.                                                          *)
LEMMA FirstNumber ==
    ASSUME NEW n \in Nat, NEW S \in SUBSET (0 .. n), S # {}
    PROVE  \E x \in S : \A y \in S : x <= y
<1> DEFINE T == {m \in 1 .. n + 1 : n + 1 - m \in S}
<1>1. n + 1 \in Nat /\ T \in SUBSET (1 .. n + 1)
  OBVIOUS
<1>2. \A x \in S : x \in 0 .. n
  OBVIOUS
<1>3. \A x \in 0 .. n : n + 1 - x \in 1 .. n + 1 /\ n + 1 - (n + 1 - x) = x
  OBVIOUS
<1>4. \A x \in S : n + 1 - x \in T
  BY <1>2, <1>3
<1>5. PICK z \in T : \A y \in T : y <= z
  <2>1. T # {}
    BY <1>4
  <2> HIDE DEF T
  <2> QED  BY <1>1, <2>1, LastNumber
<1>6. n + 1 - z \in S /\ z \in 1 .. n + 1
  OBVIOUS
<1>7. ASSUME NEW y \in S PROVE n + 1 - z <= y
  <2>1. n + 1 - y <= z /\ y \in 0 .. n
    BY <1>2, <1>4, <1>5
  <2> QED  BY <1>6, <2>1
<1> QED  BY <1>6, <1>7

-----------------------------------------------------------------------------
(* What each client's locals say of the rest.                               *)
Carries ==
    \A c \in Client : pc[c] # "idle" =>
        /\ work[c] \in Work
        /\ work[c].new \in taken
        /\ Ids(work[c].read) \subseteq installed
        /\ Ids(work[c].token) \subseteq installed
        /\ work[c].inputs \subseteq installed
        /\ pc[c] \in {"proposed", "promote", "prepared"} => work[c].new \notin installed

Distinct ==
    \A c, d \in Client :
        pc[c] # "idle" /\ pc[d] # "idle" /\ work[c].new = work[d].new => c = d

(* The holder of the lock and the journal it works on.                      *)
Holding ==
    \A c \in Client :
        /\ pc[c] \in Locked <=> holder = c
        /\ pc[c] \in Locked => JournalOf(c) \in open
        /\ pc[c] \in {"replaced", "recorded"} =>
             /\ store[work[c].store] = Proposal(c)
             /\ work[c].new \in installed
        /\ pc[c] = "recorded" => work[c].new \in recorded

(* An open journal: its store never again holds what it found there once    *)
(* its own content was installed.                                           *)
Journals ==
    \A j \in open :
        /\ j.new \in taken
        /\ Ids(j.before) \subseteq installed
        /\ j.new \in Ids(j.after)
        /\ j.inputs \subseteq installed
        /\ j.new \in installed => store[j.store] # j.before

Owned ==
    \A j \in open, c \in Client :
        pc[c] # "idle" /\ work[c].new = j.new => j.store = work[c].store

(* How the sets of ids are nested.                                          *)
Nested ==
    /\ acked \subseteq recorded
    /\ recorded \subseteq named
    /\ recorded \subseteq Stored
    /\ named \subseteq installed
    /\ Stored \subseteq installed
    /\ installed \subseteq taken

(* What was installed is announced by an event or still to be settled.      *)
Announced == installed \subseteq recorded \cup Unsettled

SInv ==
    /\ StoreTypeOK
    /\ Carries /\ Distinct /\ Holding /\ Journals /\ Owned /\ Nested /\ Announced

-----------------------------------------------------------------------------
(* Appending a record adds its id.                                          *)
LEMMA AppendIds ==
    ASSUME NEW s \in Content, NEW i \in Id
    PROVE  /\ Append(s, i) \in Content
           /\ Ids(Append(s, i)) = Ids(s) \cup {i}
<1>1. Append(s, i) \in Content
  BY DEF Content
<1>2. DOMAIN Append(s, i) = DOMAIN s \cup {Len(s) + 1}
  BY DEF Content
<1>3. \A n \in DOMAIN s : Append(s, i)[n] = s[n]
  BY DEF Content
<1>4. Append(s, i)[Len(s) + 1] = i
  BY DEF Content
<1> QED  BY <1>1, <1>2, <1>3, <1>4 DEF Ids

(* The file a client proposes, and the journal of its promotion.            *)
LEMMA ProposalIds ==
    ASSUME NEW c \in Client, work[c] \in Work
    PROVE  /\ Proposal(c) \in Content
           /\ Ids(Proposal(c)) = Ids(work[c].read) \cup {work[c].new}
           /\ JournalOf(c) \in Journal
           /\ JournalOf(c).new = work[c].new
           /\ JournalOf(c).store = work[c].store
           /\ JournalOf(c).before = work[c].token
           /\ JournalOf(c).after = Proposal(c)
           /\ JournalOf(c).inputs = work[c].inputs
<1>1. /\ work[c].read \in Content /\ work[c].token \in Content
      /\ work[c].new \in Id /\ work[c].store \in Store /\ work[c].inputs \subseteq Id
  BY DEF Work
<1>2. Proposal(c) \in Content /\ Ids(Proposal(c)) = Ids(work[c].read) \cup {work[c].new}
  BY <1>1, AppendIds DEF Proposal
<1> QED  BY <1>1, <1>2 DEF JournalOf, Journal

(* A content's ids are ids.                                                 *)
LEMMA IdsAreIds == ASSUME NEW s \in Content PROVE Ids(s) \subseteq Id
  BY DEF Content, Ids

(* A client that is done leaves the others' locals and its own idle.        *)
LEMMA LeaveType ==
    ASSUME StoreTypeOK, NEW c \in Client, Leave(c)
    PROVE  /\ pc' \in [Client -> Locked \cup {"idle", "proposed", "promote"}]
           /\ work' \in [Client -> Work \cup {NoWork}]
           /\ holder' \in Client \cup {Nobody}
           /\ pc'[c] = "idle"
           /\ \A d \in Client \ {c} : pc'[d] = pc[d] /\ work'[d] = work[d]
  BY DEF StoreTypeOK, Leave

(* The initial state.                                                       *)
LEMMA InitSInv == ASSUME StoreInit PROVE SInv
<1> USE DEF StoreInit
<1>1. Stored = {}
  BY DEF Stored, Ids
<1>2. StoreTypeOK
  BY DEF StoreTypeOK, Content
<1>3. Carries /\ Distinct /\ Journals /\ Owned
  BY DEF Carries, Distinct, Journals, Owned
<1>4. Holding
  BY NobodyAssumption DEF Holding, Locked
<1>5. Nested /\ Announced
  BY <1>1 DEF Nested, Announced
<1> QED  BY <1>2, <1>3, <1>4, <1>5 DEF SInv

(* A client whose locals stay keeps its proposal and its journal.           *)
LEMMA SameWork ==
    ASSUME NEW c \in Client, work'[c] = work[c]
    PROVE  Proposal(c)' = Proposal(c) /\ JournalOf(c)' = JournalOf(c)
  BY DEF Proposal, JournalOf

(* What is stored depends on the stores alone.                              *)
LEMMA StoredFrame == ASSUME store' = store PROVE Stored' = Stored
  BY DEF Stored

(* What one store holds is stored.                                          *)
LEMMA StoredAt == ASSUME NEW s \in Store PROVE Ids(store[s]) \subseteq Stored
  BY DEF Stored

-----------------------------------------------------------------------------
(* A request reads the store and takes a fresh id.                          *)
LEMMA ProposeStep ==
    ASSUME SInv, NEW c \in Client, NEW s \in Store, NEW i \in Id, NEW inputs \in SUBSET Stored,
           Propose(c, s, i, inputs)
    PROVE  SInv'
<1> USE DEF SInv, Propose
<1>1. /\ store[s] \in Content /\ <<>> \in Content
      /\ Ids(store[s]) \subseteq Stored /\ Ids(<<>>) = {}
  BY StoredAt DEF StoreTypeOK, Content, Ids
<1>2. /\ i \in Id /\ i \notin taken /\ Stored' = Stored
      /\ inputs \subseteq Id /\ Stored \subseteq installed /\ i \notin installed
  BY StoredFrame DEF Fresh, Nested, StoreTypeOK
<1> DEFINE w == [store |-> s, read |-> store[s], token |-> <<>>, new |-> i, inputs |-> inputs]
<1>3. w \in Work
  BY <1>1, <1>2 DEF Work
<1>4. /\ work'[c] = w /\ pc'[c] = "proposed" /\ pc[c] = "idle"
      /\ \A d \in Client \ {c} : pc'[d] = pc[d] /\ work'[d] = work[d]
  BY DEF StoreTypeOK
<1>5. StoreTypeOK'
  BY <1>2, <1>3 DEF StoreTypeOK
<1>6. Carries'
  BY <1>1, <1>2, <1>3, <1>4 DEF Carries
<1>7. Distinct'
  BY <1>2, <1>4 DEF Distinct, Carries
<1>8. Holding'
  <2> SUFFICES ASSUME NEW d \in Client
               PROVE  /\ pc'[d] \in Locked <=> holder' = d
                      /\ pc'[d] \in Locked => JournalOf(d)' \in open'
                      /\ pc'[d] \in {"replaced", "recorded"} =>
                           /\ store'[work'[d].store] = Proposal(d)'
                           /\ work'[d].new \in installed'
                      /\ pc'[d] = "recorded" => work'[d].new \in recorded'
    BY DEF Holding
  <2>1. CASE d = c
    BY <1>4, <2>1 DEF Holding, Locked
  <2>2. CASE d # c
    BY <1>4, <2>2, SameWork DEF Holding
  <2> QED  BY <2>1, <2>2
<1>9. Journals'
  BY DEF Journals
<1>10. Owned'
  BY <1>2, <1>4 DEF Owned, Journals
<1>11. Nested' /\ Announced'
  BY <1>2 DEF Nested, Announced, Unsettled
<1> QED  BY <1>5, <1>6, <1>7, <1>8, <1>9, <1>10, <1>11 DEF SInv

(* The token is read; the client's id, inputs and store stay.               *)
LEMMA TakeTokenStep == ASSUME SInv, NEW c \in Client, TakeToken(c) PROVE SInv'
<1> USE DEF SInv, TakeToken
<1> DEFINE t == store[work[c].store]
<1>1. /\ work[c] \in Work /\ work[c].store \in Store /\ t \in Content
      /\ Ids(t) \subseteq installed
  BY StoredAt DEF Carries, Work, StoreTypeOK, Nested
<1>2. /\ work'[c] = [work[c] EXCEPT !.token = t] /\ pc'[c] = "promote" /\ pc[c] = "proposed"
      /\ \A d \in Client \ {c} : pc'[d] = pc[d] /\ work'[d] = work[d]
  BY DEF StoreTypeOK
<1>3. work'[c] \in Work
  BY <1>1, <1>2 DEF Work
<1>4. /\ work'[c].token = t /\ work'[c].new = work[c].new /\ work'[c].read = work[c].read
      /\ work'[c].inputs = work[c].inputs /\ work'[c].store = work[c].store
  BY <1>1, <1>2 DEF Work
<1>5. StoreTypeOK'
  BY <1>2, <1>3 DEF StoreTypeOK
<1>6. Carries'
  BY <1>1, <1>2, <1>3, <1>4 DEF Carries
<1>7. Distinct' /\ Owned'
  BY <1>2, <1>4 DEF Distinct, Owned
<1>8. Holding'
  <2> SUFFICES ASSUME NEW d \in Client
               PROVE  /\ pc'[d] \in Locked <=> holder' = d
                      /\ pc'[d] \in Locked => JournalOf(d)' \in open'
                      /\ pc'[d] \in {"replaced", "recorded"} =>
                           /\ store'[work'[d].store] = Proposal(d)'
                           /\ work'[d].new \in installed'
                      /\ pc'[d] = "recorded" => work'[d].new \in recorded'
    BY DEF Holding
  <2>1. CASE d = c
    BY <1>2, <2>1 DEF Holding, Locked
  <2>2. CASE d # c
    BY <1>2, <2>2, SameWork DEF Holding
  <2> QED  BY <2>1, <2>2
<1>9. Journals' /\ Nested' /\ Announced'
  BY StoredFrame DEF Journals, Nested, Announced, Unsettled
<1> QED  BY <1>5, <1>6, <1>7, <1>8, <1>9 DEF SInv

(* The journal of the client that takes the lock.                           *)
LEMMA PrepareStep == ASSUME SInv, NEW c \in Client, Prepare(c) PROVE SInv'
<1> USE DEF SInv, Prepare
<1>1. /\ work[c] \in Work /\ work' = work /\ pc[c] = "promote" /\ pc'[c] = "prepared"
      /\ \A d \in Client \ {c} : pc'[d] = pc[d]
  BY DEF Carries, StoreTypeOK
<1>2. \A d \in Client : pc'[d] \in Locked => d = c
  BY <1>1, NobodyAssumption DEF Holding
<1>3. StoreTypeOK'
  BY <1>1, ProposalIds DEF StoreTypeOK, Locked
<1>4. Carries' /\ Distinct'
  BY <1>1 DEF Carries, Distinct
<1>5. Holding'
  <2>1. \A d \in Client : JournalOf(d)' = JournalOf(d)
    BY <1>1, SameWork
  <2>2. \A d \in Client : (pc'[d] \in Locked <=> holder' = d)
    BY <1>1, <1>2 DEF Locked
  <2>3. \A d \in Client : pc'[d] \in Locked => JournalOf(d)' \in open'
    BY <1>2, <2>1
  <2>4. \A d \in Client : pc'[d] \notin {"replaced", "recorded"}
    BY <1>1, <1>2 DEF Locked
  <2> QED  BY <2>2, <2>3, <2>4 DEF Holding
<1>6. Journals'
  <2> DEFINE j == JournalOf(c)
  <2>1. /\ j.new = work[c].new /\ j.store = work[c].store /\ j.before = work[c].token
        /\ j.after = Proposal(c) /\ j.inputs = work[c].inputs
        /\ j.new \in Ids(j.after)
    BY <1>1, ProposalIds
  <2>2. j.new \notin installed /\ j.new \in taken
    BY <1>1, <2>1 DEF Carries
  <2>3. Ids(j.before) \subseteq installed /\ j.inputs \subseteq installed
    BY <1>1, <2>1 DEF Carries
  <2> HIDE DEF j
  <2> QED  BY <2>1, <2>2, <2>3 DEF Journals, j
<1>7. Owned'
  <2>1. JournalOf(c).new = work[c].new /\ JournalOf(c).store = work[c].store
    BY <1>1, ProposalIds
  <2>2. \A d \in Client : pc'[d] # "idle" => pc[d] # "idle"
    BY <1>1
  <2>3. \A d \in Client : pc'[d] # "idle" /\ work[d].new = work[c].new => d = c
    BY <1>1, <2>2 DEF Distinct
  <2> QED  BY <1>1, <2>1, <2>2, <2>3 DEF Owned
<1>8. Nested' /\ Announced'
  BY StoredFrame DEF Nested, Announced, Unsettled
<1> QED  BY <1>3, <1>4, <1>5, <1>6, <1>7, <1>8 DEF SInv

(* The replacement: what is lost was not named by any event.                *)
LEMMA ReplaceStep ==
    ASSUME SInv, NEW c \in Client, NEW valid, Replace(c, valid)
    PROVE  SInv'
<1> USE DEF SInv, Replace
<1> DEFINE s == work[c].store
           n == work[c].new
<1>1. /\ work[c] \in Work /\ s \in Store /\ n \in Id
      /\ n \in taken /\ n \notin installed /\ Ids(work[c].read) \subseteq installed
      /\ holder = c /\ JournalOf(c) \in open
  BY DEF Carries, Work, Holding, Locked
<1>2. /\ Proposal(c) \in Content
      /\ Ids(Proposal(c)) = Ids(work[c].read) \cup {n}
  BY <1>1, ProposalIds
<1>3. /\ work' = work /\ pc'[c] = "replaced"
      /\ \A d \in Client \ {c} : pc'[d] = pc[d] /\ pc[d] \notin Locked
  BY <1>1 DEF StoreTypeOK, Holding
<1>4. /\ store'[s] = Proposal(c)
      /\ \A t \in Store \ {s} : store'[t] = store[t]
  BY <1>1 DEF StoreTypeOK
<1>5. Stored' = Ids(Proposal(c)) \cup UNION {Ids(store[t]) : t \in Store \ {s}}
  BY <1>1, <1>4 DEF Stored
<1>6. StoreTypeOK'
  BY <1>1, <1>2 DEF StoreTypeOK, Locked
<1>7. Carries' /\ Distinct' /\ Owned'
  <2>1. \A d \in Client \ {c} : pc[d] # "idle" => work[d].new # n
    BY DEF Distinct
  <2>2. \A d \in Client : pc'[d] # "idle" => pc[d] # "idle"
    BY <1>3
  <2>3. Carries'
    BY <1>3, <2>1, <2>2 DEF Carries
  <2> QED  BY <1>3, <2>2, <2>3 DEF Distinct, Owned
<1>8. Holding'
  <2>1. \A d \in Client : JournalOf(d)' = JournalOf(d) /\ Proposal(d)' = Proposal(d)
    BY <1>3, SameWork
  <2>2. \A d \in Client : pc'[d] \in Locked => d = c
    BY <1>3
  <2>3. pc'[c] \in Locked
    BY <1>3 DEF Locked
  <2>4. \A d \in Client : (pc'[d] \in Locked <=> holder' = d)
    BY <1>1, <2>2, <2>3
  <2>5. /\ store'[work'[c].store] = Proposal(c)' /\ work'[c].new \in installed'
        /\ JournalOf(c)' \in open'
    BY <1>1, <1>3, <1>4, <2>1
  <2>6. \A d \in Client : pc'[d] \in {"replaced", "recorded"} => d = c
    BY <2>2 DEF Locked
  <2> QED  BY <1>3, <2>2, <2>4, <2>5, <2>6 DEF Holding
<1>9. Journals'
  <2> SUFFICES ASSUME NEW j \in open
               PROVE  /\ j.new \in taken
                      /\ Ids(j.before) \subseteq installed'
                      /\ j.new \in Ids(j.after)
                      /\ j.inputs \subseteq installed'
                      /\ j.new \in installed' => store'[j.store] # j.before
    BY DEF Journals
  <2>1. j.store \in Store
    BY DEF StoreTypeOK, Journal
  <2>2. CASE j.store = s
    <3>1. n \in Ids(store'[j.store]) /\ n \notin Ids(j.before)
      BY <1>1, <1>2, <1>4, <2>2 DEF Journals
    <3> QED  BY <3>1 DEF Journals
  <2>3. CASE j.store # s
    <3>1. j.new # n
      BY <2>3 DEF Owned
    <3>2. store'[j.store] = store[j.store]
      BY <1>4, <2>1, <2>3
    <3> QED  BY <3>1, <3>2 DEF Journals
  <2> QED  BY <2>2, <2>3
<1>10. Nested'
  <2>1. named \subseteq Stored'
    BY <1>5 DEF NamesResolve
  <2>2. Stored' \subseteq installed'
    BY <1>1, <1>2, <1>5, StoredAt DEF Nested
  <2> QED  BY <1>1, <2>1, <2>2 DEF Nested
<1>11. Announced'
  <2>1. n \in Unsettled
    BY <1>1, ProposalIds DEF Unsettled
  <2> QED  BY <2>1 DEF Announced, Unsettled
<1> QED  BY <1>6, <1>7, <1>8, <1>9, <1>10, <1>11 DEF SInv

-----------------------------------------------------------------------------
(* A call that ends frees the lock and forgets its locals; whatever it did  *)
(* to the journals and the events, nobody works under the lock any more.    *)
LEMMA Leaving ==
    ASSUME SInv, NEW c \in Client, Leave(c), holder \in {c, Nobody},
           UNCHANGED <<store, taken, installed>>, open' \subseteq open
    PROVE  /\ pc' \in [Client -> Locked \cup {"idle", "proposed", "promote"}]
           /\ work' \in [Client -> Work \cup {NoWork}]
           /\ holder' \in Client \cup {Nobody}
           /\ Stored' = Stored
           /\ Carries' /\ Distinct' /\ Holding' /\ Journals' /\ Owned'
<1> USE DEF SInv
<1>1. /\ pc' \in [Client -> Locked \cup {"idle", "proposed", "promote"}]
      /\ work' \in [Client -> Work \cup {NoWork}]
      /\ holder' \in Client \cup {Nobody}
      /\ pc'[c] = "idle"
      /\ \A d \in Client \ {c} : pc'[d] = pc[d] /\ work'[d] = work[d]
  BY LeaveType
<1>2. Carries' /\ Distinct' /\ Owned'
  BY <1>1 DEF Carries, Distinct, Owned
<1>3. holder' = Nobody
  BY NobodyAssumption DEF Leave
<1>4. \A d \in Client : pc'[d] \notin Locked
  BY <1>1, NobodyAssumption DEF Holding, Locked
<1>5. Holding'
  BY <1>3, <1>4, NobodyAssumption DEF Holding, Locked
<1>6. Journals'
  BY DEF Journals
<1> QED  BY <1>1, <1>2, <1>5, <1>6, StoredFrame

(* The token was stale: nothing is written.                                 *)
LEMMA ConflictStep == ASSUME SInv, NEW c \in Client, Conflict(c) PROVE SInv'
<1> USE DEF SInv, Conflict
<1>1. /\ pc' \in [Client -> Locked \cup {"idle", "proposed", "promote"}]
      /\ work' \in [Client -> Work \cup {NoWork}]
      /\ holder' \in Client \cup {Nobody}
      /\ Stored' = Stored
      /\ Carries' /\ Distinct' /\ Holding' /\ Journals' /\ Owned'
  BY Leaving
<1>2. StoreTypeOK' /\ Nested' /\ Announced'
  BY <1>1 DEF StoreTypeOK, Nested, Announced, Unsettled
<1> QED  BY <1>1, <1>2

(* A failure event before the replacement: the record was never installed.  *)
LEMMA RecordFailureStep ==
    ASSUME SInv, NEW c \in Client, pc[c] = "prepared", RecordFailure(c), faults' \in Nat
    PROVE  SInv'
<1> USE DEF SInv, RecordFailure
<1>1. /\ work[c] \in Work /\ work[c].new \notin installed /\ holder = c
      /\ work[c].inputs \subseteq installed
      /\ JournalOf(c).new = work[c].new
  BY ProposalIds DEF Carries, Holding, Locked
<1>2. /\ pc' \in [Client -> Locked \cup {"idle", "proposed", "promote"}]
      /\ work' \in [Client -> Work \cup {NoWork}]
      /\ holder' \in Client \cup {Nobody}
      /\ Stored' = Stored
      /\ Carries' /\ Distinct' /\ Holding' /\ Journals' /\ Owned'
  BY <1>1, Leaving
<1>3. StoreTypeOK'
  BY <1>1, <1>2 DEF StoreTypeOK, Work
<1>4. Nested'
  BY <1>1, <1>2 DEF Nested
<1>5. Announced'
  BY <1>1 DEF Announced, Unsettled
<1> QED  BY <1>2, <1>3, <1>4, <1>5

(* The validator refuses the new content: the client leaves with a failure. *)
LEMMA RefuseStep ==
    ASSUME SInv, NEW c \in Client, NEW valid, Refuse(c, valid)
    PROVE  SInv'
  BY RecordFailureStep DEF Refuse, SInv, StoreTypeOK

(* A write fails: the client leaves, its journal as it was.                 *)
LEMMA FailedWriteStep == ASSUME SInv, NEW c \in Client, FailedWrite(c) PROVE SInv'
<1>1. faults' \in Nat
  BY DEF FailedWrite, SInv, StoreTypeOK
<1> QED  BY <1>1, RecordFailureStep DEF FailedWrite

(* The success event names a record that is in its store.                   *)
LEMMA RecordStep == ASSUME SInv, NEW c \in Client, Record(c) PROVE SInv'
<1> USE DEF SInv, Record
<1>1. /\ work[c] \in Work /\ work[c].new \in Id /\ work[c].store \in Store
      /\ work[c].inputs \subseteq installed /\ work[c].inputs \subseteq Id
      /\ work[c].new \in installed
      /\ store[work[c].store] = Proposal(c)
      /\ holder = c /\ JournalOf(c) \in open
  BY DEF Carries, Work, Holding, Locked
<1>2. work[c].new \in Stored
  BY <1>1, ProposalIds, StoredAt
<1>3. /\ work' = work /\ pc'[c] = "recorded"
      /\ \A d \in Client \ {c} : pc'[d] = pc[d] /\ pc[d] \notin Locked
  BY <1>1 DEF StoreTypeOK, Holding
<1>4. StoreTypeOK'
  BY <1>1 DEF StoreTypeOK, Locked
<1>5. Carries' /\ Distinct' /\ Owned'
  BY <1>3 DEF Carries, Distinct, Owned
<1>6. Holding'
  <2>1. \A d \in Client : JournalOf(d)' = JournalOf(d) /\ Proposal(d)' = Proposal(d)
    BY <1>3, SameWork
  <2>2. \A d \in Client : pc'[d] \in Locked <=> d = c
    BY <1>3 DEF Locked
  <2>3. \A d \in Client : pc'[d] \in {"replaced", "recorded"} => d = c
    BY <2>2 DEF Locked
  <2> QED  BY <1>1, <1>3, <2>1, <2>2, <2>3 DEF Holding
<1>7. Journals'
  BY DEF Journals
<1>8. Nested' /\ Announced'
  BY <1>1, <1>2, StoredFrame DEF Nested, Announced, Unsettled
<1> QED  BY <1>4, <1>5, <1>6, <1>7, <1>8

(* The journal of a recorded promotion goes.                                *)
LEMMA CloseStep == ASSUME SInv, NEW c \in Client, Close(c) PROVE SInv'
<1> USE DEF SInv, Close
<1>1. /\ work[c] \in Work /\ work[c].new \in Id /\ work[c].new \in recorded /\ holder = c
      /\ JournalOf(c).new = work[c].new
  BY ProposalIds DEF Carries, Work, Holding, Locked
<1>2. /\ pc' \in [Client -> Locked \cup {"idle", "proposed", "promote"}]
      /\ work' \in [Client -> Work \cup {NoWork}]
      /\ holder' \in Client \cup {Nobody}
      /\ Stored' = Stored
      /\ Carries' /\ Distinct' /\ Holding' /\ Journals' /\ Owned'
  BY <1>1, Leaving
<1>3. StoreTypeOK'
  BY <1>1, <1>2 DEF StoreTypeOK
<1>4. Nested' /\ Announced'
  BY <1>1, <1>2 DEF Nested, Announced, Unsettled
<1> QED  BY <1>2, <1>3, <1>4

(* A crash leaves the journal to recovery.                                  *)
LEMMA StopStep == ASSUME SInv, NEW c \in Client, Stop(c) PROVE SInv'
<1> USE DEF SInv, Stop
<1>1. holder = c
  BY DEF Holding
<1>2. /\ pc' \in [Client -> Locked \cup {"idle", "proposed", "promote"}]
      /\ work' \in [Client -> Work \cup {NoWork}]
      /\ holder' \in Client \cup {Nobody}
      /\ Stored' = Stored
      /\ Carries' /\ Distinct' /\ Holding' /\ Journals' /\ Owned'
  BY <1>1, Leaving
<1>3. StoreTypeOK' /\ Nested' /\ Announced'
  BY <1>2 DEF StoreTypeOK, Nested, Announced, Unsettled
<1> QED  BY <1>2, <1>3

(* Recovery: what it settles as a success is in its store; what it settles  *)
(* as a failure was never installed; the rest is parked.                    *)
LEMMA RecoverStep ==
    ASSUME SInv, NEW visited \in SUBSET open, Recover(visited)
    PROVE  SInv'
<1> USE DEF SInv
<1> DEFINE won == {j \in visited : Holds(j, j.after)}
           lost == {j \in visited : Holds(j, j.before)}
<1>1. /\ recorded' = recorded \cup {j.new : j \in won}
      /\ named' = named \cup {j.new : j \in won} \cup UNION {j.inputs : j \in won \cup lost}
      /\ open' = open \ visited
      /\ parked' = parked \cup {j \in visited : Undecidable(j)}
      /\ holder = Nobody
      /\ UNCHANGED <<store, holder, pc, work, taken, acked, installed, faults>>
  BY DEF Recover
<1>2. \A j \in open : /\ j.store \in Store /\ j.new \in Id /\ j.inputs \subseteq Id
                      /\ j.inputs \subseteq installed /\ j.new \in Ids(j.after)
  BY DEF StoreTypeOK, Journal, Journals
<1>3. \A j \in won : j.new \in Stored
  BY <1>2, StoredAt DEF Holds
<1>4. \A j \in lost : j.new \notin installed
  BY DEF Journals, Holds
<1> HIDE DEF won, lost
<1>5. /\ {j.new : j \in won} \subseteq Id /\ {j.new : j \in won} \subseteq Stored
      /\ UNION {j.inputs : j \in won \cup lost} \subseteq Id
      /\ UNION {j.inputs : j \in won \cup lost} \subseteq installed
  BY <1>2, <1>3 DEF won, lost
<1>6. StoreTypeOK'
  BY <1>1, <1>5 DEF StoreTypeOK
<1>7. Carries' /\ Distinct' /\ Journals' /\ Owned'
  BY <1>1 DEF Carries, Distinct, Journals, Owned
<1>8. Holding'
  BY <1>1, NobodyAssumption DEF Holding, Locked
<1>9. Stored' = Stored
  BY <1>1, StoredFrame
<1>10. Nested'
  BY <1>1, <1>5, <1>9 DEF Nested
<1>11. Announced'
  <2> SUFFICES ASSUME NEW i \in installed PROVE i \in recorded' \cup Unsettled'
    BY <1>1 DEF Announced
  <2>1. CASE i \in recorded
    BY <1>1, <2>1
  <2>2. CASE i \in Unsettled
    <3>1. PICK j \in open \cup parked : i = j.new
      BY <2>2 DEF Unsettled
    <3>2. CASE j \notin visited
      BY <1>1, <3>1, <3>2 DEF Unsettled
    <3>3. CASE j \in won
      BY <1>1, <3>1, <3>3
    <3>4. CASE j \in visited /\ Undecidable(j)
      BY <1>1, <3>1, <3>4 DEF Unsettled
    <3> QED  BY <1>4, <3>1, <3>2, <3>3, <3>4 DEF won, lost, Undecidable
  <2> QED  BY <2>1, <2>2 DEF Announced
<1> QED  BY <1>6, <1>7, <1>8, <1>10, <1>11

-----------------------------------------------------------------------------
(* The steps of a promotion together.                                       *)
LEMMA ProceedSInv ==
    ASSUME SInv, NEW c \in Client, NEW valid, Proceed(c, valid)
    PROVE  SInv'
  BY TakeTokenStep, ConflictStep, PrepareStep, ReplaceStep, RefuseStep, RecordStep, CloseStep
  DEF Proceed

(* A death or a recovery.                                                   *)
LEMMA DisturbSInv == ASSUME SInv, Disturb PROVE SInv'
  BY FailedWriteStep, StopStep, RecoverStep DEF Disturb

(* What changes nothing.                                                    *)
LEMMA StutterSInv == ASSUME SInv, UNCHANGED storevars PROVE SInv'
<1> USE DEF storevars
<1>1. \A c \in Client : JournalOf(c)' = JournalOf(c) /\ Proposal(c)' = Proposal(c)
  BY SameWork
<1>2. Holding'
  BY <1>1 DEF SInv, Holding
<1>3. StoreTypeOK' /\ Nested' /\ Announced'
  BY StoredFrame DEF SInv, StoreTypeOK, Nested, Announced, Unsettled
<1>4. Carries' /\ Distinct' /\ Journals' /\ Owned'
  BY DEF SInv, Carries, Distinct, Journals, Owned
<1> QED  BY <1>2, <1>3, <1>4 DEF SInv

(* Every step of any service.                                               *)
LEMMA NextSInv == ASSUME SInv, [StoreNext]_storevars PROVE SInv'
  BY ProposeStep, ProceedSInv, DisturbSInv, StutterSInv DEF StoreNext

(* What the invariant says to a caller.                                     *)
LEMMA SInvImplies == ASSUME SInv PROVE AckedDurable /\ LossIsAccounted /\ NamesResolveOrUnsettled
  BY DEF SInv, Nested, Announced, AckedDurable, LossIsAccounted, NamesResolveOrUnsettled

(* What a request computed stays until it returns.                          *)
SameRequest(d) ==
    /\ work'[d].store = work[d].store
    /\ work'[d].read = work[d].read
    /\ work'[d].new = work[d].new

(* What a promotion's step does beside the events and the journals: the     *)
(* only one to change a store is a validated replacement.                   *)
LEMMA ProceedFrame ==
    ASSUME SInv, NEW c \in Client, NEW valid, Proceed(c, valid)
    PROVE  /\ taken' = taken
           /\ \A d \in Client :
                pc'[d] # "idle" => pc[d] # "idle" /\ SameRequest(d)
           /\ \/ store' = store
              \/ /\ valid
                 /\ pc[c] # "idle"
                 /\ store' = [store EXCEPT ![work[c].store] = Proposal(c)]
<1> USE DEF SInv, StoreTypeOK
<1>1. CASE TakeToken(c)
  <2>1. work[c] \in Work
    BY <1>1 DEF TakeToken, Carries
  <2> QED  BY <1>1, <2>1 DEF TakeToken, Work, SameRequest
<1>2. CASE Conflict(c) \/ Prepare(c) \/ Record(c)
  BY <1>2 DEF Conflict, Prepare, Record, Leave, SameRequest
<1>3. CASE Replace(c, valid)
  BY <1>3 DEF Replace, SameRequest
<1>4. CASE Refuse(c, valid) \/ Close(c)
  BY <1>4 DEF Refuse, RecordFailure, Close, Leave, SameRequest
<1> QED  BY <1>1, <1>2, <1>3, <1>4 DEF Proceed

(* A fault, a crash or a recovery changes no store.                         *)
LEMMA DisturbFrame ==
    ASSUME SInv, Disturb
    PROVE  /\ taken' = taken /\ store' = store
           /\ \A d \in Client :
                pc'[d] # "idle" => pc[d] # "idle" /\ SameRequest(d)
  BY DEF SInv, StoreTypeOK, Disturb, FailedWrite, RecordFailure, Stop, Recover, Leave,
      SameRequest

(* Every reachable state of any service satisfies the invariant.            *)
THEOREM StoreInvariant == StoreSpec => []SInv
<1>1. StoreInit => SInv
  BY InitSInv
<1>2. SInv /\ [StoreNext]_storevars => SInv'
  BY NextSInv
<1> QED  BY <1>1, <1>2, PTL DEF StoreSpec

(* Type correctness of the shared protocol.                                 *)
THEOREM StoreTypeCorrect == StoreSpec => []StoreTypeOK
<1>1. SInv => StoreTypeOK
  BY DEF SInv
<1> QED  BY <1>1, StoreInvariant, PTL

(* No lost update: an acknowledged record stays in its store, although the  *)
(* compare-and-swap token is read after the content it is to protect.       *)
THEOREM AckedStays == StoreSpec => []AckedDurable
  BY StoreInvariant, SInvImplies, PTL

(* No silent loss: what was ever in a store is there or still to be settled.*)
THEOREM NothingVanishes == StoreSpec => []LossIsAccounted
  BY StoreInvariant, SInvImplies, PTL

(* No event refers to a record that is neither there nor to be settled.     *)
THEOREM EventsResolve == StoreSpec => []NamesResolveOrUnsettled
  BY StoreInvariant, SInvImplies, PTL

-----------------------------------------------------------------------------
(* The revision behind an allocated id never changes and has its type.      *)
Bodies ==
    /\ body \in [Id -> JobState \cup {[job |-> NoState]}]
    /\ \A i \in taken : body[i] \in JobState
    /\ answered \subseteq Id

(* The service writes one store.                                            *)
OneStore ==
    /\ \A t \in Store \ {JobStore} : store[t] = <<>>
    /\ \A c \in Client : pc[c] # "idle" => work[c].store = JobStore

JInv == SInv /\ Bodies /\ OneStore /\ ChainValid(store[JobStore])

-----------------------------------------------------------------------------
(* A content has finitely many ids.                                         *)
LEMMA IdsFinite == ASSUME NEW s \in Content PROVE IsFiniteSet(Ids(s))
<1>1. Len(s) \in Nat /\ DOMAIN s = 1 .. Len(s)
  BY DEF Content
<1>2. IsFiniteSet(1 .. Len(s)) /\ Cardinality(1 .. Len(s)) <= Len(s)
  BY <1>1, FS_Interval
<1> DEFINE f == [n \in 1 .. Len(s) |-> s[n]]
<1>3. f \in Surjection(1 .. Len(s), Ids(s))
  BY <1>1 DEF Ids, Surjection
<1> QED  BY <1>2, <1>3, FS_Surjection

(* Numbered 1, 2, ... as many as there are, revisions have distinct numbers.*)
LEMMA NumbersDistinct ==
    ASSUME NEW mine, IsFiniteSet(mine),
           {body[i].revision : i \in mine} = 1 .. Cardinality(mine),
           NEW a \in mine, NEW b \in mine, body[a].revision = body[b].revision
    PROVE  a = b
<1> DEFINE n == Cardinality(mine)
           f == [i \in mine |-> body[i].revision]
<1>1. n \in Nat
  BY FS_CardinalityType
<1>2. f \in Surjection(mine, 1 .. n)
  BY DEF Surjection
<1>3. Cardinality(1 .. n) = n
  BY <1>1, FS_Interval
<1>4. f \in Injection(mine, 1 .. n)
  BY <1>2, <1>3, FS_SurjSameCardinalityImpliesInj
<1>5. f[a] = f[b]
  OBVIOUS
<1> QED  BY <1>4, <1>5 DEF Injection, IsInjective

(* A job with a revision in a valid chain has a current one.                *)
LEMMA CurrentIsThere ==
    ASSUME NEW content \in Content, ChainValid(content), NEW r \in Ids(content)
    PROVE  Current(content, body[r].job) \in Ids(content)
<1> DEFINE mine == Revisions(content, body[r].job)
           n == Cardinality(mine)
<1>1. mine \subseteq Ids(content) /\ r \in mine
  BY DEF Revisions
<1>2. IsFiniteSet(mine) /\ n \in Nat
  BY <1>1, IdsFinite, FS_Subset, FS_CardinalityType
<1>3. {body[i].revision : i \in mine} = 1 .. n
  BY DEF ChainValid, Jobs
<1>4. n \in 1 .. n
  BY <1>1, <1>2, <1>3
<1>5. PICK i \in mine : body[i].revision = n
  BY <1>3, <1>4
<1>6. \A k \in mine : body[k].revision <= body[i].revision
  BY <1>2, <1>3, <1>5
<1>7. Current(content, body[r].job) \in mine
  BY <1>5, <1>6 DEF Current
<1> QED  BY <1>1, <1>7

(* A chain stays valid while the revisions behind its ids stay.             *)
LEMMA ChainFrame ==
    ASSUME NEW content, \A i \in Ids(content) : body'[i] = body[i], ChainValid(content)
    PROVE  ChainValid(content)'
<1>1. \A j : Revisions(content, j)' = Revisions(content, j)
  BY DEF Revisions
<1>2. Jobs(content)' = Jobs(content)
  BY DEF Jobs
<1>3. \A j : Revisions(content, j) \subseteq Ids(content)
  BY DEF Revisions
<1>4. \A i, k \in Ids(content) : body'[i].key = body'[k].key => body'[i].job = body'[k].job
  BY DEF ChainValid
<1>5. ASSUME NEW j \in Jobs(content)
      PROVE  LET mine == Revisions(content, j)
             IN  /\ {body'[i].revision : i \in mine} = 1 .. Cardinality(mine)
                 /\ \A i \in mine :
                      IF body'[i].revision = 1 THEN ValidRoot(body'[i])
                      ELSE \E k \in mine :
                             /\ body'[k].revision = body'[i].revision - 1
                             /\ Follows(k, body[i])'
  <2> DEFINE mine == Revisions(content, j)
  <2>1. \A i \in mine : body'[i] = body[i]
    BY <1>3
  <2>2. {body'[i].revision : i \in mine} = {body[i].revision : i \in mine}
    BY <2>1
  <2>3. \A i, k \in mine : Follows(k, body[i])' <=> Follows(k, body[i])
    BY <2>1 DEF Follows
  <2> QED  BY <2>1, <2>2, <2>3 DEF ChainValid
<1> QED  BY <1>1, <1>2, <1>4, <1>5 DEF ChainValid

-----------------------------------------------------------------------------
(* The initial state.                                                       *)
LEMMA InitJInv == ASSUME JobInit PROVE JInv
<1> USE DEF JobInit
<1>1. SInv
  BY InitSInv
<1>2. Bodies /\ OneStore
  BY DEF StoreInit, Bodies, OneStore
<1>3. store[JobStore] = <<>> /\ Ids(<<>>) = {}
  BY JobStoreAssumption DEF StoreInit, Ids
<1>4. Jobs(<<>>) = {}
  BY <1>3 DEF Jobs
<1>5. ChainValid(store[JobStore])
  BY <1>3, <1>4 DEF ChainValid
<1> QED  BY <1>1, <1>2, <1>5 DEF JInv

(* A new revision is computed: nothing that is stored refers to its id.     *)
LEMMA SubmitStep ==
    ASSUME JInv, NEW c \in Client, NEW i \in Id, NEW state \in JobState,
           NEW inputs \in SUBSET Stored, Submit(c, i, state, inputs)
    PROVE  JInv'
<1> USE DEF JInv, Submit
<1>1. SInv'
  BY ProposeStep, JobStoreAssumption
<1>2. /\ i \notin taken /\ taken' = taken \cup {i} /\ store' = store
      /\ Stored \subseteq taken
  BY DEF Propose, Fresh, SInv, Nested
<1>3. Bodies'
  BY <1>2 DEF Bodies
<1>4. OneStore'
  BY DEF OneStore, Propose, SInv, StoreTypeOK
<1>5. Ids(store[JobStore]) \subseteq taken
  BY <1>2, StoredAt, JobStoreAssumption
<1>6. \A k \in Ids(store[JobStore]) : body'[k] = body[k]
  BY <1>2, <1>5 DEF Bodies
<1>7. ChainValid(store[JobStore])'
  BY <1>2, <1>6, ChainFrame
<1> QED  BY <1>1, <1>3, <1>4, <1>7

(* A replay stores nothing.                                                 *)
LEMMA ReplayStep ==
    ASSUME JInv, NEW c \in Client, NEW i \in Id, Replay(c, i)
    PROVE  JInv'
<1> USE DEF JInv, Replay
<1>1. SInv'
  BY StutterSInv
<1>2. Bodies' /\ OneStore'
  BY DEF Bodies, OneStore, storevars
<1>3. ChainValid(store[JobStore])'
  BY ChainFrame DEF storevars
<1> QED  BY <1>1, <1>2, <1>3

(* What create and transition compute has the type of a revision.           *)
LEMMA RootType ==
    ASSUME NEW i \in Id, NEW n \in Node, NEW k \in Key
    PROVE  Root(i, n, k) \in JobState
  BY DEF Root, JobState, Status

(* A successor is a revision.                                               *)
LEMMA SuccessorType ==
    ASSUME NEW e \in Id, body[e] \in JobState, NEW status \in Status, NEW n \in Node,
           NEW outs \in SUBSET Output, NEW more \in Nat
    PROVE  Successor(e, status, n, outs, more) \in JobState
<1>1. /\ body[e].job \in Id /\ body[e].key \in Key
      /\ body[e].revision + 1 \in Nat \ {0} /\ body[e].retry + more \in Nat
      /\ body[e].outputs \cup outs \in SUBSET Output
  BY DEF JobState
<1> QED  BY <1>1 DEF Successor, JobState

(* A creation proposes the first revision of a job.                         *)
LEMMA CreateStep ==
    ASSUME JInv, NEW c \in Client, NEW i \in Id, NEW n \in Node, NEW k \in Key, Create(c, i, n, k)
    PROVE  JInv'
  BY RootType, SubmitStep DEF Create

(* The job's ids are stored, and stored ids are allocated.                  *)
LEMMA JobIds ==
    ASSUME JInv
    PROVE  /\ store[JobStore] \in Content
           /\ Ids(store[JobStore]) \subseteq Stored
           /\ \A e \in Ids(store[JobStore]) : e \in Id /\ body[e] \in JobState
<1>1. store[JobStore] \in Content
  BY JobStoreAssumption DEF JInv, SInv, StoreTypeOK
<1>2. Ids(store[JobStore]) \subseteq Stored /\ Stored \subseteq taken
  BY JobStoreAssumption, StoredAt DEF JInv, SInv, Nested
<1>3. taken \subseteq Id
  BY DEF JInv, SInv, StoreTypeOK
<1> QED  BY <1>1, <1>2, <1>3 DEF JInv, Bodies

(* A creation repeated answers from what an event names.                    *)
LEMMA ReplayCreateStep ==
    ASSUME JInv, NEW c \in Client, NEW n \in Node, NEW k \in Key, ReplayCreate(c, n, k)
    PROVE  JInv'
<1>1. PICK r \in KeyHolders(k) : Replay(c, Current(store[JobStore], body[r].job))
  BY DEF ReplayCreate
<1>2. r \in Ids(store[JobStore])
  BY DEF KeyHolders
<1>3. Current(store[JobStore], body[r].job) \in Id
  BY <1>2, JobIds, CurrentIsThere DEF JInv
<1> QED  BY <1>1, <1>3, ReplayStep

(* A move of a job.                                                         *)
LEMMA TransitionStep ==
    ASSUME JInv, NEW c \in Client, NEW i \in Id, NEW e \in Id, NEW status \in Status,
           NEW n \in Node, NEW outs \in SUBSET Output, NEW more \in Nat,
           Transition(c, i, e, status, n, outs, more)
    PROVE  JInv'
<1>1. e \in Ids(store[JobStore]) /\ Submit(c, i, Successor(e, status, n, outs, more), {e})
  BY DEF Transition
<1>2. body[e] \in JobState /\ {e} \in SUBSET Stored
  BY <1>1, JobIds
<1> QED  BY <1>1, <1>2, SuccessorType, SubmitStep

(* A move repeated.                                                         *)
LEMMA ReplayTransitionStep ==
    ASSUME JInv, NEW c \in Client, NEW e \in Id, ReplayTransition(c, e)
    PROVE  JInv'
  BY JobIds, ReplayStep DEF ReplayTransition

(* All requests together.                                                   *)
LEMMA RequestStep == ASSUME JInv, NEW c \in Client, JobRequest(c) PROVE JInv'
<1>1. CASE \E i \in Id, n \in Node, k \in Key : Create(c, i, n, k)
  BY <1>1, CreateStep
<1>2. CASE \E n \in Node, k \in Key : ReplayCreate(c, n, k)
  BY <1>2, ReplayCreateStep
<1>3. CASE \E i, e \in Id, status \in Requested, n \in Node,
              outs \in SUBSET Output, more \in 0 .. 1 :
            Transition(c, i, e, status, n, outs, more)
  <2>1. 0 .. 1 \subseteq Nat
    OBVIOUS
  <2> QED  BY <1>3, <2>1, TransitionStep, RequestedAssumption
<1>4. CASE \E i, e \in Id, n \in Node : Cancel(c, i, e, n) \/ RecoverJob(c, i, e, n)
  <2>1. {"cancelled", "recovering"} \subseteq Status
    BY DEF Status, Terminal
  <2> QED  BY <1>4, <2>1, TransitionStep DEF Cancel, RecoverJob
<1>5. CASE \E e \in Id : ReplayTransition(c, e)
  BY <1>5, ReplayTransitionStep
<1> QED  BY <1>1, <1>2, <1>3, <1>4, <1>5 DEF JobRequest

-----------------------------------------------------------------------------
(* A step of a promotion: the store changes only to a valid chain.          *)
LEMMA PromoteStep == ASSUME JInv, NEW c \in Client, Promote(c) PROVE JInv'
<1> USE DEF JInv
<1> DEFINE valid == ChainValid(Proposal(c))
<1>1. Proceed(c, valid) /\ body' = body /\ answered' = answered \cup (acked' \ acked)
  BY DEF Promote
<1>2. SInv'
  BY <1>1, ProceedSInv
<1>3. /\ taken' = taken
      /\ \A d \in Client :
           pc'[d] # "idle" => pc[d] # "idle" /\ SameRequest(d)
      /\ \/ store' = store
         \/ /\ valid
            /\ pc[c] # "idle"
            /\ store' = [store EXCEPT ![work[c].store] = Proposal(c)]
  BY <1>1, ProceedFrame
<1>4. Bodies'
  <2>1. acked' \subseteq Id
    BY <1>2 DEF SInv, StoreTypeOK
  <2> QED  BY <1>1, <1>3, <2>1 DEF Bodies
<1>5. store \in [Store -> Content]
  BY DEF SInv, StoreTypeOK
<1>6. OneStore'
  BY <1>3, <1>5 DEF OneStore, SameRequest
<1>7. ChainValid(store'[JobStore])
  BY <1>3, <1>5, JobStoreAssumption DEF OneStore
<1>8. ChainValid(store[JobStore])'
  <2> DEFINE content == store'[JobStore]
  <2>1. ChainValid(content) = ChainValid(store[JobStore])'
    BY <1>1 DEF ChainValid, Revisions, Jobs, Follows, ValidRoot
  <2> QED  BY <1>7, <2>1
<1> QED  BY <1>2, <1>4, <1>6, <1>8

(* A fault, a crash or a recovery leaves the chain as it is.                *)
LEMMA JobDisturbStep == ASSUME JInv, Disturb, UNCHANGED <<body, answered>> PROVE JInv'
<1> USE DEF JInv
<1>1. SInv'
  BY DisturbSInv
<1>2. Bodies' /\ OneStore'
  BY DisturbFrame DEF Bodies, OneStore, SameRequest
<1>3. ChainValid(store[JobStore])'
  BY DisturbFrame, ChainFrame
<1> QED  BY <1>1, <1>2, <1>3

(* What changes nothing.                                                    *)
LEMMA JobStutterStep == ASSUME JInv, UNCHANGED jobvars PROVE JInv'
<1> USE DEF JInv, jobvars
<1>1. SInv'
  BY StutterSInv
<1>2. Bodies' /\ OneStore'
  BY DEF Bodies, OneStore, storevars
<1>3. ChainValid(store[JobStore])'
  BY ChainFrame DEF storevars
<1> QED  BY <1>1, <1>2, <1>3

(* Every step of the job service.                                           *)
LEMMA NextJInv == ASSUME JInv, [JobNext]_jobvars PROVE JInv'
  BY RequestStep, PromoteStep, JobDisturbStep, JobStutterStep DEF JobNext

(* A valid chain has one revision of a number and one job of a key.         *)
LEMMA JInvOneSuccessor == ASSUME JInv PROVE OneSuccessor
<1>1. acked \subseteq Ids(store[JobStore])
  <2>1. acked \subseteq Stored
    BY DEF JInv, SInv, Nested
  <2>2. \A t \in Store \ {JobStore} : Ids(store[t]) = {}
    BY DEF JInv, OneStore, Ids
  <2> QED  BY <2>1, <2>2 DEF Stored
<1> SUFFICES ASSUME NEW a \in acked, NEW b \in acked
             PROVE  /\ body[a].job = body[b].job /\ body[a].revision = body[b].revision => a = b
                    /\ body[a].key = body[b].key => body[a].job = body[b].job
  BY DEF OneSuccessor
<1>2. a \in Ids(store[JobStore]) /\ b \in Ids(store[JobStore])
  BY <1>1
<1>3. ASSUME body[a].job = body[b].job, body[a].revision = body[b].revision
      PROVE  a = b
  <2> DEFINE mine == Revisions(store[JobStore], body[a].job)
  <2>1. a \in mine /\ b \in mine /\ mine \subseteq Ids(store[JobStore])
    BY <1>2, <1>3 DEF Revisions
  <2>2. IsFiniteSet(mine)
    BY <2>1, JobIds, IdsFinite, FS_Subset
  <2>3. {body[i].revision : i \in mine} = 1 .. Cardinality(mine)
    BY <1>2 DEF JInv, ChainValid, Jobs
  <2> QED  BY <1>3, <2>1, <2>2, <2>3, NumbersDistinct
<1>4. body[a].key = body[b].key => body[a].job = body[b].job
  BY <1>2 DEF JInv, ChainValid
<1> QED  BY <1>3, <1>4

-----------------------------------------------------------------------------
(* The inductive invariant of jobs: the protocol's, and a valid chain whose *)
(* revisions keep their bodies.                                             *)
THEOREM JobInvariant == JobSpec => []JInv
<1>1. JobInit => JInv
  BY InitJInv
<1>2. JInv /\ [JobNext]_jobvars => JInv'
  BY NextJInv
<1> QED  BY <1>1, <1>2, PTL DEF JobSpec

(* Type correctness of the job service.                                     *)
THEOREM JobTypeCorrect == JobSpec => []JobTypeOK
<1>1. JInv => JobTypeOK
  BY DEF JInv, SInv, Bodies, JobTypeOK
<1> QED  BY <1>1, JobInvariant, PTL

(* The job service loses no acknowledged revision, and no other silently;   *)
(* every revision that an event names is there or still to be settled.      *)
THEOREM JobsStay == JobSpec => [](AckedDurable /\ LossIsAccounted /\ NamesResolveOrUnsettled)
<1>1. JInv => AckedDurable /\ LossIsAccounted /\ NamesResolveOrUnsettled
  BY SInvImplies DEF JInv
<1> QED  BY <1>1, JobInvariant, PTL

(* Job revisions and process events agree, except in a journal that is to   *)
(* be settled: what was installed is announced or in such a journal, and    *)
(* what is announced is stored.                                             *)
THEOREM EventsTellTheJobsHolds == JobSpec => []EventsTellTheJobs
<1>1. JInv => EventsTellTheJobs
  <2> SUFFICES ASSUME JInv PROVE EventsTellTheJobs
    OBVIOUS
  <2>1. SInv /\ NamesResolveOrUnsettled
    BY SInvImplies DEF JInv
  <2>2. recorded \subseteq Stored /\ Stored \subseteq installed
    BY <2>1 DEF SInv, Nested
  <2>3. installed \subseteq recorded \cup Unsettled
    BY <2>1 DEF SInv, Announced
  <2>4. Ids(store[JobStore]) \subseteq Stored
    BY JobStoreAssumption DEF Stored
  <2> QED  BY <2>1, <2>2, <2>3, <2>4 DEF EventsTellTheJobs, EventsWithoutState, StatesWithoutEvent
<1> QED  BY <1>1, JobInvariant, PTL

(* Two acknowledged revisions of a job have different numbers, and two      *)
(* acknowledged jobs have different keys.                                   *)
THEOREM OneSuccessorHolds == JobSpec => []OneSuccessor
<1>1. JInv => OneSuccessor
  BY JInvOneSuccessor
<1> QED  BY <1>1, JobInvariant, PTL

-----------------------------------------------------------------------------
(* What is behind the ids of the job store, and of a job caller's file.     *)
JobRecords ==
    /\ \A i \in Ids(store[JobStore]) : body[i] \in JobState
    /\ \A c \in Client :
         pc[c] # "idle" /\ work[c].store = JobStore =>
            \A i \in Ids(work[c].read) \cup {work[c].new} : body[i] \in JobState

Typed ==
    /\ body \in [Id -> JobState \cup {[job |-> NoState]}]
    /\ answered \subseteq Id
    /\ correction \in [Id -> Correction \cup {[job |-> NoState]}]
    /\ grant \in [Client -> Id \cup {NoState}]

IInv == SInv /\ Typed /\ JobRecords /\ ReferencesAlwaysHold

-----------------------------------------------------------------------------
(* One recorded job is a state that the protocol allows.                    *)
LEMMA InitStoreSInv == ASSUME IdentityInit PROVE SInv
<1> USE DEF IdentityInit
<1>1. /\ <<FirstJob>> \in Content /\ Ids(<<FirstJob>>) = {FirstJob}
      /\ Ids(<<>>) = {} /\ <<>> \in Content
  BY FirstJobAssumption DEF Content, Ids
<1>2. Stored = {FirstJob}
  BY <1>1, JobStoreAssumption DEF Stored
<1>3. StoreTypeOK
  BY <1>1, FirstJobAssumption DEF StoreTypeOK
<1>4. Carries /\ Distinct /\ Journals /\ Owned
  BY DEF Carries, Distinct, Journals, Owned
<1>5. Holding
  BY NobodyAssumption DEF Holding, Locked
<1>6. Nested /\ Announced
  BY <1>2 DEF Nested, Announced
<1> QED  BY <1>3, <1>4, <1>5, <1>6 DEF SInv

(* The first states: a recorded job, no correction.                         *)
LEMMA InitIInv == ASSUME IdentityInit PROVE IInv
<1> USE DEF IdentityInit
<1>1. SInv
  BY InitStoreSInv
<1>2. PICK n \in Node, k \in Key :
        body = [i \in Id |-> IF i = FirstJob THEN Root(i, n, k) ELSE [job |-> NoState]]
  OBVIOUS
<1>3. Root(FirstJob, n, k) \in JobState /\ Root(FirstJob, n, k).outputs = {}
  BY RootType, FirstJobAssumption DEF Root
<1>4. Typed
  BY <1>2, <1>3, FirstJobAssumption DEF Typed
<1>5. /\ store[JobStore] = <<FirstJob>> /\ Ids(<<FirstJob>>) = {FirstJob}
      /\ store[CorrectionStore] = <<>> /\ Ids(<<>>) = {}
  BY JobStoreAssumption, CorrectionStoreAssumption DEF Ids
<1>6. JobRecords
  BY <1>2, <1>3, <1>5, FirstJobAssumption DEF JobRecords
<1>7. ReferencesAlwaysHold
  BY <1>2, <1>3, <1>5, FirstJobAssumption DEF ReferencesAlwaysHold, ReferencesHold
<1> QED  BY <1>1, <1>4, <1>6, <1>7 DEF IInv

-----------------------------------------------------------------------------
(* Stored ids are allocated ids.                                            *)
LEMMA StoredIds ==
    ASSUME SInv, NEW s \in Store
    PROVE  /\ store[s] \in Content
           /\ Ids(store[s]) \subseteq Stored
           /\ Ids(store[s]) \subseteq taken
           /\ Ids(store[s]) \subseteq Id
  BY StoredAt DEF SInv, StoreTypeOK, Nested

(* The last id of a content is one of its ids.                              *)
LEMMA HeadIsThere ==
    ASSUME NEW content \in Content, content # <<>>
    PROVE  HeadOf(content) \in Ids(content)
  BY DEF HeadOf, Ids, Content

(* References hold as long as the records behind the stored ids stay.       *)
LEMMA AlwaysFrame ==
    ASSUME ReferencesAlwaysHold, store' = store,
           \A i \in Ids(store[JobStore]) : body'[i] = body[i],
           \A i \in Ids(store[CorrectionStore]) : correction'[i] = correction[i]
    PROVE  ReferencesAlwaysHold'
<1> DEFINE jobs == store[JobStore]
           corrections == store[CorrectionStore]
<1>1. ReferencesHold(jobs, corrections)
  BY DEF ReferencesAlwaysHold
<1>2. /\ \A i \in Ids(jobs) : body'[i] = body[i]
      /\ \A i \in Ids(corrections) : correction'[i] = correction[i]
      /\ jobs' = jobs /\ corrections' = corrections
  OBVIOUS
<1>3. ReferencesHold(jobs, corrections)'
  BY <1>1, <1>2 DEF ReferencesHold, Jobs
<1> QED  BY <1>3 DEF ReferencesAlwaysHold

(* The caller's authority is read: only its grant changes.                  *)
LEMMA AuthorizeStep ==
    ASSUME IInv, NEW c \in Client, NEW j \in Id, Authorize(c, j)
    PROVE  IInv'
<1> USE DEF IInv, Authorize, jobvars, storevars
<1>1. SInv'
  BY StutterSInv
<1>2. Typed' /\ JobRecords'
  BY DEF Typed, JobRecords
<1>3. ReferencesAlwaysHold'
  BY AlwaysFrame
<1> QED  BY <1>1, <1>2, <1>3

(* A request refused before it proposes anything.                           *)
LEMMA DeclineStep == ASSUME IInv, NEW c \in Client, Decline(c) PROVE IInv'
<1> USE DEF IInv, Decline, jobvars, storevars
<1>1. SInv'
  BY StutterSInv
<1>2. Typed' /\ JobRecords'
  BY DEF Typed, JobRecords
<1>3. ReferencesAlwaysHold'
  BY AlwaysFrame
<1> QED  BY <1>1, <1>2, <1>3

(* A correction repeated answers from what an event names.                  *)
LEMMA ReplayCorrectionStep == ASSUME IInv, NEW c \in Client, ReplayCorrection(c) PROVE IInv'
<1> USE DEF IInv, ReplayCorrection, Replay, storevars
<1>1. SInv'
  BY StutterSInv
<1>2. HeadOf(store[CorrectionStore]) \in Id
  BY CorrectionStoreAssumption, StoredIds, HeadIsThere
<1>3. Typed' /\ JobRecords'
  BY <1>2 DEF Typed, JobRecords
<1>4. ReferencesAlwaysHold'
  BY AlwaysFrame
<1> QED  BY <1>1, <1>3, <1>4

(* What a request allocates is new to the stores and to the other clients.  *)
LEMMA FreshIsNew ==
    ASSUME SInv, NEW c \in Client, NEW s \in Store, NEW i \in Id, NEW inputs,
           Propose(c, s, i, inputs)
    PROVE  /\ i \notin taken /\ store' = store
           /\ \A t \in Store : i \notin Ids(store[t])
           /\ pc'[c] = "proposed" /\ work'[c].store = s
           /\ work'[c].read = store[s] /\ work'[c].new = i
           /\ \A d \in Client \ {c} : pc'[d] = pc[d] /\ work'[d] = work[d]
           /\ \A d \in Client : pc[d] # "idle" =>
                i # work[d].new /\ i \notin Ids(work[d].read)
<1> USE DEF SInv, Propose
<1>1. i \notin taken /\ store' = store
  BY DEF Fresh
<1>2. \A t \in Store : i \notin Ids(store[t])
  BY <1>1, StoredIds
<1>3. /\ pc'[c] = "proposed" /\ work'[c].store = s
      /\ work'[c].read = store[s] /\ work'[c].new = i
      /\ \A d \in Client \ {c} : pc'[d] = pc[d] /\ work'[d] = work[d]
  BY DEF StoreTypeOK
<1>4. \A d \in Client : pc[d] # "idle" => i # work[d].new /\ i \notin Ids(work[d].read)
  BY <1>1 DEF Carries, Nested
<1> QED  BY <1>1, <1>2, <1>3, <1>4

(* A correction is computed; the jobs are left alone.                       *)
LEMMA CorrectStep ==
    ASSUME IInv, NEW c \in Client, NEW i \in Id, NEW operation \in Asked,
           NEW subjects \in SUBSET Paper, NEW retained \in Paper \cup {NoPaper},
           NEW supersedes \in Id \cup {NoState},
           Correct(c, i, operation, subjects, retained, supersedes)
    PROVE  IInv'
<1> USE DEF IInv
<1> DEFINE content == store[CorrectionStore]
           x == [previous |-> HeadOf(content), operation |-> operation, subjects |-> subjects,
                 retained |-> retained, supersedes |-> supersedes, job |-> grant[c]]
           inputs == {supersedes, HeadOf(content)} \ {NoState}
<1>1. /\ Granted(c) /\ WellFormed(x, Ids(content))
      /\ Propose(c, CorrectionStore, i, inputs)
      /\ correction' = [correction EXCEPT ![i] = x]
      /\ grant' = [grant EXCEPT ![c] = NoState]
      /\ UNCHANGED <<body, answered>>
  BY DEF Correct
<1>2. /\ CorrectionStore \in Store /\ CorrectionStore # JobStore /\ JobStore \in Store
      /\ operation \in Operation
  BY CorrectionStoreAssumption, JobStoreAssumption, AskedAssumption
<1>3. content \in Content /\ Ids(content) \subseteq Stored /\ Ids(content) \subseteq Id
  BY <1>2, StoredIds
<1>4. HeadOf(content) \in Ids(content) \cup {NoState}
  BY <1>3, HeadIsThere DEF HeadOf
<1>5. supersedes \in Ids(content) \cup {NoState}
  BY <1>1, <1>2 DEF WellFormed, Operation
<1>6. inputs \in SUBSET Stored
  BY <1>3, <1>4, <1>5
<1>7. SInv'
  BY <1>1, <1>2, <1>6, ProposeStep
<1>8. x \in Correction
  BY <1>1, <1>2, <1>3, <1>4 DEF Correction, Granted, Typed
<1>9. Typed'
  BY <1>1, <1>8 DEF Typed
<1>10. JobRecords'
  BY <1>1, <1>2, FreshIsNew DEF JobRecords
<1>11. \A k \in Ids(store[CorrectionStore]) : correction'[k] = correction[k]
  BY <1>1, <1>2, <1>3, FreshIsNew DEF Typed
<1>12. ReferencesAlwaysHold'
  BY <1>1, <1>2, <1>11, FreshIsNew, AlwaysFrame
<1> QED  BY <1>7, <1>9, <1>10, <1>12

(* A job's caller computes a revision; the corrections are left alone.      *)
LEMMA JobStepStep == ASSUME IInv, NEW c \in Client, JobStep(c) PROVE IInv'
<1> USE DEF IInv
<1>1. PICK i \in Id, e \in Id, status \in Requested, n \in Node, outs \in SUBSET Output :
        Transition(c, i, e, status, n, outs, 0)
  BY DEF JobStep
<1> DEFINE state == Successor(e, status, n, outs, 0)
<1>2. /\ e \in Ids(store[JobStore]) /\ Propose(c, JobStore, i, {e})
      /\ body' = [body EXCEPT ![i] = state]
      /\ UNCHANGED <<answered, correction, grant>>
  BY <1>1 DEF Transition, Submit, JobStep
<1>3. {e} \in SUBSET Stored /\ body[e] \in JobState
  BY <1>2, JobStoreAssumption, StoredIds DEF JobRecords
<1>4. state \in JobState
  BY <1>3, SuccessorType, RequestedAssumption
<1>5. SInv'
  BY <1>2, <1>3, ProposeStep, JobStoreAssumption
<1>6. Typed'
  BY <1>2, <1>4 DEF Typed
<1>7. /\ store' = store /\ i \notin Ids(store[JobStore])
      /\ work'[c].read = store[JobStore] /\ work'[c].new = i
      /\ \A d \in Client \ {c} : pc'[d] = pc[d] /\ work'[d] = work[d]
      /\ \A d \in Client : pc[d] # "idle" => i # work[d].new /\ i \notin Ids(work[d].read)
  BY <1>2, JobStoreAssumption, FreshIsNew
<1>8. body'[i] = state /\ \A k : k # i => body'[k] = body[k]
  BY <1>2 DEF Typed
<1>9. JobRecords'
  BY <1>4, <1>7, <1>8 DEF JobRecords
<1>10. ReferencesAlwaysHold'
  BY <1>2, <1>7, <1>8, AlwaysFrame
<1> QED  BY <1>5, <1>6, <1>9, <1>10

(* A step of a promotion: a store changes only to a file that was validated *)
(* against the other store as it is.                                        *)
LEMMA PromoteValidatedStep == ASSUME IInv, NEW c \in Client, PromoteValidated(c) PROVE IInv'
<1> USE DEF IInv
<1> DEFINE s == work[c].store
           valid == WorkspaceValid(s, Proposal(c))
<1>1. /\ Proceed(c, valid) /\ answered' = answered \cup (acked' \ acked)
      /\ UNCHANGED <<body, correction, grant>>
  BY DEF PromoteValidated
<1>2. SInv'
  BY <1>1, ProceedSInv
<1>3. /\ \A d \in Client : pc'[d] # "idle" => pc[d] # "idle" /\ SameRequest(d)
      /\ \/ store' = store
         \/ valid /\ pc[c] # "idle" /\ store' = [store EXCEPT ![s] = Proposal(c)]
  BY <1>1, ProceedFrame
<1>4. Typed'
  BY <1>1, <1>2 DEF Typed, SInv, StoreTypeOK
<1>5. CASE store' = store
  <2>1. JobRecords'
    BY <1>1, <1>3, <1>5 DEF JobRecords, SameRequest
  <2>2. ReferencesAlwaysHold'
    BY <1>1, <1>5, AlwaysFrame
  <2> QED  BY <1>2, <1>4, <2>1, <2>2
<1>6. CASE valid /\ pc[c] # "idle" /\ store' = [store EXCEPT ![s] = Proposal(c)]
  <2>1. /\ s \in Store /\ Ids(Proposal(c)) = Ids(work[c].read) \cup {work[c].new}
        /\ store \in [Store -> Content]
    BY <1>6, ProposalIds DEF SInv, StoreTypeOK, Carries, Work
  <2>2. \A t \in Store : store'[t] = FileOf(s, t, Proposal(c))
    BY <1>6, <2>1 DEF FileOf
  <2>3. JobRecords'
    <3>1. \A i \in Ids(store'[JobStore]) : body[i] \in JobState
      BY <1>6, <2>1, JobStoreAssumption DEF JobRecords
    <3> QED  BY <1>1, <1>3, <3>1 DEF JobRecords, SameRequest
  <2>4. ReferencesHold(store'[JobStore], store'[CorrectionStore])
    BY <1>6, <2>2, JobStoreAssumption, CorrectionStoreAssumption DEF WorkspaceValid
  <2>5. ReferencesAlwaysHold'
    BY <1>1, <2>4 DEF ReferencesAlwaysHold, ReferencesHold, Jobs
  <2> QED  BY <1>2, <1>4, <2>3, <2>5
<1> QED  BY <1>3, <1>5, <1>6

(* A death or a recovery.                                                   *)
LEMMA IdentityDisturbStep ==
    ASSUME IInv, Disturb, UNCHANGED <<body, answered, correction, grant>>
    PROVE  IInv'
<1> USE DEF IInv
<1>1. SInv'
  BY DisturbSInv
<1>2. Typed' /\ JobRecords'
  BY DisturbFrame DEF Typed, JobRecords, SameRequest
<1>3. ReferencesAlwaysHold'
  BY DisturbFrame, AlwaysFrame
<1> QED  BY <1>1, <1>2, <1>3

(* What changes nothing.                                                    *)
LEMMA IdentityStutterStep == ASSUME IInv, UNCHANGED idvars PROVE IInv'
<1> USE DEF IInv, idvars, jobvars
<1>1. SInv'
  BY StutterSInv
<1>2. Typed' /\ JobRecords'
  BY DEF Typed, JobRecords, storevars
<1>3. ReferencesAlwaysHold'
  BY AlwaysFrame DEF storevars
<1> QED  BY <1>1, <1>2, <1>3

(* Every step of jobs and corrections.                                      *)
LEMMA NextIInv == ASSUME IInv, [IdentityNext]_idvars PROVE IInv'
  BY AuthorizeStep, CorrectStep, ReplayCorrectionStep, DeclineStep, JobStepStep,
     PromoteValidatedStep, IdentityDisturbStep, IdentityStutterStep
  DEF IdentityNext

-----------------------------------------------------------------------------
(* The inductive invariant of jobs and corrections together.                *)
THEOREM IdentityInvariant == IdentitySpec => []IInv
<1>1. IdentityInit => IInv
  BY InitIInv
<1>2. IInv /\ [IdentityNext]_idvars => IInv'
  BY NextIInv
<1> QED  BY <1>1, <1>2, PTL DEF IdentitySpec

(* Type correctness of the two services together.                           *)
THEOREM IdentityTypeCorrect == IdentitySpec => []IdentityTypeOK
<1>1. IInv => IdentityTypeOK
  BY DEF IInv, SInv, Typed, IdentityTypeOK, JobTypeOK
<1> QED  BY <1>1, IdentityInvariant, PTL

(* No record of one store refers to a record of the other that is not there.*)
THEOREM ReferencesHoldAlways == IdentitySpec => []ReferencesAlwaysHold
<1>1. IInv => ReferencesAlwaysHold
  BY DEF IInv
<1> QED  BY <1>1, IdentityInvariant, PTL

(* An acknowledged correction, like an acknowledged revision, stays.        *)
THEOREM CorrectionsStay == IdentitySpec => []AckedDurable
<1>1. IInv => AckedDurable
  BY SInvImplies DEF IInv
<1> QED  BY <1>1, IdentityInvariant, PTL

-----------------------------------------------------------------------------
(* The projection is a recursive function: were there a length up to which   *)
(* no function follows the corrections, the first such one would be one      *)
(* correction longer than a function that there is.                          *)
Stands == [p \in Paper |-> p]
Projects(after, decisions, n) ==
    after = [m \in 0 .. n |->
                IF m = 0 THEN Stands ELSE Redirect(after[m - 1], decisions[m])]

(* A set of decisions has a projection: the pointers of the papers it        *)
(* decides, each numbered within the set.                                    *)
LEMMA ProjectionExists ==
    ASSUME NEW decisions, NEW n \in Nat
    PROVE  \E after : Projects(after, decisions, n)
<1> DEFINE bad == {m \in 0 .. n : ~\E after : Projects(after, decisions, m)}
<1> SUFFICES ASSUME bad # {} PROVE FALSE
  <2>1. n \notin bad => \E after : Projects(after, decisions, n)
    OBVIOUS
  <2> QED  BY <2>1
<1>1. PICK k \in bad : \A m \in bad : k <= m
  <2>1. bad \in SUBSET (0 .. n)
    OBVIOUS
  <2> HIDE DEF bad
  <2> QED  BY <2>1, FirstNumber
<1>2. k \in 0 .. n /\ ~\E after : Projects(after, decisions, k)
  OBVIOUS
<1>3. CASE k = 0
  <2> DEFINE f == [m \in 0 .. 0 |-> Stands]
  <2>1. f = [m \in 0 .. 0 |-> IF m = 0 THEN Stands ELSE Redirect(f[m - 1], decisions[m])]
    <3> HIDE DEF Stands
    <3> QED  OBVIOUS
  <2> QED  BY <1>2, <1>3, <2>1 DEF Projects
<1>4. CASE k # 0
  <2>1. k - 1 \in 0 .. n /\ k - 1 \notin bad
    BY <1>1, <1>2, <1>4
  <2>2. PICK g : Projects(g, decisions, k - 1)
    BY <2>1
  <2> DEFINE step(h, m) == IF m = 0 THEN Stands ELSE Redirect(h[m - 1], decisions[m])
             f == [m \in 0 .. k |-> step(g, m)]
  <2>3. \A m \in 0 .. k - 1 : g[m] = step(g, m)
    BY <2>2 DEF Projects
  <2>4. \A m \in 0 .. k : m # 0 => m - 1 \in 0 .. k - 1 /\ m - 1 \in 0 .. k
    BY <1>2
  <2>5. \A m \in 0 .. k - 1 : m \in 0 .. k
    BY <1>2
  <2>6. \A m \in 0 .. k - 1 : f[m] = g[m]
    <3> HIDE DEF step
    <3> QED  BY <2>3, <2>5
  <2>7. \A m \in 0 .. k : step(f, m) = step(g, m)
    <3> HIDE DEF f, Stands
    <3> QED  BY <2>4, <2>6
  <2>8. f = [m \in 0 .. k |-> step(f, m)]
    <3>1. f = [m \in 0 .. k |-> step(g, m)]
      OBVIOUS
    <3> HIDE DEF f, step
    <3> QED  BY <2>7, <3>1
  <2> QED  BY <1>2, <2>8 DEF Projects
<1> QED  BY <1>3, <1>4

(* What the projection is after no, and after one more correction.           *)
LEMMA ProjectionSteps ==
    ASSUME NEW decisions, Len(decisions) \in Nat
    PROVE  \E after : /\ CanonicalAfter(decisions) = after[Len(decisions)] /\ after[0] = Stands
                      /\ \A n \in 1 .. Len(decisions) :
                            after[n] = Redirect(after[n - 1], decisions[n])
<1> DEFINE n == Len(decisions)
           f == CHOOSE after : Projects(after, decisions, n)
<1>1. Projects(f, decisions, n)
  BY ProjectionExists
<1>2. CanonicalAfter(decisions) = f[n]
  BY DEF CanonicalAfter, Projects, Stands
<1>3. /\ f[0] = Stands
      /\ \A m \in 1 .. n : f[m] = Redirect(f[m - 1], decisions[m])
  <2> HIDE DEF f
  <2>1. \A m \in 0 .. n : f[m] = IF m = 0 THEN Stands ELSE Redirect(f[m - 1], decisions[m])
    BY <1>1 DEF Projects
  <2>2. 0 \in 0 .. n /\ \A m \in 1 .. n : m \in 0 .. n /\ m # 0
    OBVIOUS
  <2> QED  BY <2>1, <2>2
<1> HIDE DEF f
<1> QED  BY <1>2, <1>3

-----------------------------------------------------------------------------
(* Pointers of papers that all stand for themselves lead nowhere else.       *)
LEMMA StandingPapersFollow ==
    ASSUME NEW p \in Paper
    PROVE  Follow(Stands, p) = p
<1> DEFINE N == Cardinality(Paper)
           D == 0 .. N
           walks(at) == at = [n \in D |-> IF n = 0 THEN p ELSE Stands[at[n - 1]]]
           f == CHOOSE at : walks(at)
<1>1. N \in Nat
  BY PaperAssumption, FS_CardinalityType
<1>2. \A n \in D : n # 0 => n - 1 \in D
  BY <1>1
<1>3. walks([n \in D |-> p])
  <2> DEFINE g == [n \in D |-> p]
  <2>1. \A n \in D : g[n] = IF n = 0 THEN p ELSE Stands[g[n - 1]]
    <3> HIDE DEF D
    <3> QED  BY <1>2 DEF Stands
  <2>2. g = [n \in D |-> IF n = 0 THEN p ELSE Stands[g[n - 1]]]
    <3>1. g = [n \in D |-> g[n]]
      OBVIOUS
    <3> HIDE DEF g, D
    <3> QED  BY <2>1, <3>1
  <2> QED  BY <2>2
<1>4. walks(f)
  <2> HIDE DEF walks
  <2> QED  BY <1>3
<1>5. \A n \in D : f[n] = IF n = 0 THEN p ELSE Stands[f[n - 1]]
  <2> HIDE DEF f, D
  <2> QED  BY <1>4
<1> DEFINE bad == {n \in D : f[n] # p}
<1>6. bad = {}
  <2> SUFFICES ASSUME bad # {} PROVE FALSE
    OBVIOUS
  <2>1. bad \in SUBSET (0 .. N)
    OBVIOUS
  <2>2. PICK k \in bad : \A m \in bad : k <= m
    <3> HIDE DEF bad, f, N
    <3> QED  BY <1>1, <2>1, FirstNumber
  <2>3. k \in D /\ f[k] # p
    OBVIOUS
  <2> HIDE DEF f
  <2>4. k # 0 /\ f[k] = Stands[f[k - 1]] /\ k - 1 \in D
    BY <1>2, <1>5, <2>3
  <2>5. k - 1 \notin bad
    BY <1>1, <2>2, <2>3
  <2>6. f[k - 1] = p
    BY <2>4, <2>5
  <2> QED  BY <2>3, <2>4, <2>6 DEF Stands
<1>7. f[N] = p
  <2>1. N \in D
    BY <1>1
  <2> HIDE DEF f, D
  <2> QED  BY <1>6, <2>1
<1>8. Follow(Stands, p) = f[N]
  BY DEF Follow
<1> QED  BY <1>7, <1>8

-----------------------------------------------------------------------------
(* What a recorded correction is, whichever operation it is.                 *)
Decided(x) ==
    /\ x.operation \in Merging => x.retained \in Paper
    /\ x.operation = "mistaken_merge_split" => x.retained = NoPaper

(* The corrections behind a content; where one decides about a paper.        *)
Decisions(content) == [n \in 1 .. Len(content) |-> correction[content[n]]]
Deciding(x, p) == p \in x.subjects /\ x.operation \in Merging \cup {"mistaken_merge_split"}

(* The corrections are well-formed, and no pointers run in a circle.         *)
DecisionsStand ==
    /\ \A i \in Ids(store[CorrectionStore]) : Decided(correction[i])
    /\ Acyclic(Canonical(store[CorrectionStore]))

(* A well-formed correction decides where its papers point.                  *)
LEMMA WellFormedDecides ==
    ASSUME NEW x, NEW earlier, WellFormed(x, earlier), x.subjects \subseteq Paper
    PROVE  Decided(x)
<1>1. CASE x.operation = "confirmed_duplicate_merge"
  <2>1. x.retained \in x.subjects
    BY <1>1 DEF WellFormed
  <2> QED  BY <1>1, <2>1 DEF Decided
<1>2. CASE x.operation = "paper_alias"
  <2>1. x.retained \in Paper \ x.subjects
    BY <1>2 DEF WellFormed
  <2> QED  BY <1>2, <2>1 DEF Decided
<1>3. CASE x.operation = "mistaken_merge_split"
  <2>1. x.retained = NoPaper
    BY <1>3 DEF WellFormed
  <2> QED  BY <1>3, <2>1 DEF Decided, Merging
<1> QED  BY <1>1, <1>2, <1>3 DEF Decided, Merging

(* What an accepted file of corrections is.                                  *)
LEMMA ValidDecisions ==
    ASSUME NEW content \in Content, CorrectionsValid(content),
           \A i \in Ids(content) : correction[i] \in Correction
    PROVE  /\ \A i \in Ids(content) : Decided(correction[i])
           /\ Acyclic(Canonical(content))
<1>1. ASSUME NEW i \in Ids(content) PROVE Decided(correction[i])
  <2>1. PICK n \in 1 .. Len(content) : i = content[n]
    BY DEF Ids, Content
  <2>2. /\ WellFormed(correction[i], {content[m] : m \in 1 .. n - 1})
        /\ correction[i].subjects \subseteq Paper
    BY <1>1, <2>1 DEF CorrectionsValid, Correction
  <2> QED  BY <2>2, WellFormedDecides
<1>2. CASE Len(content) = 0
  <2>1. Decisions(content) = <<>> /\ Len(Decisions(content)) = 0
    BY <1>2 DEF Decisions
  <2>2. Canonical(content) = Stands
    BY <1>2, <2>1, ProjectionSteps DEF Canonical, Decisions
  <2>3. Acyclic(Stands)
    BY StandingPapersFollow DEF Acyclic, Stands
  <2> QED  BY <1>1, <2>2, <2>3
<1>3. CASE Len(content) # 0
  <2>1. Len(content) \in 1 .. Len(content)
    BY <1>3 DEF Content
  <2>2. SubSeq(content, 1, Len(content)) = content
    BY DEF Content
  <2>3. Acyclic(Canonical(SubSeq(content, 1, Len(content))))
    BY <2>1 DEF CorrectionsValid
  <2> QED  BY <1>1, <2>2, <2>3
<1> QED  BY <1>2, <1>3

(* Decisions stand as long as the corrections behind the stored ids stay.    *)
LEMMA DecisionsFrame ==
    ASSUME DecisionsStand, store' = store, store[CorrectionStore] \in Content,
           \A i \in Ids(store[CorrectionStore]) : correction'[i] = correction[i]
    PROVE  DecisionsStand'
<1> DEFINE content == store[CorrectionStore]
<1>1. \A n \in 1 .. Len(content) : content[n] \in Ids(content)
  BY DEF Ids, Content
<1>2. Decisions(content)' = Decisions(content)
  BY <1>1 DEF Decisions
<1>3. Canonical(content) = CanonicalAfter(Decisions(content))
  BY DEF Canonical, Decisions
<1>4. Canonical(content)' = CanonicalAfter(Decisions(content)')
  BY DEF Canonical, Decisions
<1>5. Canonical(content)' = Canonical(content)
  BY <1>2, <1>3, <1>4
<1>6. Acyclic(Canonical(content)')
  BY <1>5 DEF DecisionsStand
<1> QED  BY <1>6 DEF DecisionsStand

-----------------------------------------------------------------------------
(* Between two corrections of which none decides about a paper, and from the *)
(* last one that does to the end, the paper's pointer stays.                 *)
LEMMA PointerStays ==
    ASSUME NEW N \in Nat, NEW after, NEW decisions, NEW p \in Paper,
           \A n \in 1 .. N : after[n] = Redirect(after[n - 1], decisions[n]),
           NEW k \in 0 .. N, \A n \in k + 1 .. N : ~Deciding(decisions[n], p)
    PROVE  after[N][p] = after[k][p]
<1> DEFINE bad == {n \in 0 .. N : n >= k /\ after[n][p] # after[k][p]}
<1> SUFFICES ASSUME bad # {} PROVE FALSE
  OBVIOUS
<1>1. bad \in SUBSET (0 .. N)
  OBVIOUS
<1>2. PICK m \in bad : \A n \in bad : m <= n
  <2> HIDE DEF bad
  <2> QED  BY <1>1, FirstNumber
<1>3. m \in 0 .. N /\ m >= k /\ after[m][p] # after[k][p]
  OBVIOUS
<1>4. m - 1 \in 0 .. N /\ m - 1 >= k /\ m \in 1 .. N /\ m \in k + 1 .. N
  BY <1>3
<1>5. after[m - 1][p] = after[k][p]
  BY <1>2, <1>4
<1>6. after[m][p] = after[m - 1][p]
  <2>1. ~Deciding(decisions[m], p) /\ after[m] = Redirect(after[m - 1], decisions[m])
    BY <1>4
  <2> QED  BY <2>1 DEF Redirect, Deciding
<1> QED  BY <1>3, <1>5, <1>6

(* Where a paper points after all corrections.                               *)
LEMMA PointerIsLastDecision ==
    ASSUME NEW content \in Content, NEW p \in Paper,
           \A i \in Ids(content) : Decided(correction[i])
    PROVE  Canonical(content)[p] = PointsAt(content, p)
<1> DEFINE N == Len(content)
           ds == Decisions(content)
           touching == {n \in DOMAIN content : Touches(content[n], p)}
<1>1. N \in Nat /\ DOMAIN content = 1 .. N /\ Len(ds) = N
  BY DEF Content, Decisions
<1>2. \A n \in 1 .. N : ds[n] = correction[content[n]] /\ content[n] \in Ids(content)
  BY <1>1 DEF Decisions, Ids
<1>3. \A n \in 1 .. N : n \in touching <=> Deciding(ds[n], p)
  BY <1>1, <1>2 DEF Touches, Deciding
<1>4. PICK after : /\ CanonicalAfter(ds) = after[N] /\ after[0] = Stands
                   /\ \A n \in 1 .. N : after[n] = Redirect(after[n - 1], ds[n])
  <2> HIDE DEF ds
  <2> QED  BY <1>1, ProjectionSteps
<1>5. Canonical(content) = after[N]
  BY <1>4 DEF Canonical, Decisions
<1>6. CASE touching = {}
  <2>1. \A n \in 0 + 1 .. N : ~Deciding(ds[n], p)
    BY <1>3, <1>6
  <2>2. 0 \in 0 .. N
    BY <1>1
  <2>3. after[N][p] = after[0][p]
    <3> HIDE DEF ds, N
    <3> QED  BY <1>1, <1>4, <2>1, <2>2, PointerStays
  <2>4. PointsAt(content, p) = p
    BY <1>6 DEF PointsAt
  <2> QED  BY <1>4, <1>5, <2>3, <2>4 DEF Stands
<1>7. CASE touching # {}
  <2> DEFINE last == CHOOSE n \in touching : \A m \in touching : m <= n
  <2>1. touching \in SUBSET (1 .. N)
    BY <1>1
  <2>2. \E n \in touching : \A m \in touching : m <= n
    <3> HIDE DEF touching, N
    <3> QED  BY <1>1, <1>7, <2>1, LastNumber
  <2>3. last \in touching /\ \A m \in touching : m <= last
    <3> HIDE DEF touching
    <3> QED  BY <2>2
  <2>4. PointsAt(content, p) =
          IF correction[content[last]].retained = NoPaper THEN p
          ELSE correction[content[last]].retained
    BY <1>7 DEF PointsAt
  <2> HIDE DEF last
  <2>5. last \in 1 .. N /\ last \in 0 .. N /\ last - 1 \in 0 .. N
    BY <1>1, <2>1, <2>3
  <2>6. \A n \in last + 1 .. N : ~Deciding(ds[n], p)
    <3>1. \A n \in last + 1 .. N : n \in 1 .. N /\ ~(n <= last)
      BY <1>1, <2>5
    <3> HIDE DEF ds, touching
    <3> QED  BY <1>3, <2>3, <3>1
  <2>7. after[N][p] = after[last][p]
    <3> HIDE DEF ds, N, touching
    <3> QED  BY <1>1, <1>4, <2>5, <2>6, PointerStays
  <2> DEFINE x == ds[last]
  <2>8. x = correction[content[last]] /\ Decided(x) /\ Deciding(x, p)
    BY <1>2, <1>3, <2>3, <2>5
  <2>9. after[last] = Redirect(after[last - 1], x)
    BY <1>4, <2>5
  <2> HIDE DEF x
  <2>10. CASE x.operation \in Merging
    <3>1. after[last][p] = x.retained /\ x.retained # NoPaper
      BY <2>8, <2>9, <2>10, NoPaperAssumption DEF Redirect, Deciding, Decided
    <3> QED  BY <1>5, <2>4, <2>7, <2>8, <3>1
  <2>11. CASE x.operation = "mistaken_merge_split"
    <3>1. after[last][p] = p /\ x.retained = NoPaper
      BY <2>8, <2>9, <2>11 DEF Redirect, Deciding, Decided, Merging
    <3> QED  BY <1>5, <2>4, <2>7, <2>8, <3>1
  <2> QED  BY <2>8, <2>10, <2>11 DEF Deciding
<1> QED  BY <1>6, <1>7

-----------------------------------------------------------------------------
(* Recorded corrections are corrections, for the jobs behind them are jobs.  *)
LEMMA RecordedCorrections ==
    ASSUME IInv
    PROVE  /\ store[CorrectionStore] \in Content
           /\ \A i \in Ids(store[CorrectionStore]) : correction[i] \in Correction
<1>1. store[CorrectionStore] \in Content /\ Ids(store[CorrectionStore]) \subseteq Id
  BY StoredIds, CorrectionStoreAssumption DEF IInv
<1>2. ASSUME NEW i \in Ids(store[CorrectionStore]) PROVE correction[i] \in Correction
  <2>1. correction[i].job \in Jobs(store[JobStore])
    BY <1>2 DEF IInv, ReferencesAlwaysHold, ReferencesHold
  <2>2. correction[i].job \in Id
    BY <2>1 DEF Jobs, IInv, JobRecords, JobState
  <2>3. correction[i] \in Correction \cup {[job |-> NoState]}
    BY <1>1, <1>2 DEF IInv, Typed
  <2> QED  BY <2>2, <2>3, NoStateAssumption
<1> QED  BY <1>1, <1>2

(* What a step does to the corrections: nothing, or the file that is put     *)
(* there was validated.                                                      *)
LEMMA CorrectionsChange ==
    ASSUME IInv, [IdentityNext]_idvars
    PROVE  \/ /\ store' = store
              /\ \A i \in Ids(store[CorrectionStore]) : correction'[i] = correction[i]
           \/ /\ correction' = correction
              /\ CorrectionsValid(store'[CorrectionStore])
<1>1. CASE UNCHANGED idvars
  BY <1>1 DEF idvars, jobvars, storevars
<1>2. CASE Disturb /\ UNCHANGED <<body, answered, correction, grant>>
  BY <1>2, DisturbFrame DEF IInv
<1>3. ASSUME NEW c \in Client, NEW j \in Id, Authorize(c, j)
      PROVE  store' = store /\ correction' = correction
  BY <1>3 DEF Authorize, jobvars, storevars
<1>4. ASSUME NEW c \in Client, Decline(c) \/ ReplayCorrection(c) \/ JobStep(c)
      PROVE  store' = store /\ correction' = correction
  BY <1>4 DEF Decline, jobvars, storevars, ReplayCorrection, Replay, JobStep, Transition,
       Submit, Propose
<1>5. ASSUME NEW c \in Client, NEW i \in Id, NEW operation \in Asked,
             NEW subjects \in SUBSET Paper \ {{}}, NEW retained \in Paper \cup {NoPaper},
             NEW supersedes \in Id \cup {NoState},
             Correct(c, i, operation, subjects, retained, supersedes)
      PROVE  /\ store' = store
             /\ \A k \in Ids(store[CorrectionStore]) : correction'[k] = correction[k]
  <2>1. \E inputs, x : /\ Propose(c, CorrectionStore, i, inputs)
                       /\ correction' = [correction EXCEPT ![i] = x]
    BY <1>5 DEF Correct
  <2>2. store' = store /\ i \notin Ids(store[CorrectionStore])
    BY <2>1, FreshIsNew, CorrectionStoreAssumption DEF IInv
  <2> QED  BY <2>1, <2>2 DEF IInv, Typed
<1>6. ASSUME NEW c \in Client, PromoteValidated(c)
      PROVE  /\ correction' = correction
             /\ store' = store \/ CorrectionsValid(store'[CorrectionStore])
  <2> DEFINE s == work[c].store
             valid == WorkspaceValid(s, Proposal(c))
  <2>1. Proceed(c, valid) /\ UNCHANGED <<body, correction, grant>>
    BY <1>6 DEF PromoteValidated
  <2>2. \/ store' = store
        \/ valid /\ pc[c] # "idle" /\ store' = [store EXCEPT ![s] = Proposal(c)]
    BY <2>1, ProceedFrame DEF IInv
  <2>3. CASE valid /\ pc[c] # "idle" /\ store' = [store EXCEPT ![s] = Proposal(c)]
    <3>1. store'[CorrectionStore] = FileOf(s, CorrectionStore, Proposal(c))
      BY <2>3, CorrectionStoreAssumption DEF FileOf, IInv, SInv, StoreTypeOK
    <3>2. CorrectionsValid(FileOf(s, CorrectionStore, Proposal(c)))
      BY <2>3 DEF WorkspaceValid
    <3> QED  BY <2>1, <3>1, <3>2
  <2> QED  BY <2>1, <2>2, <2>3
<1> QED  BY <1>1, <1>2, <1>3, <1>4, <1>5, <1>6 DEF IdentityNext

(* At first no correction is recorded.                                       *)
LEMMA DecisionsInit == ASSUME IdentityInit PROVE DecisionsStand
<1>1. store[CorrectionStore] = <<>> /\ Ids(<<>>) = {} /\ <<>> \in Content
  BY CorrectionStoreAssumption DEF IdentityInit, Ids, Content
<1>2. CorrectionsValid(<<>>)
  BY DEF CorrectionsValid
<1>3. Acyclic(Canonical(<<>>))
  BY <1>1, <1>2, ValidDecisions
<1> QED  BY <1>1, <1>3 DEF DecisionsStand

(* Every step keeps the corrections in order.                                *)
LEMMA DecisionsNext ==
    ASSUME IInv, IInv', DecisionsStand, [IdentityNext]_idvars
    PROVE  DecisionsStand'
<1>1. CASE store' = store /\ \A i \in Ids(store[CorrectionStore]) : correction'[i] = correction[i]
  BY <1>1, DecisionsFrame, RecordedCorrections
<1>2. CASE correction' = correction /\ CorrectionsValid(store'[CorrectionStore])
  <2> DEFINE content == store'[CorrectionStore]
  <2>1. content \in Content /\ \A i \in Ids(content) : correction[i] \in Correction
    <3>1. (/\ store[CorrectionStore] \in Content
           /\ \A i \in Ids(store[CorrectionStore]) : correction[i] \in Correction)'
      BY RecordedCorrections, PTL
    <3> QED  BY <1>2, <3>1
  <2>2. /\ \A i \in Ids(content) : Decided(correction[i])
        /\ Acyclic(Canonical(content))
    BY <1>2, <2>1, ValidDecisions
  <2>3. Canonical(store[CorrectionStore])' = Canonical(content)
    BY <1>2 DEF Canonical
  <2> QED  BY <1>2, <2>2, <2>3 DEF DecisionsStand
<1> QED  BY <1>1, <1>2, CorrectionsChange

(* Whatever was corrected around it, a paper's identity is decided by the    *)
(* last correction that merged, aliased or split it, and following the       *)
(* pointers ends at a paper that stands for itself.                          *)
THEOREM IdentityDecided == IdentitySpec => []IdentityIsLastDecision
<1>1. IdentityInit => DecisionsStand
  BY DecisionsInit
<1>2. IInv /\ IInv' /\ DecisionsStand /\ [IdentityNext]_idvars => DecisionsStand'
  BY DecisionsNext
<1>3. IInv /\ DecisionsStand => IdentityIsLastDecision
  BY RecordedCorrections, PointerIsLastDecision
  DEF DecisionsStand, IdentityIsLastDecision, Acyclic
<1> QED  BY <1>1, <1>2, <1>3, IdentityInvariant, PTL DEF IdentitySpec

-----------------------------------------------------------------------------
(* The history of a job, of any ids, bodies and announced ids: the revisions *)
(* of the job up to the last one that is announced.                          *)
Mine(ids, b, j) == {i \in ids : b[i].job = j}
Upto(mine, b, rec) == {i \in mine : \E k \in mine \cap rec : b[i].revision <= b[k].revision}
Numbered(durable, b) ==
    [n \in 1 .. Cardinality(durable) |-> b[CHOOSE i \in durable : b[i].revision = n]]
HistoryOf(ids, b, rec, j) == Numbered(Upto(Mine(ids, b, j), b, rec), b)

(* What a valid chain says of the ids in it and of what is behind them.      *)
Link(k, p, s) ==
    /\ s.predecessor = k /\ s.key = p.key /\ p.status \notin Terminal
    /\ p.outputs \subseteq s.outputs /\ p.retry <= s.retry
Chained(ids, b) ==
    /\ IsFiniteSet(ids)
    /\ \A i, k \in ids : b[i].key = b[k].key => b[i].job = b[k].job
    /\ \A i \in ids : LET mine == Mine(ids, b, b[i].job) IN
         /\ {b[k].revision : k \in mine} = 1 .. Cardinality(mine)
         /\ b[i].revision # 1 =>
              \E k \in mine : b[k].revision = b[i].revision - 1 /\ Link(k, b[k], b[i])

(* A job's revisions, in order, up to the last that is announced.            *)
Trace(ids, b, rec, j, K, at) ==
    /\ K \in Nat
    /\ \A n \in 1 .. K : at[n] \in Mine(ids, b, j) /\ b[at[n]].revision = n
    /\ K # 0 => at[K] \in rec
    /\ \A i \in Mine(ids, b, j) \cap rec : b[i].revision \in 1 .. K
    /\ \A n \in 1 .. K - 1 : Link(at[n], b[at[n]], b[at[n + 1]])

(* The numbers of a job's revisions are distinct.                            *)
LEMMA NumbersApart ==
    ASSUME NEW ids, NEW b, Chained(ids, b), NEW j,
           NEW x \in Mine(ids, b, j), NEW y \in Mine(ids, b, j), b[x].revision = b[y].revision
    PROVE  x = y
<1> DEFINE mine == Mine(ids, b, j)
           n == Cardinality(mine)
           f == [i \in mine |-> b[i].revision]
<1>1. IsFiniteSet(mine) /\ n \in Nat
  BY FS_Subset, FS_CardinalityType DEF Chained, Mine
<1>2. {b[k].revision : k \in mine} = 1 .. n
  <2>1. x \in ids /\ b[x].job = j
    BY DEF Mine
  <2> QED  BY <2>1 DEF Chained
<1>3. f \in Surjection(mine, 1 .. n)
  BY <1>2 DEF Surjection
<1>4. Cardinality(1 .. n) = n
  BY <1>1, FS_Interval
<1>5. f \in Injection(mine, 1 .. n)
  BY <1>1, <1>3, <1>4, FS_SurjSameCardinalityImpliesInj
<1>6. f[x] = f[y]
  OBVIOUS
<1> QED  BY <1>5, <1>6 DEF Injection, IsInjective

(* The history of a job is the bodies along such a trace.                    *)
LEMMA HistoryShape ==
    ASSUME NEW ids, NEW b, Chained(ids, b), NEW rec, NEW j
    PROVE  \E K, at : /\ Trace(ids, b, rec, j, K, at)
                      /\ HistoryOf(ids, b, rec, j) = [n \in 1 .. K |-> b[at[n]]]
<1> DEFINE mine == Mine(ids, b, j)
           N == Cardinality(mine)
           D == Upto(mine, b, rec)
           R == {b[i].revision : i \in mine \cap rec}
<1>1. IsFiniteSet(mine) /\ N \in Nat
  BY FS_Subset, FS_CardinalityType DEF Chained, Mine
<1>2. \A i \in mine : i \in ids /\ b[i].job = j
  BY DEF Mine
<1>3. mine # {} => {b[k].revision : k \in mine} = 1 .. N
  BY <1>2 DEF Chained
<1>4. \A i \in mine : b[i].revision \in 1 .. N
  BY <1>3
<1>5. CASE R = {}
  <2>1. mine \cap rec = {}
    BY <1>5
  <2>2. D = {} /\ Cardinality(D) = 0
    <3>1. D = {}
      BY <2>1 DEF Upto
    <3> HIDE DEF D
    <3> QED  BY <3>1, FS_EmptySet
  <2> DEFINE at == <<>>
  <2>3. Trace(ids, b, rec, j, 0, at)
    BY <2>1 DEF Trace
  <2>4. HistoryOf(ids, b, rec, j) = [n \in 1 .. 0 |-> b[at[n]]]
    <3>1. HistoryOf(ids, b, rec, j) = Numbered(D, b)
      BY DEF HistoryOf
    <3> HIDE DEF D, at
    <3> QED  BY <2>2, <3>1 DEF Numbered
  <2> QED  BY <2>3, <2>4
<1>6. CASE R # {}
  <2>1. R \in SUBSET (1 .. N)
    BY <1>4
  <2>2. PICK K \in R : \A r \in R : r <= K
    <3> HIDE DEF R, N
    <3> QED  BY <1>1, <1>6, <2>1, LastNumber
  <2>3. PICK top \in mine \cap rec : b[top].revision = K
    BY <2>2
  <2>4. K \in 1 .. N /\ K \in Nat
    BY <1>1, <2>1, <2>2
  <2>5. \A i \in mine \cap rec : b[i].revision \in 1 .. K
    <3>1. \A i \in mine \cap rec : b[i].revision <= K /\ b[i].revision \in 1 .. N
      BY <1>4, <2>2
    <3> QED  BY <2>4, <3>1
  <2>6. D = {i \in mine : b[i].revision \in 1 .. K}
    <3>1. ASSUME NEW i \in mine, NEW k \in mine \cap rec, b[i].revision <= b[k].revision
          PROVE  b[i].revision \in 1 .. K
      BY <1>1, <1>4, <2>4, <2>5, <3>1
    <3>2. ASSUME NEW i \in mine, b[i].revision \in 1 .. K
          PROVE  b[i].revision <= b[top].revision
      BY <2>3, <2>4, <3>2
    <3> HIDE DEF mine
    <3> QED  BY <2>3, <3>1, <3>2 DEF Upto
  <2> DEFINE f == [i \in D |-> b[i].revision]
  <2>7. f \in Bijection(D, 1 .. K)
    <3>1. \A n \in 1 .. K : \E i \in mine : b[i].revision = n
      <4>1. \A n \in 1 .. K : n \in 1 .. N
        <5> HIDE DEF N
        <5> QED  BY <1>1, <2>4
      <4> HIDE DEF mine, N
      <4> QED  BY <1>3, <2>3, <4>1
    <3>2. \A x, y \in D : b[x].revision = b[y].revision => x = y
      BY <2>6, NumbersApart
    <3> HIDE DEF D, mine
    <3>3. f \in [D -> 1 .. K]
      BY <2>6
    <3>4. \A n \in 1 .. K : \E i \in D : f[i] = n
      BY <2>6, <3>1
    <3>5. \A x, y \in D : f[x] = f[y] => x = y
      BY <3>2
    <3> QED  BY <3>3, <3>4, <3>5 DEF Bijection, Injection, Surjection, IsInjective
  <2>8. Cardinality(D) = K
    <3>1. IsFiniteSet(D)
      BY <1>1, <2>6, FS_Subset
    <3>2. IsFiniteSet(1 .. K) /\ Cardinality(1 .. K) = K
      BY <2>4, FS_Interval
    <3>3. ExistsBijection(D, 1 .. K)
      <4> HIDE DEF D, f
      <4> QED  BY <2>7 DEF ExistsBijection
    <3> HIDE DEF D
    <3> QED  BY <3>1, <3>2, <3>3, FS_Bijection
  <2> DEFINE at == [n \in 1 .. K |-> CHOOSE i \in D : b[i].revision = n]
  <2>9. \A n \in 1 .. K : at[n] \in D /\ b[at[n]].revision = n
    <3>1. \A n \in 1 .. K : \E i \in D : b[i].revision = n
      <4> HIDE DEF D
      <4> QED  BY <2>7 DEF Bijection, Surjection
    <3> HIDE DEF D
    <3> QED  BY <3>1
  <2>10. \A n \in 1 .. K : at[n] \in mine
    <3> HIDE DEF at, mine
    <3> QED  BY <2>6, <2>9
  <2>11. at[K] \in rec
    <3>1. K \in 1 .. K
      BY <2>4
    <3> HIDE DEF at
    <3>2. at[K] = top
      BY <2>3, <2>9, <2>10, <3>1, NumbersApart
    <3> QED  BY <2>3, <3>2
  <2>12. ASSUME NEW n \in 1 .. K - 1 PROVE Link(at[n], b[at[n]], b[at[n + 1]])
    <3> HIDE DEF at
    <3>1. n \in 1 .. K /\ n + 1 \in 1 .. K /\ n + 1 # 1 /\ (n + 1) - 1 = n
      BY <2>4
    <3> DEFINE i == at[n + 1]
    <3>2. i \in mine /\ b[i].revision = n + 1 /\ i \in ids /\ b[i].job = j
      BY <1>2, <2>9, <2>10, <3>1
    <3> HIDE DEF i
    <3>3. PICK k \in mine : b[k].revision = b[i].revision - 1 /\ Link(k, b[k], b[i])
      BY <3>1, <3>2 DEF Chained
    <3>4. k = at[n]
      BY <2>9, <2>10, <3>1, <3>2, <3>3, NumbersApart
    <3> QED  BY <3>3, <3>4 DEF i
  <2>13. Trace(ids, b, rec, j, K, at)
    <3> HIDE DEF at
    <3> QED  BY <2>4, <2>5, <2>9, <2>10, <2>11, <2>12 DEF Trace
  <2>14. HistoryOf(ids, b, rec, j) = [n \in 1 .. K |-> b[at[n]]]
    <3>1. HistoryOf(ids, b, rec, j) = Numbered(D, b)
      BY DEF HistoryOf
    <3> HIDE DEF D
    <3>2. Numbered(D, b) = [n \in 1 .. K |-> b[CHOOSE i \in D : b[i].revision = n]]
      BY <2>8 DEF Numbered
    <3> QED  BY <3>1, <3>2
  <2> HIDE DEF at
  <2> QED  BY <2>13, <2>14
<1> QED  BY <1>5, <1>6

(* What is announced of a job stays along with what is below it: the trace   *)
(* of the job before is the beginning of its trace after.                    *)
LEMMA TraceGrows ==
    ASSUME NEW ids1, NEW b1, NEW rec1, NEW ids2, NEW b2, NEW rec2, NEW j,
           NEW K1, NEW at1, NEW K2, NEW at2, Chained(ids2, b2),
           Trace(ids1, b1, rec1, j, K1, at1), Trace(ids2, b2, rec2, j, K2, at2),
           \A i \in ids1 : b2[i] = b1[i],
           Mine(ids1, b1, j) \cap rec1 \subseteq ids2 \cap rec2
    PROVE  K1 <= K2 /\ \A n \in 1 .. K1 : at2[n] = at1[n]
<1>1. K1 \in Nat /\ K2 \in Nat
  BY DEF Trace
<1>2. CASE K1 = 0
  BY <1>1, <1>2
<1>3. CASE K1 # 0
  <2>1. K1 \in 1 .. K1
    BY <1>1, <1>3
  <2>2. /\ at1[K1] \in Mine(ids1, b1, j) \cap rec1 /\ b1[at1[K1]].revision = K1
    BY <1>3, <2>1 DEF Trace
  <2>3. /\ at1[K1] \in Mine(ids2, b2, j) \cap rec2 /\ b2[at1[K1]].revision = K1
    BY <2>2 DEF Mine
  <2>4. K1 \in 1 .. K2
    BY <2>3 DEF Trace
  <2>5. at2[K1] = at1[K1]
    <3>1. at2[K1] \in Mine(ids2, b2, j) /\ b2[at2[K1]].revision = K1
      BY <2>4 DEF Trace
    <3> QED  BY <2>3, <3>1, NumbersApart
  <2> DEFINE bad == {n \in 1 .. K1 : at2[n] # at1[n]}
  <2>6. ASSUME bad # {} PROVE FALSE
    <3>1. bad \in SUBSET (1 .. K1)
      OBVIOUS
    <3>2. PICK m \in bad : \A n \in bad : n <= m
      <4> HIDE DEF bad
      <4> QED  BY <1>1, <2>6, <3>1, LastNumber
    <3>3. m \in 1 .. K1 /\ at2[m] # at1[m] /\ m # K1
      BY <2>5
    <3>4. m + 1 \in 1 .. K1 /\ m + 1 \notin bad /\ m \in 1 .. K1 - 1 /\ m \in 1 .. K2 - 1
      BY <1>1, <2>4, <3>2, <3>3
    <3>5. at2[m + 1] = at1[m + 1]
      BY <3>4
    <3>6. b1[at1[m + 1]].predecessor = at1[m] /\ b2[at2[m + 1]].predecessor = at2[m]
      BY <3>4 DEF Trace, Link
    <3>7. b2[at1[m + 1]] = b1[at1[m + 1]]
      BY <3>4 DEF Trace, Mine
    <3> QED  BY <3>3, <3>5, <3>6, <3>7
  <2> QED  BY <1>1, <2>4, <2>6
<1> QED  BY <1>2, <1>3

(* So a history stays or grows at its end.                                   *)
LEMMA HistoryGrows ==
    ASSUME NEW ids1, NEW b1, NEW rec1, NEW ids2, NEW b2, NEW rec2, NEW j,
           Chained(ids1, b1), Chained(ids2, b2),
           \A i \in ids1 \cup ids2 : b2[i] = b1[i],
           Mine(ids1, b1, j) \cap rec1 \subseteq ids2 \cap rec2
    PROVE  LET old == HistoryOf(ids1, b1, rec1, j)
               new == HistoryOf(ids2, b2, rec2, j)
           IN  /\ Ledger!Grows(old, new) \/ new = old
               /\ Mine(ids2, b2, j) \cap rec2 \subseteq ids1 \cap rec1 => new = old
<1> DEFINE old == HistoryOf(ids1, b1, rec1, j)
           new == HistoryOf(ids2, b2, rec2, j)
<1>1. PICK K1, at1 : /\ Trace(ids1, b1, rec1, j, K1, at1)
                     /\ old = [n \in 1 .. K1 |-> b1[at1[n]]]
  BY HistoryShape
<1>2. PICK K2, at2 : /\ Trace(ids2, b2, rec2, j, K2, at2)
                     /\ new = [n \in 1 .. K2 |-> b2[at2[n]]]
  BY HistoryShape
<1> HIDE DEF old, new
<1>3. K1 <= K2 /\ \A n \in 1 .. K1 : at2[n] = at1[n]
  BY <1>1, <1>2, TraceGrows
<1>4. K1 \in Nat /\ K2 \in Nat
  BY <1>1, <1>2 DEF Trace
<1>5. \A n \in 1 .. K1 : b1[at1[n]] = b2[at2[n]]
  BY <1>1, <1>3 DEF Trace, Mine
<1>6. K1 = K2 => new = old
  BY <1>1, <1>2, <1>5
<1>7. K1 # K2 => Ledger!Grows(old, new)
  <2> SUFFICES ASSUME K1 # K2 PROVE Ledger!Grows(old, new)
    OBVIOUS
  <2> DEFINE All == {b1[at1[n]] : n \in 1 .. K1} \cup {b2[at2[n]] : n \in 1 .. K2}
  <2>1. old \in Seq(All) /\ new \in Seq(All) /\ Len(old) = K1 /\ Len(new) = K2
    BY <1>1, <1>2, <1>4
  <2>2. \A n \in 1 .. K1 : new[n] = old[n]
    BY <1>1, <1>2, <1>3, <1>4, <1>5
  <2> HIDE DEF All
  <2>3. SubSeq(new, 1, K1) = old
    BY <1>3, <1>4, <2>1, <2>2
  <2> QED  BY <1>3, <1>4, <2>1, <2>3 DEF Ledger!Grows
<1>8. ASSUME Mine(ids2, b2, j) \cap rec2 \subseteq ids1 \cap rec1
      PROVE  K2 <= K1
  BY <1>1, <1>2, <1>8, TraceGrows
<1> QED  BY <1>3, <1>4, <1>6, <1>7, <1>8 DEF old, new

(* A history is orderly, and its first revision tells the key of its job.    *)
LEMMA HistoryOrderly ==
    ASSUME NEW ids, NEW b, NEW rec, NEW j, Chained(ids, b)
    PROVE  LET h == HistoryOf(ids, b, rec, j)
           IN  /\ Ledger!Orderly(h)
               /\ h # <<>> => \E i \in Mine(ids, b, j) : h[1] = b[i]
<1> DEFINE h == HistoryOf(ids, b, rec, j)
<1>1. PICK K, at : Trace(ids, b, rec, j, K, at) /\ h = [n \in 1 .. K |-> b[at[n]]]
  BY HistoryShape
<1> HIDE DEF h
<1>2. K \in Nat /\ Len(h) = K
  BY <1>1 DEF Trace
<1>3. ASSUME NEW n \in 1 .. K - 1
      PROVE  /\ h[n].status \notin Terminal
             /\ h[n].outputs \subseteq h[n + 1].outputs
             /\ h[n].retry <= h[n + 1].retry
             /\ h[n].key = h[n + 1].key
  <2>1. n \in 1 .. K /\ n + 1 \in 1 .. K
    BY <1>2
  <2>2. h[n] = b[at[n]] /\ h[n + 1] = b[at[n + 1]]
    BY <1>1, <2>1
  <2> QED  BY <1>1, <2>2 DEF Trace, Link
<1>4. Ledger!Orderly(h)
  BY <1>2, <1>3 DEF Ledger!Orderly
<1>5. ASSUME h # <<>> PROVE \E i \in Mine(ids, b, j) : h[1] = b[i]
  <2>1. K # 0
    BY <1>1, <1>5
  <2>2. 1 \in 1 .. K
    BY <1>2, <2>1
  <2> QED  BY <1>1, <2>2 DEF Trace
<1> QED  BY <1>4, <1>5 DEF h

-----------------------------------------------------------------------------
(* The history of the model is that of its ids, bodies and events.           *)
LEMMA LedgerIs ==
    [j \in Id |-> History(j)] =
        [j \in Id |-> HistoryOf(Ids(store[JobStore]), body, recorded, j)]
  BY DEF History, Durable, Revisions, HistoryOf, Numbered, Upto, Mine

(* A valid chain is chained.                                                 *)
LEMMA ChainIsChained ==
    ASSUME NEW content \in Content, ChainValid(content),
           \A i \in Ids(content) : body[i] \in JobState
    PROVE  Chained(Ids(content), body)
<1> DEFINE ids == Ids(content)
<1>1. IsFiniteSet(ids) /\ \A i, k \in ids : body[i].key = body[k].key => body[i].job = body[k].job
  BY IdsFinite DEF ChainValid
<1>2. ASSUME NEW i \in ids
      PROVE  LET mine == Mine(ids, body, body[i].job)
             IN  /\ {body[k].revision : k \in mine} = 1 .. Cardinality(mine)
                 /\ body[i].revision # 1 =>
                      \E k \in mine : /\ body[k].revision = body[i].revision - 1
                                      /\ Link(k, body[k], body[i])
  <2> DEFINE mine == Revisions(content, body[i].job)
  <2>1. mine = Mine(ids, body, body[i].job) /\ i \in mine /\ body[i].job \in Jobs(content)
    BY DEF Revisions, Mine, Jobs
  <2>2. {body[k].revision : k \in mine} = 1 .. Cardinality(mine)
    BY <2>1 DEF ChainValid
  <2>3. ASSUME body[i].revision # 1
        PROVE  \E k \in mine : body[k].revision = body[i].revision - 1 /\ Link(k, body[k], body[i])
    <3>1. PICK k \in mine : body[k].revision = body[i].revision - 1 /\ Follows(k, body[i])
      BY <2>1, <2>3 DEF ChainValid
    <3> QED  BY <3>1 DEF Follows, Link, ValidTransition
  <2> HIDE DEF mine
  <2> QED  BY <2>1, <2>2, <2>3
<1> QED  BY <1>1, <1>2 DEF Chained

(* What the invariant says of the job store, for the lemmas above.           *)
LEMMA JobsChained ==
    ASSUME JInv
    PROVE  /\ Chained(Ids(store[JobStore]), body)
           /\ recorded \subseteq Ids(store[JobStore])
           /\ \A i \in Ids(store[JobStore]) : body[i] \in JobState
<1>1. \A t \in Store \ {JobStore} : Ids(store[t]) = {}
  BY DEF JInv, OneStore, Ids
<1>2. recorded \subseteq Ids(store[JobStore])
  BY <1>1 DEF JInv, SInv, Nested, Stored
<1> QED  BY <1>2, JobIds, ChainIsChained DEF JInv

(* An open journal puts one record at the end of its store.                  *)
JournalsEnd ==
    \A j \in open : j.after # <<>> /\ j.after[Len(j.after)] = j.new

(* What a client is about to put there ends with its record.                 *)
LEMMA JournalOfEnds ==
    ASSUME SInv, NEW c \in Client, pc[c] # "idle"
    PROVE  /\ JournalOf(c).after # <<>>
           /\ JournalOf(c).after[Len(JournalOf(c).after)] = JournalOf(c).new
<1>1. work[c].read \in Content /\ work[c].new \in Id
  BY DEF SInv, Carries, Work
<1>2. Proposal(c) # <<>> /\ Proposal(c)[Len(Proposal(c))] = work[c].new
  BY <1>1 DEF Proposal, Content
<1> QED  BY <1>2 DEF JournalOf

(* Only a client that takes the lock opens a journal.                        *)
LEMMA JournalsEndNext ==
    ASSUME JInv, JournalsEnd, [JobNext]_jobvars
    PROVE  JournalsEnd'
<1>1. \/ open' \subseteq open
      \/ \E c \in Client : pc[c] # "idle" /\ open' = open \cup {JournalOf(c)}
  <2>1. CASE UNCHANGED jobvars
    BY <2>1 DEF jobvars, storevars
  <2>2. ASSUME NEW c \in Client, JobRequest(c) PROVE open' = open
    BY <2>2 DEF JobRequest, Create, ReplayCreate, Transition, Cancel, RecoverJob,
         ReplayTransition, Replay, Submit, Propose, storevars
  <2>3. ASSUME NEW c \in Client, Promote(c)
        PROVE  open' \subseteq open \/ (pc[c] # "idle" /\ open' = open \cup {JournalOf(c)})
    BY <2>3 DEF Promote, Proceed, TakeToken, Conflict, Prepare, Replace, Refuse, RecordFailure,
         Record, Close
  <2>4. CASE Disturb
    BY <2>4 DEF Disturb, FailedWrite, RecordFailure, Stop, Recover
  <2> QED  BY <2>1, <2>2, <2>3, <2>4 DEF JobNext
<1> QED  BY <1>1, JournalOfEnds DEF JournalsEnd, JInv

(* A step announces at most one revision; the ones announced before stay.    *)
LEMMA AnnouncedGrow ==
    ASSUME JInv, JInv', JournalsEnd, [JobNext]_jobvars
    PROVE  /\ recorded \subseteq recorded'
           /\ \E x : recorded' \subseteq recorded \cup {x}
<1>1. CASE UNCHANGED jobvars
  BY <1>1 DEF jobvars, storevars
<1>2. ASSUME NEW c \in Client, JobRequest(c) PROVE recorded' = recorded
  BY <1>2 DEF JobRequest, Create, ReplayCreate, Transition, Cancel, RecoverJob,
       ReplayTransition, Replay, Submit, Propose, storevars
<1>3. ASSUME NEW c \in Client, Promote(c)
      PROVE  recorded' = recorded \/ recorded' = recorded \cup {work[c].new}
  BY <1>3 DEF Promote, Proceed, TakeToken, Conflict, Prepare, Replace, Refuse, RecordFailure,
       Record, Close
<1>4. ASSUME NEW c \in Client, FailedWrite(c) \/ Stop(c) PROVE recorded' = recorded
  BY <1>4 DEF FailedWrite, RecordFailure, Stop
<1>5. ASSUME NEW visited \in SUBSET open, Recover(visited)
      PROVE  LET x == store[JobStore][Len(store[JobStore])]
             IN  recorded \subseteq recorded' /\ recorded' \subseteq recorded \cup {x}
  <2> DEFINE x == store[JobStore][Len(store[JobStore])]
  <2>1. recorded' = recorded \cup {j.new : j \in {k \in visited : Holds(k, k.after)}}
    BY <1>5 DEF Recover
  <2>2. ASSUME NEW j \in visited, Holds(j, j.after) PROVE j.new = x
    <3>1. j.after # <<>> /\ j.after[Len(j.after)] = j.new /\ store[j.store] = j.after
      BY <2>2 DEF JournalsEnd, Holds
    <3>2. j.store \in Store
      BY DEF JInv, SInv, StoreTypeOK, Journal
    <3>3. j.store = JobStore
      BY <3>1, <3>2 DEF JInv, OneStore
    <3> QED  BY <3>1, <3>3
  <2> QED  BY <2>1, <2>2
<1> QED  BY <1>1, <1>2, <1>3, <1>4, <1>5 DEF JobNext, Disturb

(* The revisions behind the job store's ids stay, and so do those behind the *)
(* ids of the file that replaces it.                                         *)
LEMMA BodiesStay ==
    ASSUME JInv, JInv', [JobNext]_jobvars
    PROVE  \A i \in Ids(store[JobStore]) \cup Ids(store'[JobStore]) : body'[i] = body[i]
<1>1. ASSUME NEW c \in Client, NEW i \in Id, NEW state, NEW inputs,
             Submit(c, i, state, inputs)
      PROVE  store' = store /\ \A k \in Ids(store[JobStore]) : body'[k] = body[k]
  <2>1. store' = store /\ i \notin Ids(store[JobStore]) /\ body' = [body EXCEPT ![i] = state]
    BY <1>1, FreshIsNew, JobStoreAssumption DEF Submit, JInv
  <2> QED  BY <2>1 DEF JInv, Bodies
<1>2. ASSUME NEW c \in Client, JobRequest(c)
      PROVE  store' = store /\ \A k \in Ids(store[JobStore]) : body'[k] = body[k]
  <2>1. \/ \E i \in Id : \E state, inputs : Submit(c, i, state, inputs)
        \/ \E i : Replay(c, i)
    BY <1>2 DEF JobRequest, Create, ReplayCreate, Transition, Cancel, RecoverJob,
         ReplayTransition
  <2>2. CASE \E i : Replay(c, i)
    BY <2>2 DEF Replay, storevars
  <2> QED  BY <1>1, <2>1, <2>2
<1>3. CASE body' = body
  BY <1>3
<1>4. CASE UNCHANGED jobvars
  BY <1>4 DEF jobvars
<1> QED  BY <1>2, <1>3, <1>4 DEF JobNext, Promote

-----------------------------------------------------------------------------
(* At first no job has a history.                                            *)
LEMMA LedgerInit == ASSUME JobInit PROVE Ledger!LInit
<1>1. Ids(store[JobStore]) = {}
  BY JobStoreAssumption DEF JobInit, StoreInit, Ids
<1>2. ASSUME NEW j \in Id PROVE History(j) = <<>>
  <2>1. Durable(j) = {}
    BY <1>1 DEF Durable, Revisions
  <2>2. Cardinality(Durable(j)) = 0
    BY <2>1, FS_EmptySet
  <2> QED  BY <2>2 DEF History
<1> QED  BY <1>2 DEF Ledger!LInit

(* Every step extends the history of one job, or of none.                    *)
LEMMA LedgerNext ==
    ASSUME JInv, JInv', JournalsEnd, [JobNext]_jobvars
    PROVE  [\E j \in Id : Ledger!Extend(j)]_([j \in Id |-> History(j)])
<1> DEFINE ids1 == Ids(store[JobStore])
           ids2 == Ids(store'[JobStore])
           old(j) == HistoryOf(ids1, body, recorded, j)
           new(j) == HistoryOf(ids2, body', recorded', j)
           L1 == [j \in Id |-> old(j)]
           L2 == [j \in Id |-> new(j)]
<1>1. Chained(ids1, body) /\ recorded \subseteq ids1 /\ \A i \in ids1 : body[i] \in JobState
  BY JobsChained
<1>2. Chained(ids2, body') /\ recorded' \subseteq ids2 /\ \A i \in ids2 : body'[i] \in JobState
  <2>1. (/\ Chained(Ids(store[JobStore]), body)
         /\ recorded \subseteq Ids(store[JobStore])
         /\ \A i \in Ids(store[JobStore]) : body[i] \in JobState)'
    BY JobsChained, PTL
  <2> QED  BY <2>1
<1>3. \A i \in ids1 \cup ids2 : body'[i] = body[i]
  BY BodiesStay
<1>4. PICK x : recorded' \subseteq recorded \cup {x}
  BY AnnouncedGrow
<1>5. recorded \subseteq recorded'
  BY AnnouncedGrow
<1> HIDE DEF ids1, ids2
<1>6. ASSUME NEW j
      PROVE  /\ Ledger!Grows(old(j), new(j)) \/ new(j) = old(j)
             /\ body'[x].job # j => new(j) = old(j)
  <2>1. Mine(ids1, body, j) \cap recorded \subseteq ids2 \cap recorded'
    BY <1>2, <1>5
  <2>2. body'[x].job # j => Mine(ids2, body', j) \cap recorded' \subseteq ids1 \cap recorded
    BY <1>1, <1>4 DEF Mine
  <2> QED  BY <1>1, <1>2, <1>3, <2>1, <2>2, HistoryGrows
<1>7. [j \in Id |-> History(j)] = L1
  BY LedgerIs DEF ids1
<1>8. [j \in Id |-> History(j)]' = L2
  <2>1. ([j \in Id |-> History(j)] =
           [j \in Id |-> HistoryOf(Ids(store[JobStore]), body, recorded, j)])'
    BY LedgerIs, PTL
  <2> QED  BY <2>1 DEF ids2
<1>9. \A j \in Id : Ledger!Orderly(new(j))
  BY <1>2, HistoryOrderly
<1>10. ASSUME NEW i \in Id, NEW j \in Id, new(i) # <<>>, new(j) # <<>>,
              new(i)[1].key = new(j)[1].key
       PROVE  i = j
  <2>1. PICK a \in Mine(ids2, body', i) : new(i)[1] = body'[a]
    BY <1>2, <1>10, HistoryOrderly
  <2>2. PICK d \in Mine(ids2, body', j) : new(j)[1] = body'[d]
    BY <1>2, <1>10, HistoryOrderly
  <2>3. a \in ids2 /\ body'[a].job = i /\ d \in ids2 /\ body'[d].job = j
    BY DEF Mine
  <2> QED  BY <1>2, <1>10, <2>1, <2>2, <2>3 DEF Chained
<1> HIDE DEF old, new
<1>11. CASE \A j \in Id : new(j) = old(j)
  BY <1>7, <1>8, <1>11
<1>12. ASSUME NEW j \in Id, new(j) # old(j) PROVE Ledger!Extend(j)
  <2>1. body'[x].job = j /\ Ledger!Grows(old(j), new(j))
    BY <1>6, <1>12
  <2>2. \A k \in Id \ {j} : new(k) = old(k)
    BY <1>6, <2>1
  <2>3. L2 = [L1 EXCEPT ![j] = L2[j]]
    BY <2>2
  <2>4. L1[j] = old(j) /\ L2[j] = new(j)
    OBVIOUS
  <2>5. Ledger!Grows(L1[j], L2[j]) /\ Ledger!Orderly(L2[j])
    BY <1>9, <2>1, <2>4
  <2>6. \A i, k \in {m \in Id : L2[m] # <<>>} : L2[i][1].key = L2[k][1].key => i = k
    BY <1>10
  <2> HIDE DEF L1, L2
  <2> QED  BY <1>7, <1>8, <2>3, <2>5, <2>6 DEF Ledger!Extend, Ledger!KeysAreUnique
<1> QED  BY <1>11, <1>12

(* Jobs implement the ledger: whatever callers, faults and recoveries do,    *)
(* the announced history of every job only grows at its end, as JobLedger    *)
(* allows, and a key has one job.                                            *)
THEOREM JobsImplementLedger == JobSpec => ImplementsJobLedger
<1>1. JobInit => Ledger!LInit /\ JournalsEnd
  BY LedgerInit DEF JobInit, StoreInit, JournalsEnd
<1>2. JInv /\ JournalsEnd /\ [JobNext]_jobvars => JournalsEnd'
  BY JournalsEndNext
<1>3. JInv /\ JInv' /\ JournalsEnd /\ [JobNext]_jobvars
        => [\E j \in Id : Ledger!Extend(j)]_([j \in Id |-> History(j)])
  BY LedgerNext
<1> QED  BY <1>1, <1>2, <1>3, JobInvariant, PTL DEF JobSpec, ImplementsJobLedger, Ledger!LSpec
=============================================================================
