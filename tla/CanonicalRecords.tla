--------------------------- MODULE CanonicalRecords ---------------------------
(* The scientific records of one paper and what is derived from them:        *)
(* Paper Card, Evidence and Review Queue items, or else a Review Memory; the  *)
(* question mapping that selects the card's unit, and a Research Synthesis   *)
(* candidate that rests on the mapping (services/records.py,                 *)
(* review_memory.py, question_mapping.py, step7_candidate.py,                *)
(* step7_support.py).  A promotion reads the workspace without the lock,     *)
(* puts the time into its record, takes the digest of its file, and commits  *)
(* under the lock if the digest still holds and the whole workspace with the *)
(* new record is valid.  Each file has its own digest, so what one promotion *)
(* has read in the file of another is guarded by that validation alone.      *)
EXTENDS WorkspaceBase
CONSTANTS
    Writer,     \* promotions that may run at once
    Evidence,   \* items that may support the card's unit
    Queue,      \* review-queue items that may bound it
    MaxClock    \* bound: the last timestamp; three were taken before
ASSUME RecordsAssumption == MaxClock \in Nat /\ MaxClock >= 3

Item == Evidence \cup Queue
Derived == {"card", "memory", "mapping", "candidate"}
ASSUME ItemsAreApart == Item \cap Derived = {}
Store == Derived \cup Item
Time == 0..MaxClock

VARIABLES
    record,  \* what each store holds about the paper
    parse,   \* the active parse: it may be replaced once
    clock,   \* the last timestamp taken
    call     \* per writer: the promotion under way
recordsVars == <<record, parse, clock, call>>

(* A record has the time of its last writing, says whether the user has      *)
(* reviewed or approved it, and has the items the unit cites, or those the   *)
(* mapping or the candidate has taken from the unit.  A memory has its parse; *)
(* the basis of a candidate are the records it was derived from, by their    *)
(* times, which tell two records of a store apart, as their digests do.      *)
Record == [at : Time, human : BOOLEAN, cites : SUBSET Item, parse : 0..2,
           basis : [Store -> Time]]
NoBasis == [s \in Store |-> 0]
Promotion == [store : Store, user : BOOLEAN, token : {Nothing} \cup Time, parse : 0..2,
              record : Record]
ASSUME NothingIsNoRecord == Nothing \notin Record
RecordsTypeOK ==
    /\ record \in [Store -> {Nothing} \cup Record] /\ call \in [Writer -> {Nothing} \cup Promotion]
    /\ parse \in {1, 2} /\ clock \in Time

-----------------------------------------------------------------------------
There(s) == record[s] # Nothing
TimeOf(s) == IF There(s) THEN record[s].at ELSE 0
\* A unit is grounded or revised if and only if it cites evidence.
Factual == There("card") /\ record["card"].cites \cap Evidence # {}
Newer(sources, time) == \E s \in sources : TimeOf(s) > time

(* _mapping_is_stale, also mapping_freshness_diagnostics.                    *)
MappingIsStale ==
    \/ Newer({"card"} \cup record["mapping"].cites, TimeOf("mapping"))
    \/ record["card"].cites \cap Evidence # record["mapping"].cites \cap Evidence
    \/ ~(record["card"].cites \subseteq record["mapping"].cites)
(* derive_support_closure: the items a candidate rests on, if it may.        *)
Admissible == There("mapping") /\ Factual /\ ~MappingIsStale
ClosureWithUnit ==  \* Mutation: the unit counts among its own items.
    {"card"} \cup record["card"].cites
Closure == record["card"].cites
(* _upstream_signature, a digest of the records themselves.                  *)
Signature == [s \in Store |-> IF s \in {"card", "mapping"} \cup Closure THEN TimeOf(s) ELSE 0]
(* candidate_freshness.                                                      *)
CandidateIsCurrent ==
    /\ ~Newer({"mapping", "card"} \cup record["candidate"].cites \cup Closure, TimeOf("candidate"))
    /\ record["candidate"].cites = Closure

-----------------------------------------------------------------------------
(* What validate_workspace_entries asks of these records.                    *)
RoutesApart == There("memory") => \A s \in {"card"} \cup Evidence : ~There(s)
CardIsGrounded == There("card") => \A i \in record["card"].cites : There(i)
MappingIsExplained == There("mapping") =>
    /\ There("card") /\ \A i \in record["mapping"].cites : There(i)
    /\ \/ Newer({"card"} \cup record["mapping"].cites, TimeOf("mapping"))
       \/ /\ record["card"].cites \cap Evidence = record["mapping"].cites \cap Evidence
          /\ record["card"].cites \subseteq record["mapping"].cites
CandidateIsExplained == There("candidate") =>
    /\ There("mapping") /\ There("card") /\ \A i \in record["candidate"].cites : There(i)
    /\ \/ Newer({"card"}, TimeOf("candidate"))
       \/ Factual /\ record["candidate"].cites = Closure
ValidUnexplained ==  \* Mutation: references resolve, closures are not compared.
    /\ RoutesApart /\ CardIsGrounded
    /\ There("mapping") => There("card") /\ \A i \in record["mapping"].cites : There(i)
    /\ There("candidate") => There("mapping") /\ \A i \in record["candidate"].cites : There(i)
RecordsValid == RoutesApart /\ CardIsGrounded /\ MappingIsExplained /\ CandidateIsExplained

-----------------------------------------------------------------------------
(* A promotion after its unlocked checks.  Only the user gives or replaces a *)
(* review; what else the user may write an agent may write too.              *)
BeginPromotion(w, s, human, cites, basis) ==
    /\ call[w] = Nothing /\ clock < MaxClock
    /\ call' = [call EXCEPT ![w] =
         [store |-> s, user |-> human \/ (There(s) /\ record[s].human),
          token |-> Nothing, parse |-> 0,
          record |-> [at |-> 0, human |-> human, cites |-> cites, basis |-> basis,
                      parse |-> IF s = "memory" THEN parse ELSE 0]]]
    /\ UNCHANGED <<record, parse, clock>>

PromoteCard(w) ==
    /\ ~There("memory")
    /\ \E human \in BOOLEAN, cites \in SUBSET {i \in Item : There(i)} :
        BeginPromotion(w, "card", human, cites, NoBasis)
PromoteItem(w) == \E i \in Item, human \in BOOLEAN :
    /\ i \in Evidence => ~There("memory")
    /\ BeginPromotion(w, i, human, {}, NoBasis)
PromoteMemory(w) ==
    /\ \A s \in {"card"} \cup Evidence : ~There(s)
    /\ \E human \in BOOLEAN : BeginPromotion(w, "memory", human, {}, NoBasis)
\* The link takes the unit's items and may name more boundaries.
PromoteMapping(w) ==
    /\ Factual
    /\ \E more \in SUBSET {i \in Queue : There(i)} :
        BeginPromotion(w, "mapping", FALSE, record["card"].cites \cup more, NoBasis)
\* An approval receipt is the user's; an approved candidate needs a new one.
PromoteCandidate(w) ==
    /\ Admissible
    /\ \E approved \in BOOLEAN : BeginPromotion(w, "candidate", approved, Closure, Signature)

\* updated_at is set while the record is built, long before it is written.
StampRecord(w) ==
    /\ call[w] # Nothing /\ call[w].record.at = 0 /\ clock < MaxClock
    /\ clock' = clock + 1
    /\ call' = [call EXCEPT ![w].record.at = clock + 1]
    /\ UNCHANGED <<record, parse>>
(* file_sha256 of the target, and of the parse store for a memory.           *)
TakeRecordToken(w) ==
    /\ call[w] # Nothing /\ call[w].record.at # 0 /\ call[w].token = Nothing
    /\ call' = [call EXCEPT ![w].token = TimeOf(call[w].store), ![w].parse = parse]
    /\ UNCHANGED <<record, parse, clock>>

(* validate_temp of the stores, which sees the new record in its place.      *)
Locked(w) ==
    /\ RecordsValid'
    /\ call[w].store = "memory" => parse = call[w].parse
    /\ call[w].store = "mapping" =>
        ~Newer({"card"} \cup record["mapping"].cites, TimeOf("mapping"))'
    /\ call[w].store = "candidate" =>
        /\ Admissible' /\ Closure' = call[w].record.cites /\ CandidateIsCurrent'
        /\ Signature' = call[w].record.basis
CommitRecord(w) ==
    /\ call[w] # Nothing /\ call[w].token = TimeOf(call[w].store)
    /\ record' = [record EXCEPT ![call[w].store] = call[w].record]
    /\ call' = [call EXCEPT ![w] = Nothing]
    /\ UNCHANGED <<parse, clock>>
    /\ Locked(w)
AbandonPromotion(w) ==
    /\ call[w] # Nothing
    /\ call' = [call EXCEPT ![w] = Nothing] /\ UNCHANGED <<record, parse, clock>>
\* A new parse of the paper becomes active; a memory keeps its own.
Reparse == parse = 1 /\ parse' = 2 /\ UNCHANGED <<record, clock, call>>

(* A paper without records, or one whose card and mapping have an evidence.  *)
Draft(time, cites) ==
    [at |-> time, human |-> FALSE, cites |-> cites, parse |-> 0, basis |-> NoBasis]
RecordsInit ==
    /\ \/ record = [s \in Store |-> Nothing]
       \/ \E e \in Evidence : record = [s \in Store |->
            CASE s = e -> Draft(1, {}) [] s = "card" -> Draft(2, {e})
              [] s = "mapping" -> Draft(3, {e}) [] OTHER -> Nothing]
    /\ parse = 1 /\ clock = 3
    /\ call = [w \in Writer |-> Nothing]
RecordsNext ==
    \/ \E w \in Writer :
        \/ PromoteCard(w) \/ PromoteItem(w) \/ PromoteMemory(w)
        \/ PromoteMapping(w) \/ PromoteCandidate(w)
        \/ StampRecord(w) \/ TakeRecordToken(w) \/ CommitRecord(w) \/ AbandonPromotion(w)
    \/ Reparse
RecordsSpec == RecordsInit /\ [][RecordsNext]_recordsVars

-----------------------------------------------------------------------------
(* Two promotions into two files may each have read a paper without the      *)
(* other's record; still no paper is read both as primary and as review.     *)
(* And what has no newer card above it shows the evidence and the boundaries *)
(* of that card: a card that is committed late, under the time at which it   *)
(* was built, does not change them behind a mapping or a candidate.          *)
RecordsAgree == RoutesApart /\ MappingIsExplained /\ CandidateIsExplained

\* What Guardian reports of a candidate, as a warning.
ReportedStale == There("candidate") /\ ~CandidateIsCurrent
(* docs/workflow.md:144: "Upstream drift leaves a valid candidate readable   *)
(* as stale_upstream": one that is called current rests on what it is from.  *)
DriftShowsAsStale ==
    There("candidate") /\ ~ReportedStale => record["candidate"].basis = Signature

(* services/records.py:240: "replacing a human-reviewed record is            *)
(* user-only".                                                               *)
ReviewsStand == [][
    \A s \in Store : There(s) /\ record[s].human /\ record'[s] # record[s] =>
        \E w \in Writer : call[w] # Nothing /\ call[w].store = s /\ call[w].user]_recordsVars
=============================================================================
