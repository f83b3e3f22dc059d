---------------------------- MODULE ResearchProofs ----------------------------
(* Proofs about the scientific half of a workspace, for any number of        *)
(* callers, papers, tags, revisions and faults, and about what MCResearch    *)
(* composes.  In every component calls act on what they read before, and     *)
(* what saves them differs: the validator runs under the lock on the very    *)
(* records that result, an owner is looked up again there, a file is in one  *)
(* place only, a view's mark holds all it was rendered from, and a revision  *)
(* that is committed on an old read drops the head it has not seen.          *)
EXTENDS MCResearch, FiniteSetTheorems, TLAPS

-----------------------------------------------------------------------------
(* The records of a paper (CanonicalRecords).  What the validator asks of    *)
(* them is asked under the lock, of the very records that result, so it      *)
(* holds in every state.                                                     *)
RecordsInv == RecordsTypeOK /\ RecordsValid

(* The first states: no record, or an evidence, its card and its mapping.    *)
LEMMA RecordsInvInit == ASSUME RecordsInit PROVE RecordsInv
<1> USE RecordsAssumption, ItemsAreApart, NothingIsNoRecord
<1>1. NoBasis \in [Store -> Time] /\ {1, 2, 3} \subseteq Time
  BY DEF NoBasis, Time
<1>2. call \in [Writer -> {Nothing} \cup Promotion] /\ parse \in {1, 2} /\ clock \in Time
  BY DEF RecordsInit, Time
<1>3. CASE record = [s \in Store |-> Nothing]
  <2>1. \A s \in {"card", "memory", "mapping", "candidate"} : record[s] = Nothing
    BY <1>3 DEF Store, Derived
  <2> QED
    BY <1>2, <1>3, <2>1 DEF RecordsInv, RecordsTypeOK, RecordsValid, RoutesApart,
       CardIsGrounded, MappingIsExplained, CandidateIsExplained, There
<1>4. ASSUME NEW e \in Evidence, record = [s \in Store |->
            CASE s = e -> Draft(1, {}) [] s = "card" -> Draft(2, {e})
              [] s = "mapping" -> Draft(3, {e}) [] OTHER -> Nothing]
      PROVE  RecordsInv
  <2>1. e \in Item /\ e \in Store /\ e \notin Derived /\ Derived \subseteq Store
    BY DEF Item, Store
  <2>2. /\ Draft(1, {}) \in Record /\ Draft(2, {e}) \in Record /\ Draft(3, {e}) \in Record
        /\ Draft(2, {e}).cites = {e} /\ Draft(3, {e}).cites = {e}
    BY <1>1, <2>1 DEF Draft, Record
  <2>3. /\ record[e] = Draft(1, {}) /\ record["card"] = Draft(2, {e})
        /\ record["mapping"] = Draft(3, {e})
        /\ record["memory"] = Nothing /\ record["candidate"] = Nothing
    BY <1>4, <2>1 DEF Derived
  <2>4. record \in [Store -> {Nothing} \cup Record]
    <3> SUFFICES ASSUME NEW s \in Store
                 PROVE  (CASE s = e -> Draft(1, {}) [] s = "card" -> Draft(2, {e})
                           [] s = "mapping" -> Draft(3, {e}) [] OTHER -> Nothing)
                        \in {Nothing} \cup Record
      BY <1>4
    <3> QED  BY <2>1, <2>2 DEF Derived
  <2>5. There(e) /\ There("card") /\ There("mapping") /\ ~There("memory") /\ ~There("candidate")
    BY <2>2, <2>3 DEF There
  <2> QED
    BY <1>2, <2>2, <2>3, <2>4, <2>5 DEF RecordsInv, RecordsTypeOK, RecordsValid, RoutesApart,
       CardIsGrounded, MappingIsExplained, CandidateIsExplained
<1> QED  BY <1>3, <1>4 DEF RecordsInit

(* A promotion that begins carries a record of the type of its store.        *)
LEMMA PromotionBegins ==
    ASSUME RecordsInv, NEW w \in Writer, NEW s \in Store, NEW human \in BOOLEAN,
           NEW cites \in SUBSET Item, NEW basis \in [Store -> Time],
           BeginPromotion(w, s, human, cites, basis)
    PROVE  RecordsTypeOK' /\ record' = record
<1>1. record \in [Store -> {Nothing} \cup Record] /\ call \in [Writer -> {Nothing} \cup Promotion]
      /\ parse \in {1, 2} /\ clock \in Time
  BY DEF RecordsInv, RecordsTypeOK
<1> DEFINE user == human \/ (There(s) /\ record[s].human)
           draft == [at |-> 0, human |-> human, cites |-> cites, basis |-> basis,
                     parse |-> IF s = "memory" THEN parse ELSE 0]
           begun == [store |-> s, user |-> user, token |-> Nothing, parse |-> 0, record |-> draft]
<1>2. user \in BOOLEAN
  BY <1>1 DEF There, Record
<1>3. draft \in Record
  BY <1>1, RecordsAssumption DEF Record, Time
<1> HIDE DEF draft, user
<1>4. begun \in Promotion
  BY <1>2, <1>3 DEF Promotion
<1>5. call' = [call EXCEPT ![w] = begun] /\ record' = record /\ parse' = parse /\ clock' = clock
  BY DEF BeginPromotion, user, draft
<1> HIDE DEF begun
<1> QED  BY <1>1, <1>4, <1>5 DEF RecordsTypeOK

(* Every unlocked check leads to such a beginning.                           *)
LEMMA RequestsBegin ==
    ASSUME RecordsInv, NEW w \in Writer,
           PromoteCard(w) \/ PromoteItem(w) \/ PromoteMemory(w) \/ PromoteMapping(w)
           \/ PromoteCandidate(w)
    PROVE  RecordsTypeOK' /\ record' = record
<1>1. record \in [Store -> {Nothing} \cup Record]
  BY DEF RecordsInv, RecordsTypeOK
<1>2. NoBasis \in [Store -> Time] /\ Derived \subseteq Store /\ Item \subseteq Store
      /\ Evidence \subseteq Item /\ Queue \subseteq Item
  BY RecordsAssumption DEF NoBasis, Time, Store, Item
<1>3. \A s \in Store : TimeOf(s) \in Time
  BY <1>1, RecordsAssumption DEF TimeOf, There, Record, Time
<1>4. There("card") => record["card"].cites \subseteq Item
  BY <1>1, <1>2 DEF There, Record, Derived
<1>5. CASE PromoteCard(w)
  <2>1. PICK human \in BOOLEAN, cites \in SUBSET {i \in Item : There(i)} :
          BeginPromotion(w, "card", human, cites, NoBasis)
    BY <1>5 DEF PromoteCard
  <2> QED  BY <1>2, <2>1, PromotionBegins DEF Derived
<1>6. CASE PromoteItem(w)
  <2>1. PICK i \in Item, human \in BOOLEAN : BeginPromotion(w, i, human, {}, NoBasis)
    BY <1>6 DEF PromoteItem
  <2> QED  BY <1>2, <2>1, PromotionBegins
<1>7. CASE PromoteMemory(w)
  <2>1. PICK human \in BOOLEAN : BeginPromotion(w, "memory", human, {}, NoBasis)
    BY <1>7 DEF PromoteMemory
  <2> QED  BY <1>2, <2>1, PromotionBegins DEF Derived
<1>8. CASE PromoteMapping(w)
  <2>1. PICK more \in SUBSET {i \in Queue : There(i)} :
          BeginPromotion(w, "mapping", FALSE, record["card"].cites \cup more, NoBasis)
    BY <1>8 DEF PromoteMapping
  <2>2. record["card"].cites \cup more \in SUBSET Item
    BY <1>2, <1>4, <1>8 DEF PromoteMapping, Factual
  <2> QED  BY <1>2, <2>1, <2>2, PromotionBegins DEF Derived
<1>9. CASE PromoteCandidate(w)
  <2>1. PICK approved \in BOOLEAN : BeginPromotion(w, "candidate", approved, Closure, Signature)
    BY <1>9 DEF PromoteCandidate
  <2>2. Closure \in SUBSET Item
    BY <1>4, <1>9 DEF PromoteCandidate, Admissible, Factual, Closure
  <2>3. Signature \in [Store -> Time]
    BY <1>3, RecordsAssumption DEF Signature, Time
  <2> QED  BY <1>2, <2>1, <2>2, <2>3, PromotionBegins DEF Derived
<1> QED  BY <1>5, <1>6, <1>7, <1>8, <1>9

(* The steps of a promotion under way.                                       *)
LEMMA PromotionMoves ==
    ASSUME RecordsInv, NEW w \in Writer,
           StampRecord(w) \/ TakeRecordToken(w) \/ AbandonPromotion(w)
    PROVE  RecordsTypeOK' /\ record' = record
<1>1. record \in [Store -> {Nothing} \cup Record] /\ call \in [Writer -> {Nothing} \cup Promotion]
      /\ parse \in {1, 2} /\ clock \in Time
  BY DEF RecordsInv, RecordsTypeOK
<1>2. CASE StampRecord(w)
  <2>1. PICK p \in Promotion : p = call[w]
    BY <1>1, <1>2 DEF StampRecord
  <2> DEFINE draft == [p.record EXCEPT !.at = clock + 1]
             new == [p EXCEPT !.record = draft]
  <2>2. clock + 1 \in Time /\ clock' = clock + 1 /\ record' = record /\ parse' = parse
    BY <1>1, <1>2, RecordsAssumption DEF StampRecord, Time
  <2>3. draft \in Record
    BY <2>1, <2>2 DEF Promotion, Record
  <2> HIDE DEF draft
  <2>4. new \in Promotion
    BY <2>1, <2>3 DEF Promotion
  <2>5. call' = [call EXCEPT ![w] = new]
    BY <1>1, <1>2, <2>1 DEF StampRecord, draft
  <2> HIDE DEF new
  <2> QED  BY <1>1, <2>2, <2>4, <2>5 DEF RecordsTypeOK
<1>3. CASE TakeRecordToken(w)
  <2>1. PICK p \in Promotion : p = call[w]
    BY <1>1, <1>3 DEF TakeRecordToken
  <2>2. TimeOf(p.store) \in Time
    BY <1>1, <2>1, RecordsAssumption DEF TimeOf, There, Record, Time, Promotion
  <2> DEFINE time == TimeOf(p.store)
             new == [p EXCEPT !.token = time, !.parse = parse]
  <2> HIDE DEF time
  <2>3. new \in Promotion
    <3>1. time \in {Nothing} \cup Time /\ parse \in 0..2
      BY <1>1, <2>2 DEF time
    <3> QED  BY <2>1, <3>1 DEF Promotion
  <2>4. call' = [call EXCEPT ![w] = new] /\ record' = record /\ parse' = parse /\ clock' = clock
    BY <1>1, <1>3, <2>1 DEF TakeRecordToken, time
  <2> HIDE DEF new
  <2> QED  BY <1>1, <2>3, <2>4 DEF RecordsTypeOK
<1>4. CASE AbandonPromotion(w)
  BY <1>1, <1>4 DEF AbandonPromotion, RecordsTypeOK
<1> QED  BY <1>2, <1>3, <1>4

(* A commit is validated with the record it installs.                        *)
LEMMA RecordCommits ==
    ASSUME RecordsInv, NEW w \in Writer, CommitRecord(w)
    PROVE  RecordsInv'
<1>1. record \in [Store -> {Nothing} \cup Record] /\ call \in [Writer -> {Nothing} \cup Promotion]
      /\ parse \in {1, 2} /\ clock \in Time
  BY DEF RecordsInv, RecordsTypeOK
<1>2. PICK p \in Promotion : p = call[w]
  BY <1>1 DEF CommitRecord
<1>3. p.store \in Store /\ p.record \in Record
  BY <1>2 DEF Promotion
<1>4. record' = [record EXCEPT ![p.store] = p.record] /\ call' = [call EXCEPT ![w] = Nothing]
      /\ parse' = parse /\ clock' = clock /\ RecordsValid'
  BY <1>2 DEF CommitRecord, Locked
<1> QED  BY <1>1, <1>3, <1>4 DEF RecordsInv, RecordsTypeOK

(* What the validator says rests on the records alone.                       *)
LEMMA RecordsStayValid == ASSUME RecordsInv, record' = record PROVE RecordsValid'
  BY DEF RecordsInv, RecordsValid, RoutesApart, CardIsGrounded, MappingIsExplained,
     CandidateIsExplained, There, Newer, TimeOf, Factual, Closure

(* Every step of the writers, and a new parse.                               *)
LEMMA RecordsInvNext == ASSUME RecordsInv, [RecordsNext]_recordsVars PROVE RecordsInv'
<1>1. CASE UNCHANGED recordsVars
  BY <1>1, RecordsStayValid DEF recordsVars, RecordsInv, RecordsTypeOK
<1>2. CASE Reparse
  BY <1>2, RecordsStayValid DEF Reparse, RecordsInv, RecordsTypeOK
<1>3. ASSUME NEW w \in Writer, CommitRecord(w) PROVE RecordsInv'
  BY <1>3, RecordCommits
<1>4. ASSUME NEW w \in Writer,
             \/ PromoteCard(w) \/ PromoteItem(w) \/ PromoteMemory(w)
             \/ PromoteMapping(w) \/ PromoteCandidate(w)
             \/ StampRecord(w) \/ TakeRecordToken(w) \/ AbandonPromotion(w)
      PROVE  RecordsInv'
  BY <1>4, RequestsBegin, PromotionMoves, RecordsStayValid DEF RecordsInv
<1> QED  BY <1>1, <1>2, <1>3, <1>4 DEF RecordsNext

(* The inductive invariant of a paper's records.                             *)
THEOREM RecordsInvariant == RecordsSpec => []RecordsInv
  BY RecordsInvInit, RecordsInvNext, PTL DEF RecordsSpec

(* Routes stay apart, and a mapping or candidate without a newer card above  *)
(* it shows that card's items, whatever promotions overlap                   *)
(* (contracts/validator.py, _cross_record_diagnostics).                      *)
THEOREM RecordsAgreeAlways == RecordsSpec => []RecordsAgree
<1>1. RecordsInv => RecordsAgree
  BY DEF RecordsInv, RecordsValid, RecordsAgree
<1> QED  BY <1>1, RecordsInvariant, PTL

-----------------------------------------------------------------------------
(* The organization of the library (ResearchOrganization).  Promotions       *)
(* compute chains from old reads, but every owner, target and basis is       *)
(* looked up again under the lock, and a bundle that has a revision keeps    *)
(* having one.                                                               *)
OneActive == \A k, m \in ActiveCriteria : k = m
OneDecided == \A d, e \in Existing(Decision) : d = e
(* The tag of an assignment under way is there.                              *)
EditsHaveTags ==
    \A c \in Editor : edit[c] # Nothing /\ edit[c].file \in Link =>
        bundle[edit[c].content.tag] # <<>>
Owned ==
    /\ VocabularyIsOwned /\ AssignmentsAreOwned /\ TargetsAreThere /\ DecidedPaperIsThere
    /\ OneActive /\ OneDecided
OrganizationInv == OrganizationTypeOK /\ Owned /\ EditsHaveTags

(* What each kind of file holds.                                             *)
LEMMA KindsOfBundles ==
    /\ Tag \cup Link \cup Criteria \cup Decision \subseteq Bundle
    /\ {"direction", "field", "question", "mapping"} \subseteq Bundle
    /\ \A b \in Tag : BundleContent(b) = TagContent
    /\ \A b \in Link : BundleContent(b) = LinkContent
    /\ \A b \in Criteria : BundleContent(b) = CriteriaContent
    /\ \A b \in Decision : BundleContent(b) = DecisionContent
    /\ BundleContent("field") = FieldContent
    /\ \A b \in {"direction", "question", "mapping"} : BundleContent(b) = WordedContent
  BY BundlesAreApart DEF Bundle, BundleContent, Plain

(* The revisions of a file, and the last of them.                            *)
LEMMA TipsAreTyped ==
    ASSUME OrganizationTypeOK, NEW b \in Bundle
    PROVE  /\ bundle[b] \in Revisions(b) /\ HeadId(b) \in 0..MaxRevisions
           /\ bundle[b] # <<>> => Tip(b) \in BundleContent(b) /\ Newest(b).id \in 1..MaxRevisions
<1>1. bundle[b] \in Revisions(b)
  BY DEF OrganizationTypeOK
<1>2. CASE bundle[b] = <<>>
  BY <1>1, <1>2, OrganizationAssumption DEF HeadId
<1>3. CASE bundle[b] # <<>>
  <2>1. Len(bundle[b]) \in 1..Len(bundle[b])
    BY <1>1, <1>3 DEF Revisions
  <2> DEFINE OfFile == [id : 1..MaxRevisions, follows : 0..MaxRevisions,
        content : BundleContent(b)]
  <2>2. \A r \in OfFile : r.id \in 1..MaxRevisions /\ r.content \in BundleContent(b)
    OBVIOUS
  <2>3. bundle[b] \in Seq(OfFile)
    BY <1>1 DEF Revisions
  <2> HIDE DEF OfFile
  <2>4. Newest(b) \in OfFile
    BY <2>1, <2>3 DEF Newest
  <2> QED  BY <1>1, <1>3, <2>2, <2>4, OrganizationAssumption DEF HeadId, Tip
<1> QED  BY <1>2, <1>3

(* A promotion that begins has the type of its file and changes no file.     *)
LEMMA EditBegins ==
    ASSUME OrganizationInv, NEW c \in Editor, NEW b \in Bundle, NEW content \in BundleContent(b),
           NEW follows \in 0..MaxRevisions, BeginEdit(c, b, content, follows),
           b \in Link => bundle[content.tag] # <<>>
    PROVE  OrganizationTypeOK' /\ EditsHaveTags'
             /\ UNCHANGED <<topic, bundle, minted, reported, paper>>
<1> USE DEF OrganizationInv
<1> DEFINE new == [file |-> b, base |-> bundle[b], token |-> Nothing,
                   follows |-> follows, content |-> content]
<1>1. new \in EditOf(b)
  BY TipsAreTyped DEF EditOf
<1>2. new.file = b /\ new.content = content
  OBVIOUS
<1>3. edit' = [edit EXCEPT ![c] = new] /\ UNCHANGED <<topic, bundle, minted, reported, paper>>
  BY DEF BeginEdit
<1> HIDE DEF new
<1>4. \A d \in Editor : edit'[d] = IF d = c THEN new ELSE edit[d]
  BY <1>3 DEF OrganizationTypeOK
<1>5. DOMAIN edit' = Editor
  BY <1>3 DEF OrganizationTypeOK
<1>6. OrganizationTypeOK'
  BY <1>1, <1>3, <1>4, <1>5 DEF OrganizationTypeOK, Revisions
<1>7. EditsHaveTags'
  BY <1>2, <1>3, <1>4 DEF EditsHaveTags
<1> QED  BY <1>3, <1>6, <1>7

(* Tags, assignments, directions and field-map entries.                      *)
LEMMA TagEditsBegin ==
    ASSUME OrganizationInv, NEW c \in Editor, EditTag(c) \/ AssignTag(c) \/ EditPlain(c)
    PROVE  OrganizationTypeOK' /\ EditsHaveTags'
             /\ UNCHANGED <<topic, bundle, minted, reported, paper>>
<1> USE DEF OrganizationInv
<1>1. CASE EditTag(c)
  <2>1. PICK t \in Tag, name \in Name, status \in {"active", "archived"}, keeps \in BOOLEAN :
          LET had == IF bundle[t] = <<>> THEN {} ELSE {Tip(t).name}
              given == IF keeps /\ bundle[t] # <<>> THEN Tip(t).aliases ELSE {}
              content == [name |-> name, aliases |-> (given \cup had) \ {name}, status |-> status]
          IN  BeginEdit(c, t, content, HeadId(t))
    BY <1>1 DEF EditTag
  <2> DEFINE had == IF bundle[t] = <<>> THEN {} ELSE {Tip(t).name}
             given == IF keeps /\ bundle[t] # <<>> THEN Tip(t).aliases ELSE {}
             content == [name |-> name, aliases |-> (given \cup had) \ {name}, status |-> status]
  <2>2. t \in Bundle /\ t \notin Link /\ BundleContent(t) = TagContent
    BY KindsOfBundles, BundlesAreApart
  <2>3. had \subseteq Name /\ given \subseteq Name
    <3>1. bundle[t] # <<>> => Tip(t) \in TagContent
      BY <2>2, TipsAreTyped
    <3>2. bundle[t] # <<>> => Tip(t).name \in Name /\ Tip(t).aliases \subseteq Name
      BY <3>1 DEF TagContent
    <3> QED  BY <3>2
  <2> HIDE DEF had, given
  <2>4. content \in BundleContent(t)
    BY <2>2, <2>3 DEF TagContent
  <2>5. BeginEdit(c, t, content, HeadId(t))
    BY <2>1 DEF had, given
  <2> HIDE DEF content
  <2> QED  BY <2>2, <2>4, <2>5, TipsAreTyped, EditBegins
<1>2. CASE AssignTag(c)
  <2>1. PICK l \in Link, content \in LinkContent :
          bundle[content.tag] # <<>> /\ BeginEdit(c, l, content, HeadId(l))
    BY <1>2 DEF AssignTag
  <2>2. l \in Bundle /\ BundleContent(l) = LinkContent
    BY KindsOfBundles
  <2> QED  BY <2>1, <2>2, TipsAreTyped, EditBegins
<1>3. CASE EditPlain(c)
  <2>1. /\ "direction" \in Bundle \ Link /\ BundleContent("direction") = WordedContent
        /\ "field" \in Bundle \ Link /\ BundleContent("field") = FieldContent
    BY KindsOfBundles, BundlesAreApart DEF Plain
  <2>2. HeadId("direction") \in 0..MaxRevisions /\ HeadId("field") \in 0..MaxRevisions
    BY <2>1, TipsAreTyped
  <2>3. ASSUME NEW content \in WordedContent, BeginEdit(c, "direction", content,
               HeadId("direction"))
        PROVE  OrganizationTypeOK' /\ EditsHaveTags'
                 /\ UNCHANGED <<topic, bundle, minted, reported, paper>>
    BY <2>1, <2>2, <2>3, EditBegins
  <2>4. ASSUME NEW ref \in {0, HeadId("direction")},
               BeginEdit(c, "field", [direction |-> ref], HeadId("field"))
        PROVE  OrganizationTypeOK' /\ EditsHaveTags'
                 /\ UNCHANGED <<topic, bundle, minted, reported, paper>>
    <3>1. ref \in 0..MaxRevisions
      BY <2>1, TipsAreTyped, OrganizationAssumption
    <3>2. [direction |-> ref] \in BundleContent("field")
      BY <2>1, <3>1 DEF FieldContent
    <3> QED  BY <2>1, <2>2, <2>4, <3>2, EditBegins
  <2> QED  BY <1>3, <2>3, <2>4 DEF EditPlain
<1> QED  BY <1>1, <1>2, <1>3

(* Criteria, decisions and questions.                                        *)
LEMMA ScreeningEditsBegin ==
    ASSUME OrganizationInv, NEW c \in Editor,
           EditCriteria(c) \/ Screen(c) \/ EditQuestion(c) \/ ReplaceMapping(c)
    PROVE  OrganizationTypeOK' /\ EditsHaveTags'
             /\ UNCHANGED <<topic, bundle, minted, reported, paper>>
<1> USE DEF OrganizationInv
<1>1. CASE EditCriteria(c)
  <2>1. PICK k \in Criteria, content \in CriteriaContent : BeginEdit(c, k, content, HeadId(k))
    BY <1>1 DEF EditCriteria
  <2>2. k \in Bundle \ Link /\ BundleContent(k) = CriteriaContent
    BY KindsOfBundles, BundlesAreApart
  <2> QED  BY <2>1, <2>2, TipsAreTyped, EditBegins
<1>2. CASE Screen(c)
  <2>1. PICK d \in Decision, k \in ActiveCriteria, outcome \in {"included", "excluded"} :
          BeginEdit(c, d, [basis |-> Newest(k).id, outcome |-> outcome], HeadId(d))
    BY <1>2 DEF Screen
  <2>2. d \in Bundle \ Link /\ BundleContent(d) = DecisionContent /\ k \in Bundle
          /\ bundle[k] # <<>>
    BY KindsOfBundles, BundlesAreApart DEF ActiveCriteria, Existing
  <2>3. [basis |-> Newest(k).id, outcome |-> outcome] \in BundleContent(d)
    BY <2>2, TipsAreTyped DEF DecisionContent
  <2> QED  BY <2>1, <2>2, <2>3, TipsAreTyped, EditBegins
<1>3. CASE EditQuestion(c)
  <2>1. /\ "question" \in Bundle \ Link /\ BundleContent("question") = WordedContent
        /\ "mapping" \in Bundle
    BY KindsOfBundles, BundlesAreApart DEF Plain
  <2>2. HeadId("mapping") \in 0..MaxRevisions /\ HeadId("question") \in 0..MaxRevisions
    BY <2>1, TipsAreTyped
  <2>3. PICK content \in WordedContent : BeginEdit(c, "question", content,
              IF bundle["question"] = <<>> THEN HeadId("mapping") ELSE HeadId("question"))
    BY <1>3 DEF EditQuestion
  <2> QED  BY <2>1, <2>2, <2>3, EditBegins
<1>4. CASE ReplaceMapping(c)
  <2>1. "mapping" \in Bundle \ Link /\ BundleContent("mapping") = WordedContent
    BY KindsOfBundles, BundlesAreApart DEF Plain
  <2>2. PICK content \in WordedContent : BeginEdit(c, "mapping", content, 0)
    BY <1>4 DEF ReplaceMapping
  <2> QED  BY <2>1, <2>2, EditBegins, OrganizationAssumption
<1> QED  BY <1>1, <1>2, <1>3, <1>4
(* A call that ends or takes its token.                                      *)
LEMMA EditMoves ==
    ASSUME OrganizationInv, NEW c \in Editor, TakeBundleToken(c) \/ AbandonEdit(c)
    PROVE  OrganizationTypeOK' /\ EditsHaveTags'
             /\ UNCHANGED <<topic, bundle, minted, reported, paper>>
<1> USE DEF OrganizationInv
<1>1. CASE TakeBundleToken(c)
  <2>0. PICK b \in Bundle : edit[c] \in EditOf(b)
    BY <1>1 DEF TakeBundleToken, OrganizationTypeOK
  <2>1. PICK e \in EditOf(b) : e = edit[c]
    BY <2>0
  <2> DEFINE new == [e EXCEPT !.token = bundle[b]]
  <2>2. e.file = b /\ bundle[b] \in Revisions(b)
    BY TipsAreTyped DEF EditOf
  <2>3. new \in EditOf(b) /\ new.file = b /\ new.content = e.content
    <3> DEFINE token == bundle[b]
    <3>1. token \in {Nothing} \cup Revisions(b)
      BY <2>2
    <3> HIDE DEF token
    <3>2. [e EXCEPT !.token = token] \in EditOf(b) /\ [e EXCEPT !.token = token].file = b
          /\ [e EXCEPT !.token = token].content = e.content
      BY <3>1 DEF EditOf
    <3> QED  BY <3>2 DEF token
  <2>4. edit' = [edit EXCEPT ![c] = new] /\ UNCHANGED <<topic, bundle, minted, reported, paper>>
    BY <1>1, <2>1, <2>2 DEF TakeBundleToken, OrganizationTypeOK
  <2> HIDE DEF new
  <2>5. DOMAIN edit' = Editor /\ \A d \in Editor : edit'[d] = IF d = c THEN new ELSE edit[d]
    BY <2>4 DEF OrganizationTypeOK
  <2>6. OrganizationTypeOK'
    BY <2>3, <2>4, <2>5 DEF OrganizationTypeOK
  <2>7. EditsHaveTags'
    BY <1>1, <2>1, <2>2, <2>3, <2>4, <2>5 DEF EditsHaveTags, TakeBundleToken
  <2> QED  BY <2>4, <2>6, <2>7
<1>2. CASE AbandonEdit(c)
  <2>1. DOMAIN edit' = Editor /\ (\A d \in Editor : edit'[d] = IF d = c THEN Nothing ELSE edit[d])
        /\ UNCHANGED <<topic, bundle, minted, reported, paper>>
    BY <1>2 DEF AbandonEdit, OrganizationTypeOK
  <2> QED  BY <2>1 DEF OrganizationTypeOK, EditsHaveTags
<1> QED  BY <1>1, <1>2

(* What a commit of a kind with a precondition leaves.                       *)
RevisionIn(f, content) ==
    /\ f \in Bundle \ {"mapping"} /\ content \in BundleContent(f) /\ Precondition(f, content)
    /\ f \in Link => bundle[content.tag] # <<>>
    /\ \A b \in Bundle \ {f} : bundle'[b] = bundle[b]
    /\ bundle'[f] # <<>> /\ bundle'[f][Len(bundle'[f])].content = content
    /\ paper' = paper

(* A commit installs a chain of its file's type; the others stay.            *)
LEMMA ChainInstalled ==
    ASSUME OrganizationInv, NEW c \in Editor, NEW f \in Bundle, NEW chain \in Revisions(f),
           Installs(c, chain), edit[c].file = f, chain # <<>>, reported' \subseteq 1..minted'
    PROVE  /\ OrganizationTypeOK' /\ EditsHaveTags' /\ paper' = paper /\ bundle'[f] = chain
           /\ \A b \in Bundle \ {f} : bundle'[b] = bundle[b]
<1> USE DEF OrganizationInv
<1>1. /\ bundle' = [bundle EXCEPT ![f] = chain] /\ edit' = [edit EXCEPT ![c] = Nothing]
      /\ minted' = minted + 1 /\ minted < MaxRevisions /\ topic' = topic /\ paper' = paper
  BY DEF Installs
<1>2. bundle'[f] = chain /\ DOMAIN bundle' = Bundle
        /\ \A b \in Bundle \ {f} : bundle'[b] = bundle[b]
  BY <1>1 DEF OrganizationTypeOK
<1>3. DOMAIN edit' = Editor /\ \A d \in Editor : edit'[d] = IF d = c THEN Nothing ELSE edit[d]
  BY <1>1 DEF OrganizationTypeOK
<1>4. OrganizationTypeOK'
  <2>1. minted' \in 0..MaxRevisions
    BY <1>1, OrganizationAssumption DEF OrganizationTypeOK
  <2>2. \A b \in Bundle : bundle'[b] \in Revisions(b)
    BY <1>2 DEF OrganizationTypeOK
  <2> QED  BY <1>1, <1>2, <1>3, <2>1, <2>2 DEF OrganizationTypeOK
<1>5. EditsHaveTags'
  <2> SUFFICES ASSUME NEW d \in Editor, edit'[d] # Nothing, edit'[d].file \in Link
               PROVE  bundle'[edit'[d].content.tag] # <<>>
    BY DEF EditsHaveTags
  <2>1. edit'[d] = edit[d] /\ edit[d] # Nothing
    BY <1>3
  <2>2. PICK b \in Bundle : edit[d] \in EditOf(b)
    BY <2>1 DEF OrganizationTypeOK
  <2>3. b \in Link /\ edit[d].content \in LinkContent
    BY <2>1, <2>2, KindsOfBundles DEF EditOf
  <2>4. edit[d].content.tag \in Bundle /\ bundle[edit[d].content.tag] # <<>>
    BY <2>1, <2>3, KindsOfBundles DEF LinkContent, EditsHaveTags
  <2> QED  BY <1>2, <2>1, <2>4
<1> QED  BY <1>1, <1>2, <1>4, <1>5

(* A promotion that commits under its precondition.                          *)
LEMMA RevisionCommits ==
    ASSUME OrganizationInv, NEW c \in Editor, CommitRevision(c)
    PROVE  OrganizationTypeOK' /\ EditsHaveTags'
             /\ \E f \in Bundle : \E content : RevisionIn(f, content)
<1> USE DEF OrganizationInv
<1>0. PICK f \in Bundle : edit[c] \in EditOf(f)
  BY DEF CommitRevision, Matches, OrganizationTypeOK
<1>1. PICK e \in EditOf(f) : e = edit[c]
  BY <1>0
<1>2. e.file = f /\ e.base \in Revisions(f) /\ e.content \in BundleContent(f)
      /\ e.follows \in 0..MaxRevisions
  BY DEF EditOf
<1> DEFINE chain == Append(e.base, Revision(c))
<1>3. Revision(c) \in [id : 1..MaxRevisions, follows : 0..MaxRevisions,
        content : BundleContent(f)]
      /\ Revision(c).content = e.content
  BY <1>1, <1>2, OrganizationAssumption DEF Revision, CommitRevision, Installs, OrganizationTypeOK
<1>4. chain \in Revisions(f) /\ chain # <<>> /\ chain[Len(chain)].content = e.content
  <2> DEFINE OfFile == [id : 1..MaxRevisions, follows : 0..MaxRevisions,
        content : BundleContent(f)]
             new == Revision(c)
  <2>1. e.base \in Seq(OfFile) /\ new \in OfFile /\ new.content = e.content
    BY <1>2, <1>3 DEF Revisions
  <2> HIDE DEF OfFile, new
  <2>2. /\ Append(e.base, new) \in Seq(OfFile) /\ Append(e.base, new) # <<>>
        /\ Append(e.base, new)[Len(Append(e.base, new))] = new
    BY <2>1
  <2> QED  BY <2>1, <2>2 DEF OfFile, new, Revisions
<1>5. Installs(c, chain) /\ f # "mapping" /\ Precondition(f, e.content)
      /\ reported' = reported \cup {minted + 1}
  BY <1>1, <1>2 DEF CommitRevision
<1> HIDE DEF chain
<1>6. reported' \subseteq 1..minted'
  BY <1>5 DEF Installs, OrganizationTypeOK
<1>7. f \in Link => bundle[e.content.tag] # <<>>
  BY <1>1, <1>2 DEF EditsHaveTags, CommitRevision, Matches
<1>8. /\ OrganizationTypeOK' /\ EditsHaveTags' /\ paper' = paper /\ bundle'[f] = chain
      /\ \A b \in Bundle \ {f} : bundle'[b] = bundle[b]
  BY <1>1, <1>2, <1>4, <1>5, <1>6, ChainInstalled
<1>9. RevisionIn(f, e.content)
  BY <1>2, <1>4, <1>5, <1>7, <1>8 DEF RevisionIn
<1> QED  BY <1>8, <1>9

(* A commit to one file changes what there is of no other, and takes away    *)
(* nothing there is.                                                         *)
LEMMA WhatIsThere ==
    ASSUME OrganizationInv, NEW f \in Bundle, NEW content, RevisionIn(f, content)
    PROVE  /\ \A bundles \in SUBSET Bundle :
                (Existing(bundles))' = Existing(bundles) \cup (bundles \cap {f})
           /\ \A b \in Bundle \ {f} : (Tip(b))' = Tip(b) /\ (Newest(b))' = Newest(b)
           /\ (Tip(f))' = content
           /\ QuestionThere => QuestionThere'
<1>1. /\ \A b \in Bundle \ {f} : bundle'[b] = bundle[b]
      /\ bundle'[f] # <<>> /\ bundle'[f][Len(bundle'[f])].content = content
  BY DEF RevisionIn
<1>2. \A bundles \in SUBSET Bundle :
        (Existing(bundles))' = Existing(bundles) \cup (bundles \cap {f})
  BY <1>1 DEF Existing
<1>3. \A b \in Bundle \ {f} : (Tip(b))' = Tip(b) /\ (Newest(b))' = Newest(b)
  BY <1>1 DEF Tip, Newest
<1>4. (Tip(f))' = content
  BY <1>1 DEF Tip, Newest
<1>5. QuestionThere => QuestionThere'
  BY <1>2, KindsOfBundles DEF QuestionThere
<1> QED  BY <1>2, <1>3, <1>4, <1>5

(* Names and assignments keep their one owner.                               *)
LEMMA OwnersKeep ==
    ASSUME OrganizationInv, NEW f \in Bundle, NEW content, RevisionIn(f, content)
    PROVE  VocabularyIsOwned' /\ AssignmentsAreOwned'
<1> USE DEF OrganizationInv, Owned
<1>1. VocabularyIsOwned'
  <2>1. (Existing(Tag))' = Existing(Tag) \cup (Tag \cap {f}) /\ Existing(Tag) \subseteq Tag
        /\ Tag \subseteq Bundle
    BY WhatIsThere, KindsOfBundles DEF Existing
  <2>2. \A t \in Tag \ {f} : (Tip(t))' = Tip(t)
    BY WhatIsThere, KindsOfBundles
  <2>3. f \in Tag => (Tip(f))' = content
                     /\ \A u \in Existing(Tag) \ {f} :
                       Vocabulary(Tip(u)) \cap Vocabulary(content) = {}
    BY WhatIsThere DEF RevisionIn, Precondition, NameFree
  <2>4. \A t, u \in Existing(Tag) : t # u => Vocabulary(Tip(u)) \cap Vocabulary(Tip(t)) = {}
    BY DEF VocabularyIsOwned, NameFree
  <2>5. ASSUME NEW t \in Existing(Tag)', NEW u \in Existing(Tag)', t # u
        PROVE  Vocabulary(Tip(u)') \cap Vocabulary(Tip(t)') = {}
    <3>1. CASE t = f
      BY <2>1, <2>2, <2>3, <2>5, <3>1
    <3>2. CASE u = f
      BY <2>1, <2>2, <2>3, <2>5, <3>2
    <3>3. CASE t # f /\ u # f
      BY <2>1, <2>2, <2>4, <2>5, <3>3
    <3> QED  BY <3>1, <3>2, <3>3
  <2> QED  BY <2>5 DEF VocabularyIsOwned, NameFree, Vocabulary
<1>2. AssignmentsAreOwned'
  <2>1. (Existing(Link))' = Existing(Link) \cup (Link \cap {f}) /\ Existing(Link) \subseteq Link
        /\ Link \subseteq Bundle
    BY WhatIsThere, KindsOfBundles DEF Existing
  <2>2. \A l \in Link \ {f} : (Tip(l))' = Tip(l)
    BY WhatIsThere, KindsOfBundles
  <2>3. f \in Link => (Tip(f))' = content
                      /\ \A k \in Existing(Link) \ {f} : ~SameAssignment(Tip(k), content)
    BY WhatIsThere DEF RevisionIn, Precondition, AssignmentFree
  <2>4. \A l, k \in Existing(Link) : l # k => ~SameAssignment(Tip(k), Tip(l))
    BY DEF AssignmentsAreOwned, AssignmentFree
  <2>5. ASSUME NEW l \in Existing(Link)', NEW k \in Existing(Link)', l # k
        PROVE  ~SameAssignment(Tip(k)', Tip(l)')
    <3>1. CASE l = f
      BY <2>1, <2>2, <2>3, <2>5, <3>1
    <3>2. CASE k = f
      BY <2>1, <2>2, <2>3, <2>5, <3>2 DEF SameAssignment
    <3>3. CASE l # f /\ k # f
      BY <2>1, <2>2, <2>4, <2>5, <3>3
    <3> QED  BY <3>1, <3>2, <3>3
  <2> QED  BY <2>5 DEF AssignmentsAreOwned, AssignmentFree, SameAssignment
<1> QED  BY <1>1, <1>2

(* At most one criteria set stays active and one decision made.              *)
LEMMA OnlyOneEach ==
    ASSUME OrganizationInv, NEW f \in Bundle, NEW content, RevisionIn(f, content)
    PROVE  OneActive' /\ OneDecided'
<1> USE DEF OrganizationInv, Owned
<1>1. OneActive'
  <2>1. (Existing(Criteria))' = Existing(Criteria) \cup (Criteria \cap {f})
        /\ \A k \in Criteria \ {f} : (Tip(k))' = Tip(k)
    BY WhatIsThere, KindsOfBundles
  <2>2. f \in Criteria => (Tip(f))' = content
          /\ (content.status = "active" => ActiveCriteria \subseteq {f})
    BY WhatIsThere DEF RevisionIn, Precondition
  <2>3. \A k \in ActiveCriteria' : k \in Criteria /\ (k # f => k \in ActiveCriteria)
    BY <2>1 DEF ActiveCriteria, Existing
  <2>4. f \in ActiveCriteria' => ActiveCriteria \subseteq {f}
    BY <2>2, <2>3 DEF ActiveCriteria
  <2> QED  BY <2>3, <2>4 DEF OneActive
<1>2. OneDecided'
  <2>1. (Existing(Decision))' = Existing(Decision) \cup (Decision \cap {f})
    BY WhatIsThere, KindsOfBundles
  <2>2. f \in Decision => Existing(Decision) \subseteq {f}
    BY DEF RevisionIn, Precondition
  <2> QED  BY <2>1, <2>2 DEF OneDecided
<1> QED  BY <1>1, <1>2

(* What links and decisions are about stays there.                           *)
LEMMA TargetsKeep ==
    ASSUME OrganizationInv, NEW f \in Bundle, NEW content, RevisionIn(f, content)
    PROVE  TargetsAreThere' /\ DecidedPaperIsThere'
<1> USE DEF OrganizationInv, Owned
<1>1. paper' = paper /\ \A b \in Bundle : bundle[b] # <<>> => bundle'[b] # <<>>
  BY DEF RevisionIn
<1>2. TargetsAreThere'
  <2>1. (Existing(Link))' = Existing(Link) \cup (Link \cap {f}) /\ Existing(Link) \subseteq Link
        /\ \A l \in Link \ {f} : (Tip(l))' = Tip(l)
    BY WhatIsThere, KindsOfBundles DEF Existing
  <2>2. f \in Link => (Tip(f))' = content /\ content \in LinkContent
                      /\ TargetThere(content.target) /\ bundle[content.tag] # <<>>
    BY WhatIsThere, KindsOfBundles DEF RevisionIn, Precondition
  <2>3. \A target : TargetThere(target) => TargetThere(target)'
    BY <1>1, KindsOfBundles DEF TargetThere
  <2> SUFFICES ASSUME NEW l \in Existing(Link)'
               PROVE  TargetThere(Tip(l).target)' /\ bundle'[Tip(l)'.tag] # <<>>
    BY DEF TargetsAreThere
  <2>4. PICK was \in LinkContent : was = Tip(l)' /\ TargetThere(was.target)
          /\ bundle[was.tag] # <<>>
    <3>1. CASE l = f
      BY <2>1, <2>2, <3>1
    <3>2. CASE l # f
      <4>1. l \in Existing(Link) /\ Tip(l)' = Tip(l)
        BY <2>1, <3>2
      <4>2. Tip(l) \in LinkContent
        BY <4>1, KindsOfBundles, TipsAreTyped DEF Existing
      <4> QED  BY <4>1, <4>2 DEF TargetsAreThere
    <3> QED  BY <3>1, <3>2
  <2>5. was.tag \in Bundle
    BY KindsOfBundles DEF LinkContent
  <2>6. TargetThere(was.target)'
    BY <2>3, <2>4
  <2> QED  BY <1>1, <2>4, <2>5, <2>6 DEF TargetThere
<1>3. DecidedPaperIsThere'
  <2>1. (Existing(Decision))' = Existing(Decision) \cup (Decision \cap {f})
        /\ (QuestionThere => QuestionThere')
    BY WhatIsThere, KindsOfBundles
  <2>2. f \in Decision => QuestionThere /\ paper
    BY DEF RevisionIn, Precondition
  <2> QED  BY <1>1, <2>1, <2>2 DEF DecidedPaperIsThere
<1> QED  BY <1>2, <1>3

(* What there is says who owns it.                                           *)
LEMMA OwnedStays == ASSUME Owned, bundle' = bundle, paper' = paper PROVE Owned'
<1>1. /\ \A bundles : (Existing(bundles))' = Existing(bundles)
      /\ \A b : (Newest(b))' = Newest(b)
  BY DEF Existing, Newest
<1>2. \A b : (Tip(b))' = Tip(b)
  BY <1>1 DEF Tip
<1>3. VocabularyIsOwned' /\ AssignmentsAreOwned'
  BY <1>1, <1>2 DEF Owned, VocabularyIsOwned, AssignmentsAreOwned, NameFree, AssignmentFree
<1>4. TargetsAreThere' /\ DecidedPaperIsThere'
  BY <1>1, <1>2 DEF Owned, TargetsAreThere, TargetThere, DecidedPaperIsThere, QuestionThere
<1>5. OneActive' /\ OneDecided'
  BY <1>1, <1>2 DEF Owned, OneActive, ActiveCriteria, OneDecided
<1> QED  BY <1>3, <1>4, <1>5 DEF Owned

(* The legacy mapping and a correction of the paper validate the whole       *)
(* workspace, and change no criteria and no decision.                        *)
LEMMA WholeIsValidated ==
    ASSUME OrganizationInv, OrganizationValid',
           \A b \in Criteria \cup Decision : bundle'[b] = bundle[b]
    PROVE  Owned'
<1>1. /\ (Existing(Criteria))' = Existing(Criteria) /\ (Existing(Decision))' = Existing(Decision)
      /\ \A k \in Criteria : (Tip(k))' = Tip(k)
  BY DEF Existing, Tip, Newest
<1>2. OneActive' /\ OneDecided'
  BY <1>1 DEF OrganizationInv, Owned, OneActive, ActiveCriteria, OneDecided, Existing
<1> QED  BY <1>2 DEF Owned, OrganizationValid

(* The commit of the legacy mapping.                                         *)
LEMMA MappingCommits ==
    ASSUME OrganizationInv, NEW c \in Editor, CommitMapping(c)
    PROVE  /\ OrganizationInv'
           /\ \A b \in Bundle \ {"mapping"} : bundle'[b] = bundle[b]
<1> USE DEF OrganizationInv
<1>0. PICK f \in Bundle : edit[c] \in EditOf(f)
  BY DEF CommitMapping, Matches, OrganizationTypeOK
<1>1. PICK e \in EditOf(f) : e = edit[c]
  BY <1>0
<1>2. f = "mapping" /\ e.file = f /\ e.content \in BundleContent(f)
        /\ e.follows \in 0..MaxRevisions
  BY <1>1 DEF EditOf, CommitMapping
<1> DEFINE chain == <<Revision(c)>>
<1>3. Revision(c) \in [id : 1..MaxRevisions, follows : 0..MaxRevisions,
        content : BundleContent(f)]
  BY <1>1, <1>2, OrganizationAssumption DEF Revision, CommitMapping, Installs, OrganizationTypeOK
<1>4. chain \in Revisions(f) /\ chain # <<>>
  BY <1>3 DEF Revisions
<1>5. Installs(c, chain) /\ OrganizationValid' /\ reported' = reported
  BY DEF CommitMapping
<1>6. reported' \subseteq 1..minted'
  <2>1. minted' = minted + 1
    BY <1>5 DEF Installs
  <2> QED  BY <1>5, <2>1, OrganizationAssumption DEF OrganizationTypeOK
<1> HIDE DEF chain
<1>7. /\ OrganizationTypeOK' /\ EditsHaveTags' /\ \A b \in Bundle \ {f} : bundle'[b] = bundle[b]
  BY <1>1, <1>2, <1>4, <1>5, <1>6, ChainInstalled
<1>8. \A b \in Criteria \cup Decision : bundle'[b] = bundle[b]
  BY <1>2, <1>7, KindsOfBundles, BundlesAreApart
<1> QED  BY <1>2, <1>5, <1>7, <1>8, WholeIsValidated

(* Every step of the editors, and a correction of the paper.                 *)
LEMMA OrganizationInvNext ==
    ASSUME OrganizationInv, [OrganizationNext]_organizationVars PROVE OrganizationInv'
<1>1. CASE UNCHANGED organizationVars
  BY <1>1, OwnedStays DEF organizationVars, OrganizationInv, OrganizationTypeOK, EditsHaveTags
<1>2. CASE CorrectPaper
  <2>1. Owned'
    BY <1>2, WholeIsValidated DEF CorrectPaper
  <2> QED  BY <1>2, <2>1 DEF CorrectPaper, OrganizationInv, OrganizationTypeOK, EditsHaveTags
<1>3. ASSUME NEW c \in Editor, CommitRevision(c) PROVE OrganizationInv'
  <2>1. OrganizationTypeOK' /\ EditsHaveTags'
    BY <1>3, RevisionCommits
  <2>2. PICK f \in Bundle : \E content : RevisionIn(f, content)
    BY <1>3, RevisionCommits
  <2>3. PICK content : RevisionIn(f, content)
    BY <2>2
  <2> QED  BY <2>1, <2>3, OwnersKeep, OnlyOneEach, TargetsKeep DEF OrganizationInv, Owned
<1>4. ASSUME NEW c \in Editor, CommitMapping(c) PROVE OrganizationInv'
  BY <1>4, MappingCommits
<1>5. ASSUME NEW c \in Editor,
             \/ EditTag(c) \/ AssignTag(c) \/ EditPlain(c)
             \/ EditCriteria(c) \/ Screen(c) \/ EditQuestion(c) \/ ReplaceMapping(c)
             \/ TakeBundleToken(c) \/ AbandonEdit(c)
      PROVE  OrganizationInv'
  <2>1. OrganizationTypeOK' /\ EditsHaveTags'
          /\ UNCHANGED <<topic, bundle, minted, reported, paper>>
    BY <1>5, TagEditsBegin, ScreeningEditsBegin, EditMoves
  <2> QED  BY <2>1, OwnedStays DEF OrganizationInv
<1> QED  BY <1>1, <1>2, <1>3, <1>4, <1>5 DEF OrganizationNext

(* The first states: a question or its legacy record, and a tag or criteria. *)
LEMMA OrganizationInvInit == ASSUME OrganizationInit PROVE OrganizationInv
<1> DEFINE t == CHOOSE t \in Tag : TRUE
           k == CHOOSE k \in Criteria : TRUE
           name == CHOOSE name \in Name : TRUE
           asked == [id |-> 1, follows |-> 0, content |-> [wording |-> 1]]
           worded == [id |-> 2, follows |-> 0, content |->
                         [name |-> name, aliases |-> {}, status |-> "active"]]
           ruled == [id |-> 2, follows |-> 0, content |-> [wording |-> 1, status |-> "active"]]
<1>1. PICK question \in {"question", "mapping"} :
        bundle = [b \in Bundle |->
            CASE b = question -> <<asked>> [] b = t /\ topic = "tags" -> <<worded>>
              [] b = k /\ topic = "screening" -> <<ruled>> [] OTHER -> <<>>]
  BY DEF OrganizationInit
<1>2. t \in Tag /\ k \in Criteria /\ name \in Name
  BY OrganizationAssumption
<1> HIDE DEF t, k, name
<1>3. question \in Bundle /\ t \in Bundle /\ k \in Bundle /\ t # question /\ k # question /\ t # k
  BY <1>2, KindsOfBundles, BundlesAreApart
<1>4. /\ bundle[question] = <<asked>>
      /\ topic = "tags" => bundle[t] = <<worded>>
      /\ topic = "screening" => bundle[k] = <<ruled>>
      /\ \A b \in Bundle : b # question /\ (b = t => topic # "tags")
        /\ (b = k => topic # "screening")
            => bundle[b] = <<>>
      /\ topic \in {"tags", "screening"} /\ DOMAIN bundle = Bundle
  BY <1>1, <1>3 DEF OrganizationInit
<1>5. 1 \in 1..MaxRevisions /\ 2 \in 1..MaxRevisions /\ 0 \in 0..MaxRevisions
  BY OrganizationAssumption
<1>6. <<asked>> \in Revisions(question)
  <2>0. 1 \in Wording /\ BundleContent(question) = WordedContent
    BY <1>1, KindsOfBundles DEF Wording
  <2>1. [wording |-> 1] \in BundleContent(question)
    BY <2>0 DEF WordedContent
  <2>2. asked \in [id : 1..MaxRevisions, follows : 0..MaxRevisions,
          content : BundleContent(question)]
    BY <1>5, <2>1
  <2> HIDE DEF asked
  <2> QED  BY <2>2 DEF Revisions
<1>7. <<worded>> \in Revisions(t) /\ <<worded>> # <<>> /\ <<worded>>[1] = worded
        /\ Len(<<worded>>) = 1
  <2>1. [name |-> name, aliases |-> {}, status |-> "active"] \in BundleContent(t)
    BY <1>2, KindsOfBundles DEF TagContent
  <2>2. worded \in [id : 1..MaxRevisions, follows : 0..MaxRevisions, content : BundleContent(t)]
    BY <1>5, <2>1
  <2> HIDE DEF worded
  <2> QED  BY <2>2 DEF Revisions
<1>8. <<ruled>> \in Revisions(k) /\ <<ruled>> # <<>> /\ <<ruled>>[1] = ruled /\ Len(<<ruled>>) = 1
  <2>0. 1 \in Wording /\ BundleContent(k) = CriteriaContent
    BY <1>2, KindsOfBundles DEF Wording
  <2>1. [wording |-> 1, status |-> "active"] \in BundleContent(k)
    BY <2>0 DEF CriteriaContent
  <2>2. ruled \in [id : 1..MaxRevisions, follows : 0..MaxRevisions, content : BundleContent(k)]
    BY <1>5, <2>1
  <2> HIDE DEF ruled
  <2> QED  BY <2>2 DEF Revisions
<1>9. \A b : <<>> \in Revisions(b)
  BY DEF Revisions
<1> HIDE DEF asked, worded, ruled
<1>10. \A b \in Bundle : bundle[b] \in Revisions(b)
  BY <1>3, <1>4, <1>6, <1>7, <1>8, <1>9
<1>11. /\ paper = TRUE /\ minted = 2 /\ reported = {2} /\ edit = [c \in Editor |-> Nothing]
  BY DEF OrganizationInit
<1>12. OrganizationTypeOK
  <2>1. 2 \in 0..MaxRevisions /\ {2} \subseteq 1..2
    BY OrganizationAssumption
  <2> QED  BY <1>4, <1>10, <1>11, <2>1 DEF OrganizationTypeOK
<1>13. /\ Existing(Link) = {} /\ Existing(Decision) = {} /\ Existing(Tag) \subseteq {t}
       /\ Existing(Criteria) \subseteq {k}
  BY <1>2, <1>3, <1>4, KindsOfBundles, BundlesAreApart DEF Existing
<1>14. Owned
  BY <1>13 DEF Owned, VocabularyIsOwned, NameFree, AssignmentsAreOwned, TargetsAreThere,
     DecidedPaperIsThere, OneActive, ActiveCriteria, OneDecided
<1>15. EditsHaveTags
  BY <1>11 DEF EditsHaveTags
<1> QED  BY <1>12, <1>14, <1>15 DEF OrganizationInv

(* The inductive invariant of the organization.                              *)
THEOREM OrganizationInvariant == OrganizationSpec => []OrganizationInv
  BY OrganizationInvInit, OrganizationInvNext, PTL DEF OrganizationSpec

(* A set whose members are all the same has at most one.                     *)
LEMMA AtMostOne ==
    ASSUME NEW S, \A x, y \in S : x = y PROVE Cardinality(S) <= 1
<1>1. CASE S = {}
  BY <1>1, FS_EmptySet
<1>2. CASE S # {}
  <2>1. PICK x \in S : S = {x}
    BY <1>2
  <2>2. Cardinality({x}) = 1
    BY FS_Singleton
  <2> QED  BY <2>1, <2>2
<1> QED  BY <1>1, <1>2

(* The invariant says who owns what.                                         *)
LEMMA OwnersAndTargetsStandBy == OrganizationInv => OwnersAndTargetsStand
<1> SUFFICES ASSUME OrganizationInv PROVE OwnersAndTargetsStand
  OBVIOUS
<1>1. CriteriaAreOwned /\ DecisionsAreOwned
  BY AtMostOne DEF OrganizationInv, Owned, OneActive, OneDecided, CriteriaAreOwned,
    DecisionsAreOwned
<1> QED  BY <1>1 DEF OrganizationInv, Owned, OwnersAndTargetsStand

(* A commit is based on what holds at that moment.                           *)
LEMMA BasisIsSeen ==
    ASSUME OrganizationInv, [OrganizationNext]_organizationVars,
           NEW b \in Link \cup Decision, bundle'[b] # bundle[b]
    PROVE  LET content == bundle'[b][Len(bundle'[b])].content
           IN  IF b \in Decision THEN \E k \in Criteria : Governs(k, content.basis)
               ELSE content.state = "assigned" => Tip(content.tag).status = "active"
<1>1. b \in Bundle \ {"mapping"}
  BY KindsOfBundles, BundlesAreApart
<1>2. PICK c \in Editor : CommitRevision(c)
  <2>1. \A c \in Editor : CommitMapping(c) => bundle'[b] = bundle[b]
    BY <1>1, MappingCommits
  <2>2. CASE UNCHANGED organizationVars
    BY <2>2 DEF organizationVars
  <2>3. CASE CorrectPaper
    BY <2>3 DEF CorrectPaper
  <2>4. \A c \in Editor :
          \/ EditTag(c) \/ AssignTag(c) \/ EditPlain(c)
          \/ EditCriteria(c) \/ Screen(c) \/ EditQuestion(c) \/ ReplaceMapping(c)
          \/ TakeBundleToken(c) \/ AbandonEdit(c)
          => bundle' = bundle
    BY TagEditsBegin, ScreeningEditsBegin, EditMoves
  <2> QED  BY <2>1, <2>2, <2>3, <2>4 DEF OrganizationNext
<1>3. PICK f \in Bundle : \E content : RevisionIn(f, content)
  BY <1>2, RevisionCommits
<1>4. PICK content : RevisionIn(f, content)
  BY <1>3
<1>5. f = b /\ bundle'[b][Len(bundle'[b])].content = content /\ Precondition(b, content)
  BY <1>1, <1>4 DEF RevisionIn
<1>6. b \in Decision => \E k \in Criteria : Governs(k, content.basis)
  BY <1>5 DEF Precondition, ActiveCriteria, Existing
<1>7. b \notin Decision => (content.state = "assigned" => Tip(content.tag).status = "active")
  BY <1>5 DEF Precondition
<1> QED  BY <1>5, <1>6, <1>7

(* However two promotions overlap, a name or alias belongs to one tag, a tag *)
(* and its target to one link, a question to one active criteria set, and a  *)
(* question and a paper to one decision; what they point at is there         *)
(* (contracts/validator.py, the vocabulary, assignment and screening rules). *)
THEOREM OwnersAndTargetsAlwaysStand == OrganizationSpec => []OwnersAndTargetsStand
  BY OrganizationInvariant, OwnersAndTargetsStandBy, PTL

(* The same, of the step that commits.                                       *)
BasisHolds ==
    \A b \in Link \cup Decision : bundle'[b] # bundle[b] =>
        LET content == bundle'[b][Len(bundle'[b])].content
        IN  IF b \in Decision THEN \E k \in Criteria : Governs(k, content.basis)
            ELSE content.state = "assigned" => Tip(content.tag).status = "active"

(* A decision is committed under the criteria that govern at that moment,    *)
(* an assignment to a tag that is active then, whatever the caller read      *)
(* before it had the lock (services/tags.py, services/question_screening.py). *)
THEOREM CommitsAlwaysSeeTheirBasis == OrganizationSpec => CommitsSeeTheirBasis
<1>1. OrganizationInv /\ [OrganizationNext]_organizationVars => BasisHolds
  BY BasisIsSeen DEF BasisHolds
<1> QED  BY <1>1, OrganizationInvariant, PTL
         DEF OrganizationSpec, CommitsSeeTheirBasis, BasisHolds

-----------------------------------------------------------------------------
(* Found papers and their files (DiscoveryAcquisition).  A file's number is  *)
(* in one place: a partial, the inbox under one candidate's name, or one     *)
(* call's hands.                                                             *)
Placing(k) ==
    /\ work[k].at # "idle" => work[k].for \in Candidate
    /\ work[k].at \in {"idle", "selected", "based", "shown"} => work[k].file = 0
    /\ work[k].at \in {"selected", "based"} => work[k].context \in Context
    /\ work[k].at \in {"shown", "fetched", "read", "ready", "linked", "replaced"} =>
         work[k].base[work[k].for] # Nothing
    /\ work[k].file # 0 => work[k].at # "idle"
    /\ work[k].file \in 0..files
    /\ work[k].at \in {"linked", "replaced"} => holder = k /\ work[k].file # 0
    /\ work[k].at = "linked" => final[work[k].for] = work[k].file
    /\ work[k].at = "replaced" =>
         store[work[k].for] # Nothing /\ store[work[k].for].receipt = work[k].file
Apart ==
    /\ \A k, j \in Caller : work[k].file # 0 /\ work[k].file = work[j].file => k = j
    /\ \A k \in Caller, c \in Candidate :
         final[c] # 0 /\ final[c] = work[k].file => c = work[k].for
    /\ \A c \in Candidate : final[c] \in 0..files /\ final[c] \notin parts
    /\ parts \subseteq 1..files
(* A receipt names its file, and without accidents every file is some call's *)
(* or receipted.                                                             *)
Receipting == \A c \in Candidate :
    store[c] # Nothing /\ store[c].receipt # 0 => final[c] = store[c].receipt
Accounted ==
    /\ \A f \in parts : \E k \in Caller : work[k].file = f
    /\ \A c \in Candidate : final[c] # 0 =>
         \/ store[c] # Nothing /\ store[c].receipt = final[c]
         \/ \E k \in Caller : work[k].file = final[c]
DiscoveryInv ==
    /\ DiscoveryTypeOK /\ (\A k \in Caller : Placing(k)) /\ Apart
    /\ ~stale => Receipting
    /\ ~stale /\ mishaps = 0 => Accounted

(* The first state: nothing found, nothing there.                            *)
LEMMA DiscoveryInvInit == ASSUME DiscoveryInit PROVE DiscoveryInv
<1> USE DiscoveryAssumption, FaultAssumption DEF DiscoveryInit
<1>1. [c \in Candidate |-> Nothing] \in Library
  BY DEF Library
<1>2. NoWork \in Acquiring /\ NoWork.at = "idle" /\ NoWork.file = 0
  <2>1. "idle" \in WorkPhases
    BY DEF WorkPhases
  <2> QED  BY <1>1, <2>1 DEF NoWork, Acquiring
<1>3. \A k \in Caller : work[k] = NoWork
  OBVIOUS
<1>4. DiscoveryTypeOK
  <2>1. 0 \in 0..MaxFiles /\ 0 \in 0..MaxFaults
    OBVIOUS
  <2>2. store \in Library /\ work \in [Caller -> Acquiring]
          /\ final \in [Candidate -> 0..MaxFiles]
    BY <1>1, <1>2, <2>1
  <2> QED  BY <2>1, <2>2 DEF DiscoveryTypeOK
<1>5. \A k \in Caller : Placing(k)
  BY <1>2, <1>3 DEF Placing
<1>6. Apart /\ Receipting /\ Accounted
  BY <1>2, <1>3 DEF Apart, Receipting, Accounted
<1> QED  BY <1>4, <1>5, <1>6 DEF DiscoveryInv

(* What one call does to its own place leaves the others where they are.     *)
LEMMA OneWorks ==
    ASSUME DiscoveryInv, NEW k \in Caller, NEW new \in Acquiring, work' = [work EXCEPT ![k] = new]
    PROVE  work' \in [Caller -> Acquiring] /\ work'[k] = new
           /\ \A j \in Caller \ {k} : work'[j] = work[j]
  BY DEF DiscoveryInv, DiscoveryTypeOK

(* A step of one call that moves no file and changes no receipt keeps what   *)
(* is said of files, if the call holds what it held.                         *)
LEMMA FilesStay ==
    ASSUME DiscoveryInv, NEW k \in Caller, NEW new \in Acquiring,
           work' = [work EXCEPT ![k] = new],
           UNCHANGED <<store, named, final, parts, files>>,
           new.file = work[k].file, new.for = work[k].for \/ new.file = 0,
           holder' \in {Nothing} \cup Caller,
           \A j \in Caller \ {k} : holder = j => holder' = j,
           stale' = stale, mishaps' \in 0..MaxFaults, mishaps' >= mishaps, Placing(k)'
    PROVE  DiscoveryInv'
<1>1. work' \in [Caller -> Acquiring] /\ work'[k] = new
        /\ \A j \in Caller \ {k} : work'[j] = work[j]
  BY OneWorks
<1>2. DiscoveryTypeOK'
  BY <1>1 DEF DiscoveryInv, DiscoveryTypeOK
<1>3. \A j \in Caller : Placing(j)'
  <2> SUFFICES ASSUME NEW j \in Caller \ {k} PROVE Placing(j)'
    OBVIOUS
  <2> QED  BY <1>1 DEF DiscoveryInv, Placing
<1>4. \A j \in Caller : work'[j].file = work[j].file
  BY <1>1
<1>5. Apart'
  <2>1. \A j \in Caller : work'[j].file # 0 => work'[j].for = work[j].for
    BY <1>1
  <2> QED  BY <1>4, <2>1 DEF DiscoveryInv, Apart
<1>6. (Receipting => Receipting') /\ (Accounted => Accounted')
  BY <1>4 DEF Receipting, Accounted
<1>7. mishaps' = 0 => mishaps = 0
  BY FaultAssumption DEF DiscoveryInv, DiscoveryTypeOK
<1> QED  BY <1>2, <1>3, <1>5, <1>6, <1>7 DEF DiscoveryInv

(* A move to another phase changes nothing else of the call.                 *)
LEMMA OneMoves ==
    ASSUME DiscoveryInv, NEW k \in Caller, NEW phase \in WorkPhases, Moves(k, phase)
    PROVE  LET new == [work[k] EXCEPT !.at = phase] IN
           /\ new \in Acquiring /\ work' = [work EXCEPT ![k] = new]
           /\ new.at = phase /\ new.for = work[k].for /\ new.base = work[k].base
           /\ new.token = work[k].token /\ new.context = work[k].context
           /\ new.file = work[k].file
<1>1. PICK p \in Acquiring : p = work[k]
  BY DEF DiscoveryInv, DiscoveryTypeOK
<1> DEFINE new == [p EXCEPT !.at = phase]
<1>2. new \in Acquiring
  BY DEF Acquiring
<1>3. new.at = phase /\ new.for = p.for /\ new.base = p.base /\ new.token = p.token
      /\ new.context = p.context /\ new.file = p.file
  BY DEF Acquiring
<1>4. work' = [work EXCEPT ![k] = new]
  BY <1>1 DEF Moves
<1> QED  BY <1>1, <1>2, <1>3, <1>4

(* The store is read to select from, or to show; the files stay.             *)
LEMMA ReadKeeps ==
    ASSUME DiscoveryInv, NEW k \in Caller, BeginSelect(k) \/ Show(k)
    PROVE  DiscoveryInv'
<1> DEFINE Empty == [c \in Candidate |-> Nothing]
<1>1. Empty \in Library /\ store \in Library
  BY DEF Library, DiscoveryInv, DiscoveryTypeOK
<1>2. NoWork \in Acquiring /\ NoWork.file = 0 /\ NoWork.context = Nothing
  <2>1. "idle" \in WorkPhases /\ 0 \in 0..MaxFiles
    BY DiscoveryAssumption DEF WorkPhases
  <2> QED  BY <1>1, <2>1 DEF NoWork, Acquiring
<1>3. "selected" \in WorkPhases /\ "shown" \in WorkPhases
  BY DEF WorkPhases
<1>4. ASSUME NEW new \in Acquiring, work' = [work EXCEPT ![k] = new], new.base = store,
             new.file = 0, new.for \in Candidate, work[k].file = 0,
             \/ new.at = "selected" /\ new.context \in Context
             \/ new.at = "shown" /\ store[new.for] # Nothing,
             UNCHANGED <<store, named, final, parts, files, holder, stale, mishaps>>
      PROVE  DiscoveryInv'
  <2>1. work'[k] = new
    BY <1>4, OneWorks
  <2>2. Placing(k)'
    BY <1>4, <2>1 DEF Placing, DiscoveryInv, DiscoveryTypeOK
  <2>3. mishaps' \in 0..MaxFaults /\ mishaps' >= mishaps /\ holder' \in {Nothing} \cup Caller
    BY <1>4 DEF DiscoveryInv, DiscoveryTypeOK
  <2> QED  BY <1>4, <2>2, <2>3, FilesStay
<1>5. Stands(k, "idle") /\ work[k].file = 0
  BY DEF BeginSelect, Show, Stands, DiscoveryInv, Placing
<1>6. CASE BeginSelect(k)
  <2>1. PICK c \in Candidate, q \in Context : work' = [work EXCEPT ![k] =
          [NoWork EXCEPT !.at = "selected", !.for = c, !.base = store, !.context = q]]
    BY <1>6 DEF BeginSelect
  <2> DEFINE new == [NoWork EXCEPT !.at = "selected", !.for = c, !.base = store, !.context = q]
  <2>2. new \in Acquiring /\ new.at = "selected" /\ new.for = c /\ new.base = store
        /\ new.context = q /\ new.file = 0
    BY <1>1, <1>2, <1>3 DEF Acquiring
  <2>3. work' = [work EXCEPT ![k] = new]
    BY <2>1
  <2> HIDE DEF new
  <2> QED  BY <1>4, <1>5, <1>6, <2>2, <2>3 DEF BeginSelect, Inbox
<1>7. CASE Show(k)
  <2>1. PICK c \in Candidate : store[c] # Nothing /\ work' = [work EXCEPT ![k] =
          [NoWork EXCEPT !.at = "shown", !.for = c, !.base = store]]
    BY <1>7 DEF Show, Known
  <2> DEFINE new == [NoWork EXCEPT !.at = "shown", !.for = c, !.base = store]
  <2>2. new \in Acquiring /\ new.at = "shown" /\ new.for = c /\ new.base = store /\ new.file = 0
    BY <1>1, <1>2, <1>3 DEF Acquiring
  <2>3. work' = [work EXCEPT ![k] = new]
    BY <2>1
  <2> HIDE DEF new
  <2> QED  BY <1>4, <1>5, <1>7, <2>1, <2>2, <2>3 DEF Show, Inbox
<1> QED  BY <1>6, <1>7

(* The token is taken, the candidate read again, or the call fails.          *)
LEMMA CheckKeeps ==
    ASSUME DiscoveryInv, NEW k \in Caller, TakeStoreToken(k) \/ Reread(k) \/ FailWork(k)
    PROVE  DiscoveryInv'
<1>1. PICK p \in Acquiring : p = work[k]
  BY DEF DiscoveryInv, DiscoveryTypeOK
<1>2. store \in Library /\ mishaps \in 0..MaxFaults /\ holder \in {Nothing} \cup Caller
      /\ Placing(k) /\ mishaps <= mishaps
  BY FaultAssumption DEF DiscoveryInv, DiscoveryTypeOK
<1>3. CASE TakeStoreToken(k)
  <2> DEFINE next == IF p.at = "selected" THEN "based" ELSE "ready"
             new == [p EXCEPT !.token = store, !.at = next]
  <2>1. next \in WorkPhases
    BY DEF WorkPhases
  <2>2. \/ p.at = "selected" /\ next = "based"
        \/ p.at = "read" /\ next = "ready"
    BY <1>1, <1>3 DEF TakeStoreToken, Stands
  <2>3. work' = [work EXCEPT ![k] = new]
    BY <1>1, <1>3 DEF TakeStoreToken
  <2> HIDE DEF next
  <2>4. new \in Acquiring /\ new.at = next /\ new.for = p.for /\ new.base = p.base
        /\ new.context = p.context /\ new.file = p.file
    BY <1>2, <2>1 DEF Acquiring
  <2> HIDE DEF new
  <2>5. work'[k] = new
    BY <2>3, <2>4, OneWorks
  <2>6. Placing(k)'
    BY <1>1, <1>2, <1>3, <2>2, <2>4, <2>5 DEF Placing, TakeStoreToken, Inbox
  <2> QED  BY <1>1, <1>2, <1>3, <2>3, <2>4, <2>6, FilesStay DEF TakeStoreToken, Inbox
<1>4. CASE Reread(k)
  <2> DEFINE new == [p EXCEPT !.at = "read", !.base = store]
  <2>1. "read" \in WorkPhases
    BY DEF WorkPhases
  <2>2. work' = [work EXCEPT ![k] = new]
    BY <1>1, <1>4 DEF Reread
  <2>3. new \in Acquiring /\ new.at = "read" /\ new.for = p.for /\ new.base = store
        /\ new.context = p.context /\ new.file = p.file
    BY <1>2, <2>1 DEF Acquiring
  <2> HIDE DEF new
  <2>4. work'[k] = new
    BY <2>2, <2>3, OneWorks
  <2>5. p.at = "fetched" /\ store[p.for] = p.base[p.for]
    BY <1>1, <1>4 DEF Reread, Stands
  <2>6. Placing(k)'
    BY <1>1, <1>2, <1>4, <2>3, <2>4, <2>5 DEF Placing, Reread, Inbox
  <2> QED  BY <1>1, <1>2, <1>4, <2>2, <2>3, <2>6, FilesStay DEF Reread, Inbox
<1>5. CASE FailWork(k)
  <2> DEFINE new == [work[k] EXCEPT !.at = "failed"]
  <2>1. "failed" \in WorkPhases
    BY DEF WorkPhases
  <2>2. new \in Acquiring /\ work' = [work EXCEPT ![k] = new] /\ new.at = "failed"
        /\ new.for = work[k].for /\ new.context = work[k].context /\ new.file = work[k].file
    BY <1>5, <2>1, OneMoves DEF FailWork
  <2> HIDE DEF new
  <2>3. work'[k] = new
    BY <2>2, OneWorks
  <2>4. work[k].at # "idle"
    BY <1>5 DEF FailWork, Stands
  <2>5. Placing(k)'
    BY <1>2, <1>5, <2>2, <2>3, <2>4 DEF Placing, FailWork, Inbox
  <2>6. mishaps' \in 0..MaxFaults /\ mishaps' >= mishaps
    BY <1>2, <1>5, FaultAssumption DEF FailWork
  <2>7. holder' \in {Nothing} \cup Caller /\ \A j \in Caller \ {k} : holder = j => holder' = j
    BY <1>2, <1>5 DEF FailWork
  <2> QED  BY <1>5, <2>2, <2>5, <2>6, <2>7, FilesStay DEF FailWork, Inbox
<1> QED  BY <1>3, <1>4, <1>5

(* A call that ends is nobody's, and has no file.                            *)
LEMMA OneEnds ==
    ASSUME DiscoveryInv, NEW k \in Caller, EndsWork(k)
    PROVE  /\ work' \in [Caller -> Acquiring] /\ work'[k].at = "idle" /\ work'[k].file = 0
           /\ \A j \in Caller \ {k} : work'[j] = work[j]
           /\ Placing(k)' <=> work'[k].file \in 0..files'
<1> DEFINE Empty == [c \in Candidate |-> Nothing]
<1>1. Empty \in Library /\ "idle" \in WorkPhases /\ 0 \in 0..MaxFiles
  BY DiscoveryAssumption DEF Library, WorkPhases
<1>2. NoWork \in Acquiring /\ NoWork.at = "idle" /\ NoWork.file = 0
  BY <1>1 DEF NoWork, Acquiring
<1>3. work' = [work EXCEPT ![k] = NoWork]
  BY DEF EndsWork
<1>4. work' \in [Caller -> Acquiring] /\ work'[k] = NoWork
      /\ \A j \in Caller \ {k} : work'[j] = work[j]
  BY <1>2, <1>3, OneWorks
<1> QED  BY <1>2, <1>4 DEF Placing

(* A selection keeps every receipt of what it has read.                      *)
LEMMA SelectionKeepsReceipts ==
    ASSUME NEW known \in Library, NEW c \in Candidate, NEW q \in Context
    PROVE  /\ Selected(known, c, q) \in Library
           /\ \A d \in Candidate : LET new == Selected(known, c, q)[d] IN
                IF known[d] = Nothing THEN new = Nothing \/ new.receipt = 0
                ELSE new # Nothing /\ new.receipt = known[d].receipt
<1> DEFINE old == known[c]
           new == [contexts |-> (IF old = Nothing THEN {} ELSE old.contexts) \cup {q},
                   receipt |-> IF old = Nothing THEN 0 ELSE old.receipt]
<1>1. old = Nothing \/ old \in Entry
  BY DEF Library
<1>2. new \in Entry
  BY <1>1, DiscoveryAssumption DEF Entry
<1>3. new.receipt = IF old = Nothing THEN 0 ELSE old.receipt
  OBVIOUS
<1>4. Selected(known, c, q) = [known EXCEPT ![c] = new]
  BY DEF Selected
<1>5. new # Nothing
  BY <1>2, NothingIsNoEntry
<1> HIDE DEF new
<1> QED  BY <1>2, <1>3, <1>4, <1>5 DEF Library

(* A selection is committed over the store it has read, or stale is set.     *)
LEMMA SelectKeeps ==
    ASSUME DiscoveryInv, NEW k \in Caller, CommitSelect(k)
    PROVE  DiscoveryInv'
<1> DEFINE base == work[k].base
           chosen == work[k].for
           new == Selected(base, chosen, work[k].context)
<1>1. work[k] \in Acquiring /\ Placing(k) /\ work[k].at = "based" /\ holder = Nothing
      /\ store' = new /\ store \in Library
  BY DEF CommitSelect, Stands, DiscoveryInv, DiscoveryTypeOK
<1>2. base \in Library /\ chosen \in Candidate /\ work[k].context \in Context /\ work[k].file = 0
  BY <1>1 DEF Placing, Acquiring
<1>3. new \in Library
      /\ \A d \in Candidate : IF base[d] = Nothing THEN new[d] = Nothing \/ new[d].receipt = 0
                              ELSE new[d] # Nothing /\ new[d].receipt = base[d].receipt
  BY <1>2, SelectionKeepsReceipts
<1> HIDE DEF new
<1>4. /\ work' \in [Caller -> Acquiring] /\ work'[k].at = "idle" /\ work'[k].file = 0
      /\ \A j \in Caller \ {k} : work'[j] = work[j]
      /\ Placing(k)' <=> work'[k].file \in 0..files'
  BY OneEnds DEF CommitSelect
<1>5. UNCHANGED <<final, parts, files, holder, mishaps>>
  BY DEF CommitSelect, Inbox
<1>6. named' \subseteq Candidate /\ stale' = (stale \/ base # store)
  BY <1>2 DEF CommitSelect, DiscoveryInv, DiscoveryTypeOK
<1>7. DiscoveryTypeOK'
  BY <1>1, <1>3, <1>4, <1>5, <1>6 DEF DiscoveryInv, DiscoveryTypeOK
<1>8. \A j \in Caller : Placing(j)'
  <2>1. 0 \in 0..files'
    BY <1>5 DEF DiscoveryInv, DiscoveryTypeOK
  <2>2. ASSUME NEW j \in Caller \ {k} PROVE Placing(j)'
    <3>1. Placing(j) /\ work'[j] = work[j] /\ holder # j
      BY <1>1, <1>4, DiscoveryAssumption DEF DiscoveryInv
    <3> QED  BY <1>5, <3>1 DEF Placing
  <2> QED  BY <1>4, <2>1, <2>2
<1>9. \A j \in Caller : work'[j].file = work[j].file
  BY <1>2, <1>4
<1>10. Apart'
  <2>1. \A j \in Caller : work'[j].file # 0 => work'[j].for = work[j].for
    BY <1>4
  <2> QED  BY <1>5, <1>9, <2>1 DEF DiscoveryInv, Apart, DiscoveryTypeOK
<1>11. ~stale' => Receipting'
  BY <1>1, <1>3, <1>5, <1>6 DEF DiscoveryInv, Receipting, DiscoveryTypeOK
<1>12. ~stale' /\ mishaps' = 0 => Accounted'
  <2> SUFFICES ASSUME ~stale', mishaps' = 0 PROVE Accounted'
    OBVIOUS
  <2>1. Accounted /\ base = store
    BY <1>5, <1>6 DEF DiscoveryInv
  <2>2. \A f \in parts' : \E j \in Caller : work'[j].file = f
    BY <1>5, <1>9, <2>1 DEF Accounted
  <2>3. ASSUME NEW c \in Candidate, store[c] # Nothing
        PROVE  store'[c] # Nothing /\ store'[c].receipt = store[c].receipt
    BY <1>1, <1>3, <2>1, <2>3
  <2> QED  BY <1>5, <1>9, <2>1, <2>2, <2>3 DEF Accounted
<1> QED  BY <1>7, <1>8, <1>10, <1>11, <1>12 DEF DiscoveryInv

(* A download is a file that was not there.                                  *)
LEMMA DownloadKeeps ==
    ASSUME DiscoveryInv, NEW k \in Caller, Download(k)
    PROVE  DiscoveryInv'
<1>1. PICK p \in Acquiring : p = work[k]
  BY DEF DiscoveryInv, DiscoveryTypeOK
<1> DEFINE fresh == files + 1
<1>2. files \in 0..MaxFiles /\ fresh \in 1..MaxFiles /\ files < fresh
  BY DiscoveryAssumption DEF Download, DiscoveryInv, DiscoveryTypeOK
<1>3. parts' = parts \cup {fresh} /\ files' = fresh
      /\ UNCHANGED <<store, named, final, holder, stale, mishaps>>
  BY DEF Download
<1> DEFINE new == [p EXCEPT !.at = "fetched", !.file = fresh]
<1>4. work' = [work EXCEPT ![k] = new]
  BY <1>1 DEF Download
<1> HIDE DEF fresh
<1>5. "fetched" \in WorkPhases
  BY DEF WorkPhases
<1>6. fresh \in 0..MaxFiles
  BY <1>2
<1>7. new \in Acquiring /\ new.at = "fetched" /\ new.for = p.for /\ new.base = p.base
      /\ new.file = fresh
  BY <1>5, <1>6 DEF Acquiring
<1> HIDE DEF new
<1>8. work' \in [Caller -> Acquiring] /\ work'[k] = new
        /\ \A j \in Caller \ {k} : work'[j] = work[j]
  BY <1>4, <1>7, OneWorks
<1>9. p.at = "shown" /\ p.file = 0 /\ p.for \in Candidate /\ p.base[p.for] # Nothing
  BY <1>1 DEF Download, Stands, DiscoveryInv, Placing
<1>10. DiscoveryTypeOK'
  BY <1>2, <1>3, <1>6, <1>8 DEF DiscoveryInv, DiscoveryTypeOK
<1>11. \A j \in Caller : work[j].file \in 0..files /\ Placing(j)
  BY DEF DiscoveryInv, Placing
<1>12. \A j \in Caller : Placing(j)'
  <2>1. Placing(k)'
    BY <1>2, <1>3, <1>7, <1>8, <1>9 DEF Placing
  <2>2. ASSUME NEW j \in Caller \ {k} PROVE Placing(j)'
    BY <1>2, <1>3, <1>8, <1>11 DEF Placing
  <2> QED  BY <2>1, <2>2
<1>13. Apart'
  <2>1. \A j \in Caller \ {k} : work'[j].file = work[j].file /\ work'[j].for = work[j].for
        /\ work[j].file # fresh
    BY <1>2, <1>8, <1>11
  <2>2. \A c \in Candidate : final[c] \in 0..files /\ final[c] # fresh
    BY <1>2 DEF DiscoveryInv, Apart
  <2>3. work'[k].file = fresh
    BY <1>7, <1>8
  <2>4. parts' \subseteq 1..files' /\ \A c \in Candidate : final[c] \in 0..files'
          /\ final[c] \notin parts'
    BY <1>2, <1>3, <2>2 DEF DiscoveryInv, Apart
  <2>5. \A i, j \in Caller : work'[i].file # 0 /\ work'[i].file = work'[j].file => i = j
    BY <2>1, <2>3 DEF DiscoveryInv, Apart
  <2>6. \A j \in Caller, c \in Candidate :
          final[c] # 0 /\ final[c] = work'[j].file => c = work'[j].for
    BY <2>1, <2>2, <2>3 DEF DiscoveryInv, Apart
  <2> QED  BY <1>3, <2>4, <2>5, <2>6 DEF Apart
<1>14. Receipting => Receipting'
  BY <1>3 DEF Receipting
<1>15. Accounted => Accounted'
  <2>1. \A j \in Caller : work[j].file # 0 => work'[j].file = work[j].file
    BY <1>1, <1>8, <1>9
  <2>2. work'[k].file = fresh
    BY <1>7, <1>8
  <2>3. \A f \in parts : f # 0
    BY DEF DiscoveryInv, Apart
  <2> QED  BY <1>3, <2>1, <2>2, <2>3 DEF Accounted
<1> QED  BY <1>3, <1>10, <1>12, <1>13, <1>14, <1>15 DEF DiscoveryInv

(* The partial takes the candidate's name, which was free.                   *)
LEMMA LinkKeeps ==
    ASSUME DiscoveryInv, NEW k \in Caller, LinkFile(k)
    PROVE  DiscoveryInv'
<1> DEFINE new == [work[k] EXCEPT !.at = "linked"]
           file == work[k].file
           chosen == work[k].for
<1>1. "linked" \in WorkPhases
  BY DEF WorkPhases
<1>2. new \in Acquiring /\ work' = [work EXCEPT ![k] = new] /\ new.at = "linked"
      /\ new.for = work[k].for /\ new.base = work[k].base /\ new.file = work[k].file
  BY <1>1, OneMoves DEF LinkFile
<1> HIDE DEF new
<1>3. work' \in [Caller -> Acquiring] /\ work'[k] = new
        /\ \A j \in Caller \ {k} : work'[j] = work[j]
  BY <1>2, OneWorks
<1>4. work[k].at = "ready" /\ holder = Nothing /\ file \in parts /\ final[chosen] = 0
      /\ final' = [final EXCEPT ![chosen] = file] /\ parts' = parts \ {file} /\ holder' = k
      /\ UNCHANGED <<store, named, files, stale, mishaps>>
  BY DEF LinkFile, Stands
<1>5. chosen \in Candidate /\ work[k].base[chosen] # Nothing /\ file \in 1..files
      /\ files \in 0..MaxFiles /\ file \in 0..MaxFiles
  <2>1. file \in 1..files /\ files \in 0..MaxFiles
    BY <1>4 DEF DiscoveryInv, DiscoveryTypeOK, Apart
  <2>2. file \in 0..MaxFiles
    BY <2>1, DiscoveryAssumption
  <2> QED  BY <1>4, <2>1, <2>2 DEF DiscoveryInv, Placing
<1>6. final'[chosen] = file /\ \A c \in Candidate \ {chosen} : final'[c] = final[c]
  BY <1>4, <1>5 DEF DiscoveryInv, DiscoveryTypeOK
<1>7. final' \in [Candidate -> 0..MaxFiles]
  BY <1>4, <1>5 DEF DiscoveryInv, DiscoveryTypeOK
<1>8. DiscoveryTypeOK'
  BY <1>3, <1>4, <1>7 DEF DiscoveryInv, DiscoveryTypeOK
<1>9. \A j \in Caller : Placing(j)'
  <2>1. Placing(k)'
    BY <1>2, <1>3, <1>4, <1>5, <1>6 DEF Placing
  <2>2. ASSUME NEW j \in Caller \ {k} PROVE Placing(j)'
    <3>1. holder # j /\ Placing(j) /\ work'[j] = work[j]
      BY <1>3, <1>4, DiscoveryAssumption DEF DiscoveryInv
    <3> QED  BY <1>4, <3>1 DEF Placing
  <2> QED  BY <2>1, <2>2
<1>10. \A j \in Caller : work'[j].file = work[j].file /\ work'[j].for = work[j].for
  BY <1>2, <1>3
<1>11. Apart'
  <2>1. \A i, j \in Caller : work'[i].file # 0 /\ work'[i].file = work'[j].file => i = j
    BY <1>10 DEF DiscoveryInv, Apart
  <2>2. \A j \in Caller, c \in Candidate :
          final'[c] # 0 /\ final'[c] = work'[j].file => c = work'[j].for
    BY <1>5, <1>6, <1>10 DEF DiscoveryInv, Apart
  <2>3. \A c \in Candidate : final'[c] \in 0..files' /\ final'[c] \notin parts'
    BY <1>4, <1>5, <1>6 DEF DiscoveryInv, Apart
  <2> QED  BY <1>4, <2>1, <2>2, <2>3 DEF DiscoveryInv, Apart
<1>12. Receipting => Receipting'
  <2>1. ASSUME Receipting, store[chosen] # Nothing, store[chosen].receipt # 0 PROVE FALSE
    BY <1>4, <1>5, <2>1 DEF Receipting
  <2> QED  BY <1>4, <1>6, <2>1 DEF Receipting
<1>13. Accounted => Accounted'
  BY <1>4, <1>6, <1>10 DEF Accounted
<1> QED  BY <1>4, <1>8, <1>9, <1>11, <1>12, <1>13 DEF DiscoveryInv

(* The receipt is written over the store that was read, or stale is set.     *)
LEMMA ReplaceKeeps ==
    ASSUME DiscoveryInv, NEW k \in Caller, ReplaceStore(k)
    PROVE  DiscoveryInv'
<1> DEFINE new == [work[k] EXCEPT !.at = "replaced"]
           file == work[k].file
           chosen == work[k].for
           base == work[k].base
           entry == [base[chosen] EXCEPT !.receipt = file]
<1>1. "replaced" \in WorkPhases
  BY DEF WorkPhases
<1>2. new \in Acquiring /\ work' = [work EXCEPT ![k] = new] /\ new.at = "replaced"
      /\ new.for = work[k].for /\ new.base = work[k].base /\ new.file = work[k].file
  BY <1>1, OneMoves DEF ReplaceStore
<1> HIDE DEF new
<1>3. work' \in [Caller -> Acquiring] /\ work'[k] = new
        /\ \A j \in Caller \ {k} : work'[j] = work[j]
  BY <1>2, OneWorks
<1>4. work[k].at = "linked" /\ store' = Receipted(k) /\ stale' = (stale \/ base # store)
      /\ UNCHANGED <<named, final, parts, files, holder, mishaps>>
  BY DEF ReplaceStore, Stands, Inbox
<1>5. work[k] \in Acquiring /\ Placing(k) /\ base \in Library /\ file \in 0..MaxFiles
  BY DEF DiscoveryInv, DiscoveryTypeOK, Acquiring
<1>6. chosen \in Candidate /\ base[chosen] # Nothing /\ file # 0 /\ holder = k
      /\ final[chosen] = file /\ file \in 0..files
  BY <1>4, <1>5 DEF Placing
<1>7. base[chosen] \in Entry
  BY <1>5, <1>6 DEF Library
<1>8. entry \in Entry /\ entry.receipt = file
  BY <1>5, <1>7 DEF Entry
<1>9. store' = [base EXCEPT ![chosen] = entry]
  BY <1>4 DEF Receipted
<1> HIDE DEF entry
<1>10. entry # Nothing
  BY <1>8, NothingIsNoEntry
<1>11. store' \in Library /\ store'[chosen] = entry
         /\ \A c \in Candidate \ {chosen} : store'[c] = base[c]
  BY <1>5, <1>6, <1>8, <1>9 DEF Library
<1>12. DiscoveryTypeOK'
  BY <1>3, <1>4, <1>5, <1>11 DEF DiscoveryInv, DiscoveryTypeOK
<1>13. \A j \in Caller : Placing(j)'
  <2>1. Placing(k)'
    BY <1>2, <1>3, <1>4, <1>6, <1>8, <1>10, <1>11 DEF Placing
  <2>2. ASSUME NEW j \in Caller \ {k} PROVE Placing(j)'
    <3>1. holder # j /\ Placing(j) /\ work'[j] = work[j]
      BY <1>3, <1>6 DEF DiscoveryInv
    <3> QED  BY <1>4, <3>1 DEF Placing
  <2> QED  BY <2>1, <2>2
<1>14. \A j \in Caller : work'[j].file = work[j].file /\ work'[j].for = work[j].for
  BY <1>2, <1>3
<1>15. Apart'
  BY <1>4, <1>14 DEF DiscoveryInv, Apart
<1>16. ~stale' => Receipting'
  BY <1>4, <1>6, <1>8, <1>11 DEF DiscoveryInv, DiscoveryTypeOK, Receipting
<1>17. ~stale' /\ mishaps' = 0 => Accounted'
  <2> SUFFICES ASSUME ~stale', mishaps' = 0 PROVE Accounted'
    OBVIOUS
  <2>1. base = store /\ Accounted
    BY <1>4 DEF DiscoveryInv, DiscoveryTypeOK
  <2>2. \A f \in parts' : \E j \in Caller : work'[j].file = f
    BY <1>4, <1>14, <2>1 DEF Accounted
  <2>3. \A c \in Candidate : final'[c] # 0 =>
          \/ store'[c] # Nothing /\ store'[c].receipt = final'[c]
          \/ \E j \in Caller : work'[j].file = final'[c]
    BY <1>4, <1>6, <1>8, <1>10, <1>11, <1>14, <2>1 DEF Accounted
  <2> QED  BY <2>2, <2>3 DEF Accounted
<1> QED  BY <1>12, <1>13, <1>15, <1>16, <1>17 DEF DiscoveryInv

(* What a call that ends leaves with others and in the store.                *)
LEMMA EndKeeps ==
    ASSUME DiscoveryInv, NEW k \in Caller, EndsWork(k),
           UNCHANGED <<store, files, stale>>, named' \subseteq Candidate,
           parts' \subseteq parts, final' \in [Candidate -> 0..MaxFiles],
           \A c \in Candidate : final'[c] = final[c]
             \/ (final'[c] = 0 /\ final[c] = work[k].file),
           holder' \in {Nothing} \cup Caller, \A j \in Caller \ {k} : holder = j => holder' = j,
           mishaps' \in 0..MaxFaults,
           ~stale /\ Receipting => Receipting', ~stale /\ mishaps' = 0 => Accounted'
    PROVE  DiscoveryInv'
<1>1. /\ work' \in [Caller -> Acquiring] /\ work'[k].at = "idle" /\ work'[k].file = 0
      /\ \A j \in Caller \ {k} : work'[j] = work[j]
      /\ Placing(k)' <=> work'[k].file \in 0..files'
  BY OneEnds
<1>2. DiscoveryTypeOK'
  BY <1>1 DEF DiscoveryInv, DiscoveryTypeOK
<1>3. \A j \in Caller : Placing(j)'
  <2>1. Placing(k)'
    BY <1>1 DEF DiscoveryInv, DiscoveryTypeOK
  <2>2. ASSUME NEW j \in Caller \ {k} PROVE Placing(j)'
    <3>1. Placing(j) /\ work'[j] = work[j]
      BY <1>1 DEF DiscoveryInv
    <3>2. work[j].file # 0 => work[j].file # work[k].file
      BY DEF DiscoveryInv, Apart
    <3>3. work[j].at = "linked" => final'[work[j].for] = work[j].file
      BY <3>1, <3>2 DEF Placing
    <3> QED  BY <3>1, <3>3 DEF Placing
  <2> QED  BY <2>1, <2>2
<1>4. Apart'
  <2>1. \A i, j \in Caller : work'[i].file # 0 /\ work'[i].file = work'[j].file => i = j
    BY <1>1 DEF DiscoveryInv, Apart
  <2>2. \A j \in Caller, c \in Candidate :
          final'[c] # 0 /\ final'[c] = work'[j].file => c = work'[j].for
    BY <1>1 DEF DiscoveryInv, Apart
  <2>3. \A c \in Candidate : final'[c] \in 0..files' /\ final'[c] \notin parts'
    <3>1. \A f \in parts : f # 0
      BY DEF DiscoveryInv, Apart
    <3>2. 0 \in 0..files
      BY DEF DiscoveryInv, DiscoveryTypeOK
    <3> QED  BY <3>1, <3>2 DEF DiscoveryInv, Apart
  <2> QED  BY <2>1, <2>2, <2>3 DEF DiscoveryInv, Apart
<1> QED  BY <1>2, <1>3, <1>4 DEF DiscoveryInv

(* A call finishes with its receipt recorded, cleans up after a failure, or  *)
(* dies.                                                                     *)
LEMMA FinishKeeps ==
    ASSUME DiscoveryInv, NEW k \in Caller, FinishAcquisition(k)
    PROVE  DiscoveryInv'
<1>1. work[k].at = "replaced" /\ final[work[k].for] = work[k].file /\ EndsWork(k)
      /\ named' = named \cup {work[k].for} /\ holder' = Nothing
      /\ UNCHANGED <<store, final, parts, files, stale, mishaps>>
  BY DEF FinishAcquisition, Stands, Inbox
<1>2. work[k].for \in Candidate /\ holder = k /\ store[work[k].for] # Nothing
      /\ store[work[k].for].receipt = work[k].file
  BY <1>1 DEF DiscoveryInv, Placing
<1>3. \A j \in Caller \ {k} : work'[j] = work[j]
  BY <1>1, OneEnds
<1>4. Accounted => Accounted'
  <2>1. work[k].file \notin parts
    BY <1>1, <1>2 DEF DiscoveryInv, Apart
  <2>2. \A c \in Candidate : final[c] # 0 /\ final[c] = work[k].file => c = work[k].for
    BY DEF DiscoveryInv, Apart
  <2> QED  BY <1>1, <1>2, <1>3, <2>1, <2>2 DEF Accounted
<1>5. Receipting => Receipting'
  BY <1>1 DEF Receipting
<1>6. named' \subseteq Candidate /\ final' \in [Candidate -> 0..MaxFiles]
        /\ mishaps' \in 0..MaxFaults
  BY <1>1, <1>2 DEF DiscoveryInv, DiscoveryTypeOK
<1>7. ~stale /\ mishaps = 0 => Accounted
  BY DEF DiscoveryInv
<1>8. \A c \in Candidate : final'[c] = final[c] \/ (final'[c] = 0 /\ final[c] = work[k].file)
  BY <1>1
<1>9. parts' \subseteq parts /\ (\A j \in Caller \ {k} : holder = j => holder' = j)
      /\ holder' \in {Nothing} \cup Caller
  BY <1>1, <1>2
<1>10. (~stale /\ Receipting => Receipting') /\ (~stale /\ mishaps' = 0 => Accounted')
  BY <1>1, <1>4, <1>5, <1>7
<1> QED  BY <1>1, <1>6, <1>8, <1>9, <1>10, EndKeeps

(* What is left of a download is removed.                                    *)
LEMMA CleanUpKeeps ==
    ASSUME DiscoveryInv, NEW k \in Caller, CleanUp(k)
    PROVE  DiscoveryInv'
<1>1. EndsWork(k) /\ parts' = parts \ {work[k].file}
      /\ UNCHANGED <<store, named, files, holder, stale, mishaps>>
      /\ final' = [c \in Candidate |-> IF TakesBack(k, c) /\ ~Receipts(k) THEN 0 ELSE final[c]]
  BY DEF CleanUp
<1>2. \A c \in Candidate : IF TakesBack(k, c) /\ ~Receipts(k) THEN final'[c] = 0
                                                              ELSE final'[c] = final[c]
  BY <1>1
<1>3. \A c \in Candidate : TakesBack(k, c) => c = work[k].for
  BY DEF TakesBack, DiscoveryInv, Apart
<1>4. Receipting => Receipting'
  BY <1>1, <1>2, <1>3 DEF Receipting, TakesBack, Receipts, Known
<1>5. \A j \in Caller \ {k} : work'[j] = work[j]
  BY <1>1, OneEnds
<1>6. Accounted => Accounted'
  <2>1. ASSUME Accounted, NEW c \in Candidate, final'[c] # 0
        PROVE  \/ store[c] # Nothing /\ store[c].receipt = final'[c]
               \/ \E j \in Caller : work'[j].file = final'[c]
    <3>1. final'[c] = final[c] /\ (TakesBack(k, c) => Receipts(k))
      BY <1>2, <2>1
    <3>2. CASE TakesBack(k, c)
      BY <1>3, <3>1, <3>2 DEF TakesBack, Receipts, Known
    <3>3. CASE ~TakesBack(k, c)
      BY <1>5, <2>1, <3>1, <3>3 DEF TakesBack, Accounted
    <3> QED  BY <3>2, <3>3
  <2>2. ASSUME Accounted, NEW f \in parts' PROVE \E j \in Caller : work'[j].file = f
    BY <1>1, <1>5, <2>2 DEF Accounted
  <2> QED  BY <1>1, <2>1, <2>2 DEF Accounted
<1>7. final' \in [Candidate -> 0..MaxFiles]
  BY <1>1, DiscoveryAssumption DEF DiscoveryInv, DiscoveryTypeOK
<1>8. \A c \in Candidate : final'[c] = final[c] \/ (final'[c] = 0 /\ final[c] = work[k].file)
  <2> SUFFICES ASSUME NEW c \in Candidate, final'[c] # final[c]
               PROVE  final'[c] = 0 /\ final[c] = work[k].file
    OBVIOUS
  <2>1. TakesBack(k, c) /\ final'[c] = 0
    BY <1>2
  <2> QED  BY <2>1 DEF TakesBack
<1>9. ~stale /\ mishaps = 0 => Accounted
  BY DEF DiscoveryInv
<1>10. named' \subseteq Candidate /\ holder' \in {Nothing} \cup Caller
         /\ mishaps' \in 0..MaxFaults
  BY <1>1 DEF DiscoveryInv, DiscoveryTypeOK
<1> QED  BY <1>1, <1>4, <1>6, <1>7, <1>8, <1>9, <1>10, EndKeeps

(* A call dies; what it downloaded is left.                                  *)
LEMMA DieKeeps ==
    ASSUME DiscoveryInv, NEW k \in Caller, DieAtWork(k)
    PROVE  DiscoveryInv'
<1>1. mishaps' = mishaps + 1 /\ mishaps < MaxFaults /\ mishaps \in 0..MaxFaults
  BY DEF DieAtWork, DiscoveryInv, DiscoveryTypeOK
<1>2. mishaps' \in 0..MaxFaults /\ mishaps' # 0
  BY <1>1, FaultAssumption
<1>3. EndsWork(k) /\ UNCHANGED <<store, named, final, parts, files, stale>>
      /\ holder' = IF holder = k THEN Nothing ELSE holder
  BY DEF DieAtWork, Inbox
<1>4. Receipting => Receipting'
  BY <1>3 DEF Receipting
<1>5. named' \subseteq Candidate /\ holder' \in {Nothing} \cup Caller
        /\ final' \in [Candidate -> 0..MaxFiles]
  BY <1>3 DEF DiscoveryInv, DiscoveryTypeOK
<1>6. \A c \in Candidate : final'[c] = final[c] \/ (final'[c] = 0 /\ final[c] = work[k].file)
  BY <1>3
<1>7. parts' \subseteq parts /\ \A j \in Caller \ {k} : holder = j => holder' = j
  BY <1>3
<1>8. (~stale /\ Receipting => Receipting') /\ (~stale /\ mishaps' = 0 => Accounted')
  BY <1>2, <1>4
<1> QED  BY <1>2, <1>3, <1>5, <1>6, <1>7, <1>8, EndKeeps

(* The user removes what is abandoned, or puts a file there: nobody's file,  *)
(* and no receipted one, changes.                                            *)
LEMMA InboxKeeps ==
    ASSUME DiscoveryInv, Tidy \/ Put
    PROVE  DiscoveryInv'
<1>1. mishaps' = mishaps + 1 /\ mishaps < MaxFaults /\ mishaps \in 0..MaxFaults
      /\ UNCHANGED <<store, named, holder, work, stale>>
  BY DEF Tidy, Put, DiscoveryInv, DiscoveryTypeOK
<1>2. mishaps' \in 0..MaxFaults /\ mishaps' # 0
  BY <1>1, FaultAssumption
<1>3. files \in 0..MaxFiles /\ files' \in 0..MaxFiles /\ files' >= files /\ files <= files
  BY DiscoveryAssumption DEF Tidy, Put, DiscoveryInv, DiscoveryTypeOK
<1>4. ASSUME NEW c \in Candidate, NEW new \in 0..files', new = 0 \/ (new > files /\ final[c] = 0),
             final' = [final EXCEPT ![c] = new], parts' = parts,
             \A j \in Caller : final[c] # 0 => work[j].file # final[c],
             final[c] # 0 => store[c] = Nothing \/ store[c].receipt = 0
      PROVE  DiscoveryInv'
  <2>1. final' \in [Candidate -> 0..MaxFiles]
    <3>1. new \in 0..MaxFiles
      BY <1>3, <1>4, DiscoveryAssumption
    <3> QED  BY <1>4, <3>1 DEF DiscoveryInv, DiscoveryTypeOK
  <2>2. final'[c] = new /\ \A d \in Candidate \ {c} : final'[d] = final[d]
    BY <1>4 DEF DiscoveryInv, DiscoveryTypeOK
  <2>3. DiscoveryTypeOK'
    BY <1>1, <1>2, <1>3, <1>4, <2>1 DEF DiscoveryInv, DiscoveryTypeOK
  <2>4. \A j \in Caller : Placing(j)'
    <3> SUFFICES ASSUME NEW j \in Caller PROVE Placing(j)'
      OBVIOUS
    <3>1. Placing(j)
      BY DEF DiscoveryInv
    <3>2. work[j].file \in 0..files'
      BY <1>3, <3>1 DEF Placing
    <3>3. work[j].at = "linked" => work[j].for # c
      BY <1>4, <3>1 DEF Placing
    <3>4. work[j].at = "linked" => final'[work[j].for] = work[j].file
      BY <2>2, <3>1, <3>3 DEF Placing
    <3> QED  BY <1>1, <3>1, <3>2, <3>4 DEF Placing
  <2>5. Apart'
    <3>1. \A j \in Caller : new # 0 => work[j].file # new
      BY <1>3, <1>4 DEF DiscoveryInv, Placing
    <3>2. \A d \in Candidate : final'[d] \in 0..files' /\ final'[d] \notin parts
      <4>1. \A f \in parts : f \in 1..files
        BY DEF DiscoveryInv, Apart
      <4>2. new \notin parts
        BY <1>3, <1>4, <4>1
      <4> QED  BY <1>3, <1>4, <2>2, <4>2 DEF DiscoveryInv, Apart
    <3>3. parts \subseteq 1..files'
      BY <1>3 DEF DiscoveryInv, Apart
    <3> QED  BY <1>1, <1>4, <2>2, <3>1, <3>2, <3>3 DEF DiscoveryInv, Apart
  <2>6. Receipting => Receipting'
    <3>1. ASSUME Receipting, store[c] # Nothing, store[c].receipt # 0 PROVE FALSE
      BY <1>4, <3>1 DEF Receipting
    <3> QED  BY <1>1, <2>2, <3>1 DEF Receipting
  <2> QED  BY <1>1, <1>2, <2>3, <2>4, <2>5, <2>6 DEF DiscoveryInv
<1>5. ASSUME NEW f \in parts, parts' = parts \ {f}, final' = final, files' = files
      PROVE  DiscoveryInv'
  <2>1. DiscoveryTypeOK'
    BY <1>1, <1>2, <1>5 DEF DiscoveryInv, DiscoveryTypeOK
  <2>2. \A j \in Caller : Placing(j)'
    BY <1>1, <1>5 DEF DiscoveryInv, Placing
  <2>3. Apart' /\ (Receipting => Receipting')
    BY <1>1, <1>5 DEF DiscoveryInv, Apart, Receipting
  <2> QED  BY <1>1, <1>2, <2>1, <2>2, <2>3 DEF DiscoveryInv
<1>6. CASE Tidy
  <2>1. CASE \E f \in parts : Abandoned(f) /\ parts' = parts \ {f} /\ UNCHANGED final
    BY <1>5, <1>6, <2>1 DEF Tidy
  <2>2. CASE \E c \in Candidate :
              /\ Abandoned(final[c]) /\ (c \in Known(store) => store[c].receipt = 0)
              /\ final' = [final EXCEPT ![c] = 0] /\ UNCHANGED parts
    <3>1. 0 \in 0..files'
      BY <1>3
    <3> QED  BY <1>4, <2>2, <3>1 DEF Abandoned, Known
  <2> QED  BY <1>6, <2>1, <2>2 DEF Tidy
<1>7. CASE Put
  <2>1. PICK c \in Candidate : final[c] = 0 /\ final' = [final EXCEPT ![c] = files + 1]
    BY <1>7 DEF Put
  <2> DEFINE fresh == files + 1
  <2>2. fresh \in 0..files' /\ fresh > files
    BY <1>3, <1>7 DEF Put
  <2>3. final' = [final EXCEPT ![c] = fresh]
    BY <2>1
  <2> HIDE DEF fresh
  <2> QED  BY <1>4, <1>7, <2>1, <2>2, <2>3 DEF Put
<1> QED  BY <1>6, <1>7

(* One lemma for every step.                                                 *)
LEMMA DiscoveryInvNext == DiscoveryInv /\ [DiscoveryNext]_discoveryVars => DiscoveryInv'
<1>1. ASSUME DiscoveryInv, DiscoveryNext PROVE DiscoveryInv'
  BY <1>1, ReadKeeps, CheckKeeps, SelectKeeps, DownloadKeeps, LinkKeeps, ReplaceKeeps,
    FinishKeeps,
     CleanUpKeeps, DieKeeps, InboxKeeps DEF DiscoveryNext
<1>2. ASSUME DiscoveryInv, UNCHANGED discoveryVars PROVE DiscoveryInv'
  <2>1. \A k \in Caller : Placing(k)'
    BY <1>2 DEF discoveryVars, DiscoveryInv, Placing
  <2>2. DiscoveryTypeOK' /\ Apart'
    BY <1>2 DEF discoveryVars, DiscoveryInv, DiscoveryTypeOK, Apart
  <2>3. (Receipting => Receipting') /\ (Accounted => Accounted')
    BY <1>2 DEF discoveryVars, Receipting, Accounted
  <2> QED  BY <1>2, <2>1, <2>2, <2>3 DEF discoveryVars, DiscoveryInv
<1> QED  BY <1>1, <1>2

(* What the invariant says of a state: no broken receipts, and nothing to    *)
(* report when all calls have ended and none by accident.                    *)
LEMMA DiscoveryInvImplies == DiscoveryInv => DiscoveryTypeOK /\ ReceiptsNameTheirSource
<1> SUFFICES ASSUME DiscoveryInv, ~stale
             PROVE  /\ BrokenReceipts = {}
                    /\ mishaps = 0 /\ (\A k \in Caller : Stands(k, "idle"))
                      => AcquisitionsAreClean
  BY DEF ReceiptsNameTheirSource, DiscoveryInv
<1>1. BrokenReceipts = {}
  BY DEF BrokenReceipts, Known, DiscoveryInv, Receipting
<1>2. ASSUME mishaps = 0, \A k \in Caller : Stands(k, "idle") PROVE AcquisitionsAreClean
  <2>1. \A k \in Caller : work[k].file = 0
    BY <1>2 DEF Stands, DiscoveryInv, Placing
  <2>2. Accounted
    BY <1>2 DEF DiscoveryInv
  <2>3. parts = {}
    BY <2>1, <2>2 DEF Accounted, DiscoveryInv, Apart
  <2>4. UnreceiptedFinals = {}
    BY <2>1, <2>2 DEF UnreceiptedFinals, Known, Accounted
  <2> QED  BY <1>1, <2>3, <2>4 DEF AcquisitionsAreClean
<1> QED  BY <1>1, <1>2

(* A receipt names its file, whatever calls run at once, fail or die         *)
(* (services/discovery_acquisition.py, acquisition_paths.py).                *)
THEOREM ReceiptsAlwaysNameTheirSource == DiscoverySpec => []ReceiptsNameTheirSource
  BY DiscoveryInvInit, DiscoveryInvNext, DiscoveryInvImplies, PTL DEF DiscoverySpec

-----------------------------------------------------------------------------
(* The search projection (Catalog).  An update within its transaction has    *)
(* the database open, so nobody has removed it.                              *)
ChangesADatabase == \A s \in Session : update[s].at = "change" => database # Nothing
CatalogInv == CatalogTypeOK /\ UpdatesKeepItReadable /\ ChangesADatabase

(* A session that runs none.                                                 *)
LEMMA NoUpdateIsOne == NoUpdate \in Update /\ NoUpdate.at = "idle"
<1>1. 0 \in 0..MaxEdits
  BY CatalogAssumption
<1> QED  BY <1>1 DEF NoUpdate, Update

(* No projection, or one of an older schema, which is empty.                 *)
LEMMA CatalogInvInit == ASSUME CatalogInit PROVE CatalogInv
<1>1. 1 \in 1..MaxEdits /\ 0 \in 0..MaxEdits /\ 0 \in 0..MaxFaults
  BY CatalogAssumption, FaultAssumption
<1>2. database = Nothing \/ (database \in Database /\ database.rows = database.mark)
  <2> DEFINE old == [rows |-> {}, mark |-> {}, digest |-> 0, schema |-> "older",
        damaged |-> FALSE]
  <2>1. old \in Database /\ old.rows = old.mark
    BY <1>1 DEF Database
  <2> QED  BY <2>1 DEF CatalogInit
<1>3. truth \in [paper : 1..MaxEdits, tagged : BOOLEAN, head : 1..MaxEdits]
  BY <1>1 DEF CatalogInit
<1>4. CatalogTypeOK
  BY <1>1, <1>2, <1>3, NoUpdateIsOne DEF CatalogInit, CatalogTypeOK
<1>5. UpdatesKeepItReadable
  BY <1>2 DEF UpdatesKeepItReadable, Agree
<1>6. ChangesADatabase
  BY NoUpdateIsOne DEF CatalogInit, ChangesADatabase
<1> QED  BY <1>4, <1>5, <1>6 DEF CatalogInv

(* Writers of the stores keep the projection, in their own bounds.           *)
LEMMA WritersKeepCatalog == ASSUME CatalogInv, WriteStores PROVE CatalogInv'
<1>1. PICK t \in [paper : 1..MaxEdits, tagged : BOOLEAN, head : 1..MaxEdits] : t = truth
  BY DEF CatalogInv, CatalogTypeOK
<1> DEFINE Truths == [paper : 1..MaxEdits, tagged : BOOLEAN, head : 1..MaxEdits]
<1>2. truth' \in Truths
  <2>1. CASE RewritePaper
    <3> DEFINE next == t.paper + 1
    <3>1. next \in 1..MaxEdits
      BY <1>1, <2>1, CatalogAssumption DEF RewritePaper
    <3>2. truth' = [t EXCEPT !.paper = next]
      BY <1>1, <2>1 DEF RewritePaper
    <3> HIDE DEF next
    <3> QED  BY <3>1, <3>2
  <2>2. CASE Retag
    BY <1>1, <2>2 DEF Retag
  <2>3. CASE AppendState
    <3> DEFINE next == t.head + 1
    <3>1. next \in 1..MaxEdits
      BY <1>1, <2>3, CatalogAssumption DEF AppendState
    <3>2. truth' = [t EXCEPT !.head = next]
      BY <1>1, <2>3 DEF AppendState
    <3> HIDE DEF next
    <3> QED  BY <3>1, <3>2
  <2> QED  BY <2>1, <2>2, <2>3 DEF WriteStores
<1>3. UNCHANGED <<database, hot, update, accidents>>
  BY DEF WriteStores
<1> QED  BY <1>2, <1>3 DEF CatalogInv, CatalogTypeOK, UpdatesKeepItReadable, ChangesADatabase

(* A session that only moves on leaves the projection.                       *)
LEMMA OneUpdates ==
    ASSUME CatalogInv, NEW s \in Session, NEW new \in Update,
           update' = [update EXCEPT ![s] = new],
           StoresStay, new.at = "change" => database # Nothing
    PROVE  CatalogInv'
<1>1. update' \in [Session -> Update] /\ update'[s] = new
      /\ \A t \in Session \ {s} : update'[t] = update[t]
  BY DEF CatalogInv, CatalogTypeOK
<1>2. ChangesADatabase'
  BY <1>1 DEF StoresStay, CatalogInv, ChangesADatabase
<1> QED  BY <1>1, <1>2 DEF StoresStay, CatalogInv, CatalogTypeOK, UpdatesKeepItReadable

(* What reading, opening and refusing do to the call.                        *)
LEMMA ReadersKeepCatalog ==
    ASSUME CatalogInv, NEW s \in Session,
           \/ StartUpdate(s) \/ StartRebuild(s) \/ ReadPapers(s) \/ ReadHeads(s)
           \/ ReadBindings(s) \/ OpenUpdate(s) \/ FailUpdate(s)
    PROVE  CatalogInv'
<1>1. PICK u \in Update : u = update[s]
  BY DEF CatalogInv, CatalogTypeOK
<1>2. truth \in [paper : 1..MaxEdits, tagged : BOOLEAN, head : 1..MaxEdits]
  BY DEF CatalogInv, CatalogTypeOK
<1>3. PaperRow(truth) \in Row /\ HeadRow(truth.head) \in Row /\ truth.head \in 0..MaxEdits
  <2>1. truth.paper \in 0..MaxEdits /\ truth.head \in 0..MaxEdits /\ 0 \in 0..MaxEdits
    BY <1>2, CatalogAssumption
  <2> QED  BY <1>2, <2>1 DEF PaperRow, HeadRow, Row
<1>4. CASE StartUpdate(s) \/ StartRebuild(s)
  <2>1. PICK op \in {"rebuild", "update"} :
          update' = [update EXCEPT ![s] = [NoUpdate EXCEPT !.op = op, !.at = "papers"]]
    BY <1>4 DEF StartUpdate, StartRebuild, Proceeds
  <2> DEFINE new == [NoUpdate EXCEPT !.op = op, !.at = "papers"]
  <2>2. "papers" \in UpdatePhases
    BY DEF UpdatePhases
  <2>3. new \in Update /\ new.at = "papers"
    BY <2>2, NoUpdateIsOne DEF Update
  <2>4. update' = [update EXCEPT ![s] = new]
    BY <2>1
  <2> HIDE DEF new
  <2> QED  BY <1>4, <2>3, <2>4, OneUpdates DEF StartUpdate, StartRebuild
<1>5. CASE ReadPapers(s)
  <2> DEFINE seen == {PaperRow(truth)}
             new == [[u EXCEPT !.at = "heads"] EXCEPT !.seen = seen]
  <2>1. "heads" \in UpdatePhases /\ seen \in SUBSET Row
    BY <1>3 DEF UpdatePhases
  <2>2. update' = [update EXCEPT ![s] = new]
    BY <1>1, <1>5 DEF ReadPapers, MovedTo
  <2> HIDE DEF seen
  <2>3. new \in Update /\ new.at = "heads"
    BY <2>1 DEF Update
  <2> HIDE DEF new
  <2> QED  BY <1>5, <2>2, <2>3, OneUpdates DEF ReadPapers
<1>6. CASE ReadHeads(s)
  <2> DEFINE seen == u.seen \cup {HeadRow(truth.head)}
             new == [[u EXCEPT !.at = "bindings"] EXCEPT !.seen = seen]
  <2>1. "bindings" \in UpdatePhases /\ seen \in SUBSET Row
    BY <1>3 DEF UpdatePhases, Update
  <2>2. update' = [update EXCEPT ![s] = new]
    BY <1>1, <1>6 DEF ReadHeads, MovedTo, Update
  <2> HIDE DEF seen
  <2>3. new \in Update /\ new.at = "bindings"
    BY <2>1 DEF Update
  <2> HIDE DEF new
  <2> QED  BY <1>6, <2>2, <2>3, OneUpdates DEF ReadHeads
<1>7. CASE ReadBindings(s)
  <2> DEFINE next == IF u.op = "rebuild" THEN "swap" ELSE "open"
             new == [[u EXCEPT !.at = next] EXCEPT !.digest = truth.head]
  <2>1. next \in UpdatePhases /\ next # "change"
    BY DEF UpdatePhases
  <2>2. update' = [update EXCEPT ![s] = new]
    BY <1>1, <1>7 DEF ReadBindings, MovedTo
  <2> HIDE DEF next
  <2>3. new \in Update /\ new.at = next
    BY <1>3, <2>1 DEF Update
  <2> HIDE DEF new
  <2> QED  BY <1>7, <2>1, <2>2, <2>3, OneUpdates DEF ReadBindings
<1>8. CASE OpenUpdate(s)
  <2> DEFINE changed == ChangedKeys(database.rows, u.seen)
             new == [[u EXCEPT !.at = "change"] EXCEPT !.changed = changed]
  <2>1. "change" \in UpdatePhases /\ changed \in SUBSET (0..MaxEdits)
    BY DEF UpdatePhases, ChangedKeys
  <2>2. update' = [update EXCEPT ![s] = new]
    BY <1>1, <1>8 DEF OpenUpdate, MovedTo
  <2> HIDE DEF changed
  <2>3. new \in Update
    BY <2>1 DEF Update
  <2> HIDE DEF new
  <2>4. database # Nothing
    BY <1>8 DEF OpenUpdate, ProjectionReady
  <2> QED  BY <1>8, <2>2, <2>3, <2>4, OneUpdates DEF OpenUpdate
<1>9. CASE FailUpdate(s)
  BY <1>9, NoUpdateIsOne, OneUpdates DEF FailUpdate
<1> QED  BY <1>4, <1>5, <1>6, <1>7, <1>8, <1>9

(* A rebuilt file has what was read as rows and as watermark.                *)
LEMMA SwapKeepsCatalog ==
    ASSUME CatalogInv, NEW s \in Session, Swap(s) PROVE CatalogInv'
<1>1. PICK u \in Update : u = update[s]
  BY DEF CatalogInv, CatalogTypeOK
<1> DEFINE new == [rows |-> u.seen, mark |-> u.seen, digest |-> u.digest,
                   schema |-> "current", damaged |-> FALSE]
<1>2. new \in Database /\ new.rows = new.mark
  BY DEF Database, Update
<1>3. database' = new /\ UNCHANGED <<truth, hot, accidents>>
      /\ update' = [t \in Session |->
                     IF t = s \/ AtPhase(t, "change") THEN NoUpdate ELSE update[t]]
  BY <1>1 DEF Swap
<1> HIDE DEF new
<1>4. update' \in [Session -> Update]
  BY <1>3, NoUpdateIsOne DEF CatalogInv, CatalogTypeOK
<1>5. CatalogTypeOK'
  BY <1>2, <1>3, <1>4 DEF CatalogInv, CatalogTypeOK
<1>6. UpdatesKeepItReadable'
  BY <1>2, <1>3 DEF UpdatesKeepItReadable, Agree
<1>7. ChangesADatabase'
  BY <1>2, <1>3, NothingIsNoDatabase DEF ChangesADatabase
<1> QED  BY <1>5, <1>6, <1>7 DEF CatalogInv

(* An update that commits has checked what its rows say.                     *)
LEMMA CommitKeepsCatalog ==
    ASSUME CatalogInv, NEW s \in Session, CommitUpdate(s) PROVE CatalogInv'
<1>1. PICK u \in Update : u = update[s]
  BY DEF CatalogInv, CatalogTypeOK
<1>2. PICK d \in Database : d = database
  BY <1>1 DEF CommitUpdate, AtPhase, CatalogInv, CatalogTypeOK, ChangesADatabase
<1> DEFINE rows == Replaced(d.rows, u)
           new == [d EXCEPT !.rows = rows, !.mark = u.seen, !.digest = u.digest]
<1>3. rows \in SUBSET Row /\ Agree(rows, u.seen)
  BY <1>1, <1>2 DEF Replaced, Database, Update, CommitUpdate
<1>4. database' = new /\ hot' = FALSE /\ update' = [update EXCEPT ![s] = NoUpdate]
      /\ UNCHANGED <<truth, accidents>>
  BY <1>1, <1>2 DEF CommitUpdate
<1> HIDE DEF rows
<1>5. new \in Database /\ new.rows = rows /\ new.mark = u.seen
  BY <1>3 DEF Database, Update
<1> HIDE DEF new
<1>6. CatalogTypeOK'
  BY <1>4, <1>5, NoUpdateIsOne DEF CatalogInv, CatalogTypeOK
<1>7. UpdatesKeepItReadable'
  BY <1>3, <1>4, <1>5 DEF UpdatesKeepItReadable
<1>8. ChangesADatabase'
  BY <1>4, <1>5, NothingIsNoDatabase DEF ChangesADatabase
<1> QED  BY <1>6, <1>7, <1>8 DEF CatalogInv

(* Sessions are killed, the file is damaged or discarded.                    *)
LEMMA AccidentsKeepCatalog ==
    ASSUME CatalogInv, Damage \/ Discard \/ \E s \in Session : KillSession(s) PROVE CatalogInv'
<1>1. accidents \in 0..MaxFaults /\ accidents' = accidents + 1 /\ accidents < MaxFaults
  BY DEF Damage, Discard, KillSession, CatalogInv, CatalogTypeOK
<1>2. accidents' \in 0..MaxFaults
  BY <1>1, FaultAssumption
<1>3. CASE Damage
  <2>1. PICK d \in Database : d = database
    BY <1>3 DEF Damage, CatalogInv, CatalogTypeOK
  <2> DEFINE new == [d EXCEPT !.damaged = TRUE]
  <2>2. new \in Database /\ new.rows = d.rows /\ new.mark = d.mark
    BY DEF Database
  <2>3. database' = new /\ UNCHANGED <<truth, hot, update>>
    BY <1>3, <2>1 DEF Damage
  <2> HIDE DEF new
  <2>4. Agree(d.rows, d.mark)
    BY <1>3, <2>1 DEF Damage, CatalogInv, UpdatesKeepItReadable
  <2>5. UpdatesKeepItReadable'
    BY <2>2, <2>3, <2>4 DEF UpdatesKeepItReadable
  <2>6. CatalogTypeOK' /\ ChangesADatabase'
    BY <1>2, <2>2, <2>3, NothingIsNoDatabase DEF CatalogInv, CatalogTypeOK, ChangesADatabase
  <2> QED  BY <2>5, <2>6 DEF CatalogInv
<1>4. CASE Discard
  <2>1. database' = Nothing /\ hot' = FALSE /\ UNCHANGED truth
        /\ update' = [t \in Session |-> IF AtPhase(t, "change") THEN NoUpdate ELSE update[t]]
    BY <1>4 DEF Discard
  <2>2. update' \in [Session -> Update]
    BY <2>1, NoUpdateIsOne DEF CatalogInv, CatalogTypeOK
  <2>3. CatalogTypeOK' /\ UpdatesKeepItReadable'
    BY <1>2, <2>1, <2>2 DEF CatalogInv, CatalogTypeOK, UpdatesKeepItReadable
  <2>4. ChangesADatabase'
    BY <2>1, NoUpdateIsOne DEF ChangesADatabase, AtPhase
  <2> QED  BY <2>3, <2>4 DEF CatalogInv
<1>5. CASE \E s \in Session : KillSession(s)
  <2>1. PICK s \in Session : KillSession(s)
    BY <1>5
  <2>2. update' = [update EXCEPT ![s] = NoUpdate] /\ hot' \in BOOLEAN
          /\ UNCHANGED <<truth, database>>
    BY <2>1 DEF KillSession, CatalogInv, CatalogTypeOK
  <2>3. update' \in [Session -> Update] /\ \A t \in Session : update'[t] \in {update[t], NoUpdate}
    BY <2>2, NoUpdateIsOne DEF CatalogInv, CatalogTypeOK
  <2>4. CatalogTypeOK' /\ UpdatesKeepItReadable'
    BY <1>2, <2>2, <2>3 DEF CatalogInv, CatalogTypeOK, UpdatesKeepItReadable
  <2>5. ChangesADatabase'
    BY <2>2, <2>3, NoUpdateIsOne DEF CatalogInv, ChangesADatabase
  <2> QED  BY <2>4, <2>5 DEF CatalogInv
<1> QED  BY <1>3, <1>4, <1>5

(* One lemma for every step.                                                 *)
LEMMA CatalogInvNext == CatalogInv /\ [CatalogNext]_catalogVars => CatalogInv'
<1>1. ASSUME CatalogInv, CatalogNext PROVE CatalogInv'
  BY <1>1, WritersKeepCatalog, ReadersKeepCatalog, SwapKeepsCatalog, CommitKeepsCatalog,
     AccidentsKeepCatalog DEF CatalogNext, UpdateStep
<1>2. ASSUME CatalogInv, UNCHANGED catalogVars PROVE CatalogInv'
  BY <1>2 DEF catalogVars, CatalogInv, CatalogTypeOK, UpdatesKeepItReadable, ChangesADatabase
<1> QED  BY <1>1, <1>2

(* However updates overlap, none leaves a projection that the next           *)
(* inspection takes for corrupt (services/catalog.py, catalog/storage.py).   *)
THEOREM UpdatesAlwaysKeepItReadable == CatalogSpec => []UpdatesKeepItReadable
  BY CatalogInvInit, CatalogInvNext, PTL DEF CatalogSpec, CatalogInv

-----------------------------------------------------------------------------
(* The generated views (GeneratedViews).  What a view shows, from its mark   *)
(* alone: no record outside a view's dependencies is in it.                  *)
LateBy(m) == \E k \in {"question", "card", "evidence"} : m.facts[k] > m.facts["candidate"]
ShownBy(v, m) ==
    CASE v = "paper" -> <<m.facts["title"], m.facts["card"], m.facts["evidence"], m.facts["tag"]>>
      [] v = "direction" -> <<m.facts["direction"], m.facts["title"]>>
      [] v = "question" -> <<m.facts["question"], m.facts["title"]>>
      [] v = "synthesis" -> <<m.facts["question"], m.facts["candidate"], Flag(LateBy(m))>>
      [] v = "index" -> IF m.facts["card"] # 0 THEN <<m.facts["title"]>> ELSE <<>>
      [] v = "table" -> IF m.facts["card"] # 0
                        THEN <<m.facts["title"], Flag(m.facts["evidence"] # 0)>> ELSE <<>>
      [] v = "home" -> <<Flag(m.facts["card"] # 0), Flag(m.facts["direction"] # 0),
                         Flag(m.facts["question"] # 0), Flag(m.facts["candidate"] # 0),
                         Flag(m.table)>>

(* A view shows what its mark says: the dependencies are complete.           *)
LEMMA MarksAreComplete ==
    ASSUME NEW v \in View, NEW table \in BOOLEAN, Exists(v, table)
    PROVE  Shows(v, table) = ShownBy(v, MarkOf(v, table))
<1> SUFFICES ASSUME NEW m, m = MarkOf(v, table) PROVE Shows(v, table) = ShownBy(v, m)
  OBVIOUS
<1> DEFINE at(k) == m.facts[k]
<1>1. \A k \in Fact : at(k) = IF k \in Uses(v, table) THEN fact[k] ELSE 0
  BY DEF MarkOf
<1>2. m.table <=> (v = "home" /\ table)
  BY DEF MarkOf
<1>3. \A k \in {"title", "card", "unit", "evidence", "tag", "link", "direction", "question",
        "candidate"} :
        k \in Fact
  BY DEF Fact
<1>4. CASE v = "paper"
  <2>1. fact["card"] # 0
    BY <1>4 DEF Exists
  <2>2. Uses(v, table) = {"title", "card", "evidence"} \cup
            (IF tagged THEN {"tag", "link"} ELSE {})
    BY <1>4, <2>1 DEF Uses, PageUses, PaperUses
  <2>3. at("title") = fact["title"] /\ at("card") = fact["card"]
          /\ at("evidence") = fact["evidence"]
        /\ at("tag") = TagShown
    BY <1>1, <1>3, <2>2 DEF TagShown
  <2> QED  BY <1>4, <2>3 DEF Shows, ShownBy
<1>5. CASE v = "direction"
  <2>1. Uses(v, table) = {"direction", "title", "unit"}
    BY <1>5 DEF Uses, PageUses, OwnerUses
  <2>2. at("direction") = fact["direction"] /\ at("title") = fact["title"]
    BY <1>1, <1>3, <2>1
  <2> QED  BY <1>5, <2>2 DEF Shows, ShownBy
<1>6. CASE v = "question"
  <2>1. Uses(v, table) = {"question", "evidence", "title", "unit"}
    BY <1>6 DEF Uses, PageUses, OwnerUses
  <2>2. at("question") = fact["question"] /\ at("title") = fact["title"]
    BY <1>1, <1>3, <2>1
  <2> QED  BY <1>6, <2>2 DEF Shows, ShownBy
<1>7. CASE v = "synthesis"
  <2>1. Uses(v, table) = {"question", "candidate", "card", "unit", "evidence"}
    BY <1>7 DEF Uses, PageUses
  <2>2. at("question") = fact["question"] /\ at("candidate") = fact["candidate"]
        /\ at("card") = fact["card"] /\ at("evidence") = fact["evidence"]
    BY <1>1, <1>3, <2>1
  <2>3. Outdated <=> LateBy(m)
    BY <2>2 DEF Outdated, LateBy
  <2> QED  BY <1>7, <2>2, <2>3 DEF Shows, ShownBy, Flag
<1>8. CASE v = "index" \/ v = "table"
  <2>1. Uses(v, table) = PaperUses /\ (Exists("paper", table) <=> fact["card"] # 0)
    BY <1>8 DEF Uses, PageUses, Exists
  <2>2. CASE fact["card"] = 0
    <3>1. at("card") = 0
      BY <1>1, <1>3, <2>2
    <3> QED  BY <1>8, <2>1, <2>2, <3>1 DEF Shows, ShownBy
  <2>3. CASE fact["card"] # 0
    <3>1. "title" \in PaperUses /\ "card" \in PaperUses /\ "evidence" \in PaperUses
      BY <2>3 DEF PaperUses
    <3>2. at("title") = fact["title"] /\ at("card") = fact["card"]
            /\ at("evidence") = fact["evidence"]
      BY <1>1, <1>3, <2>1, <3>1
    <3> QED  BY <1>8, <2>1, <2>3, <3>2 DEF Shows, ShownBy
  <2> QED  BY <2>2, <2>3
<1>9. CASE v = "home"
  <2>1. ASSUME NEW w \in View \ {"home"}, Exists(w, table)
        PROVE  PageUses(w) \subseteq Uses(v, table)
    BY <1>9, <2>1 DEF Uses
  <2>2. fact["card"] # 0 => "card" \in Uses(v, table)
    <3>1. Exists("index", table) /\ "index" \in View \ {"home"}
      BY DEF Exists, View
    <3>2. fact["card"] # 0 => "card" \in PageUses("index")
      BY DEF PageUses, PaperUses
    <3> QED  BY <2>1, <3>1, <3>2
  <2>3. fact["direction"] # 0 => "direction" \in Uses(v, table)
    <3>1. fact["direction"] # 0 => Exists("direction", table)
      BY DEF Exists
    <3>2. "direction" \in PageUses("direction") /\ "direction" \in View \ {"home"}
      BY DEF PageUses, View
    <3> QED  BY <2>1, <3>1, <3>2
  <2>4. fact["question"] # 0 => "question" \in Uses(v, table)
    <3>1. fact["question"] # 0 => Exists("question", table)
      BY DEF Exists
    <3>2. "question" \in PageUses("question") /\ "question" \in View \ {"home"}
      BY DEF PageUses, View
    <3> QED  BY <2>1, <3>1, <3>2
  <2>5. fact["candidate"] # 0 => "candidate" \in Uses(v, table)
    <3>1. fact["candidate"] # 0 => Exists("synthesis", table)
      BY DEF Exists
    <3>2. "candidate" \in PageUses("synthesis") /\ "synthesis" \in View \ {"home"}
      BY DEF PageUses, View
    <3> QED  BY <2>1, <3>1, <3>2
  <2>6. /\ at("card") # 0 <=> fact["card"] # 0
        /\ at("direction") # 0 <=> fact["direction"] # 0
        /\ at("question") # 0 <=> fact["question"] # 0
        /\ at("candidate") # 0 <=> fact["candidate"] # 0
    BY <1>1, <1>3, <2>2, <2>3, <2>4, <2>5
  <2>7. /\ Exists("paper", table) <=> fact["card"] # 0
        /\ Exists("direction", table) <=> fact["direction"] # 0
        /\ Exists("question", table) <=> fact["question"] # 0
        /\ Exists("synthesis", table) <=> fact["candidate"] # 0
    BY DEF Exists
  <2>8. m.table <=> table
    BY <1>2, <1>9
  <2>9. Shows("home", table) =
          <<Flag(Exists("paper", table)), Flag(Exists("direction", table)),
            Flag(Exists("question", table)), Flag(Exists("synthesis", table)), Flag(table)>>
    BY DEF Shows
  <2>10. ShownBy("home", m) = <<Flag(at("card") # 0), Flag(at("direction") # 0),
                              Flag(at("question") # 0), Flag(at("candidate") # 0), Flag(m.table)>>
    BY DEF ShownBy
  <2> QED  BY <1>9, <2>6, <2>7, <2>8, <2>9, <2>10 DEF Flag
<1> QED  BY <1>4, <1>5, <1>6, <1>7, <1>8, <1>9 DEF View

(* An entry shows what its mark says, in the manifest and in every render.   *)
Faithful(entries) == \A v \in View :
    entries[v] # Nothing => entries[v].shows = ShownBy(v, entries[v].mark)
ViewsInv ==
    /\ ViewsTypeOK
    /\ manifest # Nothing => Faithful(manifest.entries)
    /\ \A c \in Renderer :
         render[c] # Nothing /\ render[c].entries # Nothing => Faithful(render[c].entries)

(* Marks and drafts are what the manifest may hold.                          *)
LEMMA MarksAreTyped ==
    ASSUME ViewsTypeOK, NEW table \in BOOLEAN
    PROVE  (\A v \in View : MarkOf(v, table) \in Mark)
             /\ Watermark(table) \in [View -> {Nothing} \cup Mark]
<1>1. ASSUME NEW v \in View PROVE MarkOf(v, table) \in Mark
  <2> DEFINE facts == [k \in Fact |-> IF k \in Uses(v, table) THEN fact[k] ELSE 0]
             home == (v = "home" /\ table)
  <2>1. 0 \in Change
    BY ViewsAssumption DEF Change
  <2>2. facts \in [Fact -> Change]
    BY <2>1 DEF ViewsTypeOK
  <2>3. home \in BOOLEAN
    OBVIOUS
  <2> HIDE DEF facts, home
  <2>4. [facts |-> facts, table |-> home] \in Mark
    BY <2>2, <2>3 DEF Mark
  <2> QED  BY <2>4 DEF MarkOf, facts, home
<1> QED  BY <1>1 DEF Watermark

(* What a preview renders shows what its marks say.                          *)
LEMMA DraftsAreFaithful ==
    ASSUME ViewsTypeOK, NEW table \in BOOLEAN
    PROVE  Drafts(table) \in Entries /\ Faithful(Drafts(table))
<1>1. ASSUME NEW v \in View, Exists(v, table) PROVE Shows(v, table) \in Seq(Change)
  <2>1. 0 \in Change /\ 1 \in Change
    BY ViewsAssumption DEF Change
  <2>2. \A b : Flag(b) \in Change
    BY <2>1 DEF Flag
  <2>3. /\ fact["title"] \in Change /\ fact["card"] \in Change /\ fact["evidence"] \in Change
        /\ fact["tag"] \in Change /\ fact["direction"] \in Change /\ fact["question"] \in Change
        /\ fact["candidate"] \in Change
    BY DEF ViewsTypeOK, Fact
  <2>4. TagShown \in Change
    BY <2>1, <2>3 DEF TagShown
  <2> HIDE DEF Change
  <2> QED  BY <2>2, <2>3, <2>4 DEF Shows, View
<1>2. ASSUME NEW v \in View, Exists(v, table)
      PROVE  LET draft == [mark |-> MarkOf(v, table), shows |-> Shows(v, table)]
             IN  draft \in ViewEntry /\ draft.shows = ShownBy(v, draft.mark)
  BY <1>1, <1>2, MarksAreTyped, MarksAreComplete DEF ViewEntry
<1>3. Drafts(table) \in Entries
  BY <1>2 DEF Drafts, Entries
<1>4. Faithful(Drafts(table))
  <2> SUFFICES ASSUME NEW v \in View, Drafts(table)[v] # Nothing
               PROVE  Drafts(table)[v].shows = ShownBy(v, Drafts(table)[v].mark)
    BY DEF Faithful
  <2> DEFINE draft == [mark |-> MarkOf(v, table), shows |-> Shows(v, table)]
  <2>1. Exists(v, table) /\ Drafts(table)[v] = draft
    BY DEF Drafts
  <2>2. draft.shows = ShownBy(v, draft.mark)
    BY <1>2, <2>1
  <2> HIDE DEF draft
  <2> QED  BY <2>1, <2>2
<1> QED  BY <1>3, <1>4

(* A render that moves on, or ends, leaves the manifest and the others.      *)
LEMMA OneRenders ==
    ASSUME ViewsInv, NEW c \in Renderer, NEW new \in {Nothing} \cup Render,
           render' = [render EXCEPT ![c] = new], UNCHANGED <<Records, manifest, pages, lost>>,
           litter' \in BOOLEAN, slips' \in 0..MaxFaults,
           new # Nothing => (new.entries = Nothing <=> new.at \in {"previewed", "confirmed"}),
           new # Nothing /\ new.entries # Nothing => Faithful(new.entries)
    PROVE  ViewsInv'
<1>1. render' \in [Renderer -> {Nothing} \cup Render] /\ render'[c] = new
      /\ \A d \in Renderer \ {c} : render'[d] = render[d]
  BY DEF ViewsInv, ViewsTypeOK
<1>2. ViewsTypeOK'
  BY <1>1 DEF ViewsInv, ViewsTypeOK, Records
<1>3. \A d \in Renderer :
        render'[d] # Nothing /\ render'[d].entries # Nothing => Faithful(render'[d].entries)
  BY <1>1 DEF ViewsInv
<1> QED  BY <1>2, <1>3 DEF ViewsInv

(* Previewed, confirmed, planned and staged, or ended.                       *)
LEMMA RendersKeep ==
    ASSUME ViewsInv, NEW c \in Renderer,
           \/ \E table, discard \in BOOLEAN : Preview(c, table, discard)
           \/ Confirm(c) \/ RefuseRender(c) \/ Plan(c) \/ Stage(c)
           \/ FailRender(c) \/ DieRendering(c)
    PROVE  ViewsInv'
<1>1. ViewsTypeOK /\ litter \in BOOLEAN /\ slips \in 0..MaxFaults /\ pages \in Pages
      /\ manifest \in {Nothing} \cup Manifest /\ render[c] \in {Nothing} \cup Render
  BY DEF ViewsInv, ViewsTypeOK
<1>2. CASE \E table, discard \in BOOLEAN : Preview(c, table, discard)
  <2>1. PICK table \in BOOLEAN, discard \in BOOLEAN : Preview(c, table, discard)
    BY <1>2
  <2> DEFINE new == [at |-> "previewed", table |-> table, discard |-> discard,
                     expected |-> Expected(table), entries |-> Nothing, kept |-> {},
                     pages |-> NoPages]
  <2>2. Expected(table) \in Shown
    BY <1>1, MarksAreTyped DEF Expected, Shown
  <2>3. NoPages \in Pages
    BY FaultAssumption DEF NoPages, Pages, PageState, Absent
  <2>4. new \in Render /\ new.at = "previewed" /\ new.entries = Nothing
    BY <2>2, <2>3 DEF Render
  <2>5. render' = [render EXCEPT ![c] = new] /\ UNCHANGED <<Records, Projected, slips>>
    BY <2>1 DEF Preview
  <2> HIDE DEF new
  <2> QED  BY <1>1, <2>4, <2>5, OneRenders DEF Projected
<1>3. CASE Confirm(c)
  <2>1. PICK r \in Render : r = render[c] /\ r.at = "previewed" /\ r.entries = Nothing
    BY <1>1, <1>3 DEF Confirm, AtStage, ViewsInv, ViewsTypeOK
  <2> DEFINE new == [r EXCEPT !.at = "confirmed"]
  <2>2. new \in Render /\ new.at = "confirmed" /\ new.entries = r.entries
    BY DEF Render
  <2>3. render' = [render EXCEPT ![c] = new]
    BY <1>3, <2>1 DEF Confirm
  <2> HIDE DEF new
  <2> QED  BY <1>1, <1>3, <2>1, <2>2, <2>3, OneRenders DEF Confirm, Projected
<1>4. CASE RefuseRender(c)
  BY <1>1, <1>4, OneRenders DEF RefuseRender, Projected
<1>5. CASE Plan(c)
  <2>1. PICK r \in Render : r = render[c] /\ r.at = "confirmed"
    BY <1>1, <1>5 DEF Plan, AtStage
  <2> DEFINE kept == {v \in View : Keeps(c, v)}
             entries == [v \in View |->
               IF v \in kept THEN manifest.entries[v] ELSE Drafts(r.table)[v]]
             new == [r EXCEPT !.at = "planned", !.kept = kept, !.entries = entries]
  <2>2. r.table \in BOOLEAN
    BY DEF Render
  <2>3. Drafts(r.table) \in Entries /\ Faithful(Drafts(r.table))
    BY <1>1, <2>2, DraftsAreFaithful
  <2>4. \A v \in kept : manifest.entries[v] \in ViewEntry
                        /\ manifest.entries[v].shows = ShownBy(v, manifest.entries[v].mark)
    <3> SUFFICES ASSUME NEW v \in View, Keeps(c, v)
                 PROVE  manifest.entries[v] \in ViewEntry
                        /\ manifest.entries[v].shows = ShownBy(v, manifest.entries[v].mark)
      OBVIOUS
    <3>1. manifest # Nothing /\ manifest.entries[v] # Nothing
      BY DEF Keeps
    <3> QED  BY <1>1, <3>1 DEF ViewsInv, Faithful, Manifest, Entries
  <2>5. kept \in SUBSET View
    OBVIOUS
  <2>6. render' = [render EXCEPT ![c] = new]
    BY <1>5, <2>1 DEF Plan
  <2> HIDE DEF kept
  <2>7. entries \in Entries
    BY <2>3, <2>4, <2>5 DEF Entries
  <2>8. Faithful(entries)
    BY <2>3, <2>4, <2>5 DEF Faithful
  <2> HIDE DEF entries
  <2>9. new \in Render /\ new.at = "planned" /\ new.entries = entries
    BY <2>5, <2>7 DEF Render
  <2>10. entries # Nothing
    BY <2>7, NothingIsNoView
  <2> HIDE DEF new
  <2> QED  BY <1>1, <1>5, <2>6, <2>8, <2>9, <2>10, OneRenders DEF Plan, Projected
<1>6. CASE Stage(c)
  <2>1. PICK r \in Render : r = render[c] /\ r.at = "planned" /\ r.entries # Nothing
                            /\ Faithful(r.entries)
    BY <1>1, <1>6 DEF Stage, AtStage, ViewsInv, ViewsTypeOK
  <2> DEFINE written == [v \in View |-> IF r.entries[v] = Nothing THEN Absent
                                      ELSE IF v \in r.kept THEN pages[v] ELSE Intact]
             new == [r EXCEPT !.at = "staged", !.pages = written]
  <2>2. written \in Pages
    BY <1>1, FaultAssumption DEF Pages, PageState, Absent, Intact
  <2>3. render' = [render EXCEPT ![c] = new]
    BY <1>6, <2>1 DEF Stage
  <2> HIDE DEF written
  <2>4. new \in Render /\ new.at = "staged" /\ new.entries = r.entries
    BY <2>2 DEF Render
  <2> HIDE DEF new
  <2> QED  BY <1>1, <1>6, <2>1, <2>3, <2>4, OneRenders DEF Stage, Projected
<1>7. CASE FailRender(c) \/ DieRendering(c)
  <2>1. render' = [render EXCEPT ![c] = Nothing] /\ UNCHANGED <<Records, manifest, pages, lost>>
        /\ litter' \in BOOLEAN /\ slips' \in 0..MaxFaults
    <3>1. CASE FailRender(c)
      <4>1. slips' \in 0..MaxFaults
        BY <1>1, <3>1, FaultAssumption DEF FailRender
      <4> QED  BY <1>1, <3>1, <4>1 DEF FailRender, Projected
    <3>2. CASE DieRendering(c)
      <4>1. slips' \in 0..MaxFaults
        BY <1>1, <3>2, FaultAssumption DEF DieRendering
      <4>2. litter' \in BOOLEAN
        BY <1>1, <3>2 DEF DieRendering
      <4> QED  BY <3>2, <4>1, <4>2 DEF DieRendering
    <3> QED  BY <1>7, <3>1, <3>2
  <2> QED  BY <2>1, OneRenders
<1> QED  BY <1>2, <1>3, <1>4, <1>5, <1>6, <1>7

(* The manifest is replaced by what was staged.                              *)
LEMMA ActivationKeeps ==
    ASSUME ViewsInv, NEW c \in Renderer, Activate(c) PROVE ViewsInv'
<1>1. PICK r \in Render : r = render[c] /\ r.at = "staged" /\ r.entries # Nothing
                          /\ Faithful(r.entries)
  BY DEF Activate, AtStage, ViewsInv, ViewsTypeOK
<1> DEFINE new == [table |-> r.table, entries |-> r.entries]
<1>2. new \in Manifest /\ new.entries = r.entries
  BY <1>1 DEF Manifest, Render
<1>3. manifest' = new /\ pages' = r.pages /\ lost' = FALSE
      /\ render' = [render EXCEPT ![c] = Nothing] /\ UNCHANGED <<Records, litter, slips>>
  BY <1>1 DEF Activate
<1> HIDE DEF new
<1>4. render' \in [Renderer -> {Nothing} \cup Render] /\ render'[c] = Nothing
      /\ \A d \in Renderer \ {c} : render'[d] = render[d]
  BY <1>3 DEF ViewsInv, ViewsTypeOK
<1>5. pages' \in Pages
  BY <1>3 DEF Render
<1>6. ViewsTypeOK'
  BY <1>2, <1>3, <1>4, <1>5 DEF ViewsInv, ViewsTypeOK, Records
<1> QED  BY <1>1, <1>2, <1>3, <1>4, <1>6 DEF ViewsInv

(* Promotions and the user's hand in the files touch no entry.               *)
LEMMA EditsKeepViews ==
    ASSUME ViewsInv, Promote \/ EditPage \/ DiscardViews \/ RemoveGeneration PROVE ViewsInv'
<1>1. CASE Promote
  <2>1. UNCHANGED <<Projected, render, slips>> /\ tagged' \in BOOLEAN
    BY <1>1 DEF Promote, ViewsInv, ViewsTypeOK
  <2>2. PICK kinds : Touch(kinds)
    BY <1>1 DEF Promote
  <2> DEFINE next == changes + 1
  <2>3. next \in Change
    BY <2>2, ViewsAssumption DEF Touch, Change, ViewsInv, ViewsTypeOK
  <2>4. changes' = next /\ fact' = [k \in Fact |-> IF k \in kinds THEN next ELSE fact[k]]
    BY <2>2 DEF Touch
  <2> HIDE DEF next
  <2>5. fact' \in [Fact -> Change]
    BY <2>3, <2>4 DEF ViewsInv, ViewsTypeOK
  <2>6. ViewsTypeOK'
    BY <2>1, <2>3, <2>4, <2>5 DEF ViewsInv, ViewsTypeOK, Projected
  <2> QED  BY <2>1, <2>6 DEF ViewsInv, Projected
<1>2. slips \in 0..MaxFaults /\ pages \in Pages
  BY DEF ViewsInv, ViewsTypeOK
<1>3. NoPages \in Pages
  BY FaultAssumption DEF NoPages, Pages, PageState, Absent
<1>4. CASE EditPage
  <2>1. slips < MaxFaults /\ slips' = slips + 1
          /\ UNCHANGED <<Records, manifest, litter, lost, render>>
    BY <1>4 DEF EditPage
  <2>2. PICK v \in View, page \in {Absent, slips + 2} : pages' = [pages EXCEPT ![v] = page]
    BY <1>4 DEF EditPage
  <2>3. page \in PageState
    BY <1>2, <2>1, FaultAssumption DEF PageState, Absent
  <2>4. pages' \in Pages
    BY <1>2, <2>2, <2>3 DEF Pages
  <2>5. slips' \in 0..MaxFaults
    BY <1>2, <2>1, FaultAssumption
  <2>6. ViewsTypeOK'
    BY <2>1, <2>4, <2>5 DEF ViewsInv, ViewsTypeOK, Records
  <2> QED  BY <2>1, <2>6 DEF ViewsInv
<1>5. CASE DiscardViews \/ RemoveGeneration
  <2>1. slips' \in 0..MaxFaults
    BY <1>2, <1>5, FaultAssumption DEF DiscardViews, RemoveGeneration
  <2>2. manifest' \in {manifest, Nothing} /\ pages' = NoPages /\ litter' \in BOOLEAN
        /\ lost' \in BOOLEAN /\ UNCHANGED <<Records, render>>
    BY <1>5 DEF DiscardViews, RemoveGeneration, ViewsInv, ViewsTypeOK
  <2>3. ViewsTypeOK'
    BY <1>3, <2>1, <2>2 DEF ViewsInv, ViewsTypeOK, Records
  <2> QED  BY <2>2, <2>3 DEF ViewsInv
<1> QED  BY <1>1, <1>4, <1>5

(* No generation yet.                                                        *)
LEMMA ViewsInvInit == ASSUME ViewsInit PROVE ViewsInv
<1>1. 0 \in Change /\ 1 \in Change /\ 0 \in 0..MaxFaults
  BY ViewsAssumption, FaultAssumption DEF Change
<1>2. fact \in [Fact -> Change]
  BY <1>1 DEF ViewsInit, Flag
<1>3. NoPages \in Pages
  BY FaultAssumption DEF NoPages, Pages, PageState, Absent
<1> QED  BY <1>1, <1>2, <1>3 DEF ViewsInit, ViewsInv, ViewsTypeOK

(* One lemma for every step.                                                 *)
LEMMA ViewsInvNext == ViewsInv /\ [ViewsNext]_viewsVars => ViewsInv'
<1>1. ASSUME ViewsInv, ViewsNext PROVE ViewsInv'
  BY <1>1, RendersKeep, ActivationKeeps, EditsKeepViews DEF ViewsNext
<1>2. ASSUME ViewsInv, UNCHANGED viewsVars PROVE ViewsInv'
  BY <1>2 DEF viewsVars, ViewsInv, ViewsTypeOK
<1> QED  BY <1>1, <1>2

(* A view whose entry has the digests of its records as they are shows them. *)
LEMMA ViewsInvImplies == ViewsInv => ViewsTypeOK /\ CurrentViewsAreTrue
<1> SUFFICES ASSUME ViewsInv, manifest # Nothing, NEW v \in View, manifest.entries[v] # Nothing,
                    Exists(v, manifest.table),
                    manifest.entries[v].mark = MarkOf(v, manifest.table)
             PROVE  manifest.entries[v].shows = Shows(v, manifest.table)
  BY DEF CurrentViewsAreTrue, ViewsInv
<1>1. manifest.table \in BOOLEAN
  BY DEF ViewsInv, ViewsTypeOK, Manifest
<1>2. manifest.entries[v].shows = ShownBy(v, manifest.entries[v].mark)
  BY DEF ViewsInv, Faithful
<1> QED  BY <1>1, <1>2, MarksAreComplete

(* What status calls current is true (obsidian_views.py,                     *)
(* services/obsidian_generated_views.py).                                    *)
THEOREM CurrentViewsAreAlwaysTrue == ViewsSpec => []CurrentViewsAreTrue
  BY ViewsInvInit, ViewsInvNext, ViewsInvImplies, PTL DEF ViewsSpec

-----------------------------------------------------------------------------
(* Proposals (ProposalTask).  An id belongs to one target, in the library,   *)
(* in what an approval has read and in what a task is bound to.              *)
Ids == 1..MaxCommits
Places == [Ids -> Target]
Screening == {"criteria", "decision"}
\* The head of what was read, and the record a target began with, if any.
HeadIn(s) == IF s = <<>> THEN 0 ELSE s[Len(s)].id
FirstIn(s) == IF s # <<>> /\ s[1].id <= 4 THEN s[1].id ELSE 0
(* A screening revision that a task has made follows what it was bound to,   *)
(* and the revision before it.                                               *)
Follows(b, s, n) ==
    /\ task[s[n].by] # Nothing /\ s[n].follows = task[s[n].by].basis.heads[b]
    /\ s[n].follows = IF n = 1 THEN 0 ELSE s[n - 1].id
Chained(place, b, s) == \A n \in 1..Len(s) :
    /\ s[n].id <= made /\ place[s[n].id] = b
    /\ n # 1 => s[n].id > 4
    /\ b \in Screening /\ s[n].by # Nothing => Follows(b, s, n)
\* What was read is the bundle as it is, or the bundle's head is not in it.
IsOrLost(b, s) ==
    s = library[b] \/ (/\ library[b] # <<>> /\ Last(b).id > 4
                       /\ \A n \in 1..Len(s) : s[n].id # Last(b).id)

\* What a task of a kind is about.
Fits(k, b) ==
    CASE k = "organization" -> b \in Heading \cup {Nothing} [] k = "criteria" -> b = "criteria"
      [] k = "decision" -> b = "decision" [] k = "synthesis" -> b \in Candidates \cup {Nothing}
      [] k = "route" -> b = "job" [] OTHER -> b = Nothing
Guarded == {"organization", "criteria", "decision"}
Kept(t) == task[t].kind \in Guarded /\ NothingLost => Matching(t) # {} \/ SnapshotStands(t)
TaskHolds(place, t) == task[t] # Nothing =>
    /\ Fits(task[t].kind, task[t].target)
    /\ task[t].kind = "organization" /\ task[t].target # Nothing =>
         task[t].basis.heads[task[t].target] # 0
    /\ \A b \in Quoted(task[t].kind) :
         LET head == task[t].basis.heads[b]
         IN  /\ head <= made
             /\ head # 0 => place[head] = b
             /\ head \in 1..4 => FirstIn(library[b]) = head
    /\ task[t].status = "approved" => Kept(t)
Writing == {"token", "commit"}
ApprovalHolds(place, c) == approval[c] # Nothing =>
    LET a == approval[c]
        t == approval[c].task
    IN  /\ task[t] # Nothing
        /\ a.target = Nothing <=> a.at \notin Writing
        /\ a.target # Nothing =>
             /\ task[t].kind \in Guarded => a.target \in OfKind(task[t].kind)
             /\ a.target \in Screening =>
                  task[t].kind = a.target /\ HeadIn(a.base) = task[t].basis.heads[a.target]
             /\ Chained(place, a.target, a.base)
             /\ IsOrLost(a.target, a.base)
             /\ FirstIn(a.base) = FirstIn(library[a.target])
        /\ a.at = "finish" => Kept(t)
Placed(place) ==
    /\ \A b \in Target : Chained(place, b, library[b])
    /\ \A t \in Proposal : TaskHolds(place, t)
    /\ \A c \in Reviewer : ApprovalHolds(place, c)
ProposalInv == ProposalTypeOK /\ \E place \in Places : Placed(place)

(* Four ids are those of the start.                                          *)
LEMMA FourStarted == Len(Started) = 4
  BY DEF Started

(* What an entry is.                                                         *)
LEMMA EntriesAreTyped ==
    ASSUME NEW s \in Seq(LibraryEntry), NEW n \in 1..Len(s)
    PROVE  /\ s[n] \in LibraryEntry /\ s[n].id \in 1..MaxCommits /\ s[n].follows \in 0..MaxCommits
           /\ s[n].by \in Proposal \cup {Nothing}
<1>1. s[n] \in LibraryEntry
  OBVIOUS
<1>2. \A e \in LibraryEntry : e.id \in 1..MaxCommits /\ e.follows \in 0..MaxCommits
                              /\ e.by \in Proposal \cup {Nothing}
  BY DEF LibraryEntry
<1> QED  BY <1>1, <1>2

(* What a head is.                                                           *)
LEMMA HeadsAreTyped ==
    ASSUME NEW s \in Seq(LibraryEntry) PROVE HeadIn(s) \in 0..MaxCommits
<1>1. s # <<>> => Len(s) \in 1..Len(s)
  OBVIOUS
<1>2. 0 \in 0..MaxCommits
  BY ProposalAssumption
<1>3. s # <<>> => s[Len(s)].id \in 1..MaxCommits
  BY <1>1, EntriesAreTyped
<1> QED  BY <1>2, <1>3 DEF HeadIn

(* The bundles a guarded task may change keep their chains.                  *)
LEMMA GuardedBundles ==
    ASSUME NEW k \in Guarded
    PROVE  OfKind(k) \subseteq Target \ Candidates
             /\ (\A b : Fits(k, b) => b \in OfKind(k) \cup {Nothing})
           /\ k \in Kind
  BY DEF Guarded, OfKind, Fits, Target, Heading, Candidates, Kind

(* An approved task's promise: its result is in the library, or the revision *)
(* it was bound to.                                                          *)
Promised(t) ==
    \/ \E b \in OfKind(task[t].kind) : \E n \in 1..Len(library[b]) : library[b][n].by = t
    \/ /\ task[t].target # Nothing
       /\ \E n \in 1..Len(library[task[t].target]) :
            library[task[t].target][n].id = task[t].basis.heads[task[t].target]
(* It is kept if that stands, unless something was lost.                     *)
LEMMA KeptIsPromised ==
    ASSUME ProposalTypeOK, NEW t \in Proposal, task[t] # Nothing, Fits(task[t].kind,
           task[t].target)
    PROVE  Kept(t) <=> (task[t].kind \in Guarded /\ NothingLost => Promised(t))
<1> DEFINE k == task[t].kind
           b == task[t].target
<1> SUFFICES ASSUME k \in Guarded
             PROVE  (Matching(t) # {} \/ SnapshotStands(t)) <=> Promised(t)
  BY DEF Kept
<1>1. OfKind(k) \subseteq Target \ Candidates /\ b \in OfKind(k) \cup {Nothing}
  BY GuardedBundles
<1>2. \A d \in OfKind(k) : library[d] \in Seq(LibraryEntry)
                           /\ Standing(d) = {library[d][n] : n \in 1..Len(library[d])}
  <2> SUFFICES ASSUME NEW d \in OfKind(k)
               PROVE  library[d] \in Seq(LibraryEntry)
                      /\ Standing(d) = {library[d][n] : n \in 1..Len(library[d])}
    OBVIOUS
  <2>1. library[d] \in Seq(LibraryEntry) /\ d \notin Candidates
    BY <1>1 DEF ProposalTypeOK
  <2>2. library[d] = <<>> => 1..Len(library[d]) = {}
    OBVIOUS
  <2> QED  BY <2>1, <2>2 DEF Standing
<1>3. Matching(t) # {} <=> \E d \in OfKind(k) : \E n \in 1..Len(library[d]) : library[d][n].by = t
  BY <1>2 DEF Matching
<1>4. SnapshotStands(t) <=> /\ b # Nothing
                            /\ \E n \in 1..Len(library[b]) :
                              library[b][n].id = task[t].basis.heads[b]
  BY <1>1, <1>2 DEF SnapshotStands
<1> QED  BY <1>3, <1>4 DEF Promised

\* The same, of a state and of the next one.
PromiseLaw == ProposalTypeOK => \A t \in Proposal :
    task[t] # Nothing /\ Fits(task[t].kind, task[t].target) =>
        (Kept(t) <=> (task[t].kind \in Guarded /\ NothingLost => Promised(t)))
(* So it is in every state.                                                  *)
LEMMA PromiseLawHolds == PromiseLaw
  BY KeptIsPromised DEF PromiseLaw
(* And after every step.                                                     *)
LEMMA PromiseLawStays == PromiseLaw'
  BY PromiseLawHolds, PTL

(* What a step leaves of the tasks: what they are about, and their basis.    *)
TasksKeep == \A t \in Proposal : task[t] # Nothing =>
    /\ task'[t] # Nothing /\ task'[t].kind = task[t].kind /\ task'[t].target = task[t].target
    /\ task'[t].basis = task[t].basis

(* A chain stays one, under more ids.                                        *)
LEMMA ChainsStay ==
    ASSUME NEW place, NEW larger, NEW b, NEW s \in Seq(LibraryEntry), TasksKeep,
           made \in Nat, made' \in Nat, made' >= made, \A i \in 1..made : larger[i] = place[i],
           Chained(place, b, s)
    PROVE  Chained(larger, b, s)'
<1> SUFFICES ASSUME NEW n \in 1..Len(s)
             PROVE  /\ s[n].id <= made' /\ larger[s[n].id] = b
                    /\ n # 1 => s[n].id > 4
                    /\ b \in Screening /\ s[n].by # Nothing => Follows(b, s, n)'
  BY DEF Chained
<1>1. s[n].id \in 1..made /\ s[n].by \in Proposal \cup {Nothing}
  BY EntriesAreTyped, ProposalAssumption DEF Chained
<1>2. b \in Screening /\ s[n].by # Nothing => Follows(b, s, n)
  BY DEF Chained
<1>3. b \in Screening /\ s[n].by # Nothing => Follows(b, s, n)'
  BY <1>1, <1>2 DEF Follows, TasksKeep
<1> QED  BY <1>1, <1>3 DEF Chained

(* While the library stays, so does what an approved task promises.          *)
LEMMA KeptStays ==
    ASSUME NEW t \in Proposal, task[t] # Nothing, TasksKeep, UNCHANGED <<library, made>>
    PROVE  Kept(t) <=> Kept(t)'
<1>1. task'[t].kind = task[t].kind /\ task'[t].target = task[t].target
        /\ task'[t].basis = task[t].basis
  BY DEF TasksKeep
<1>2. \A b : Standing(b)' = Standing(b)
  BY DEF Standing, Last
<1>3. Matching(t)' = Matching(t)
  BY <1>1, <1>2 DEF Matching
<1>4. SnapshotStands(t)' <=> SnapshotStands(t)
  BY <1>1, <1>2 DEF SnapshotStands
<1>5. NothingLost' <=> NothingLost
  BY DEF NothingLost
<1> QED  BY <1>1, <1>3, <1>4, <1>5 DEF Kept

(* What an approval has read is typed.                                       *)
LEMMA ApprovalsAreTyped ==
    ASSUME ProposalTypeOK, NEW c \in Reviewer, approval[c] # Nothing
    PROVE  /\ approval[c] \in Approving /\ approval[c].task \in Proposal
           /\ approval[c].target \in Target \cup {Nothing}
           /\ approval[c].base \in Seq(LibraryEntry)
           /\ approval[c].at \in Place /\ approval[c].under \in 0..MaxCommits
<1>1. approval[c] \in Approving
  BY DEF ProposalTypeOK
<1> QED  BY <1>1 DEF Approving

(* An approval that does not move, while the library stays.                  *)
LEMMA ApprovalStays ==
    ASSUME ProposalTypeOK, NEW place, NEW c \in Reviewer, ApprovalHolds(place, c),
           approval'[c] = approval[c], TasksKeep, UNCHANGED <<library, made>>
    PROVE  ApprovalHolds(place, c)'
<1> SUFFICES ASSUME approval[c] # Nothing PROVE ApprovalHolds(place, c)'
  BY DEF ApprovalHolds
<1>1. PICK a \in Approving : a = approval[c]
  BY ApprovalsAreTyped
<1>2. PICK t \in Proposal : t = a.task
  BY <1>1 DEF Approving
<1>3. PICK s \in Seq(LibraryEntry) : s = a.base
  BY <1>1 DEF Approving
<1>4. /\ task[t] # Nothing
      /\ a.target = Nothing <=> a.at \notin Writing
      /\ a.target # Nothing =>
           /\ task[t].kind \in Guarded => a.target \in OfKind(task[t].kind)
           /\ a.target \in Screening =>
                task[t].kind = a.target /\ HeadIn(s) = task[t].basis.heads[a.target]
           /\ Chained(place, a.target, s) /\ IsOrLost(a.target, s)
           /\ FirstIn(s) = FirstIn(library[a.target])
      /\ a.at = "finish" => Kept(t)
  BY <1>1, <1>2, <1>3 DEF ApprovalHolds
<1>5. task'[t] # Nothing /\ task'[t].kind = task[t].kind /\ task'[t].basis = task[t].basis
  BY <1>4 DEF TasksKeep
<1>6. Chained(place, a.target, s) => Chained(place, a.target, s)'
  BY ChainsStay, ProposalAssumption, FourStarted DEF ProposalTypeOK
<1>7. IsOrLost(a.target, s) => IsOrLost(a.target, s)'
  BY DEF IsOrLost, Last
<1>8. Kept(t) => Kept(t)'
  BY <1>4, KeptStays
<1>9. FirstIn(library[a.target])' = FirstIn(library[a.target])
  BY DEF FirstIn
<1>10. /\ a.target # Nothing =>
           /\ task'[t].kind \in Guarded => a.target \in OfKind(task'[t].kind)
           /\ a.target \in Screening =>
                task'[t].kind = a.target /\ HeadIn(s) = task'[t].basis.heads[a.target]
           /\ Chained(place, a.target, s)' /\ IsOrLost(a.target, s)'
           /\ FirstIn(s) = FirstIn(library'[a.target])
       /\ a.at = "finish" => Kept(t)'
  BY <1>4, <1>5, <1>6, <1>7, <1>8, <1>9 DEF FirstIn
<1>11. approval'[c] = a
  BY <1>1
<1> QED  BY <1>2, <1>3, <1>4, <1>5, <1>10, <1>11 DEF ApprovalHolds

(* A task's state is replaced, and approvals of it go on or end.             *)
LEMMA TaskMoves ==
    ASSUME ProposalTypeOK, NEW place \in Places, Placed(place), NEW t \in Proposal,
           NEW new \in ProposedTask, task' = [task EXCEPT ![t] = new],
           new.basis \in BasisOf(new.kind),
           task[t] # Nothing => /\ new.kind = task[t].kind /\ new.target = task[t].target
                                /\ new.basis = task[t].basis,
           TaskHolds(place, t)', UNCHANGED <<library, made, context>>, deaths' \in 0..MaxFaults,
           approval' \in [Reviewer -> {Nothing} \cup Approving],
           \A c \in Reviewer : approval'[c] \in {approval[c], Nothing}
    PROVE  ProposalInv'
<1>1. task' \in [Proposal -> {Nothing} \cup ProposedTask] /\ task'[t] = new
      /\ \A u \in Proposal \ {t} : task'[u] = task[u]
  BY DEF ProposalTypeOK
<1>2. new # Nothing
  BY NothingIsNoProposal
<1>3. ProposalTypeOK'
  BY <1>1 DEF ProposalTypeOK
<1>4. TasksKeep
  BY <1>1, <1>2 DEF TasksKeep
<1>5. \A b \in Target : Chained(place, b, library[b])'
  <2> SUFFICES ASSUME NEW b \in Target PROVE Chained(place, b, library[b])'
    OBVIOUS
  <2>1. PICK s \in Seq(LibraryEntry) : s = library[b]
    BY DEF ProposalTypeOK
  <2>2. Chained(place, b, s)
    BY <2>1 DEF Placed
  <2>3. Chained(place, b, s)'
    BY <1>4, <2>2, ChainsStay, ProposalAssumption, FourStarted DEF ProposalTypeOK
  <2>4. library'[b] = s
    BY <2>1
  <2> QED  BY <2>3, <2>4
<1>6. \A u \in Proposal : TaskHolds(place, u)'
  <2> SUFFICES ASSUME NEW u \in Proposal \ {t}, task[u] # Nothing PROVE TaskHolds(place, u)'
    BY <1>1 DEF TaskHolds
  <2>1. TaskHolds(place, u) /\ task'[u] = task[u] /\ (Kept(u) => Kept(u)')
    BY <1>1, <1>4, KeptStays DEF Placed
  <2>2. \A b : FirstIn(library[b])' = FirstIn(library[b])
    BY DEF FirstIn
  <2> QED  BY <2>1, <2>2 DEF TaskHolds
<1>7. \A c \in Reviewer : ApprovalHolds(place, c)'
  <2> SUFFICES ASSUME NEW c \in Reviewer, approval'[c] # Nothing PROVE ApprovalHolds(place, c)'
    BY DEF ApprovalHolds
  <2> QED  BY <1>4, ApprovalStays DEF Placed
<1> QED  BY <1>3, <1>5, <1>6, <1>7 DEF ProposalInv, Placed

(* An approval goes on or ends: the library and the tasks stay.              *)
LEMMA ApprovalMoves ==
    ASSUME ProposalTypeOK, NEW place \in Places, Placed(place), NEW c \in Reviewer,
           NEW new \in {Nothing} \cup Approving, approval' = [approval EXCEPT ![c] = new],
           UNCHANGED <<library, made, context, task>>, deaths' \in 0..MaxFaults,
           ApprovalHolds(place, c)'
    PROVE  ProposalInv'
<1>1. approval' \in [Reviewer -> {Nothing} \cup Approving]
      /\ \A d \in Reviewer \ {c} : approval'[d] = approval[d]
  BY DEF ProposalTypeOK
<1>2. ProposalTypeOK'
  BY <1>1 DEF ProposalTypeOK
<1>3. TasksKeep
  BY DEF TasksKeep
<1>4. \A b \in Target : Chained(place, b, library[b])'
  <2> SUFFICES ASSUME NEW b \in Target PROVE Chained(place, b, library[b])'
    OBVIOUS
  <2>1. PICK s \in Seq(LibraryEntry) : s = library[b]
    BY DEF ProposalTypeOK
  <2>2. Chained(place, b, s)
    BY <2>1 DEF Placed
  <2>3. Chained(place, b, s)'
    BY <1>3, <2>2, ChainsStay, ProposalAssumption, FourStarted DEF ProposalTypeOK
  <2>4. library'[b] = s
    BY <2>1
  <2> QED  BY <2>3, <2>4
<1>5. \A u \in Proposal : TaskHolds(place, u)'
  <2> SUFFICES ASSUME NEW u \in Proposal, task[u] # Nothing PROVE TaskHolds(place, u)'
    BY DEF TaskHolds
  <2>1. TaskHolds(place, u) /\ task'[u] = task[u] /\ (Kept(u) => Kept(u)')
    BY <1>3, KeptStays DEF Placed
  <2>2. \A b : FirstIn(library[b])' = FirstIn(library[b])
    BY DEF FirstIn
  <2> QED  BY <2>1, <2>2 DEF TaskHolds
<1>6. \A d \in Reviewer : ApprovalHolds(place, d)'
  BY <1>1, <1>3, ApprovalStays DEF Placed
<1> QED  BY <1>2, <1>4, <1>5, <1>6 DEF ProposalInv, Placed

(* A bundle grows by one revision, over what its writer has read.            *)
Grows(b, s, e) == made' = made + 1 /\ library' = [library EXCEPT ![b] = Append(s, e)]

(* What the bundle holds then.                                               *)
LEMMA BundleGrows ==
    ASSUME ProposalTypeOK, NEW b \in Target, NEW s \in Seq(LibraryEntry), NEW e \in LibraryEntry,
           Grows(b, s, e)
    PROVE  /\ library' \in [Target -> Seq(LibraryEntry)]
           /\ library'[b] # <<>> /\ Len(library'[b]) = Len(s) + 1 /\ library'[b][Len(s) + 1] = e
           /\ \A n \in 1..Len(s) : library'[b][n] = s[n]
           /\ \A d \in Target \ {b} : library'[d] = library[d]
<1> DEFINE new == Append(s, e)
<1>1. new \in Seq(LibraryEntry) /\ Len(new) = Len(s) + 1 /\ new[Len(s) + 1] = e /\ new # <<>>
      /\ \A n \in 1..Len(s) : new[n] = s[n]
  OBVIOUS
<1>2. library' = [library EXCEPT ![b] = new]
  BY DEF Grows
<1> HIDE DEF new
<1> QED  BY <1>1, <1>2 DEF ProposalTypeOK

(* If nothing is lost after that, the writer has read all there was, and     *)
(* nothing was lost before.                                                  *)
LEMMA GrowthLosesNothing ==
    ASSUME ProposalTypeOK, NEW place \in Places, Placed(place), NEW b \in Target,
           NEW s \in Seq(LibraryEntry), NEW e \in LibraryEntry, Grows(b, s, e), e.id = made + 1,
           IsOrLost(b, s), NothingLost'
    PROVE  s = library[b] /\ NothingLost
<1>1. /\ library' \in [Target -> Seq(LibraryEntry)]
      /\ library'[b] # <<>> /\ Len(library'[b]) = Len(s) + 1 /\ library'[b][Len(s) + 1] = e
      /\ \A n \in 1..Len(s) : library'[b][n] = s[n]
      /\ \A d \in Target \ {b} : library'[d] = library[d]
  BY BundleGrows
<1>2. made \in Nat /\ made >= 4 /\ made' = made + 1 /\ library \in [Target -> Seq(LibraryEntry)]
  BY ProposalAssumption, FourStarted DEF ProposalTypeOK, Grows
<1>3. \A id \in 5..made + 1 : \E d \in Target : \E n \in 1..Len(library'[d]) :
        library'[d][n].id = id
  <2>1. Len(Started) + 1 = 5
    BY FourStarted
  <2>2. \A id \in Len(Started) + 1..made' :
          \E d \in Target : \E n \in 1..Len(library'[d]) : library'[d][n].id = id
    BY DEF NothingLost
  <2> QED  BY <1>2, <2>1, <2>2
<1>4. ASSUME NEW d \in Target, NEW n \in 1..Len(library'[d]), library'[d][n].id <= made
      PROVE  IF d = b THEN n \in 1..Len(s) /\ library'[d][n] = s[n]
             ELSE n \in 1..Len(library[d]) /\ library'[d][n] = library[d][n]
  <2>1. CASE d = b
    <3>1. n # Len(s) + 1
      BY <1>1, <1>2, <1>4, <2>1
    <3> QED  BY <1>1, <2>1, <3>1
  <2> QED  BY <1>1, <2>1
<1>5. s = library[b]
  <2> SUFFICES ASSUME library[b] # <<>>, Last(b).id > 4, \A n \in 1..Len(s) : s[n].id # Last(b).id
               PROVE  FALSE
    BY DEF IsOrLost
  <2> DEFINE m == Len(library[b])
             id == library[b][m].id
  <2>1. m \in 1..Len(library[b]) /\ Last(b).id = id
    BY <1>2 DEF Last
  <2>2. id \in 1..made /\ place[id] = b
    <3>1. Chained(place, b, library[b]) /\ library[b] \in Seq(LibraryEntry)
      BY <1>2 DEF Placed
    <3>2. id \in 1..MaxCommits
      BY <2>1, <3>1, EntriesAreTyped
    <3> QED  BY <1>2, <2>1, <3>1, <3>2, ProposalAssumption DEF Chained
  <2> HIDE DEF id, m
  <2>3. id \in 5..made + 1
    BY <1>2, <2>1, <2>2
  <2>4. PICK d \in Target : \E n \in 1..Len(library'[d]) : library'[d][n].id = id
    BY <1>3, <2>3
  <2>5. PICK n \in 1..Len(library'[d]) : library'[d][n].id = id
    BY <2>4
  <2>6. d # b
    BY <1>4, <2>1, <2>2, <2>5
  <2>7. n \in 1..Len(library[d]) /\ library[d][n].id = id
    BY <1>4, <2>2, <2>5, <2>6
  <2>8. Chained(place, d, library[d])
    BY DEF Placed
  <2> QED  BY <2>2, <2>6, <2>7, <2>8 DEF Chained
<1>6. NothingLost
  <2> SUFFICES ASSUME NEW id \in 5..made
               PROVE  \E d \in Target : \E n \in 1..Len(library[d]) : library[d][n].id = id
    BY FourStarted DEF NothingLost
  <2>1. id \in 5..made + 1 /\ id <= made
    BY <1>2
  <2>2. PICK d \in Target : \E n \in 1..Len(library'[d]) : library'[d][n].id = id
    BY <1>3, <2>1
  <2>3. PICK n \in 1..Len(library'[d]) : library'[d][n].id = id
    BY <2>2
  <2>4. n \in 1..Len(library[d]) /\ library'[d][n] = library[d][n]
    BY <1>4, <1>5, <2>1, <2>3
  <2> QED  BY <2>3, <2>4
<1> QED  BY <1>5, <1>6

(* So what was promised still is.                                            *)
LEMMA KeptWhileGrowing ==
    ASSUME ProposalTypeOK, ProposalTypeOK', NEW place \in Places, Placed(place), NEW b \in Target,
           NEW s \in Seq(LibraryEntry), NEW e \in LibraryEntry, Grows(b, s, e), e.id = made + 1,
           IsOrLost(b, s), task' = task,
           NEW t \in Proposal, task[t] # Nothing, Kept(t)
    PROVE  Kept(t)'
<1>1. /\ library' \in [Target -> Seq(LibraryEntry)]
      /\ library'[b] # <<>> /\ Len(library'[b]) = Len(s) + 1 /\ library'[b][Len(s) + 1] = e
      /\ \A n \in 1..Len(s) : library'[b][n] = s[n]
      /\ \A d \in Target \ {b} : library'[d] = library[d]
  BY BundleGrows
<1>2. Fits(task[t].kind, task[t].target)
  BY DEF Placed, TaskHolds
<1>3. Kept(t)' <=> (task[t].kind \in Guarded /\ NothingLost' => Promised(t)')
  BY <1>2, PromiseLawStays DEF PromiseLaw, Fits
<1>4. SUFFICES ASSUME task[t].kind \in Guarded, NothingLost' PROVE Promised(t)'
  BY <1>3
<1>5. s = library[b] /\ NothingLost
  BY <1>4, GrowthLosesNothing
<1>6. Promised(t)
  BY <1>2, <1>4, <1>5, KeptIsPromised
<1>7. \A d \in Target, n \in Nat : n \in 1..Len(library[d]) =>
        n \in 1..Len(library'[d]) /\ library'[d][n] = library[d][n]
  BY <1>1, <1>5
<1>8. OfKind(task[t].kind) \subseteq Target /\ task[t].target \in Target \cup {Nothing}
  BY <1>2, <1>4, GuardedBundles
<1> QED  BY <1>6, <1>7, <1>8 DEF Promised, OfKind

(* The chain of what was read, and one revision that follows its head.       *)
LEMMA ChainGrows ==
    ASSUME ProposalTypeOK, NEW place, NEW larger, NEW b \in Target, NEW s \in Seq(LibraryEntry),
           NEW e \in LibraryEntry, Grows(b, s, e), e.id = made + 1, e.follows = HeadIn(s),
           Chained(place, b, s), \A i \in 1..made : larger[i] = place[i], larger[made + 1] = b,
           b \in Screening /\ e.by # Nothing =>
             task[e.by] # Nothing /\ task[e.by].basis.heads[b] = HeadIn(s),
           UNCHANGED task
    PROVE  Chained(larger, b, library[b])' /\ FirstIn(library'[b]) = FirstIn(s)
<1>1. /\ library' \in [Target -> Seq(LibraryEntry)]
      /\ library'[b] # <<>> /\ Len(library'[b]) = Len(s) + 1 /\ library'[b][Len(s) + 1] = e
      /\ \A n \in 1..Len(s) : library'[b][n] = s[n]
      /\ \A d \in Target \ {b} : library'[d] = library[d]
  BY BundleGrows
<1>2. made \in Nat /\ made >= 4 /\ made' = made + 1
  BY ProposalAssumption, FourStarted DEF ProposalTypeOK, Grows
<1>3. TasksKeep
  BY DEF TasksKeep
<1>4. Chained(larger, b, s)'
  BY <1>2, <1>3, ChainsStay
<1>5. PICK new \in Seq(LibraryEntry) : new = library'[b]
  BY <1>1
<1>6. Len(new) = Len(s) + 1 /\ new[Len(s) + 1] = e /\ (\A n \in 1..Len(s) : new[n] = s[n])
        /\ new # <<>>
  BY <1>1, <1>5
<1>7. ASSUME NEW n \in 1..Len(s)
      PROVE  /\ new[n].id <= made' /\ larger[new[n].id] = b
             /\ n # 1 => new[n].id > 4
             /\ b \in Screening /\ new[n].by # Nothing => Follows(b, new, n)'
  <2>1. n # 1 => n - 1 \in 1..Len(s)
    OBVIOUS
  <2>2. new[n] = s[n] /\ (n # 1 => new[n - 1] = s[n - 1])
    BY <1>6, <2>1
  <2>3. /\ s[n].id <= made' /\ larger[s[n].id] = b
        /\ n # 1 => s[n].id > 4
        /\ b \in Screening /\ s[n].by # Nothing => Follows(b, s, n)'
    BY <1>4 DEF Chained
  <2>4. b \in Screening /\ s[n].by # Nothing => Follows(b, new, n)'
    BY <2>2, <2>3 DEF Follows
  <2> QED  BY <2>2, <2>3, <2>4
<1>8. /\ e.id <= made' /\ larger[e.id] = b /\ e.id > 4
      /\ b \in Screening /\ e.by # Nothing => Follows(b, new, Len(s) + 1)'
  <2>1. HeadIn(s) = IF Len(s) + 1 = 1 THEN 0 ELSE new[Len(s)].id
    BY <1>6 DEF HeadIn
  <2>2. b \in Screening /\ e.by # Nothing => Follows(b, new, Len(s) + 1)'
    BY <1>6, <2>1 DEF Follows
  <2> QED  BY <1>2, <2>2
<1>9. Chained(larger, b, new)'
  <2> SUFFICES ASSUME NEW n \in 1..Len(new)
               PROVE  /\ new[n].id <= made' /\ larger[new[n].id] = b
                      /\ n # 1 => new[n].id > 4
                      /\ b \in Screening /\ new[n].by # Nothing => Follows(b, new, n)'
    BY DEF Chained
  <2>1. n \in 1..Len(s) \/ n = Len(s) + 1
    BY <1>6
  <2> QED  BY <1>6, <1>7, <1>8, <2>1
<1>10. FirstIn(new) = FirstIn(s)
  <2>1. s = <<>> => new[1].id > 4
    BY <1>6, <1>8
  <2>2. s # <<>> => new[1] = s[1]
    BY <1>6
  <2>3. new[1].id \in Nat
    BY <1>6, EntriesAreTyped
  <2> QED  BY <1>6, <2>1, <2>2, <2>3 DEF FirstIn
<1> QED  BY <1>5, <1>9, <1>10

(* What others have read of a bundle is behind it now.                       *)
LEMMA GrowthLeavesBehind ==
    ASSUME ProposalTypeOK, NEW place, NEW b \in Target, NEW s \in Seq(LibraryEntry),
           NEW e \in LibraryEntry, Grows(b, s, e), e.id = made + 1,
           NEW d \in Target, NEW r \in Seq(LibraryEntry), Chained(place, d, r), IsOrLost(d, r)
    PROVE  IsOrLost(d, r)'
<1>1. /\ library'[b] # <<>> /\ Len(library'[b]) = Len(s) + 1 /\ library'[b][Len(s) + 1] = e
      /\ \A x \in Target \ {b} : library'[x] = library[x]
  BY BundleGrows
<1>2. made \in Nat /\ made >= 4
  BY ProposalAssumption, FourStarted DEF ProposalTypeOK
<1>3. \A n \in 1..Len(r) : r[n].id <= made /\ r[n].id \in Nat
  BY EntriesAreTyped DEF Chained
<1>4. CASE d = b
  <2>1. library'[d] # <<>> /\ Last(d)' = e
    BY <1>1, <1>4 DEF Last
  <2>2. e.id > 4 /\ \A n \in 1..Len(r) : r[n].id # e.id
    BY <1>2, <1>3
  <2> QED  BY <2>1, <2>2 DEF IsOrLost
<1>5. CASE d # b
  BY <1>1, <1>5 DEF IsOrLost, Last
<1> QED  BY <1>4, <1>5

(* A commit of the user or of an approval.                                   *)
LEMMA GrowthKeeps ==
    ASSUME ProposalTypeOK, NEW place \in Places, Placed(place), NEW b \in Target,
           NEW s \in Seq(LibraryEntry), NEW e \in LibraryEntry, Grows(b, s, e), made < MaxCommits,
           e.id = made + 1, e.follows = HeadIn(s), Chained(place, b, s), IsOrLost(b, s),
           FirstIn(s) = FirstIn(library[b]),
           b \in Screening /\ e.by # Nothing =>
             task[e.by] # Nothing /\ task[e.by].basis.heads[b] = HeadIn(s),
           UNCHANGED <<context, task, deaths>>,
           approval' \in [Reviewer -> {Nothing} \cup Approving],
           \A c \in Reviewer :
             \/ approval'[c] = approval[c] \/ approval'[c] = Nothing
             \/ /\ approval[c] # Nothing /\ approval'[c].task = approval[c].task
                /\ approval'[c].at = "finish" /\ approval'[c].target = Nothing
                /\ e.by = approval[c].task
                /\ task[e.by].kind \in Guarded => b \in OfKind(task[e.by].kind)
    PROVE  ProposalInv'
<1>1. /\ library' \in [Target -> Seq(LibraryEntry)]
      /\ library'[b] # <<>> /\ Len(library'[b]) = Len(s) + 1 /\ library'[b][Len(s) + 1] = e
      /\ \A n \in 1..Len(s) : library'[b][n] = s[n]
      /\ \A d \in Target \ {b} : library'[d] = library[d]
  BY BundleGrows
<1>2. made \in Nat /\ made >= 4 /\ made' = made + 1 /\ made + 1 \in Ids
      /\ made' \in Len(Started)..MaxCommits
  BY ProposalAssumption, FourStarted DEF ProposalTypeOK, Grows, Ids
<1>3. PICK larger \in Places : larger[made + 1] = b /\ \A i \in 1..made : larger[i] = place[i]
  <2> DEFINE wider == [place EXCEPT ![made + 1] = b]
  <2>1. \A i \in 1..made : i \in Ids /\ i # made + 1
    BY <1>2, ProposalAssumption DEF Ids
  <2>2. wider \in Places /\ wider[made + 1] = b /\ \A i \in 1..made : wider[i] = place[i]
    BY <1>2, <2>1 DEF Places
  <2> HIDE DEF wider
  <2> QED  BY <2>2
<1>4. ProposalTypeOK'
  BY <1>1, <1>2 DEF ProposalTypeOK
<1>5. TasksKeep
  BY DEF TasksKeep
<1>6. Chained(larger, b, library[b])' /\ FirstIn(library'[b]) = FirstIn(s)
  BY <1>3, ChainGrows
<1>7. \A d \in Target : Chained(larger, d, library[d])'
        /\ FirstIn(library'[d]) = FirstIn(library[d])
  <2> SUFFICES ASSUME NEW d \in Target \ {b}
               PROVE  Chained(larger, d, library[d])'
                        /\ FirstIn(library'[d]) = FirstIn(library[d])
    BY <1>6
  <2>1. PICK r \in Seq(LibraryEntry) : r = library[d]
    BY DEF ProposalTypeOK
  <2>2. Chained(place, d, r)
    BY <2>1 DEF Placed
  <2>3. Chained(larger, d, r)'
    BY <1>2, <1>3, <1>5, <2>2, ChainsStay
  <2>4. library'[d] = r
    BY <1>1, <2>1
  <2> QED  BY <2>1, <2>3, <2>4
<1>8. \A t \in Proposal : task[t] # Nothing /\ Kept(t) => Kept(t)'
  BY <1>4, KeptWhileGrowing
<1>9. \A t \in Proposal : TaskHolds(larger, t)'
  <2> SUFFICES ASSUME NEW t \in Proposal, task[t] # Nothing PROVE TaskHolds(larger, t)'
    BY DEF TaskHolds
  <2>1. TaskHolds(place, t) /\ task'[t] = task[t]
    BY DEF Placed
  <2>2. Quoted(task[t].kind) \subseteq Target
    BY DEF Quoted, OrganizationBasis, CriteriaBasis, DecisionBasis, SynthesisBasis, Target
  <2>3. ASSUME NEW d \in Quoted(task[t].kind)
        PROVE  LET head == task[t].basis.heads[d]
               IN  /\ head <= made'
                   /\ head # 0 => larger[head] = d
                   /\ head \in 1..4 => FirstIn(library'[d]) = head
    <3>1. task[t].basis.heads[d] \in 0..MaxCommits
      BY DEF ProposalTypeOK, BasisOf
    <3>2. PICK head \in 0..MaxCommits : head = task[t].basis.heads[d]
      BY <3>1
    <3>3. head <= made /\ (head # 0 => place[head] = d)
          /\ (head \in 1..4 => FirstIn(library[d]) = head)
      BY <2>1, <3>2 DEF TaskHolds
    <3>4. head <= made'
      BY <1>2, <3>3, ProposalAssumption
    <3>5. head # 0 => head \in 1..made
      BY <1>2, <3>3, ProposalAssumption
    <3>6. head \in 1..4 => FirstIn(library'[d]) = head
      BY <1>7, <2>2, <3>3
    <3> QED  BY <1>3, <3>2, <3>3, <3>4, <3>5, <3>6
  <2>4. task[t].status = "approved" => Kept(t)'
    BY <1>8, <2>1 DEF TaskHolds
  <2>5. Fits(task[t].kind, task[t].target)
        /\ (task[t].kind = "organization" /\ task[t].target # Nothing =>
              task[t].basis.heads[task[t].target] # 0)
    BY <2>1 DEF TaskHolds
  <2> QED  BY <2>1, <2>3, <2>4, <2>5 DEF TaskHolds, Fits, Quoted, FirstIn
<1>10. \A c \in Reviewer : ApprovalHolds(larger, c)'
  <2> SUFFICES ASSUME NEW c \in Reviewer, approval'[c] # Nothing PROVE ApprovalHolds(larger, c)'
    BY DEF ApprovalHolds
  <2>1. CASE approval'[c] = approval[c]
    <3>1. PICK a \in Approving : a = approval[c]
      BY <2>1, ApprovalsAreTyped
    <3>2. PICK t \in Proposal : t = a.task
      BY DEF Approving
    <3>3. PICK r \in Seq(LibraryEntry) : r = a.base
      BY DEF Approving
    <3>4. /\ task[t] # Nothing
          /\ a.target = Nothing <=> a.at \notin Writing
          /\ a.target # Nothing =>
               /\ task[t].kind \in Guarded => a.target \in OfKind(task[t].kind)
               /\ a.target \in Screening =>
                    task[t].kind = a.target /\ HeadIn(r) = task[t].basis.heads[a.target]
               /\ Chained(place, a.target, r) /\ IsOrLost(a.target, r)
               /\ FirstIn(r) = FirstIn(library[a.target])
          /\ a.at = "finish" => Kept(t)
      BY <2>1, <3>1, <3>2, <3>3 DEF ApprovalHolds, Placed
    <3>5. a.target # Nothing => a.target \in Target
      BY DEF Approving
    <3>6. a.target # Nothing => Chained(larger, a.target, r)'
      BY <1>2, <1>3, <1>5, <3>4, ChainsStay
    <3>7. a.target # Nothing => IsOrLost(a.target, r)'
      BY <3>4, <3>5, GrowthLeavesBehind
    <3>8. a.target # Nothing => FirstIn(r) = FirstIn(library'[a.target])
      BY <1>7, <3>4, <3>5
    <3>9. a.at = "finish" => Kept(t)'
      BY <1>8, <3>4
    <3>10. approval'[c] = a
      BY <2>1, <3>1
    <3> QED  BY <3>2, <3>3, <3>4, <3>6, <3>7, <3>8, <3>9, <3>10 DEF ApprovalHolds, FirstIn, HeadIn
  <2>2. CASE /\ approval[c] # Nothing /\ approval'[c].task = approval[c].task
             /\ approval'[c].at = "finish" /\ approval'[c].target = Nothing
             /\ e.by = approval[c].task
             /\ task[e.by].kind \in Guarded => b \in OfKind(task[e.by].kind)
    <3>1. PICK t \in Proposal : t = approval[c].task
      BY <2>2, ApprovalsAreTyped
    <3>2. task[t] # Nothing
      BY <2>2, <3>1 DEF Placed, ApprovalHolds
    <3>3. Fits(task[t].kind, task[t].target)
      BY <3>2 DEF Placed, TaskHolds
    <3>4. Kept(t)' <=> (task[t].kind \in Guarded /\ NothingLost' => Promised(t)')
      BY <1>4, <3>2, <3>3, PromiseLawStays DEF PromiseLaw, Fits
    <3>5. task[t].kind \in Guarded => Promised(t)'
      <4>1. Len(s) + 1 \in 1..Len(library'[b]) /\ library'[b][Len(s) + 1].by = t
        BY <1>1, <2>2, <3>1
      <4> QED  BY <2>2, <3>1, <4>1 DEF Promised, OfKind
    <3>6. approval'[c].task = t
      BY <2>2, <3>1
    <3> QED  BY <2>2, <3>2, <3>4, <3>5, <3>6 DEF ApprovalHolds, Writing
  <2> QED  BY <2>1, <2>2
<1> QED  BY <1>3, <1>4, <1>7, <1>9, <1>10 DEF ProposalInv, Placed

(* What a head says of its bundle.                                           *)
LEMMA HeadsArePlaced ==
    ASSUME ProposalTypeOK, NEW place \in Places, Placed(place), NEW b \in Target
    PROVE  /\ HeadOf(b) = HeadIn(library[b]) /\ HeadOf(b) \in 0..made
           /\ library[b] # <<>> => HeadOf(b) # 0
           /\ HeadOf(b) # 0 => place[HeadOf(b)] = b
           /\ HeadOf(b) \in 1..4 => FirstIn(library[b]) = HeadOf(b)
<1>1. PICK s \in Seq(LibraryEntry) : s = library[b]
  BY DEF ProposalTypeOK
<1>2. Chained(place, b, s)
  BY <1>1 DEF Placed
<1>3. HeadOf(b) = IF s = <<>> THEN 0 ELSE s[Len(s)].id
  BY <1>1 DEF HeadOf, Last
<1>4. made \in Nat
  BY FourStarted, ProposalAssumption DEF ProposalTypeOK
<1>5. CASE s = <<>>
  BY <1>1, <1>3, <1>4, <1>5 DEF HeadIn
<1>6. CASE s # <<>>
  <2>1. Len(s) \in 1..Len(s)
    BY <1>6
  <2>2. s[Len(s)].id \in 1..MaxCommits /\ s[Len(s)].id <= made /\ place[s[Len(s)].id] = b
        /\ (Len(s) # 1 => s[Len(s)].id > 4)
    BY <1>2, <2>1, EntriesAreTyped DEF Chained
  <2>3. s[Len(s)].id <= 4 => s[1] = s[Len(s)]
    BY <2>2, ProposalAssumption
  <2> QED  BY <1>1, <1>3, <1>4, <1>6, <2>2, <2>3, ProposalAssumption DEF HeadIn, FirstIn
<1> QED  BY <1>5, <1>6

(* A task is made from the heads as they are.                                *)
LEMMA CreationKeeps ==
    ASSUME ProposalTypeOK, NEW place \in Places, Placed(place), NEW t \in Proposal,
           NEW k \in Kind, NEW b \in Target \cup {Nothing}, CreateDirectTask(t, k, b), Fits(k, b),
           k = "organization" /\ b # Nothing => library[b] # <<>>
    PROVE  ProposalInv'
<1> DEFINE basis == Basis(k)
           new == [kind |-> k, target |-> b, basis |-> basis, status |-> "created",
                   result |-> 1, firm |-> FALSE]
<1>1. Quoted(k) \subseteq Target
  BY DEF Quoted, OrganizationBasis, CriteriaBasis, DecisionBasis, SynthesisBasis, Target
<1>2. \A d \in Target : HeadOf(d) \in 0..MaxCommits
  <2> SUFFICES ASSUME NEW d \in Target PROVE HeadOf(d) \in 0..MaxCommits
    OBVIOUS
  <2>1. HeadOf(d) \in 0..made /\ made \in Len(Started)..MaxCommits
    BY HeadsArePlaced DEF ProposalTypeOK
  <2> QED  BY <2>1, FourStarted, ProposalAssumption
<1>3. basis \in BasisOf(k) /\ \A d \in Quoted(k) : basis.heads[d] = HeadOf(d)
  BY <1>1, <1>2 DEF Basis, QueryBasis, BasisOf, ProposalTypeOK
<1> HIDE DEF basis
<1>4. new \in ProposedTask /\ new.kind = k /\ new.target = b /\ new.basis = basis
      /\ new.status = "created"
  <2>1. 1 \in Result
    BY DEF Result
  <2>2. basis \in UNION {BasisOf(j) : j \in Kind}
    BY <1>3
  <2> QED  BY <2>1, <2>2 DEF ProposedTask
<1>5. task[t] = Nothing /\ task' = [task EXCEPT ![t] = new]
      /\ UNCHANGED <<library, made, context, approval, deaths>>
  BY DEF CreateDirectTask, basis
<1> HIDE DEF new
<1>6. task'[t] = new
  BY <1>5 DEF ProposalTypeOK
<1>7. TaskHolds(place, t)'
  <2>1. ASSUME NEW d \in Quoted(k)
        PROVE  LET head == basis.heads[d]
               IN  /\ head <= made
                   /\ head # 0 => place[head] = d
                   /\ head \in 1..4 => FirstIn(library[d]) = head
    <3>1. basis.heads[d] = HeadOf(d) /\ d \in Target
      BY <1>1, <1>3
    <3>2. HeadOf(d) <= made
      BY <3>1, HeadsArePlaced, FourStarted, ProposalAssumption DEF ProposalTypeOK
    <3> QED  BY <3>1, <3>2, HeadsArePlaced
  <2>2. k = "organization" /\ b # Nothing => basis.heads[b] # 0
    <3>1. k = "organization" /\ b # Nothing => b \in Quoted(k) /\ b \in Target
      BY DEF Fits, Quoted, OrganizationBasis
    <3> QED  BY <1>3, <3>1, HeadsArePlaced
  <2> QED  BY <1>4, <1>5, <1>6, <2>1, <2>2 DEF TaskHolds, Fits, Quoted, FirstIn
<1>8. deaths' \in 0..MaxFaults /\ approval' \in [Reviewer -> {Nothing} \cup Approving]
  BY <1>5 DEF ProposalTypeOK
<1> QED  BY <1>3, <1>4, <1>5, <1>7, <1>8, TaskMoves

(* The same for every kind of task.                                          *)
LEMMA CreationsKeep ==
    ASSUME ProposalTypeOK, NEW place \in Places, Placed(place), NEW t \in Proposal,
           CreateProposal(t)
    PROVE  ProposalInv'
<1>1. PICK k \in Kind, b \in Target \cup {Nothing} :
        CreateDirectTask(t, k, b) /\ Fits(k, b)
        /\ (k = "organization" /\ b # Nothing => library[b] # <<>>)
  <2>1. CASE CreateKnowledgeQuery(t)
    BY <2>1 DEF CreateKnowledgeQuery, Kind, Fits
  <2>2. CASE CreateOrganizationProposal(t)
    BY <2>2 DEF CreateOrganizationProposal, Present, Kind, Fits, Target
  <2>3. CASE CreateCriteriaProposal(t)
    BY <2>3 DEF CreateCriteriaProposal, Kind, Fits, Target
  <2>4. CASE CreateDecisionProposal(t)
    BY <2>4 DEF CreateDecisionProposal, Kind, Fits, Target
  <2>5. CASE CreateSynthesisProposal(t)
    BY <2>5 DEF CreateSynthesisProposal, Present, Kind, Fits, Target
  <2>6. CASE CreateRouteTask(t)
    BY <2>6 DEF CreateRouteTask, Kind, Fits, Target
  <2> QED  BY <2>1, <2>2, <2>3, <2>4, <2>5, <2>6 DEF CreateProposal
<1> QED  BY <1>1, CreationKeeps

(* It is submitted or rejected.                                              *)
LEMMA DecisionsKeep ==
    ASSUME ProposalTypeOK, NEW place \in Places, Placed(place), NEW t \in Proposal,
           SubmitProposal(t) \/ RejectProposal(t)
    PROVE  ProposalInv'
<1>1. task[t] # Nothing
  BY DEF SubmitProposal, RejectProposal
<1>2. PICK p \in ProposedTask : p = task[t]
  BY <1>1 DEF ProposalTypeOK
<1>3. PICK status \in {"submitted", "rejected"}, result \in Result, firm \in BOOLEAN :
        task' = [task EXCEPT ![t] = [p EXCEPT !.status = status, !.result = result,
          !.firm = firm]]
  <2>1. CASE SubmitProposal(t)
    <3>1. PICK result \in Result, firm \in BOOLEAN :
            task' = [task EXCEPT ![t].status = "submitted", ![t].result = result,
              ![t].firm = firm]
      BY <2>1 DEF SubmitProposal
    <3>2. task' = [task EXCEPT ![t] =
                     [p EXCEPT !.status = "submitted", !.result = result, !.firm = firm]]
      BY <1>2, <3>1 DEF ProposalTypeOK
    <3> QED  BY <3>2
  <2>2. CASE RejectProposal(t)
    <3>1. task' = [task EXCEPT ![t] = [p EXCEPT !.status = "rejected"]]
      BY <1>2, <2>2 DEF RejectProposal
    <3>2. [p EXCEPT !.status = "rejected"] =
            [p EXCEPT !.status = "rejected", !.result = p.result, !.firm = p.firm]
      BY DEF ProposedTask
    <3>3. p.result \in Result /\ p.firm \in BOOLEAN
      BY DEF ProposedTask
    <3> QED  BY <3>1, <3>2, <3>3
  <2> QED  BY <2>1, <2>2
<1> DEFINE new == [p EXCEPT !.status = status, !.result = result, !.firm = firm]
<1>4. new \in ProposedTask /\ new.kind = p.kind /\ new.target = p.target /\ new.basis = p.basis
      /\ new.status = status
  BY DEF ProposedTask
<1>5. task' = [task EXCEPT ![t] = new]
  BY <1>3
<1> HIDE DEF new
<1>6. task'[t] = new
  BY <1>5 DEF ProposalTypeOK
<1>7. UNCHANGED <<library, made, context, approval, deaths>>
  BY DEF SubmitProposal, RejectProposal
<1>8. TaskHolds(place, t)'
  <2>1. TaskHolds(place, t)
    BY DEF Placed
  <2>2. /\ Fits(p.kind, p.target)
        /\ p.kind = "organization" /\ p.target # Nothing => p.basis.heads[p.target] # 0
        /\ \A b \in Quoted(p.kind) :
             LET head == p.basis.heads[b]
             IN  /\ head <= made
                 /\ head # 0 => place[head] = b
                 /\ head \in 1..4 => FirstIn(library[b]) = head
    BY <1>1, <1>2, <2>1 DEF TaskHolds
  <2> QED  BY <1>4, <1>6, <1>7, <2>2 DEF TaskHolds, Fits, Quoted, FirstIn
<1>9. deaths' \in 0..MaxFaults /\ approval' \in [Reviewer -> {Nothing} \cup Approving]
      /\ new.basis \in BasisOf(new.kind)
  BY <1>1, <1>2, <1>4, <1>7 DEF ProposalTypeOK
<1> QED  BY <1>2, <1>4, <1>5, <1>7, <1>8, <1>9, TaskMoves

(* A call that moves from one place to another has read nothing new.         *)
LEMMA PlacesMove ==
    ASSUME ProposalTypeOK, NEW place \in Places, Placed(place), NEW c \in Reviewer,
           approval[c] # Nothing, approval[c].target = Nothing,
           NEW new \in Approving, approval' = [approval EXCEPT ![c] = new],
           UNCHANGED <<library, made, context, task, deaths>>,
           new.task = approval[c].task, new.target = Nothing, new.at \notin Writing,
           new.at = "finish" => Kept(new.task)
    PROVE  ProposalInv'
<1>1. approval'[c] = new
  BY DEF ProposalTypeOK
<1>2. PICK t \in Proposal : t = approval[c].task
  BY ApprovalsAreTyped
<1>3. task[t] # Nothing
  BY <1>2 DEF Placed, ApprovalHolds
<1>4. Kept(t) => Kept(t)'
  BY <1>3, KeptStays DEF TasksKeep
<1>5. new.at = "finish" => Kept(t)'
  BY <1>2, <1>4
<1>6. ApprovalHolds(place, c)'
  BY <1>1, <1>2, <1>3, <1>5 DEF ApprovalHolds, Writing
<1>7. deaths' \in 0..MaxFaults
  BY DEF ProposalTypeOK
<1> QED  BY <1>6, <1>7, ApprovalMoves

(* A call that ends leaves what it has done.                                 *)
LEMMA CallsEnd ==
    ASSUME ProposalTypeOK, NEW place \in Places, Placed(place), NEW c \in Reviewer,
           GiveUp(c), UNCHANGED <<library, made, context, task>>, deaths' \in 0..MaxFaults
    PROVE  ProposalInv'
<1>1. approval'[c] = Nothing
  BY DEF GiveUp, ProposalTypeOK
<1>2. ApprovalHolds(place, c)'
  BY <1>1 DEF ApprovalHolds
<1> QED  BY <1>2, ApprovalMoves DEF GiveUp

(* An approval begins: the task is in the library, or its basis is checked.  *)
LEMMA BeginningKeeps ==
    ASSUME ProposalTypeOK, NEW place \in Places, Placed(place), NEW c \in Reviewer,
           NEW t \in Proposal, BeginApproval(c, t)
    PROVE  ProposalInv'
<1> DEFINE at == IF Committed(t) THEN "finish" ELSE "check"
           new == [task |-> t, at |-> at, target |-> Nothing, base |-> <<>>, token |-> <<>>,
                   context |-> 0, under |-> 0]
<1>1. at \in Place /\ at \notin Writing
  BY DEF Place, Writing
<1>2. at = "finish" => Kept(t)
  BY DEF Committed, Kept, Routed, Guarded
<1>3. approval' = [approval EXCEPT ![c] = new] /\ task[t] # Nothing
      /\ UNCHANGED <<library, made, context, task, deaths>>
  BY DEF BeginApproval
<1> HIDE DEF at
<1>4. new \in Approving /\ new.task = t /\ new.target = Nothing /\ new.at = at
  <2>1. 0 \in 0..MaxContexts /\ 0 \in 0..MaxCommits /\ <<>> \in Seq(LibraryEntry)
    BY ProposalAssumption
  <2> QED  BY <1>1, <2>1 DEF Approving
<1> HIDE DEF new
<1>5. approval'[c] = new
  BY <1>3 DEF ProposalTypeOK
<1>6. Kept(t) => Kept(t)'
  BY <1>3, KeptStays DEF TasksKeep
<1>7. ApprovalHolds(place, c)'
  BY <1>1, <1>2, <1>3, <1>4, <1>5, <1>6 DEF ApprovalHolds, Writing
<1>8. deaths' \in 0..MaxFaults
  BY <1>3 DEF ProposalTypeOK
<1> QED  BY <1>3, <1>4, <1>7, <1>8, ApprovalMoves

(* The basis is checked, the context of a decision derived again.            *)
LEMMA ChecksKeep ==
    ASSUME ProposalTypeOK, NEW place \in Places, Placed(place), NEW c \in Reviewer,
           RequireCurrentBasis(c) \/ AcceptReport(c) \/ DeriveScreening(c)
    PROVE  ProposalInv'
<1>1. approval[c] # Nothing /\ approval[c].at \in {"check", "derive"}
      /\ UNCHANGED <<library, made, context, task, deaths>>
  BY DEF RequireCurrentBasis, AcceptReport, DeriveScreening, On
<1>2. PICK a \in Approving : a = approval[c]
  BY <1>1, ApprovalsAreTyped
<1>3. a.target = Nothing
  BY <1>1, <1>2 DEF Placed, ApprovalHolds, Writing
<1>4. ASSUME NEW at \in {"derive", "promote", "finish"}, NEW under \in 0..MaxCommits,
             approval' = [approval EXCEPT ![c] = [a EXCEPT !.at = at, !.under = under]],
             at = "finish" => Kept(a.task)
      PROVE  ProposalInv'
  <2> DEFINE new == [a EXCEPT !.at = at, !.under = under]
  <2>1. at \in Place /\ at \notin Writing
    BY DEF Place, Writing
  <2>2. new \in Approving /\ new.task = a.task /\ new.target = a.target /\ new.at = at
    BY <2>1 DEF Approving
  <2>3. approval' = [approval EXCEPT ![c] = new]
    BY <1>4
  <2> HIDE DEF new
  <2> QED  BY <1>1, <1>2, <1>3, <1>4, <2>1, <2>2, <2>3, PlacesMove
<1>5. CASE GiveUp(c)
  BY <1>1, <1>5, CallsEnd DEF ProposalTypeOK
<1>6. \A at : Go(c, at) => approval' = [approval EXCEPT ![c] = [a EXCEPT !.at = at,
        !.under = a.under]]
  <2> SUFFICES ASSUME NEW at, Go(c, at)
               PROVE  approval' = [approval EXCEPT ![c] = [a EXCEPT !.at = at, !.under = a.under]]
    OBVIOUS
  <2>1. approval' = [approval EXCEPT ![c] = [a EXCEPT !.at = at]]
    BY <1>2 DEF Go
  <2>2. [a EXCEPT !.at = at] = [a EXCEPT !.at = at, !.under = a.under]
    BY DEF Approving
  <2> QED  BY <2>1, <2>2
<1>7. a.under \in 0..MaxCommits
  BY DEF Approving
<1>8. CASE RequireCurrentBasis(c) /\ ~GiveUp(c)
  <2>1. Go(c, "derive") \/ Go(c, "promote")
    BY <1>8 DEF RequireCurrentBasis
  <2> QED  BY <1>4, <1>6, <1>7, <2>1
<1>9. CASE AcceptReport(c) /\ ~GiveUp(c)
  <2>1. Go(c, "finish") /\ task[a.task].kind = "report"
    BY <1>2, <1>9 DEF AcceptReport, Of
  <2>2. Kept(a.task)
    BY <2>1 DEF Kept, Guarded
  <2> QED  BY <1>4, <1>6, <1>7, <2>1, <2>2
<1>10. CASE DeriveScreening(c)
  <2> DEFINE under == HeadOf("criteria")
  <2>1. approval' = [approval EXCEPT ![c] = [a EXCEPT !.at = "promote", !.under = under]]
    BY <1>2, <1>10 DEF DeriveScreening
  <2>2. under \in 0..MaxCommits
    <3>1. "criteria" \in Target
      BY DEF Target
    <3>2. HeadOf("criteria") \in 0..made /\ made \in Len(Started)..MaxCommits
      BY <3>1, HeadsArePlaced DEF ProposalTypeOK
    <3> QED  BY <3>2, FourStarted, ProposalAssumption
  <2> HIDE DEF under
  <2> QED  BY <1>4, <2>1, <2>2
<1> QED  BY <1>5, <1>8, <1>9, <1>10

(* What a call is about to write to.                                         *)
LEMMA WritesFit ==
    ASSUME ProposalTypeOK, NEW place \in Places, Placed(place), NEW c \in Reviewer,
           approval[c] # Nothing, NEW t \in Proposal, t = approval[c].task, NEW b \in Writes(c)
    PROVE  /\ b \in Target /\ task[t] # Nothing /\ TaskHolds(place, t)
             /\ Fits(task[t].kind, task[t].target)
           /\ task[t].kind \in Guarded => b \in OfKind(task[t].kind)
           /\ b \in Screening => task[t].kind = b /\ task[t].target = b
           /\ b = task[t].target \/ (task[t].target = Nothing /\ library[b] = <<>>)
           /\ task[t].kind \in {"criteria", "decision"} => task[t].target = b
<1>1. task[t] # Nothing /\ TaskHolds(place, t)
  BY DEF Placed, ApprovalHolds
<1>2. Fits(task[t].kind, task[t].target) /\ task[t].kind \in Kind
  BY <1>1 DEF TaskHolds, ProposalTypeOK, ProposedTask
<1>3. Nothing \notin Target
  BY NothingIsNoProposal
<1>4. CASE task[t].target # Nothing
  <2>1. b = task[t].target
    BY <1>4 DEF Writes, Of
  <2> QED  BY <1>1, <1>2, <1>4, <2>1
           DEF Fits, Target, Heading, Candidates, Guarded, OfKind, Screening, Kind
<1>5. CASE task[t].target = Nothing
  <2>1. task[t].kind \in {"organization", "synthesis", "report"}
    BY <1>2, <1>3, <1>5 DEF Fits, Kind, Target
  <2>2. IF task[t].kind = "organization" THEN b \in Heading \ Present(Heading)
        ELSE b \in Candidates \ Present(Candidates)
    BY <1>5, <2>1 DEF Writes, Of
  <2> QED  BY <1>1, <1>2, <1>5, <2>1, <2>2
           DEF Present, Target, Heading, Candidates, Guarded, OfKind, Screening
<1> QED  BY <1>4, <1>5

(* A call that finds its content there finds the revision the task is bound  *)
(* to, if nothing is lost.                                                   *)
LEMMA SameContentIsPromised ==
    ASSUME ProposalTypeOK, NEW place \in Places, Placed(place), NEW c \in Reviewer,
           approval[c] # Nothing, NEW t \in Proposal, t = approval[c].task, NEW b \in Writes(c),
           AsExpected(c), SameContent(c, b)
    PROVE  Kept(t)
<1>1. /\ b \in Target /\ task[t] # Nothing /\ TaskHolds(place, t)
      /\ Fits(task[t].kind, task[t].target)
      /\ b = task[t].target \/ (task[t].target = Nothing /\ library[b] = <<>>)
  BY WritesFit
<1>2. library[b] # <<>> /\ library[b] \in Seq(LibraryEntry)
  BY <1>1 DEF SameContent, ProposalTypeOK
<1>3. b = task[t].target /\ b # Nothing
  BY <1>1, <1>2, NothingIsNoProposal
<1>4. SUFFICES ASSUME task[t].kind \in Guarded, NothingLost PROVE Promised(t)
  BY <1>1, KeptIsPromised
<1> DEFINE head == task[t].basis.heads[b]
<1>5. CASE task[t].kind \in Screening
  <2>1. HeadOf(b) = head
    BY <1>3, <1>5 DEF AsExpected, Of, Screening
  <2>2. Len(library[b]) \in 1..Len(library[b]) /\ library[b][Len(library[b])].id = head
    BY <1>2, <2>1 DEF HeadOf, Last
  <2> QED  BY <1>3, <2>2 DEF Promised
<1>6. CASE task[t].kind = "organization"
  <2>1. b \in Quoted("organization")
    BY <1>1, <1>3, <1>6 DEF Fits, Quoted, OrganizationBasis
  <2>2. head # 0 /\ head <= made /\ place[head] = b
          /\ (head \in 1..4 => FirstIn(library[b]) = head)
    BY <1>1, <1>3, <1>6, <2>1 DEF TaskHolds
  <2>3. head \in 0..MaxCommits
    BY <1>1, <1>6, <2>1 DEF ProposalTypeOK, BasisOf
  <2>4. made \in Nat
    BY FourStarted, ProposalAssumption DEF ProposalTypeOK
  <2> HIDE DEF head
  <2>5. CASE head <= 4
    <3>1. head \in 1..4
      BY <2>2, <2>3, <2>5, ProposalAssumption
    <3>2. 1 \in 1..Len(library[b]) /\ library[b][1].id = head
      BY <1>2, <2>2, <3>1 DEF FirstIn
    <3> QED  BY <1>3, <3>2 DEF Promised, head
  <2>6. CASE head > 4
    <3>1. head \in Len(Started) + 1..made
      BY <2>2, <2>3, <2>4, <2>6, FourStarted, ProposalAssumption
    <3>2. PICK d \in Target : \E n \in 1..Len(library[d]) : library[d][n].id = head
      BY <1>4, <3>1 DEF NothingLost
    <3>3. PICK n \in 1..Len(library[d]) : library[d][n].id = head
      BY <3>2
    <3>4. d = b
      BY <2>2, <3>3 DEF Placed, Chained
    <3> QED  BY <1>3, <3>3, <3>4 DEF Promised, head
  <2>7. head <= 4 \/ head > 4
    BY <2>3, ProposalAssumption
  <2> QED  BY <2>5, <2>6, <2>7
<1> QED  BY <1>4, <1>5, <1>6 DEF Guarded, Screening

(* What is revised is read, or the content is there already.                 *)
LEMMA ReadingKeeps ==
    ASSUME ProposalTypeOK, NEW place \in Places, Placed(place), NEW c \in Reviewer, ReadTarget(c)
    PROVE  ProposalInv'
<1>1. approval[c] # Nothing /\ approval[c].at = "promote"
      /\ UNCHANGED <<library, made, context, task, deaths>>
  BY DEF ReadTarget, On
<1>2. PICK a \in Approving : a = approval[c]
  BY <1>1, ApprovalsAreTyped
<1>3. a.target = Nothing
  BY <1>1, <1>2 DEF Placed, ApprovalHolds, Writing
<1>4. PICK t \in Proposal : t = a.task
  BY DEF Approving
<1> DEFINE Read(b) == [a EXCEPT !.target = b, !.base = library[b], !.context = context]
<1>5. PICK b \in Writes(c) :
        approval' = [approval EXCEPT ![c] =
          IF ~AsExpected(c) THEN Nothing
          ELSE IF SameContent(c, b) /\ b \notin Candidates THEN [a EXCEPT !.at = "finish"]
          ELSE IF b \in Candidates \cup {"job"}
               THEN [Read(b) EXCEPT !.at = "commit", !.token = library[b]]
               ELSE [Read(b) EXCEPT !.at = "token"]]
  BY <1>2 DEF ReadTarget
<1>6. /\ b \in Target /\ task[t] # Nothing /\ TaskHolds(place, t)
      /\ task[t].kind \in Guarded => b \in OfKind(task[t].kind)
      /\ b \in Screening => task[t].kind = b /\ task[t].target = b
  BY <1>1, <1>2, <1>4, WritesFit
<1>7. CASE ~AsExpected(c)
  BY <1>1, <1>5, <1>7, CallsEnd DEF GiveUp, ProposalTypeOK
<1>8. CASE AsExpected(c) /\ SameContent(c, b) /\ b \notin Candidates
  <2> DEFINE new == [a EXCEPT !.at = "finish"]
  <2>1. new \in Approving /\ new.task = t /\ new.target = Nothing /\ new.at = "finish"
    BY <1>3, <1>4 DEF Approving, Place
  <2>2. approval' = [approval EXCEPT ![c] = new]
    BY <1>5, <1>8
  <2> HIDE DEF new
  <2>3. Kept(t)
    BY <1>1, <1>2, <1>4, <1>8, SameContentIsPromised
  <2>4. new.at \notin Writing
    BY <2>1 DEF Writing
  <2> QED  BY <1>1, <1>2, <1>3, <1>4, <2>1, <2>2, <2>3, <2>4, PlacesMove
<1>9. CASE AsExpected(c) /\ ~(SameContent(c, b) /\ b \notin Candidates)
  <2>1. PICK s \in Seq(LibraryEntry) : s = library[b]
    BY <1>6 DEF ProposalTypeOK
  <2>2. context \in 0..MaxContexts
    BY DEF ProposalTypeOK
  <2>3. Read(b) \in Approving /\ Read(b).task = t /\ Read(b).target = b /\ Read(b).base = s
    BY <1>4, <1>6, <2>1, <2>2 DEF Approving
  <2> HIDE DEF Read
  <2>4. PICK new \in Approving :
          /\ approval' = [approval EXCEPT ![c] = new]
          /\ new.task = t /\ new.target = b /\ new.base = s /\ new.at \in Writing
    <3>1. CASE b \in Candidates \cup {"job"}
      <4> DEFINE new == [Read(b) EXCEPT !.at = "commit", !.token = s]
      <4>1. new \in Approving /\ new.task = t /\ new.target = b /\ new.base = s
              /\ new.at = "commit"
        BY <2>3 DEF Approving, Place
      <4>2. approval' = [approval EXCEPT ![c] = new]
        BY <1>5, <1>9, <2>1, <3>1
      <4> HIDE DEF new
      <4> QED  BY <4>1, <4>2 DEF Writing
    <3>2. CASE b \notin Candidates \cup {"job"}
      <4> DEFINE new == [Read(b) EXCEPT !.at = "token"]
      <4>1. new \in Approving /\ new.task = t /\ new.target = b /\ new.base = s
              /\ new.at = "token"
        BY <2>3 DEF Approving, Place
      <4>2. approval' = [approval EXCEPT ![c] = new]
        BY <1>5, <1>9, <3>2
      <4> HIDE DEF new
      <4> QED  BY <4>1, <4>2 DEF Writing
    <3> QED  BY <3>1, <3>2
  <2>5. approval'[c] = new
    BY <2>4 DEF ProposalTypeOK
  <2>6. b \in Screening => HeadIn(s) = task[t].basis.heads[b]
    <3>1. b \in Screening => HeadOf(b) = task[t].basis.heads[b]
      BY <1>2, <1>4, <1>6, <1>9 DEF AsExpected, Of, Screening
    <3> QED  BY <1>6, <2>1, <3>1, HeadsArePlaced
  <2>7. Chained(place, b, s)'
    <3>1. Chained(place, b, s)
      BY <1>6, <2>1 DEF Placed
    <3>2. TasksKeep
      BY <1>1 DEF TasksKeep
    <3> QED  BY <1>1, <3>1, <3>2, ChainsStay, FourStarted, ProposalAssumption DEF ProposalTypeOK
  <2>8. IsOrLost(b, s)' /\ FirstIn(s) = FirstIn(library'[b])
    BY <1>1, <2>1 DEF IsOrLost
  <2>9. b # Nothing /\ new.at # "finish"
    BY <1>6, <2>4, NothingIsNoProposal DEF Writing
  <2>10. ApprovalHolds(place, c)'
    BY <1>1, <1>6, <2>4, <2>5, <2>6, <2>7, <2>8, <2>9
    DEF ApprovalHolds, FirstIn, HeadIn, OfKind
  <2>11. deaths' \in 0..MaxFaults
    BY <1>1 DEF ProposalTypeOK
  <2> QED  BY <1>1, <2>4, <2>10, <2>11, ApprovalMoves
<1> QED  BY <1>7, <1>8, <1>9

(* The token is that of the file as it is, whatever was read of it.          *)
LEMMA TokensKeep ==
    ASSUME ProposalTypeOK, NEW place \in Places, Placed(place), NEW c \in Reviewer,
           TakeFileToken(c)
    PROVE  ProposalInv'
<1>1. approval[c] # Nothing /\ approval[c].at = "token"
      /\ UNCHANGED <<library, made, context, task, deaths>>
  BY DEF TakeFileToken, On
<1>2. PICK a \in Approving : a = approval[c]
  BY <1>1, ApprovalsAreTyped
<1>3. PICK t \in Proposal : t = a.task
  BY DEF Approving
<1>4. PICK s \in Seq(LibraryEntry) : s = a.base
  BY DEF Approving
<1>5. ApprovalHolds(place, c)
  BY DEF Placed
<1>6. a.target \in Target
  BY <1>1, <1>2, <1>5 DEF ApprovalHolds, Writing, Approving
<1>7. PICK token \in Seq(LibraryEntry) : token = library[a.target]
  BY <1>6 DEF ProposalTypeOK
<1> DEFINE new == [a EXCEPT !.at = "commit", !.token = token]
<1>8. new \in Approving /\ new.task = t /\ new.target = a.target /\ new.base = s
        /\ new.at = "commit"
  BY <1>3, <1>4 DEF Approving, Place
<1>9. approval' = [approval EXCEPT ![c] = new]
  BY <1>2, <1>7 DEF TakeFileToken
<1> HIDE DEF new
<1>10. approval'[c] = new
  BY <1>9 DEF ProposalTypeOK
<1>11. /\ task[t] # Nothing
       /\ task[t].kind \in Guarded => a.target \in OfKind(task[t].kind)
       /\ a.target \in Screening =>
            task[t].kind = a.target /\ HeadIn(s) = task[t].basis.heads[a.target]
       /\ Chained(place, a.target, s) /\ IsOrLost(a.target, s)
       /\ FirstIn(s) = FirstIn(library[a.target])
  BY <1>1, <1>2, <1>3, <1>4, <1>5, <1>6, NothingIsNoProposal DEF ApprovalHolds
<1>12. Chained(place, a.target, s)' /\ IsOrLost(a.target, s)'
  <2>1. TasksKeep
    BY <1>1 DEF TasksKeep
  <2>2. Chained(place, a.target, s)'
    BY <1>1, <1>11, <2>1, ChainsStay, FourStarted, ProposalAssumption DEF ProposalTypeOK
  <2> QED  BY <1>1, <1>11, <2>2 DEF IsOrLost, Last
<1>13. a.target # Nothing /\ new.at \in Writing /\ new.at # "finish"
  BY <1>6, <1>8, NothingIsNoProposal DEF Writing
<1>14. ApprovalHolds(place, c)'
  BY <1>1, <1>8, <1>10, <1>11, <1>12, <1>13 DEF ApprovalHolds, FirstIn, HeadIn, OfKind
<1>15. deaths' \in 0..MaxFaults
  BY <1>1 DEF ProposalTypeOK
<1> QED  BY <1>1, <1>8, <1>9, <1>14, <1>15, ApprovalMoves

(* What was read is promoted with the task's revision, or the call fails.    *)
LEMMA CommitsKeep ==
    ASSUME ProposalTypeOK, NEW place \in Places, Placed(place), NEW c \in Reviewer,
           CommitProposal(c)
    PROVE  ProposalInv'
<1>1. approval[c] # Nothing /\ approval[c].at = "commit" /\ UNCHANGED <<context, task, deaths>>
  BY DEF CommitProposal, On
<1>2. PICK a \in Approving : a = approval[c]
  BY <1>1, ApprovalsAreTyped
<1>3. PICK t \in Proposal : t = a.task
  BY DEF Approving
<1>4. PICK s \in Seq(LibraryEntry) : s = a.base
  BY DEF Approving
<1>5. ApprovalHolds(place, c)
  BY DEF Placed
<1>6. PICK b \in Target : b = a.target
  BY <1>1, <1>2, <1>5 DEF ApprovalHolds, Writing, Approving
<1>7. /\ task[t] # Nothing
      /\ task[t].kind \in Guarded => b \in OfKind(task[t].kind)
      /\ b \in Screening => task[t].kind = b /\ HeadIn(s) = task[t].basis.heads[b]
      /\ Chained(place, b, s) /\ IsOrLost(b, s)
      /\ FirstIn(s) = FirstIn(library[b])
  BY <1>1, <1>2, <1>3, <1>4, <1>5, <1>6, NothingIsNoProposal DEF ApprovalHolds
<1>8. CASE ~Admitted(c)
  <2>1. GiveUp(c) /\ UNCHANGED <<library, made>>
    BY <1>8 DEF CommitProposal
  <2> QED  BY <1>1, <2>1, CallsEnd DEF ProposalTypeOK
<1>9. CASE Admitted(c)
  <2> DEFINE result == task[t].result
             e == NewEntry(s, t, result, a.under)
             new == [a EXCEPT !.at = "finish", !.base = <<>>, !.token = <<>>, !.target = Nothing]
  <2>1. made < MaxCommits /\ made' = made + 1 /\ made \in Nat
    BY <1>9, ProposalAssumption, FourStarted DEF CommitProposal, ProposalTypeOK
  <2>2. library' = [library EXCEPT ![b] = Append(s, e)]
          /\ approval' = [approval EXCEPT ![c] = new]
    BY <1>2, <1>3, <1>4, <1>6, <1>9 DEF CommitProposal, Of
  <2>3. result \in Result
    BY <1>7 DEF ProposalTypeOK, ProposedTask
  <2> HIDE DEF result
  <2>4. e \in LibraryEntry /\ e.id = made + 1 /\ e.follows = HeadIn(s) /\ e.by = t
    <3>1. made + 1 \in 1..MaxCommits
      BY <2>1, ProposalAssumption
    <3>2. HeadIn(s) \in 0..MaxCommits /\ a.under \in 0..MaxCommits
      BY HeadsAreTyped DEF Approving
    <3>3. e = [id |-> made + 1, follows |-> HeadIn(s), by |-> t, result |-> result,
            under |-> a.under]
      BY DEF NewEntry, HeadIn
    <3> QED  BY <2>3, <3>1, <3>2, <3>3 DEF LibraryEntry
  <2>5. new \in Approving /\ new.task = t /\ new.target = Nothing /\ new.at = "finish"
    <3>1. <<>> \in Seq(LibraryEntry)
      OBVIOUS
    <3> QED  BY <1>3, <3>1 DEF Approving, Place
  <2> HIDE DEF new, e
  <2>6. Grows(b, s, e)
    BY <2>1, <2>2 DEF Grows
  <2>7. approval' \in [Reviewer -> {Nothing} \cup Approving]
        /\ approval'[c] = new /\ \A d \in Reviewer \ {c} : approval'[d] = approval[d]
    BY <2>2, <2>5 DEF ProposalTypeOK
  <2>8. ASSUME NEW d \in Reviewer
        PROVE  \/ approval'[d] = approval[d] \/ approval'[d] = Nothing
               \/ /\ approval[d] # Nothing /\ approval'[d].task = approval[d].task
                  /\ approval'[d].at = "finish" /\ approval'[d].target = Nothing
                  /\ e.by = approval[d].task
                  /\ task[e.by].kind \in Guarded => b \in OfKind(task[e.by].kind)
    BY <1>1, <1>2, <1>3, <1>7, <2>4, <2>5, <2>7
  <2>9. b \in Screening /\ e.by # Nothing =>
          task[e.by] # Nothing /\ task[e.by].basis.heads[b] = HeadIn(s)
    BY <1>7, <2>4
  <2> QED  BY <1>1, <1>7, <2>1, <2>4, <2>6, <2>7, <2>8, <2>9, GrowthKeeps
<1> QED  BY <1>8, <1>9

(* The task is approved, or was decided meanwhile.                           *)
LEMMA FinishingKeeps ==
    ASSUME ProposalTypeOK, NEW place \in Places, Placed(place), NEW c \in Reviewer,
           FinishApproval(c)
    PROVE  ProposalInv'
<1>1. approval[c] # Nothing /\ approval[c].at = "finish" /\ GiveUp(c)
      /\ UNCHANGED <<library, made, context, deaths>>
  BY DEF FinishApproval, On
<1>2. PICK t \in Proposal : t = approval[c].task
  BY <1>1, ApprovalsAreTyped
<1>3. task[t] # Nothing /\ Kept(t)
  BY <1>1, <1>2 DEF Placed, ApprovalHolds
<1>4. PICK p \in ProposedTask : p = task[t]
  BY <1>3 DEF ProposalTypeOK
<1>5. CASE p.status # "submitted"
  <2>1. task' = task
    BY <1>2, <1>4, <1>5 DEF FinishApproval, Of
  <2> QED  BY <1>1, <2>1, CallsEnd DEF ProposalTypeOK
<1>6. CASE p.status = "submitted"
  <2> DEFINE new == [p EXCEPT !.status = "approved"]
  <2>1. task' = [task EXCEPT ![t] = new]
    BY <1>2, <1>4, <1>6 DEF FinishApproval, Of
  <2>2. new \in ProposedTask /\ new.kind = p.kind /\ new.target = p.target /\ new.basis = p.basis
    BY DEF ProposedTask
  <2> HIDE DEF new
  <2>3. task'[t] = new /\ new # Nothing
    BY <2>1, <2>2, NothingIsNoProposal DEF ProposalTypeOK
  <2>4. TasksKeep
    BY <1>4, <2>1, <2>2, <2>3 DEF TasksKeep, ProposalTypeOK
  <2>5. Kept(t)'
    BY <1>1, <1>3, <2>4, KeptStays
  <2>6. TaskHolds(place, t)'
    <3>1. TaskHolds(place, t)
      BY DEF Placed
    <3>2. /\ Fits(p.kind, p.target)
          /\ p.kind = "organization" /\ p.target # Nothing => p.basis.heads[p.target] # 0
          /\ \A b \in Quoted(p.kind) :
               LET head == p.basis.heads[b]
               IN  /\ head <= made
                   /\ head # 0 => place[head] = b
                   /\ head \in 1..4 => FirstIn(library[b]) = head
      BY <1>3, <1>4, <3>1 DEF TaskHolds
    <3> QED  BY <1>1, <2>2, <2>3, <2>5, <3>2 DEF TaskHolds, Fits, Quoted, FirstIn
  <2>7. approval' \in [Reviewer -> {Nothing} \cup Approving]
        /\ \A d \in Reviewer : approval'[d] \in {approval[d], Nothing}
    BY <1>1 DEF GiveUp, ProposalTypeOK
  <2>8. deaths' \in 0..MaxFaults /\ new.basis \in BasisOf(new.kind)
    BY <1>1, <1>3, <1>4, <2>2 DEF ProposalTypeOK
  <2> QED  BY <1>1, <1>4, <2>1, <2>2, <2>6, <2>7, <2>8, TaskMoves
<1> QED  BY <1>5, <1>6

(* The user revises what tasks rest on.                                      *)
LEMMA EditsKeep ==
    ASSUME ProposalTypeOK, NEW place \in Places, Placed(place), NEW b \in Target, EditDirectly(b)
    PROVE  ProposalInv'
<1>1. PICK s \in Seq(LibraryEntry) : s = library[b]
  BY DEF ProposalTypeOK
<1>2. made < MaxCommits /\ made' = made + 1 /\ made \in Nat
      /\ UNCHANGED <<context, task, approval, deaths>>
  BY ProposalAssumption, FourStarted DEF EditDirectly, ProposalTypeOK
<1> DEFINE under == IF b = "decision" THEN HeadOf("criteria") ELSE 0
<1>3. PICK result \in Result :
        library' = [library EXCEPT ![b] = Append(s, NewEntry(s, Nothing, result, under))]
  BY <1>1 DEF EditDirectly
<1>4. under \in 0..MaxCommits
  <2>1. "criteria" \in Target
    BY DEF Target
  <2>2. HeadOf("criteria") \in 0..made
    BY <2>1, HeadsArePlaced
  <2> QED  BY <1>2, <2>2, ProposalAssumption
<1> HIDE DEF under
<1> DEFINE e == NewEntry(s, Nothing, result, under)
<1>5. e \in LibraryEntry /\ e.id = made + 1 /\ e.follows = HeadIn(s) /\ e.by = Nothing
  <2>1. made + 1 \in 1..MaxCommits
    BY <1>2, ProposalAssumption
  <2>2. HeadIn(s) \in 0..MaxCommits
    BY HeadsAreTyped
  <2>3. e = [id |-> made + 1, follows |-> HeadIn(s), by |-> Nothing, result |-> result,
          under |-> under]
    BY DEF NewEntry, HeadIn
  <2> QED  BY <1>4, <2>1, <2>2, <2>3 DEF LibraryEntry
<1>6. Grows(b, s, e)
  BY <1>2, <1>3 DEF Grows
<1> HIDE DEF e
<1>7. Chained(place, b, s) /\ IsOrLost(b, s) /\ FirstIn(s) = FirstIn(library[b])
  BY <1>1 DEF Placed, IsOrLost
<1>8. approval' \in [Reviewer -> {Nothing} \cup Approving]
      /\ \A c \in Reviewer : approval'[c] = approval[c]
  BY <1>2 DEF ProposalTypeOK
<1> QED  BY <1>2, <1>5, <1>6, <1>7, <1>8, GrowthKeeps

(* What a context quotes besides: nothing that was made depends on it.       *)
LEMMA ContextsKeep ==
    ASSUME ProposalTypeOK, NEW place \in Places, Placed(place), context' \in 0..MaxContexts,
           UNCHANGED <<library, made, task, approval, deaths>>
    PROVE  ProposalInv'
<1>1. UNCHANGED <<library, made, task, approval, deaths>>
  OBVIOUS
<1>2. ProposalTypeOK'
  BY DEF ProposalTypeOK
<1>3. TasksKeep
  BY <1>1 DEF TasksKeep
<1>4. \A b \in Target : Chained(place, b, library[b])'
  <2> SUFFICES ASSUME NEW b \in Target PROVE Chained(place, b, library[b])'
    OBVIOUS
  <2>1. PICK s \in Seq(LibraryEntry) : s = library[b]
    BY DEF ProposalTypeOK
  <2>2. Chained(place, b, s)
    BY <2>1 DEF Placed
  <2>3. Chained(place, b, s)'
    BY <1>1, <1>3, <2>2, ChainsStay, ProposalAssumption, FourStarted DEF ProposalTypeOK
  <2>4. library'[b] = s
    BY <1>1, <2>1
  <2> QED  BY <2>3, <2>4
<1>5. \A t \in Proposal : TaskHolds(place, t)'
  <2> SUFFICES ASSUME NEW t \in Proposal, task[t] # Nothing PROVE TaskHolds(place, t)'
    BY <1>1 DEF TaskHolds
  <2>1. TaskHolds(place, t) /\ task'[t] = task[t] /\ (Kept(t) => Kept(t)')
    BY <1>1, <1>3, KeptStays DEF Placed
  <2>2. \A b : FirstIn(library[b])' = FirstIn(library[b])
    BY <1>1 DEF FirstIn
  <2> QED  BY <1>1, <2>1, <2>2 DEF TaskHolds
<1>6. \A c \in Reviewer : ApprovalHolds(place, c)'
  BY <1>1, <1>3, ApprovalStays DEF Placed
<1> QED  BY <1>2, <1>4, <1>5, <1>6 DEF ProposalInv, Placed

(* At the start an id of the four is that of its target.                     *)
LEMMA ProposalInvInit == ProposalInit => ProposalInv
<1> SUFFICES ASSUME ProposalInit PROVE ProposalInv
  OBVIOUS
<1>1. PICK begun \in {{}, {1}, {2}, {2, 3}, {4}} :
        library = [b \in Target |->
          IF \E n \in begun : Started[n] = b
          THEN <<[id |-> CHOOSE n \in begun : Started[n] = b, follows |-> 0, by |-> Nothing,
                  result |-> 1, under |-> IF b = "decision" THEN 2 ELSE 0]>>
          ELSE <<>>]
  BY DEF ProposalInit
<1>2. made = 4 /\ context = 0 /\ deaths = 0
      /\ task = [t \in Proposal |-> Nothing] /\ approval = [c \in Reviewer |-> Nothing]
  BY FourStarted DEF ProposalInit
<1>3. begun \subseteq 1..4
  OBVIOUS
<1> DEFINE first(b) == CHOOSE n \in begun : Started[n] = b
<1>4. ASSUME NEW b \in Target
      PROVE  \/ library[b] = <<>>
             \/ \E e \in LibraryEntry :
                  library[b] = <<e>> /\ e.id \in 1..4 /\ Started[e.id] = b /\ e.by = Nothing
  <2>1. CASE \E n \in begun : Started[n] = b
    <3>1. first(b) \in begun /\ Started[first(b)] = b
      BY <2>1
    <3>2. PICK n \in 1..4 : n = first(b) /\ Started[n] = b
      BY <1>3, <3>1
    <3> DEFINE under == IF b = "decision" THEN 2 ELSE 0
               e == [id |-> n, follows |-> 0, by |-> Nothing, result |-> 1, under |-> under]
    <3>3. library[b] = <<e>>
      BY <1>1, <2>1, <3>2
    <3>4. n \in 1..MaxCommits /\ 0 \in 0..MaxCommits /\ under \in 0..MaxCommits /\ 1 \in Result
      BY ProposalAssumption DEF Result
    <3> HIDE DEF under
    <3>5. e \in LibraryEntry /\ e.id = n /\ e.by = Nothing
      BY <3>4 DEF LibraryEntry
    <3> HIDE DEF e
    <3> QED  BY <3>2, <3>3, <3>5
  <2>2. CASE ~\E n \in begun : Started[n] = b
    BY <1>1, <2>2
  <2> QED  BY <2>1, <2>2
<1>5. \A b \in Target : library[b] \in Seq(LibraryEntry)
  <2> SUFFICES ASSUME NEW b \in Target PROVE library[b] \in Seq(LibraryEntry)
    OBVIOUS
  <2>1. \A e \in LibraryEntry : <<e>> \in Seq(LibraryEntry)
    OBVIOUS
  <2>2. <<>> \in Seq(LibraryEntry)
    OBVIOUS
  <2> QED  BY <1>4, <2>1, <2>2
<1>6. ProposalTypeOK
  <2>1. made \in Len(Started)..MaxCommits /\ context \in 0..MaxContexts /\ deaths \in 0..MaxFaults
    BY <1>2, FourStarted, ProposalAssumption, FaultAssumption
  <2>2. library \in [Target -> Seq(LibraryEntry)]
    BY <1>1, <1>5
  <2> QED  BY <1>2, <2>1, <2>2 DEF ProposalTypeOK
<1>7. \A i \in 1..4 : Started[i] \in Target
  BY DEF Started, Target, Heading, Candidates
<1>8. PICK place \in Places : \A i \in 1..4 : place[i] = Started[i]
  <2> DEFINE there == [i \in Ids |-> IF i <= 4 THEN Started[i] ELSE "job"]
  <2>1. 1..4 \subseteq Ids /\ "job" \in Target /\ \A i \in Ids : i <= 4 => i \in 1..4
    BY ProposalAssumption DEF Ids, Target
  <2>2. there \in Places /\ \A i \in 1..4 : there[i] = Started[i]
    BY <1>7, <2>1 DEF Places
  <2> HIDE DEF there
  <2> QED  BY <2>2
<1>9. \A b \in Target : Chained(place, b, library[b])
  <2> SUFFICES ASSUME NEW b \in Target PROVE Chained(place, b, library[b])
    OBVIOUS
  <2>1. CASE library[b] = <<>>
    BY <2>1 DEF Chained
  <2>2. CASE library[b] # <<>>
    <3>1. PICK e \in LibraryEntry :
            library[b] = <<e>> /\ e.id \in 1..4 /\ Started[e.id] = b /\ e.by = Nothing
      BY <1>4, <2>2
    <3>2. Len(library[b]) = 1 /\ library[b][1] = e
      BY <3>1
    <3>3. \A n \in 1..Len(library[b]) : n = 1
      BY <3>2
    <3> QED  BY <1>2, <1>8, <3>1, <3>2, <3>3 DEF Chained
  <2> QED  BY <2>1, <2>2
<1> QED  BY <1>2, <1>6, <1>8, <1>9 DEF ProposalInv, Placed, TaskHolds, ApprovalHolds

(* Every operation on proposals keeps it.                                    *)
LEMMA ProposalInvNext == ProposalInv /\ [ProposalNext]_proposalVars => ProposalInv'
<1> SUFFICES ASSUME ProposalInv, [ProposalNext]_proposalVars PROVE ProposalInv'
  OBVIOUS
<1>1. PICK place \in Places : ProposalTypeOK /\ Placed(place)
  BY DEF ProposalInv
<1>2. CASE \E t \in Proposal :
             \/ CreateProposal(t) \/ SubmitProposal(t) \/ RejectProposal(t)
             \/ \E c \in Reviewer : BeginApproval(c, t)
  BY <1>1, <1>2, CreationsKeep, DecisionsKeep, BeginningKeeps
<1>3. CASE \E c \in Reviewer : ApprovalStep(c)
  BY <1>1, <1>3, ChecksKeep, ReadingKeeps, TokensKeep, CommitsKeep,
    FinishingKeeps DEF ApprovalStep
<1>4. CASE \E c \in Reviewer : DieInApproval(c)
  <2>1. PICK c \in Reviewer : DieInApproval(c)
    BY <1>4
  <2>2. deaths' \in 0..MaxFaults /\ GiveUp(c) /\ UNCHANGED <<library, made, context, task>>
    BY <1>1, <2>1, FaultAssumption DEF DieInApproval, ProposalTypeOK
  <2> QED  BY <1>1, <2>2, CallsEnd
<1>5. CASE \E b \in Target : EditDirectly(b)
  BY <1>1, <1>5, EditsKeep
<1>6. CASE ChangeContext
  <2>1. context' \in 0..MaxContexts /\ UNCHANGED <<library, made, task, approval, deaths>>
    BY <1>1, <1>6, ProposalAssumption DEF ChangeContext, ProposalTypeOK
  <2> QED  BY <1>1, <2>1, ContextsKeep
<1>7. CASE UNCHANGED proposalVars
  <2>1. context' \in 0..MaxContexts /\ UNCHANGED <<library, made, task, approval, deaths>>
    BY <1>1, <1>7 DEF proposalVars, ProposalTypeOK
  <2> QED  BY <1>1, <2>1, ContextsKeep
<1> QED  BY <1>2, <1>3, <1>4, <1>5, <1>6, <1>7 DEF ProposalNext

(* And it says what Guardian checks of an approved proposal.                 *)
LEMMA ProposalInvImplies == ProposalInv => ProposalTypeOK /\ ProposalsAreBound
<1> SUFFICES ASSUME ProposalTypeOK, NEW place \in Places, Placed(place) PROVE ProposalsAreBound
  BY DEF ProposalInv
<1>1. ScreeningFollowsItsBasis
  BY DEF ScreeningFollowsItsBasis, Placed, Chained, Follows, Screening, Target
<1>2. ApprovedIsInLibrary
  BY DEF ApprovedIsInLibrary, Placed, TaskHolds, Kept, Guarded
<1> QED  BY <1>1, <1>2 DEF ProposalsAreBound

(* A screening revision that a proposal has made follows the revision its    *)
(* task was bound to, and an approved proposal is in the library or has      *)
(* changed nothing, however approvals, edits and deaths fall together.       *)
THEOREM ProposalsAreAlwaysBound == ProposalSpec => []ProposalsAreBound
<1>1. ProposalInit => ProposalInv
  BY ProposalInvInit
<1>2. ProposalInv /\ [ProposalNext]_proposalVars => ProposalInv'
  BY ProposalInvNext
<1>3. ProposalInv => ProposalsAreBound
  BY ProposalInvImplies
<1> QED  BY <1>1, <1>2, <1>3, PTL DEF ProposalSpec

-----------------------------------------------------------------------------
(* The components together: one area moves, the others stand still.          *)
ResearchInv ==
    /\ OrganizationInv /\ CatalogInv /\ RecordsInv /\ DiscoveryInv /\ ViewsInv /\ ProposalInv
    /\ area \in Areas

(* A step of the composition is a step or a stutter of each component.       *)
LEMMA ResearchStep ==
    ASSUME area \in Areas, [ResearchNext]_researchVars
    PROVE  /\ [OrganizationNext]_organizationVars /\ [CatalogNext]_catalogVars
           /\ [RecordsNext]_recordsVars /\ [DiscoveryNext]_discoveryVars
           /\ [ViewsNext]_viewsVars /\ [ProposalNext]_proposalVars /\ area' = area
<1>1. CASE UNCHANGED researchVars
  <2>1. /\ organizationVars' = organizationVars /\ catalogVars' = catalogVars
        /\ recordsVars' = recordsVars /\ discoveryVars' = discoveryVars
        /\ viewsVars' = viewsVars /\ proposalVars' = proposalVars /\ area' = area
    BY <1>1 DEF researchVars
  <2> QED  BY <2>1
<1>2. CASE ResearchNext
  <2>1. /\ area' = area
        /\ area # "organization" => UNCHANGED organizationVars
        /\ area # "catalog" => UNCHANGED catalogVars
        /\ area # "records" => UNCHANGED recordsVars
        /\ area # "discovery" => UNCHANGED discoveryVars
        /\ area # "views" => UNCHANGED viewsVars
        /\ area # "proposals" => UNCHANGED proposalVars
    BY <1>2 DEF ResearchNext
  <2>2. /\ area = "organization" => OrganizationNext
        /\ area = "catalog" => CatalogNext
        /\ area = "records" => RecordsNext
        /\ area = "discovery" => DiscoveryNext
        /\ area = "views" => ViewsNext
        /\ area = "proposals" => ProposalNext
    BY <1>2 DEF ResearchNext
  <2> QED  BY <2>1, <2>2
<1> QED  BY <1>1, <1>2

(* Every component starts as it does on its own.                             *)
LEMMA ResearchStart == ASSUME ResearchInit PROVE ResearchInv
  BY OrganizationInvInit, CatalogInvInit, RecordsInvInit, DiscoveryInvInit, ViewsInvInit,
     ProposalInvInit DEF ResearchInit, ResearchInv

(* Every step keeps the invariants of all components.                        *)
LEMMA ResearchInvNext == ASSUME ResearchInv, [ResearchNext]_researchVars PROVE ResearchInv'
<1>1. /\ area \in Areas /\ OrganizationInv /\ CatalogInv /\ RecordsInv /\ DiscoveryInv
      /\ ViewsInv /\ ProposalInv
  BY DEF ResearchInv
<1>2. /\ [OrganizationNext]_organizationVars /\ [CatalogNext]_catalogVars
      /\ [RecordsNext]_recordsVars /\ [DiscoveryNext]_discoveryVars
      /\ [ViewsNext]_viewsVars /\ [ProposalNext]_proposalVars /\ area' = area
  BY <1>1, ResearchStep
<1>3. /\ OrganizationInv' /\ CatalogInv' /\ RecordsInv' /\ DiscoveryInv' /\ ViewsInv'
      /\ ProposalInv'
  BY <1>1, <1>2, OrganizationInvNext, CatalogInvNext, RecordsInvNext, DiscoveryInvNext,
     ViewsInvNext, ProposalInvNext
<1> QED  BY <1>1, <1>2, <1>3 DEF ResearchInv

(* The invariants of the organization, the catalog, the records, discovery,  *)
(* the views and the proposals hold side by side.                            *)
THEOREM ResearchInvariant == ResearchSpec => []ResearchInv
  BY ResearchStart, ResearchInvNext, PTL DEF ResearchSpec

(* Every variable of the six components keeps its type, for every value of   *)
(* the constants.                                                            *)
THEOREM ResearchTypesHold == ResearchSpec => []ResearchTypeOK
<1>1. ResearchInv => ResearchTypeOK
  BY DiscoveryInvImplies, ViewsInvImplies, ProposalInvImplies
  DEF ResearchInv, ResearchTypeOK, OrganizationInv, CatalogInv, RecordsInv
<1> QED  BY <1>1, ResearchInvariant, PTL

(* A view that is called current shows what the records say, and the         *)
(* catalog's rows have the facets of its watermark, however renderings and   *)
(* updates overlap, fail and die (services/obsidian_generated_views.py,      *)
(* services/catalog.py).                                                     *)
THEOREM ProjectionsAreAlwaysTrue == ResearchSpec => []ProjectionsAreTrue
<1>1. ResearchInv => ProjectionsAreTrue
  BY ViewsInvImplies DEF ResearchInv, ProjectionsAreTrue, CatalogInv
<1> QED  BY <1>1, ResearchInvariant, PTL

(* In the composition, too, owners and targets stand, records agree,         *)
(* receipts name their source, projections are true and proposals are bound, *)
(* and every commit sees its basis.                                          *)
THEOREM ResearchKeepsItsPromises ==
    ResearchSpec =>
        /\ [](/\ OwnersAndTargetsStand /\ RecordsAgree /\ ReceiptsNameTheirSource
              /\ ProjectionsAreTrue /\ ProposalsAreBound)
        /\ CommitsSeeTheirBasis
<1>1. ResearchInv => /\ OwnersAndTargetsStand /\ RecordsAgree /\ ReceiptsNameTheirSource
                     /\ ProjectionsAreTrue /\ ProposalsAreBound
  BY OwnersAndTargetsStandBy, DiscoveryInvImplies, ViewsInvImplies, ProposalInvImplies
  DEF ResearchInv, ProjectionsAreTrue, CatalogInv, RecordsInv, RecordsValid, RecordsAgree
<1>2. ResearchInv /\ [ResearchNext]_researchVars => BasisHolds
  BY ResearchStep, BasisIsSeen DEF ResearchInv, BasisHolds
<1> QED  BY <1>1, <1>2, ResearchInvariant, PTL
         DEF ResearchSpec, CommitsSeeTheirBasis, BasisHolds
===============================================================================
