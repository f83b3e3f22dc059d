------------------------ MODULE ResearchOrganization ------------------------
(* The user's organization of the library: tags and their assignments,       *)
(* screening criteria and decisions of a question, directions, field-map     *)
(* entries, the question and the legacy record it succeeds (services/tags.py, *)
(* question_screening.py, research_organization.py, question_mapping.py,     *)
(* tag_bundles.py, screening_bundles.py, organization_bundles.py).  Each has *)
(* a bundle of revisions.  A promotion reads the bundle without the lock,    *)
(* takes the digest of its file later, and commits the chain it has read     *)
(* with one revision more if the file still has that digest.  A commit is    *)
(* one step: TransactionKernel has its inside.                               *)
EXTENDS WorkspaceBase, Sequences
CONSTANTS
    Editor,       \* promotions that may run at once
    Tag, Link, Criteria, Decision,   \* identities their allocator may draw
    Name,         \* normalized names and aliases of tags
    MaxRevisions  \* bound: revisions ever committed
\* One direction, one field-map entry, one question and its legacy record.
Plain == {"direction", "field"}
ASSUME OrganizationAssumption ==
    /\ MaxRevisions \in Nat /\ MaxRevisions >= 2 /\ Tag # {} /\ Criteria # {} /\ Name # {}
(* A bundle's file is of one kind.                                           *)
ASSUME BundlesAreApart ==
    /\ Tag \cap (Link \cup Criteria \cup Decision) = {} /\ Link \cap (Criteria \cup Decision) = {}
    /\ Criteria \cap Decision = {}
    /\ (Tag \cup Link \cup Criteria \cup Decision) \cap (Plain \cup {"question", "mapping"}) = {}
Bundle == Tag \cup Link \cup Criteria \cup Decision \cup Plain \cup {"question", "mapping"}
Wording == 1..2

VARIABLES
    topic,   \* the promotions explored: "tags" or "screening"
    bundle,  \* the revisions each file holds, none when it does not exist
    minted,  \* revisions committed so far; a revision's id is its number
    reported,  \* revisions of bundles that process events name
    paper,   \* is the paper active and canonical?
    edit     \* per call: what it has read and is about to commit
organizationVars == <<topic, bundle, minted, reported, paper, edit>>

TagContent == [name : Name, aliases : SUBSET Name, status : {"active", "archived"}]
LinkContent == [tag : Tag, target : {"paper", "direction"}, state : {"assigned", "removed"}]
CriteriaContent == [wording : Wording, status : {"active", "archived"}]
DecisionContent == [basis : 1..MaxRevisions, outcome : {"included", "excluded"}]
FieldContent == [direction : 0..MaxRevisions]
WordedContent == [wording : Wording]
BundleContent(b) == CASE b \in Tag -> TagContent [] b \in Link -> LinkContent
                [] b \in Criteria -> CriteriaContent [] b \in Decision -> DecisionContent
                [] b = "field" -> FieldContent [] OTHER -> WordedContent
Revisions(b) == Seq([id : 1..MaxRevisions, follows : 0..MaxRevisions, content : BundleContent(b)])
EditOf(b) == [file : {b}, base : Revisions(b), token : {Nothing} \cup Revisions(b),
              follows : 0..MaxRevisions, content : BundleContent(b)]

OrganizationTypeOK ==
    /\ topic \in {"tags", "screening"}
    /\ DOMAIN bundle = Bundle /\ \A b \in Bundle : bundle[b] \in Revisions(b)
    /\ minted \in 0..MaxRevisions /\ reported \subseteq 1..minted /\ paper \in BOOLEAN
    /\ DOMAIN edit = Editor
    /\ \A c \in Editor : edit[c] # Nothing => \E b \in Bundle : edit[c] \in EditOf(b)

-----------------------------------------------------------------------------
Existing(bundles) == {b \in bundles : bundle[b] # <<>>}
Newest(b) == bundle[b][Len(bundle[b])]
Tip(b) == Newest(b).content
HeadId(b) == IF bundle[b] = <<>> THEN 0 ELSE Newest(b).id
\* An identity no file and no running promotion has.
Fresh(b) == bundle[b] = <<>> /\ \A c \in Editor : edit[c] # Nothing => edit[c].file # b

Vocabulary(tag) == {tag.name} \cup tag.aliases
NameFree(t, content) ==
    \A u \in Existing(Tag) \ {t} : Vocabulary(Tip(u)) \cap Vocabulary(content) = {}
SameAssignment(m, n) == m.tag = n.tag /\ m.target = n.target
AssignmentFree(l, content) ==
    \A k \in Existing(Link) \ {l} : ~SameAssignment(Tip(k), content)
TargetThere(target) == IF target = "paper" THEN paper ELSE bundle["direction"] # <<>>
ActiveCriteria == {k \in Existing(Criteria) : Tip(k).status = "active"}
Governs(k, revision) == ActiveCriteria = {k} /\ Newest(k).id = revision

QuestionThere == Existing({"question", "mapping"}) # {}
\* decision_freshness, and what makes a paper eligible for a factual link.
CurrentDecision(d) == paper /\ QuestionThere /\ \E k \in ActiveCriteria : Governs(k, Tip(d).basis)
Included(d) == Existing(Decision) = {d} /\ CurrentDecision(d) /\ Tip(d).outcome = "included"
Eligible == Cardinality(ActiveCriteria) = 1 => \E d \in Decision : Included(d)

-----------------------------------------------------------------------------
(* What validate_workspace_entries asks of the organization's records.       *)
VocabularyIsOwned == \A t \in Existing(Tag) : NameFree(t, Tip(t))
AssignmentsAreOwned == \A l \in Existing(Link) : AssignmentFree(l, Tip(l))
TargetsAreThere == \A l \in Existing(Link) : TargetThere(Tip(l).target) /\ bundle[Tip(l).tag] # <<>>
CriteriaAreOwned == Cardinality(ActiveCriteria) <= 1
DecisionsAreOwned == Cardinality(Existing(Decision)) <= 1
DecidedPaperIsThere == Existing(Decision) # {} => paper /\ QuestionThere
DecisionsAreBased ==
    \A d \in Existing(Decision) : \E k \in Criteria, n \in 1..MaxRevisions :
        n <= Len(bundle[k]) /\ bundle[k][n].id = Tip(d).basis
QuestionIsBased == bundle["question"] # <<>> => bundle["question"][1].follows = HeadId("mapping")
EventsResolve ==
    \A id \in reported : \E b \in Bundle : \E n \in 1..Len(bundle[b]) : bundle[b][n].id = id
OrganizationValid ==
    /\ VocabularyIsOwned /\ AssignmentsAreOwned /\ TargetsAreThere
    /\ CriteriaAreOwned /\ DecisionsAreOwned /\ DecidedPaperIsThere
    /\ DecisionsAreBased /\ QuestionIsBased /\ EventsResolve

-----------------------------------------------------------------------------
(* A promotion that has passed its unlocked checks.  What does not change    *)
(* the content it read ends at once and writes nothing.                      *)
BeginEdit(c, b, content, follows) ==
    /\ edit[c] = Nothing /\ minted < MaxRevisions
    /\ bundle[b] = <<>> => Fresh(b)
    /\ bundle[b] # <<>> => Tip(b) # content
    /\ edit' = [edit EXCEPT ![c] = [file |-> b, base |-> bundle[b], token |-> Nothing,
                                    follows |-> follows, content |-> content]]
    /\ UNCHANGED <<topic, bundle, minted, reported, paper>>

\* The name a tag had stays its alias.
EditTag(c) ==
    /\ topic = "tags"
    /\ \E t \in Tag, name \in Name, status \in {"active", "archived"}, keeps \in BOOLEAN :
        LET had == IF bundle[t] = <<>> THEN {} ELSE {Tip(t).name}
            given == IF keeps /\ bundle[t] # <<>> THEN Tip(t).aliases ELSE {}
            content == [name |-> name, aliases |-> (given \cup had) \ {name}, status |-> status]
        IN  NameFree(t, content) /\ BeginEdit(c, t, content, HeadId(t))
\* The owner of the pair is revised; only an assignment makes a new one.
AssignTag(c) ==
    /\ topic = "tags"
    /\ \E l \in Link, content \in LinkContent :
        /\ bundle[content.tag] # <<>> /\ TargetThere(content.target)
        /\ AssignmentFree(l, content)
        /\ IF bundle[l] = <<>> THEN content.state = "assigned" ELSE SameAssignment(Tip(l), content)
        /\ content.state = "assigned" => Tip(content.tag).status = "active"
        /\ BeginEdit(c, l, content, HeadId(l))
EditPlain(c) ==
    /\ topic = "tags"
    /\ \/ \E content \in WordedContent : BeginEdit(c, "direction", content, HeadId("direction"))
       \/ \E ref \in {0, HeadId("direction")} :
            BeginEdit(c, "field", [direction |-> ref], HeadId("field"))

EditCriteria(c) ==
    /\ topic = "screening" /\ QuestionThere
    /\ \E k \in Criteria, content \in CriteriaContent :
        /\ content.status = "active" => ActiveCriteria \subseteq {k}
        /\ BeginEdit(c, k, content, HeadId(k))
Screen(c) ==
    /\ topic = "screening" /\ QuestionThere /\ paper
    /\ \E d \in Decision, k \in ActiveCriteria, outcome \in {"included", "excluded"} :
        /\ Existing(Decision) \subseteq {d} /\ ActiveCriteria = {k}
        /\ BeginEdit(c, d, [basis |-> Newest(k).id, outcome |-> outcome], HeadId(d))
(* The first revision of a question names the legacy record it has read.     *)
EditQuestion(c) ==
    /\ topic = "screening" /\ QuestionThere /\ Eligible
    /\ bundle["question"] # <<>> => QuestionIsBased
    /\ \E content \in WordedContent :
        BeginEdit(c, "question", content,
              IF bundle["question"] = <<>> THEN HeadId("mapping") ELSE HeadId("question"))
(* The older writer replaces the legacy record of a question without a       *)
(* successor, in a valid workspace only.                                     *)
ReplaceMapping(c) ==
    /\ topic = "screening" /\ bundle["mapping"] # <<>> /\ bundle["question"] = <<>>
    /\ OrganizationValid /\ Eligible
    /\ \E content \in WordedContent : BeginEdit(c, "mapping", content, 0)

-----------------------------------------------------------------------------
(* file_sha256(target), an argument of the commit: later than the read.      *)
TakeBundleToken(c) ==
    /\ edit[c] # Nothing /\ edit[c].token = Nothing
    /\ edit' = [edit EXCEPT ![c].token = bundle[edit[c].file]]
    /\ UNCHANGED <<topic, bundle, minted, reported, paper>>

(* The locked_precondition of each promotion, read again under the lock;     *)
(* directions, field-map entries and questions have none.                    *)
PreconditionUnlocked(b, content) ==  \* Mutation: nothing is read again.
    TRUE
PreconditionOfOwner(b, content) ==  \* Mutation: not what it is based on.
    /\ b \in Tag => NameFree(b, content)
    /\ b \in Link => AssignmentFree(b, content) /\ TargetThere(content.target)
    /\ b \in Criteria /\ content.status = "active" => ActiveCriteria \subseteq {b}
    /\ b \in Decision => Existing(Decision) \subseteq {b} /\ QuestionThere /\ paper
Precondition(b, content) ==
    /\ b \in Tag => NameFree(b, content)
    /\ b \in Link =>
         /\ AssignmentFree(b, content) /\ TargetThere(content.target)
         /\ content.state = "assigned" => Tip(content.tag).status = "active"
    /\ b \in Criteria /\ content.status = "active" => ActiveCriteria \subseteq {b}
    /\ b \in Decision =>
         /\ Existing(Decision) \subseteq {b} /\ QuestionThere /\ paper
         /\ \E k \in ActiveCriteria : Governs(k, content.basis)

Matches(c) == edit[c] # Nothing /\ edit[c].token = bundle[edit[c].file]
Revision(c) == [id |-> minted + 1, follows |-> edit[c].follows, content |-> edit[c].content]
Installs(c, revisions) ==
    /\ minted < MaxRevisions /\ minted' = minted + 1
    /\ bundle' = [bundle EXCEPT ![edit[c].file] = revisions]
    /\ edit' = [edit EXCEPT ![c] = Nothing]
    /\ UNCHANGED <<topic, paper>>
CommitRevision(c) ==
    /\ Matches(c) /\ edit[c].file # "mapping"
    /\ Precondition(edit[c].file, edit[c].content)
    /\ reported' = reported \cup {minted + 1}
    /\ Installs(c, Append(edit[c].base, Revision(c)))
\* The legacy store's validator reads the whole workspace with the new record.
CommitMapping(c) ==
    /\ Matches(c) /\ edit[c].file = "mapping" /\ UNCHANGED reported
    /\ Installs(c, <<Revision(c)>>)
    /\ OrganizationValid' /\ Eligible'
\* A check fails, the file has another digest, or the process dies.
AbandonEdit(c) ==
    /\ edit[c] # Nothing
    /\ edit' = [edit EXCEPT ![c] = Nothing] /\ UNCHANGED <<topic, bundle, minted, reported, paper>>

(* An identity correction takes the paper out of the library or brings it    *)
(* back; it validates the workspace it leaves (IdentityCorrection).          *)
CorrectPaper ==
    paper' = ~paper /\ UNCHANGED <<topic, bundle, minted, reported, edit>> /\ OrganizationValid'

(* A legacy question or one with a first revision; a tag, or criteria.       *)
OrganizationInit ==
    /\ topic \in {"tags", "screening"} /\ paper = TRUE /\ minted = 2
    /\ reported = {2}
    /\ \E question \in {"question", "mapping"} :
        LET t == CHOOSE t \in Tag : TRUE
            k == CHOOSE k \in Criteria : TRUE
            name == CHOOSE name \in Name : TRUE
        IN bundle = [b \in Bundle |->
            CASE b = question -> <<[id |-> 1, follows |-> 0, content |-> [wording |-> 1]]>>
              [] b = t /\ topic = "tags" -> <<[id |-> 2, follows |-> 0, content |->
                    [name |-> name, aliases |-> {}, status |-> "active"]]>>
              [] b = k /\ topic = "screening" -> <<[id |-> 2, follows |-> 0, content |->
                    [wording |-> 1, status |-> "active"]]>>
              [] OTHER -> <<>>]
    /\ edit = [c \in Editor |-> Nothing]
OrganizationNext ==
    \/ \E c \in Editor :
        \/ EditTag(c) \/ AssignTag(c) \/ EditPlain(c)
        \/ EditCriteria(c) \/ Screen(c) \/ EditQuestion(c) \/ ReplaceMapping(c)
        \/ TakeBundleToken(c) \/ CommitRevision(c) \/ CommitMapping(c) \/ AbandonEdit(c)
    \/ CorrectPaper
OrganizationSpec == OrganizationInit /\ [][OrganizationNext]_organizationVars

-----------------------------------------------------------------------------
(* However two promotions interleave, a name or alias belongs to one tag, a  *)
(* tag and its target to one link, a question to one active criteria set,    *)
(* and a question and a paper to one decision.  No correction takes away the *)
(* paper a link or a decision is about, and no promotion that read the paper *)
(* before the correction commits after it.                                   *)
OwnersAndTargetsStand ==
    /\ VocabularyIsOwned /\ AssignmentsAreOwned /\ CriteriaAreOwned /\ DecisionsAreOwned
    /\ TargetsAreThere /\ DecidedPaperIsThere

(* A decision is committed under the criteria revision that governs then,    *)
(* and an assignment to a tag that is active then, whatever was read before. *)
CommitsSeeTheirBasis == [][
    \A b \in Link \cup Decision : bundle'[b] # bundle[b] =>
        LET content == bundle'[b][Len(bundle'[b])].content
        IN  IF b \in Decision THEN \E k \in Criteria : Governs(k, content.basis)
            ELSE content.state = "assigned" => Tip(content.tag).status = "active"]_organizationVars

(* docs/p7d-question-specific-screening-implementation-plan.md:45: "No       *)
(* accepted revision is overwritten or deleted": what a commit has recorded  *)
(* stays in its chain.                                                       *)
AcceptedRevisionsStay == EventsResolve
=============================================================================
