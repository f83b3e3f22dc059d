---------------------------- MODULE ProposalTask ----------------------------
(* Agent Tasks without a paper's semantic job (agent_task_application.py and *)
(* its context services): proposals for the organization of the library, for *)
(* screening criteria and decisions and for research synthesis, the route of *)
(* a document, and reports on a query.  Such a task is bound to a basis, the *)
(* records its context quotes.  Approval is a saga over two stores: it looks *)
(* for a revision the task has already made, checks the basis, promotes the  *)
(* result with the writer of its kind, and only then approves the task.  The *)
(* user edits the same records directly, and calls may overlap or die.       *)
(* AgentTask has the chain of a task's states and the lease; here its head   *)
(* is replaced in one step.  The commits of the user are one step each:      *)
(* ResearchOrganization and CanonicalRecords have what is inside.            *)
EXTENDS WorkspaceBase, Sequences
CONSTANTS
    Reviewer,     \* calls that may run at once
    Proposal,     \* tasks
    MaxCommits,   \* bound: revisions ever made
    MaxContexts   \* bound: changes of what a context quotes
ASSUME ProposalAssumption == MaxCommits \in Nat /\ MaxCommits >= 4 /\ MaxContexts \in Nat

(* A heading is a direction, a field-map entry or a question; the criteria   *)
(* and the decision are those of one question and paper; a draft is a        *)
(* candidate of Step 7, whose record is replaced in place; the job is routed *)
(* once.                                                                     *)
Heading == {"heading1", "heading2"}
Candidates == {"candidate"}
Target == Heading \cup Candidates \cup {"criteria", "decision", "job"}
Kind == {"organization", "criteria", "decision", "synthesis", "route", "report"}
Result == 1..2

VARIABLES
    library,   \* per target, what was committed to it and is not overwritten
    made,      \* revisions committed so far; a revision's id is its number
    context,   \* papers, their cards and sources, and the question quoted
    task,      \* the head of each task's states
    approval,  \* per reviewer: the approval it is in
    deaths     \* calls that died
proposalVars == <<library, made, context, task, approval, deaths>>

\* What a workspace may have at the start, under the first ids.
Started == <<"heading1", "criteria", "decision", "candidate">>
LibraryEntry == [id : 1..MaxCommits, follows : 0..MaxCommits, by : Proposal \cup {Nothing},
          result : Result, under : 0..MaxCommits]
Place == {"check", "derive", "promote", "token", "commit", "finish"}

Last(b) == library[b][Len(library[b])]
HeadOf(b) == IF library[b] = <<>> THEN 0 ELSE Last(b).id
Present(targets) == {b \in targets : library[b] # <<>>}
\* Of a draft only the record as it is can be found, of a bundle its chain.
Standing(b) ==
    IF library[b] = <<>> THEN {}
    ELSE IF b \in Candidates THEN {Last(b)} ELSE {library[b][n] : n \in 1..Len(library[b])}

-----------------------------------------------------------------------------
(* The basis: the heads of the records a context quotes, and the rest of it. *)
OrganizationBasis == Heading
CriteriaBasis == {"criteria"}
DecisionBasis == {"criteria", "decision"}
SynthesisBasis == Candidates
Quoted(kind) ==
    CASE kind = "organization" -> OrganizationBasis [] kind = "criteria" -> CriteriaBasis
      [] kind = "decision" -> DecisionBasis [] kind = "synthesis" -> SynthesisBasis
      [] kind = "route" -> {"job"} [] OTHER -> {}
\* All that a query's report rests on, and a part of every other basis.
QueryBasis == context
Basis(kind) == [context |-> QueryBasis, heads |-> [b \in Quoted(kind) |-> HeadOf(b)]]
CurrentBasis(t) == task[t].basis = Basis(task[t].kind)

BasisOf(kind) == [context : 0..MaxContexts, heads : [Quoted(kind) -> 0..MaxCommits]]
ProposedTask == [kind : Kind, target : Target \cup {Nothing}, basis : UNION {BasisOf(k) : k \in Kind},
                 status : {"created", "submitted", "rejected", "approved"},
                 result : Result, firm : BOOLEAN]
Approving == [task : Proposal, at : Place, target : Target \cup {Nothing},
              base : Seq(LibraryEntry), token : Seq(LibraryEntry), context : 0..MaxContexts,
              under : 0..MaxCommits]
ASSUME NothingIsNoProposal == Nothing \notin Target \cup Proposal \cup ProposedTask \cup Approving
ProposalTypeOK ==
    /\ library \in [Target -> Seq(LibraryEntry)] /\ made \in Len(Started)..MaxCommits
    /\ context \in 0..MaxContexts /\ deaths \in 0..MaxFaults
    /\ task \in [Proposal -> {Nothing} \cup ProposedTask]
    /\ \A t \in Proposal : task[t] # Nothing => task[t].basis \in BasisOf(task[t].kind)
    /\ approval \in [Reviewer -> {Nothing} \cup Approving]

(* A new task is about a record to revise, or about Nothing for a new one.   *)
(* Criteria and decisions are revised as soon as they exist.                 *)
CreateDirectTask(t, kind, target) ==
    /\ task[t] = Nothing
    /\ task' = [task EXCEPT ![t] = [kind |-> kind, target |-> target, basis |-> Basis(kind),
                                    status |-> "created", result |-> 1, firm |-> FALSE]]
    /\ UNCHANGED <<library, made, context, approval, deaths>>
CreateKnowledgeQuery(t) == CreateDirectTask(t, "report", Nothing)
CreateOrganizationProposal(t) ==
    \E target \in Present(Heading) \cup {Nothing} : CreateDirectTask(t, "organization", target)
CreateCriteriaProposal(t) == CreateDirectTask(t, "criteria", "criteria")
CreateDecisionProposal(t) ==
    HeadOf("criteria") # 0 /\ CreateDirectTask(t, "decision", "decision")
CreateSynthesisProposal(t) ==
    \E target \in Present(Candidates) \cup {Nothing} : CreateDirectTask(t, "synthesis", target)
CreateRouteTask(t) == library["job"] = <<>> /\ CreateDirectTask(t, "route", "job")
CreateProposal(t) ==
    \/ CreateKnowledgeQuery(t) \/ CreateOrganizationProposal(t) \/ CreateCriteriaProposal(t)
    \/ CreateDecisionProposal(t) \/ CreateSynthesisProposal(t) \/ CreateRouteTask(t)

\* Results of these kinds may have open conflicts, be uncertain or a near-duplicate.
Weighed(t) == task[t].kind \in {"organization", "decision", "synthesis"}
SubmitProposal(t) ==
    /\ task[t] # Nothing /\ task[t].status = "created" /\ CurrentBasis(t)
    /\ \E result \in Result, firm \in IF Weighed(t) THEN BOOLEAN ELSE {TRUE} :
        task' = [task EXCEPT ![t].status = "submitted", ![t].result = result, ![t].firm = firm]
    /\ UNCHANGED <<library, made, context, approval, deaths>>

RejectProposal(t) ==
    /\ task[t] # Nothing /\ task[t].status = "submitted"
    /\ task' = [task EXCEPT ![t].status = "rejected"]
    /\ UNCHANGED <<library, made, context, approval, deaths>>

-----------------------------------------------------------------------------
(* _find_..._commit: an entry that carries the task and its result; a route  *)
(* is told from the job alone, whoever has routed it.                        *)
OfKind(kind) ==
    CASE kind = "organization" -> Heading [] kind = "synthesis" -> Candidates
      [] kind \in {"criteria", "decision"} -> {kind} [] OTHER -> {}
Matching(t) == {e \in UNION {Standing(b) : b \in OfKind(task[t].kind)} : e.by = t}
Routed(t) ==
    task[t].kind = "route" /\ library["job"] # <<>> /\ Last("job").result = task[t].result
HeadsOnly(t) ==  \* Mutation: only the head of a bundle is looked at.
    Routed(t) \/ \E b \in Present(OfKind(task[t].kind)) : Last(b).by = t
Committed(t) == Matching(t) # {} \/ Routed(t)

(* An approval up to its first promotion.  A result with open conflicts, an  *)
(* uncertain one or a near-duplicate is not approved.                        *)
BeginApproval(c, t) ==
    /\ approval[c] = Nothing
    /\ task[t] # Nothing /\ task[t].status = "submitted"
    /\ task[t].firm
    /\ approval' = [approval EXCEPT ![c] =
         [task |-> t, at |-> IF Committed(t) THEN "finish" ELSE "check", target |-> Nothing,
          base |-> <<>>, token |-> <<>>, context |-> 0, under |-> 0]]
    /\ UNCHANGED <<library, made, context, task, deaths>>

On(c, at) == approval[c] # Nothing /\ approval[c].at = at
Of(c) == task[approval[c].task]
Go(c, at) == approval' = [approval EXCEPT ![c].at = at]
GiveUp(c) == approval' = [approval EXCEPT ![c] = Nothing]

RequireCurrentBasis(c) ==
    /\ On(c, "check") /\ Of(c).kind # "report"
    /\ IF ~CurrentBasis(approval[c].task) THEN GiveUp(c)
       ELSE Go(c, IF Of(c).kind = "decision" THEN "derive" ELSE "promote")
    /\ UNCHANGED <<library, made, context, task, deaths>>
\* Nothing is promoted for a report.
AcceptReport(c) ==
    /\ On(c, "check") /\ Of(c).kind = "report"
    /\ IF CurrentBasis(approval[c].task) THEN Go(c, "finish") ELSE GiveUp(c)
    /\ UNCHANGED <<library, made, context, task, deaths>>

(* The context of a decision is derived again: the aliases of the result are *)
(* read as criteria of the revision that is current now, and it is stamped.  *)
DeriveScreening(c) ==
    /\ On(c, "derive")
    /\ approval' = [approval EXCEPT ![c].at = "promote", ![c].under = HeadOf("criteria")]
    /\ UNCHANGED <<library, made, context, task, deaths>>

(* The writers' unlocked part: what is revised or made, and is it as the     *)
(* caller expects it?  Screening writers are told the head the task is bound *)
(* to, none for a first revision; the others take what they find.            *)
Writes(c) ==
    IF Of(c).target # Nothing THEN {Of(c).target}
    ELSE IF Of(c).kind = "organization" THEN Heading \ Present(Heading)
    ELSE Candidates \ Present(Candidates)
AnyBasis(c) ==  \* Mutation: no expected revision is given.
    Of(c).kind = "decision" => approval[c].under = HeadOf("criteria")
AsExpected(c) ==
    /\ Of(c).kind \in {"criteria", "decision"} =>
         HeadOf(Of(c).target) = Of(c).basis.heads[Of(c).target]
    /\ Of(c).kind = "decision" => approval[c].under = HeadOf("criteria")
    /\ Of(c).kind = "route" => library["job"] = <<>>
SameContent(c, b) ==
    library[b] # <<>> /\ Last(b).result = Of(c).result /\ Last(b).under = approval[c].under
ReadTarget(c) ==
    /\ On(c, "promote")
    /\ \E b \in Writes(c) :
        /\ library[b] = <<>> /\ Of(c).target = Nothing =>
             \A d \in Reviewer \ {c} : approval[d] # Nothing => approval[d].target # b
        /\ approval' =
             [approval EXCEPT ![c] =
                IF ~AsExpected(c) THEN Nothing
                ELSE IF SameContent(c, b) /\ b \notin Candidates THEN [@ EXCEPT !.at = "finish"]
                ELSE LET read == [@ EXCEPT !.target = b, !.base = library[b], !.context = context]
                     IN  IF b \in Candidates \cup {"job"}
                         THEN [read EXCEPT !.at = "commit", !.token = library[b]]
                         ELSE [read EXCEPT !.at = "token"]]
    /\ UNCHANGED <<library, made, context, task, deaths>>

\* file_sha256 of the bundle, after it was read; Step 7 takes it before.
TakeFileToken(c) ==
    /\ On(c, "token")
    /\ approval' = [approval EXCEPT ![c].at = "commit", ![c].token = library[approval[c].target]]
    /\ UNCHANGED <<library, made, context, task, deaths>>

(* Under the lock: the file is as it was, a decision is under the criteria   *)
(* that govern, a draft's support is what was read.                          *)
Admitted(c) ==
    /\ approval[c].token = library[approval[c].target]
    /\ approval[c].target = "decision" => approval[c].under = HeadOf("criteria")
    /\ approval[c].target \in Candidates => approval[c].context = context
NewEntry(base, by, result, under) ==
    [id |-> made + 1, follows |-> IF base = <<>> THEN 0 ELSE base[Len(base)].id,
     by |-> by, result |-> result, under |-> under]
CommitProposal(c) ==
    /\ On(c, "commit")
    /\ IF Admitted(c)
       THEN /\ made < MaxCommits /\ made' = made + 1
            /\ LET a == approval[c]
               IN library' = [library EXCEPT ![a.target] =
                    Append(a.base, NewEntry(a.base, a.task, Of(c).result, a.under))]
            /\ approval' = [approval EXCEPT ![c] = [@ EXCEPT !.at = "finish", !.base = <<>>,
                                                     !.token = <<>>, !.target = Nothing]]
       ELSE GiveUp(c) /\ UNCHANGED <<library, made>>
    /\ UNCHANGED <<context, task, deaths>>

(* The task's states are read again: it is approved, it was, or it is not    *)
(* submitted any more and the call fails.                                    *)
FinishApproval(c) ==
    /\ On(c, "finish")
    /\ task' = IF Of(c).status = "submitted"
               THEN [task EXCEPT ![approval[c].task].status = "approved"] ELSE task
    /\ GiveUp(c)
    /\ UNCHANGED <<library, made, context, deaths>>

ApprovalStep(c) ==
    \/ RequireCurrentBasis(c) \/ AcceptReport(c) \/ DeriveScreening(c) \/ ReadTarget(c)
    \/ TakeFileToken(c) \/ CommitProposal(c) \/ FinishApproval(c)
DieInApproval(c) ==
    /\ approval[c] # Nothing /\ deaths < MaxFaults /\ deaths' = deaths + 1
    /\ GiveUp(c) /\ UNCHANGED <<library, made, context, task>>

-----------------------------------------------------------------------------
(* The user's own writers.  A candidate that was approved is only replaced   *)
(* by another proposal.  What no task rests on is left as it was at first.   *)
Watched == UNION {Quoted(task[t].kind) : t \in {u \in Proposal : task[u] # Nothing}}
EditDirectly(b) ==
    /\ b \in Watched
    /\ made < MaxCommits /\ made' = made + 1
    /\ b = "decision" => HeadOf("criteria") # 0
    /\ b = "job" => library[b] = <<>>
    /\ b \in Candidates /\ library[b] # <<>> => Last(b).by = Nothing
    /\ library[b] = <<>> => \A c \in Reviewer : approval[c] # Nothing => approval[c].target # b
    /\ \E result \in Result :
        LET under == IF b = "decision" THEN HeadOf("criteria") ELSE 0
        IN  /\ library[b] # <<>> => Last(b).result # result \/ Last(b).under # under
            /\ library' = [library EXCEPT ![b] =
                 Append(@, NewEntry(@, Nothing, result, under))]
    /\ UNCHANGED <<context, task, approval, deaths>>
ChangeContext ==
    /\ context < MaxContexts /\ context' = context + 1
    /\ UNCHANGED <<library, made, task, approval, deaths>>

ProposalInit ==
    /\ \E begun \in {{}, {1}, {2}, {2, 3}, {4}} :
        library = [b \in Target |->
           IF \E n \in begun : Started[n] = b
           THEN <<[id |-> CHOOSE n \in begun : Started[n] = b, follows |-> 0, by |-> Nothing,
                   result |-> 1, under |-> IF b = "decision" THEN 2 ELSE 0]>>
           ELSE <<>>]
    /\ made = Len(Started) /\ context = 0 /\ deaths = 0
    /\ task = [t \in Proposal |-> Nothing] /\ approval = [c \in Reviewer |-> Nothing]
ProposalNext ==
    \/ \E t \in Proposal :
        \/ CreateProposal(t) \/ SubmitProposal(t) \/ RejectProposal(t)
        \/ \E c \in Reviewer : BeginApproval(c, t)
    \/ \E c \in Reviewer : ApprovalStep(c) \/ DieInApproval(c)
    \/ \E b \in Target : EditDirectly(b)
    \/ ChangeContext

(* A call that runs goes on, and the user repeats the approval of a task     *)
(* until it is decided.                                                      *)
ProposalFairness ==
    /\ \A c \in Reviewer : WF_proposalVars(ApprovalStep(c))
    /\ \A t \in Proposal : WF_proposalVars(\E c \in Reviewer : BeginApproval(c, t))
ProposalSpec == ProposalInit /\ [][ProposalNext]_proposalVars /\ ProposalFairness

-----------------------------------------------------------------------------
(* Every screening revision a proposal has made follows the very revision    *)
(* the task was bound to, or is the first of its bundle when there was none: *)
(* overlapping approvals and direct edits cannot put one proposal on top of  *)
(* what its agent has not seen, nor apply it twice.                          *)
ScreeningFollowsItsBasis ==
    \A b \in {"criteria", "decision"} : \A n \in 1..Len(library[b]) :
        LET e == library[b][n]
        IN  e.by # Nothing =>
              /\ e.follows = task[e.by].basis.heads[b]
              /\ e.follows = IF n = 1 THEN 0 ELSE library[b][n - 1].id

(* Guardian's check of an approved proposal (guardian.py): one revision      *)
(* carries the task, or none does and the revision it was bound to stands.   *)
SnapshotStands(t) ==
    LET b == task[t].target
    IN  b # Nothing /\ \E e \in Standing(b) : e.id = task[t].basis.heads[b]
BoundToRevision(t) ==
    Cardinality(Matching(t)) = 1 \/ (Matching(t) = {} /\ SnapshotStands(t))
NothingLost == \A id \in Len(Started) + 1..made : \E b \in Target : \E n \in 1..Len(library[b]) :
    library[b][n].id = id
(* As long as no revision is lost to a writer that had read before it, an    *)
(* approved proposal is in the library or has changed nothing, after any     *)
(* deaths and retries; it is never approved on the word of a promotion that  *)
(* has failed.                                                               *)
ApprovedIsInLibrary ==
    \A t \in Proposal :
        task[t] # Nothing /\ task[t].status = "approved" /\ NothingLost
            /\ task[t].kind \in {"organization", "criteria", "decision"}
        => Matching(t) # {} \/ SnapshotStands(t)

\* What stands without a receipt; Guardian reports it of the screening bundles.
Unreceipted(b) == {e \in Standing(b) : e.by # Nothing /\ task[e.by].status # "approved"}
Unsettled(t) ==
    /\ task[t] # Nothing /\ task[t].status = "submitted"
    /\ \E b \in OfKind(task[t].kind) : \E e \in Unreceipted(b) : e.by = t
(* A proposal whose result stands in the library is decided in the end,      *)
(* whatever was edited on top of it since the call that committed it died;   *)
(* unless a later writer takes the result away again.                        *)
CommittedProposalsSettle == \A t \in Proposal : Unsettled(t) ~> ~Unsettled(t)

ProposalsAreBound == ScreeningFollowsItsBasis /\ ApprovedIsInLibrary

(* Stated, but not so.  Two approvals of one task that overlap make two new  *)
(* records, or revise one twice when it was edited in between; Guardian      *)
(* reports the approved task.                                                *)
ApprovedIsBound ==
    \A t \in Proposal :
        task[t] # Nothing /\ task[t].status = "approved" /\ NothingLost
            /\ task[t].kind \in {"organization", "criteria", "decision"}
        => BoundToRevision(t)
(* Stated, but not so.  A task may be rejected between the commit of its     *)
(* result and its approval.                                                  *)
RejectedLeavesNothing ==
    \A t \in Proposal : task[t] # Nothing /\ task[t].status = "rejected" => Matching(t) = {}
(* Stated, but not so (docs/p7d2-screening-agent-and-app-implementation-     *)
(* plan.md:132: "A changed basis rejects lease, submission and approval; it  *)
(* does not silently restart or remap the Task").  Criteria that are edited  *)
(* after the basis was checked and before the context is derived again give  *)
(* the aliases of a decision another meaning, and it is committed under them.*)
DecisionsAreNotRemapped ==
    \A n \in 1..Len(library["decision"]) :
        LET e == library["decision"][n]
        IN  e.by # Nothing => e.under = task[e.by].basis.heads["criteria"]
=============================================================================
