---------------------------- MODULE TrustedParse ----------------------------
(* A trusted intake from the wait for an authority to the semantic gate      *)
(* (trusted_parse_intake_application.py, trusted_parse_authority.py,         *)
(* supervised_parse_application.py, parse.py, deterministic_trunk.py,        *)
(* source_adequacy.py, intake_source_adequacy_resolution_application.py).    *)
(* A user approves the parse, a worker's pages are promoted under that       *)
(* authority, the trunk assesses them, and the job is completed on its route *)
(* or waits for the user's word on an uncertain source.  Calls run side by   *)
(* side and may die between any two commits; a later call goes on from the   *)
(* receipts it finds.  A commit is one step: TransactionKernel has its inside. *)
EXTENDS CommitLog
CONSTANTS
    Approver,    \* calls that may run at once
    MaxRecords,  \* bound: records of each of the three stores
    MaxStates    \* bound: states of the job
ASSUME TrustedAssumption == MaxRecords \in Nat \ {0} /\ MaxStates \in Nat \ {0}

Trusted == {"authority", "execution", "reconcile"}
\* Where a failed approval leaves its job, and where the trunk takes it.
Failed == {"failure_routing", "source_changed", "parse_failed"}
TrunkNode == {"source_check", "source_adequacy", "semantic_route", "semantic_gate"}
Final == {"completed", "cancelled"}
Waiting == {"waiting_user", "waiting_source"}

VARIABLES
    route,      \* the document route is "decided" with the intake, or "undecided"
    verdict,    \* what the assessment finds in the pages: "yes" or "uncertain"
    source,     \* the source file: "registered", or "edited" since
    history,    \* the job's states from the wait for an authority on
    trust,      \* authorities committed for the job
    runs,       \* promotions of the paper's pages; its pages are the last one's
    profiles,   \* adequacy profiles of the paper
    approval,   \* per caller: where it is, and what it has read
    slips       \* deaths, failures, edits, revocations, direct parses, job recoveries
trustedVars == <<route, verdict, source, history, trust, runs, profiles, approval, slips>>
given == <<route, verdict, source>>
receipts == <<trust, runs, profiles>>

JobState == [status : {"running", "recovering"} \cup Waiting \cup Final,
             node : Trusted \cup Failed \cup TrunkNode,
             outputs : SUBSET ({"trust", "run", "profile"} \X (1..MaxRecords))]
Phase == {"commit", "current", "correlate", "promote", "trunk", "assess", "gate", "route",
          "complete", "source_changed", "parse_failed", "accept", "remediate", "continue"}
Resting == [at |-> "idle", seen |-> 0, authority |-> 0, profile |-> 0, routed |-> FALSE]

TrustedTypeOK ==
    /\ route \in {"decided", "undecided"} /\ verdict \in {"yes", "uncertain"}
    /\ source \in {"registered", "edited"}
    /\ history \in Seq(JobState)
    /\ trust \in Seq([decision : {"active", "revoked"}, expired : BOOLEAN, event : Outcome])
    /\ runs \in Seq([authority : 0..MaxRecords, timely : BOOLEAN, event : Outcome])
    /\ profiles \in Seq([run : 1..MaxRecords, basis : 0..MaxRecords,
                         decision : {"none", "accept", "remediate"}])
    /\ approval \in [Approver -> {Resting} \cup
         [at : Phase, seen : 0..Len(history), authority : 0..MaxRecords,
          profile : 0..MaxRecords, routed : BOOLEAN]]
    /\ slips \in 0..MaxFaults

TrustedInit ==
    /\ route \in {"decided", "undecided"} /\ verdict \in {"yes", "uncertain"}
    /\ source = "registered"
    /\ history = <<[status |-> "waiting_user", node |-> "authority", outputs |-> {}]>>
    /\ trust = <<>> /\ runs = <<>> /\ profiles = <<>>
    /\ approval = [c \in Approver |-> Resting] /\ slips = 0

-----------------------------------------------------------------------------
Tip == history[Len(history)]
Open == Tip.status \notin Final
Enters(c, phase) == approval' = [approval EXCEPT ![c].at = phase]
Leaves(c) == approval' = [approval EXCEPT ![c] = Resting]
Reads == UNCHANGED <<route, verdict, source, history, trust, runs, profiles, slips>>

(* PipelineJobService.transition: a successor of the state the call read, if *)
(* that is still the head; the same successor again changes nothing.         *)
State(status, node, outputs) == [status |-> status, node |-> node, outputs |-> outputs]
Follows(s, t) ==
    /\ s.status \notin Final /\ Len(history) < MaxStates
    /\ s.status \in Waiting => t.status = "running"
    /\ s.status = "running" /\ t.status = "running" =>
         s.node # t.node /\ s.outputs # t.outputs
Transition(c, n, status, node, added, phase) ==
    LET t == State(status, node, history[n].outputs \cup added)
    IN  /\ \/ /\ n = Len(history) /\ Follows(history[n], t)
              /\ history' = Append(history, t)
           \/ n + 1 = Len(history) /\ t = history[n + 1] /\ UNCHANGED history
        /\ approval' = [approval EXCEPT ![c] =
             IF phase = "idle" THEN Resting ELSE [@ EXCEPT !.at = phase, !.seen = n + 1]]
        /\ UNCHANGED <<given, receipts, slips>>

Authorities == Recorded(trust)
Valid(a) == trust[a].decision = "active" /\ ~trust[a].expired /\ source = "registered"
ReceiptsOf(a, n) == {<<"trust", a>>, <<"run", n>>}
JobRuns == {n \in Recorded(runs) : runs[n].authority # 0}
\* correlated_parse_event: the one run of the job, when its authority is a, its
\* time falls in the authority's interval, and the pages are still its own.
Correlated(a) ==
    {n \in JobRuns : JobRuns = {n} /\ n = Len(runs) /\ runs[n].authority = a /\ runs[n].timely}

-----------------------------------------------------------------------------
(* prepare and the head check of approve.  One recorded authority is taken   *)
(* up again, whatever has become of it; without one a new nonce is drawn.    *)
Prepare(c) ==
    /\ approval[c] = Resting /\ Open /\ Tip.node \in Trusted /\ source = "registered"
    /\ Tip.node = "reconcile" => JobRuns # {}
    /\ \E a \in 0..Len(trust) :
        /\ IF a = 0 THEN Authorities = {} /\ JobRuns = {}
           ELSE Authorities = {a} /\ (JobRuns = {} \/ Correlated(a) # {})
        /\ approval' = [approval EXCEPT ![c] =
             [Resting EXCEPT !.at = IF a = 0 THEN "commit" ELSE "current",
                             !.seen = Len(history), !.authority = a]]
    /\ Reads

CommitAuthority(c) ==
    /\ approval[c].at = "commit" /\ source = "registered" /\ Len(trust) < MaxRecords
    /\ \E event \in Outcomes(slips) \ {"parked"} :
        /\ trust' = Append(trust, [decision |-> "active", expired |-> FALSE, event |-> event])
        /\ slips' = slips + Cost(event)
        /\ IF event = "recorded"
           THEN approval' = [approval EXCEPT ![c].at = "current", ![c].authority = Len(trust')]
           ELSE Leaves(c)
    /\ UNCHANGED <<given, history, runs, profiles>>
\* The authority is current: a job that waited for it is set running.
Execute(c) ==
    LET a == approval[c].authority
        n == approval[c].seen
    IN  /\ approval[c].at = "current" /\ Valid(a)
        /\ IF history[n].node = "authority"
           THEN Transition(c, n, "running", "execution", {<<"trust", a>>}, "correlate")
           ELSE Enters(c, "correlate") /\ Reads
RunWorker(c) ==
    /\ approval[c].at = "correlate" /\ JobRuns = {} /\ Valid(approval[c].authority)
    /\ Enters(c, "promote") /\ Reads
(* Only the source is looked at again: the authority may have been revoked   *)
(* or have expired since the worker's last check.                            *)
Promote(c) ==
    LET a == approval[c].authority
    IN  /\ approval[c].at = "promote" /\ source = "registered" /\ Len(runs) < MaxRecords
        /\ \E event \in Outcomes(slips) :
            /\ runs' = Append(runs, [authority |-> a, timely |-> ~trust[a].expired,
                                     event |-> event])
            /\ slips' = slips + Cost(event)
            /\ IF event = "recorded" THEN Enters(c, "correlate") ELSE Leaves(c)
        /\ UNCHANGED <<given, history, trust, profiles>>
(* The receipt of this call's run, or of an earlier call's, is bound to the  *)
(* job as it is now; only a job in execution is moved.                       *)
Reconcile(c) ==
    LET a == approval[c].authority
    IN  /\ approval[c].at = "correlate" /\ source = "registered"
        /\ \E n \in Correlated(a) :
            LET t == State("running", "reconcile", Tip.outputs \cup ReceiptsOf(a, n))
            IN  IF Tip.node = "execution"
                THEN Follows(Tip, t) /\ history' = Append(history, t)
                ELSE UNCHANGED history
        /\ approval' = [approval EXCEPT ![c] =
             [Resting EXCEPT !.at = "trunk", !.routed = route = "decided"]]
        /\ UNCHANGED <<given, receipts, slips>>

-----------------------------------------------------------------------------
(* DeterministicTrunkService.advance.  The profile of a gate is the newest   *)
(* one made of the pages and the source as they are.                         *)
Current(p) == profiles[p].run = Len(runs) /\ source = "registered"
Selected ==
    LET fresh == {p \in 1..Len(profiles) : Current(p)}
    IN  IF fresh = {} THEN 0 ELSE CHOOSE p \in fresh : \A q \in fresh : q <= p
Allowed(p) == CASE profiles[p].decision = "none" -> verdict = "yes"
                [] profiles[p].decision = "accept" -> TRUE
                [] profiles[p].decision = "remediate" -> FALSE
NamedProfiles(s) == {p \in 1..Len(profiles) : <<"profile", p>> \in s.outputs}
FirstNamed(p, s) == p \in NamedProfiles(s) /\ \A q \in NamedProfiles(s) : p <= q
AtRoute(s) == s.status = "waiting_user" /\ s.node = "semantic_route"

Routable(p) == FirstNamed(p, Tip) /\ p = Selected /\ Allowed(p)
ReplayTrunk(c) ==
    /\ approval[c].at = "trunk"
    /\ ~Open \/ (AtRoute(Tip) /\ ~approval[c].routed)
    /\ Leaves(c) /\ Reads
TakeRoute(c) ==
    /\ approval[c].at = "trunk" /\ AtRoute(Tip) /\ approval[c].routed
    /\ \E p \in NamedProfiles(Tip) :
        /\ Routable(p)
        /\ approval' = [approval EXCEPT ![c].at = "route", ![c].seen = Len(history), ![c].profile = p]
    /\ Reads
EnterTrunk(c) ==
    /\ approval[c].at = "trunk" /\ Open
    /\ AtRoute(Tip) => approval[c].routed /\ \A p \in NamedProfiles(Tip) : ~Routable(p)
    /\ IF Tip.status = "running"
       THEN Reads /\ approval' = [approval EXCEPT ![c].at = "assess", ![c].seen = Len(history)]
       ELSE Transition(c, Len(history), "running", "source_check", {}, "assess")
AwaitSource(c) ==
    /\ approval[c].at = "assess" /\ source = "edited"
    /\ Transition(c, approval[c].seen, "waiting_source", "source_check", {}, "idle")

(* assess, once no profile of the same intent is found: a profile of the     *)
(* pages as they are is promoted if neither they nor the source have moved.  *)
AddProfile(basis, decision) ==
    /\ Len(profiles) < MaxRecords
    /\ profiles' = Append(profiles, [run |-> Len(runs), basis |-> basis, decision |-> decision])
AssessAnew(c) ==  \* Mutation: a profile of the same pages is not taken up again.
    /\ approval[c].at = "assess" /\ source = "registered" /\ AddProfile(0, "none")
    /\ approval' = [approval EXCEPT ![c].at = "gate", ![c].profile = Len(profiles')]
    /\ UNCHANGED <<given, history, trust, runs, slips>>
Assess(c) ==
    /\ approval[c].at = "assess" /\ source = "registered"
    /\ \/ /\ Selected # 0 /\ UNCHANGED profiles
          /\ approval' = [approval EXCEPT ![c].at = "gate", ![c].profile = Selected]
       \/ /\ Selected = 0 /\ AddProfile(0, "none")
          /\ approval' = [approval EXCEPT ![c].at = "gate", ![c].profile = Len(profiles')]
    /\ UNCHANGED <<given, history, trust, runs, slips>>
Gate(c) ==
    LET outputs == {<<"profile", approval[c].profile>>}
        uncertain == Selected # 0 /\ verdict = "uncertain" /\ profiles[Selected].decision = "none"
    IN  /\ approval[c].at = "gate"
        /\ IF Selected # 0 /\ Allowed(Selected)
           THEN Transition(c, approval[c].seen, "waiting_user", "semantic_route", outputs,
                           IF approval[c].routed THEN "route" ELSE "idle")
           ELSE Transition(c, approval[c].seen,
                           IF uncertain THEN "waiting_user" ELSE "waiting_source",
                           "source_adequacy", outputs, "idle")

\* _complete_route and the two transitions of continue_with_profile.
CompleteRoute(c) ==
    /\ approval[c].at = "route"
    /\ Transition(c, approval[c].seen, "running", "semantic_gate",
                  {<<"profile", approval[c].profile>>}, "complete")
FinishRoute(c) ==
    /\ approval[c].at = "complete"
    /\ Transition(c, approval[c].seen, "completed", "semantic_gate",
                  {<<"profile", approval[c].profile>>}, "idle")

-----------------------------------------------------------------------------
(* The user chooses the route of an undecided job (resume).                  *)
Reconciled == {n \in 1..Len(history) : history[n].node = "reconcile"}
ChooseRoute(c) ==
    /\ approval[c] = Resting /\ AtRoute(Tip) /\ route = "undecided"
    /\ Cardinality(Reconciled) = 1
    /\ \E a \in Authorities, n \in JobRuns :
        Authorities = {a} /\ JobRuns = {n} /\ runs[n].authority = a
    /\ approval' = [approval EXCEPT ![c] = [Resting EXCEPT !.at = "trunk", !.routed = TRUE]]
    /\ Reads

(* The user decides on an uncertain source.  _binding finds the one wait the *)
(* decision is about, the one machine profile it names, the lineage of that, *)
(* the successors of the profile, and the job where it was or on its way.    *)
Origins == {n \in 1..Len(history) :
    history[n].node = "source_adequacy" /\ history[n].status \in Waiting}
BoundOnce(refs) == \E n \in Reconciled : Reconciled = {n} /\ refs \subseteq history[n].outputs
LineageOfAnyRun(b) ==  \* Mutation: the profile need not be of the job's run.
    \E a \in Authorities :
        Authorities = {a} /\ trust[a].decision = "active" /\ BoundOnce({<<"trust", a>>})
Lineage(b) ==
    \E a \in Authorities :
        /\ Authorities = {a} /\ trust[a].decision = "active"
        /\ Correlated(a) = {profiles[b].run}
        /\ BoundOnce(ReceiptsOf(a, profiles[b].run))
Decisions(b) == {p \in 1..Len(profiles) : profiles[p].basis = b}
Descends(n, p) ==
    LET after == SubSeq(history, n + 1, Len(history))
        outputs == history[n].outputs \cup {<<"profile", p>>}
    IN  \E k \in 0..2 : after = SubSeq(<<State("running", "semantic_gate", outputs),
                                         State("completed", "semantic_gate", outputs)>>, 1, k)
Binds(n, b) ==
    /\ route = "decided" /\ Origins = {n} /\ NamedProfiles(history[n]) = {b}
    /\ profiles[b].decision = "none" /\ Lineage(b)
    /\ Cardinality(Decisions(b)) <= 1
    /\ n = Len(history) \/ \E p \in Decisions(b) : profiles[p].decision = "accept" /\ Descends(n, p)

Decide(c) ==
    /\ approval[c] = Resting /\ verdict = "uncertain"
    /\ \E n \in Origins : \E b \in NamedProfiles(history[n]), word \in {"accept", "remediate"} :
        /\ Binds(n, b) /\ Decisions(b) = {} /\ n = Len(history) /\ Current(b)
        /\ approval' = [approval EXCEPT ![c] = [Resting EXCEPT !.at = word, !.profile = b]]
    /\ Reads
\* The profile of the decision; the same decision again changes nothing.
RecordDecision(c) ==
    LET b == approval[c].profile
        word == approval[c].at
        Accepts(p) == IF word = "remediate" THEN Leaves(c)
                      ELSE approval' = [approval EXCEPT ![c].at = "continue", ![c].profile = p]
    IN  /\ word \in {"accept", "remediate"} /\ Current(b)
        /\ \/ \E p \in Decisions(b) :
                profiles[p].decision = word /\ Accepts(p) /\ UNCHANGED profiles
           \/ /\ \A p \in Decisions(b) : profiles[p].decision # word
              /\ AddProfile(b, word)
              /\ Accepts(Len(profiles'))
        /\ UNCHANGED <<given, history, trust, runs, slips>>
ReplayDecision(c) ==
    /\ approval[c] = Resting
    /\ \E n \in Origins : \E b \in NamedProfiles(history[n]) : \E p \in Decisions(b) :
        /\ Binds(n, b) /\ profiles[p].decision = "accept" /\ Current(b)
        /\ approval' = [approval EXCEPT ![c] = [Resting EXCEPT !.at = "continue", !.profile = p]]
    /\ Reads
ContinueDecision(c) ==
    LET p == approval[c].profile
    IN  /\ approval[c].at = "continue" /\ Current(p)
        /\ \E n \in Origins :
            /\ Binds(n, profiles[p].basis) /\ Decisions(profiles[p].basis) = {p} /\ Descends(n, p)
            /\ CASE n = Len(history) ->
                      approval' = [approval EXCEPT ![c].at = "route", ![c].seen = n]
                 [] n + 1 = Len(history) ->
                      approval' = [approval EXCEPT ![c].at = "complete", ![c].seen = n + 1]
                 [] OTHER -> Leaves(c)
        /\ Reads

-----------------------------------------------------------------------------
ApprovalStep(c) ==
    \/ CommitAuthority(c) \/ Execute(c) \/ RunWorker(c) \/ Promote(c) \/ Reconcile(c)
    \/ ReplayTrunk(c) \/ TakeRoute(c) \/ EnterTrunk(c) \/ AwaitSource(c) \/ Assess(c) \/ Gate(c)
    \/ CompleteRoute(c) \/ FinishRoute(c) \/ RecordDecision(c) \/ ContinueDecision(c)

(* _route_failure: what went wrong decides where the job waits.  A job that  *)
(* is not running is set running first to wait for its source.               *)
RouteFailure(c, status, node) ==
    /\ Open /\ ~(Tip.status = status /\ Tip.node = node)
    /\ IF Tip.status # "running" /\ status = "waiting_source"
       THEN Transition(c, Len(history), "running", "failure_routing", {}, node)
       ELSE Transition(c, Len(history), status, node, {}, "idle")
FailApproval(c) ==
    \/ /\ approval[c].at \in {"commit", "current", "correlate", "promote"}
       /\ source = "edited" /\ RouteFailure(c, "waiting_source", "source_changed")
    \/ /\ \/ approval[c].at = "current"
          \/ approval[c].at = "correlate" /\ JobRuns = {}
       /\ source = "registered" /\ ~Valid(approval[c].authority)
       /\ RouteFailure(c, "waiting_user", "authority")
    \/ /\ ENABLED RunWorker(c)   \* but the worker fails
       /\ RouteFailure(c, "waiting_source", "parse_failed")
    \/ /\ approval[c].at \in {"source_changed", "parse_failed"}
       /\ Transition(c, approval[c].seen, "waiting_source", approval[c].at, {}, "idle")
\* A call whose next check fails otherwise is refused.
RefuseApproval(c) ==
    /\ approval[c] # Resting /\ ~ENABLED (ApprovalStep(c) \/ FailApproval(c))
    /\ Leaves(c) /\ Reads

Slip == slips < MaxFaults /\ slips' = slips + 1
KillApproval(c) ==
    /\ approval[c] # Resting /\ Slip
    /\ Leaves(c) /\ UNCHANGED <<given, history, receipts>>
\* A revocation is a commit to the store as well: it outdates an open one.
Revoke(a) ==
    /\ a <= Len(trust) /\ trust[a].decision = "active" /\ Slip
    /\ trust' = [n \in 1..Len(trust) |->
         [trust[n] EXCEPT !.decision = IF n = a THEN "revoked" ELSE @,
                          !.event = IF @ = "open" THEN "parked" ELSE @]]
    /\ UNCHANGED <<given, history, runs, profiles, approval>>
Expire(a) ==
    /\ a <= Len(trust) /\ ~trust[a].expired
    /\ trust' = [trust EXCEPT ![a].expired = TRUE]
    /\ UNCHANGED <<given, history, runs, profiles, approval, slips>>
EditSource ==
    /\ source = "registered" /\ Slip /\ source' = "edited"
    /\ UNCHANGED <<route, verdict, history, receipts, approval>>
RestoreSource ==
    /\ source = "edited" /\ source' = "registered"
    /\ UNCHANGED <<route, verdict, history, receipts, approval, slips>>
ParseDirectly ==
    /\ source = "registered" /\ Slip /\ Len(runs) < MaxRecords
    /\ runs' = Append(runs, [authority |-> 0, timely |-> TRUE, event |-> "recorded"])
    /\ UNCHANGED <<given, history, trust, profiles, approval>>
CancelTrusted ==
    /\ Open /\ Len(history) < MaxStates
    /\ history' = Append(history, State("cancelled", Tip.node, Tip.outputs))
    /\ UNCHANGED <<given, receipts, approval, slips>>
RecoverTrusted ==
    /\ Open /\ Tip.status # "recovering" /\ Slip /\ Len(history) < MaxStates
    /\ history' = Append(history, State("recovering", Tip.node, Tip.outputs))
    /\ UNCHANGED <<given, receipts, approval>>
RecoverCommits ==
    /\ trust' = Resolved(trust) /\ runs' = Resolved(runs)
    /\ <<trust', runs'>> # <<trust, runs>>
    /\ UNCHANGED <<given, history, profiles, approval, slips>>

TrustedNext ==
    \/ \E c \in Approver :
        \/ Prepare(c) \/ ChooseRoute(c) \/ Decide(c) \/ ReplayDecision(c)
        \/ ApprovalStep(c) \/ FailApproval(c) \/ RefuseApproval(c) \/ KillApproval(c)
    \/ \E a \in 1..MaxRecords : Revoke(a) \/ Expire(a)
    \/ EditSource \/ RestoreSource \/ ParseDirectly
    \/ CancelTrusted \/ RecoverTrusted \/ RecoverCommits

\* Running calls go on, fail or are refused; the client keeps preparing and
\* approving, and an operator runs the transaction recovery when one is needed.
TrustedFairness ==
    /\ \A c \in Approver :
        WF_trustedVars(ApprovalStep(c) \/ FailApproval(c) \/ RefuseApproval(c))
    /\ SF_trustedVars(\E c \in Approver : Prepare(c))
    /\ WF_trustedVars(RecoverCommits)
TrustedSpec == TrustedInit /\ [][TrustedNext]_trustedVars /\ TrustedFairness

-----------------------------------------------------------------------------
\* A reconciled job names one recorded authority and one recorded run under it
\* that lies in its interval, whatever other calls and the clock did meanwhile.
ReconcileBindsReceipts ==
    \A k \in Reconciled : \E a \in Authorities, n \in JobRuns :
        /\ \A x \in history[k].outputs : x[1] # "profile" => x \in ReceiptsOf(a, n)
        /\ ReceiptsOf(a, n) \subseteq history[k].outputs
        /\ runs[n].authority = a /\ runs[n].timely

\* A job is completed on pages the assessment found uncertain only after the
\* user has accepted these pages, those of the run the job was reconciled with.
AcceptanceIsBound ==
    (Tip.status = "completed" /\ verdict = "uncertain") =>
        \E p \in 1..Len(profiles), k \in Reconciled :
            /\ profiles[p].decision = "accept"
            /\ <<"run", profiles[p].run>> \in history[k].outputs

(* _trusted_parse_provenance_diagnostics: one authority of the job, a run in *)
(* its interval, both kept by the job.  _adequacy_diagnostics: the profiles  *)
(* are of the pages as they are, and the machine's are consumed by the job.  *)
RunIsSound(n) ==
    /\ n = Len(runs) /\ runs[n].timely
    /\ ReceiptsOf(runs[n].authority, n) \subseteq Tip.outputs
ProvenanceIsSound == Cardinality(Authorities) <= 1 /\ \A n \in JobRuns : RunIsSound(n)
AssessmentIsSound ==
    \A p \in 1..Len(profiles) :
        Current(p) /\ (profiles[p].decision = "none" => p \in NamedProfiles(Tip))

(* What a repeated approval cannot get past: an edited source, two recorded  *)
(* authorities or one that is not current, pages that another parse replaced. *)
Stuck ==
    \/ source = "edited"
    \/ Cardinality(Authorities) > 1 \/ \E a \in Authorities : ~Valid(a)
    \/ \E n \in JobRuns : n # Len(runs)

(* Guardian has nothing to say of a job that was completed without a detour, *)
(* however many calls it took and wherever they died: of its provenance, nor *)
(* of its assessment but that the user's decision may be left out.           *)
NoDetour == \A k \in 2..Len(history) : history[k].node \notin Failed \cup {"authority"}
ParseIsSound ==
    Tip.status = "completed" /\ NoDetour /\ ~Stuck => ProvenanceIsSound /\ AssessmentIsSound
(* Stated, but not so with two calls (docs/p3c-source-adequacy-and-           *)
(* deterministic-trunk-closure-manifest.md:49-51: an uncertain state "cannot *)
(* cross the semantic boundary"): a job is completed only on a profile       *)
(* that the gate allows.  When one call has assessed the pages, the user may *)
(* accept them in another before the first is at its gate; the gate finds    *)
(* the accepted profile, and the job is completed on the uncertain one.      *)
CompletedOnUsableProfile == Tip.status = "completed" => \E p \in NamedProfiles(Tip) : Allowed(p)
(* Stated, but not so with two calls: when one has promoted its run and the  *)
(* other fails, the job leaves its execution, the first call reconciles only *)
(* a job in execution, and the trunk completes it without the run's receipt. *)
EveryParseIsSound == Tip.status = "completed" /\ ~Stuck => ProvenanceIsSound

\* With the client repeating its approval, a job is completed or cancelled,
\* waits for its source or for the user's choice, or is stuck as above.
TrustedIntakeSettles ==
    Tip.node \in Trusted ~>
        (~Open \/ Tip.node = "source_adequacy" \/ AtRoute(Tip) \/ Tip.status = "waiting_source" \/ Stuck)
=============================================================================
