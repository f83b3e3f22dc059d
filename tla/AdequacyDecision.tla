-------------------------- MODULE AdequacyDecision --------------------------
(* What a paper's pages may be used for, and the user's word where that is   *)
(* uncertain (source_adequacy.py, parser_profiles.py,                        *)
(* services/source_adequacy_resolution_application.py, and the part of       *)
(* services/agent_task_application.py that rests on them).  Profiles record  *)
(* what a semantic job's assessment has found in the sources as they were;   *)
(* its task is bound to one, and only a result that cites running text needs *)
(* that profile's promise.  The user may accept an uncertain profile or ask  *)
(* for better pages, while others assess, refresh, submit, approve and parse.*)
(* AgentTask has the stores, crashes and bundles behind the same tasks, and  *)
(* TrustedParse the same decision inside an intake.                          *)
EXTENDS WorkspaceBase, Sequences
CONSTANTS
    Semantic,     \* the semantic jobs of the paper, each with one task at a time
    MaxCalls,     \* bound: decisions under way at once
    MaxProfiles,  \* bound: profiles ever made
    MaxShifts     \* bound: changes of the sources
ASSUME DecisionAssumption ==
    Semantic \subseteq Nat /\ MaxCalls \in Nat /\ MaxProfiles \in Nat /\ MaxShifts \in Nat

VARIABLES
    pages,       \* what each parse of the paper has made of it
    active,      \* the parse that is active
    registered,  \* the paper's file is as it was registered
    supplement,  \* a supplementary file: "none" known, "there", or "gone" since
    assessed,    \* the profiles, in the order they were appended
    duty,        \* per job: its task, or Nothing
    stage,       \* per job: where it is
    calls,       \* decisions under way: the profile as it was read, and the word
    shifts       \* changes of the sources so far
decisionVars == <<pages, active, registered, supplement, assessed, duty, stage, calls, shifts>>
sources == <<pages, active, registered, supplement, shifts>>

(* What pages are like: they have text, on every page and from a parser that *)
(* is known, and that parser gives their order.                              *)
Quality == [text : BOOLEAN, complete : BOOLEAN, ordered : BOOLEAN]
Pages == {q \in Quality : ~q.text => ~q.complete /\ ~q.ordered}
Parse == 1..2
Operation == {"card", "citation"}
Stage == {"created", "agent", "running", "blocked", "completed"}
Task == [profile : 1..MaxProfiles, status : {"leased", "submitted", "rejected", "approved"},
         cites : BOOLEAN]
Profile == [job : Semantic, of : [supplement : BOOLEAN, parse : Parse],
            basis : 0..MaxProfiles, word : {"none", "accept", "remediate"}]
Review == [job : Semantic, profile : 1..MaxProfiles, word : {"accept", "remediate"}]

DecisionTypeOK ==
    /\ pages \in [Parse -> Pages] /\ active \in Parse
    /\ registered \in BOOLEAN /\ supplement \in {"none", "there", "gone"}
    /\ assessed \in Seq(Profile) /\ Len(assessed) <= MaxProfiles
    /\ duty \in [Semantic -> {Nothing} \cup Task] /\ stage \in [Semantic -> Stage]
    /\ calls \subseteq Review /\ Cardinality(calls) <= MaxCalls
    /\ shifts \in 0..MaxShifts

DecisionInit ==
    /\ pages \in [Parse -> Pages] /\ pages[1].complete /\ active = 1
    /\ registered = TRUE /\ supplement = "none"
    /\ assessed = <<>> /\ duty = [j \in Semantic |-> Nothing]
    /\ stage = [j \in Semantic |-> "created"]
    /\ calls = {} /\ shifts = 0

-----------------------------------------------------------------------------
(* The machine's assessment: what it observes of the pages, and the status   *)
(* of an operation from the observations that affect it.  A failure that is  *)
(* hard, and a missing order, come to "no" and "uncertain".                  *)
Observations(operation, q) ==
    {IF q.text THEN "pass" ELSE "fail", IF q.complete THEN "pass" ELSE "uncertain"}
        \cup IF operation = "citation" /\ ~q.ordered THEN {"uncertain"} ELSE {}
Machine(operation, q) ==
    IF "fail" \in Observations(operation, q) THEN "no"
    ELSE IF "uncertain" \in Observations(operation, q) THEN "uncertain" ELSE "yes"

(* The sources as a profile records them.  A profile stands as long as they  *)
(* are the same and every file is where and what it was; all profiles fall   *)
(* with a supplement, whatever they are for.                                 *)
Snapshot == [supplement |-> supplement # "none", parse |-> active]
FilesStand == registered /\ supplement # "gone"
Stands(p) == FilesStand /\ assessed[p].of = Snapshot

\* apply_user_decision, upon the assessment of the same pages.
StatusOf(p) ==
    LET found == Machine("citation", pages[assessed[p].of.parse])
    IN  CASE assessed[p].word = "none" -> found
          [] assessed[p].word = "accept" -> IF found = "uncertain" THEN "yes" ELSE found
          [] assessed[p].word = "remediate" -> "no"
Words(p) == {assessed[q].word : q \in {q \in DOMAIN assessed : assessed[q].basis = p}}

(* gate: the last profile of the paper that stands, whichever job it is of.  *)
Newest(ps) == {p \in ps : \A q \in ps : q <= p}
MayCite == \E p \in Newest({q \in DOMAIN assessed : Stands(q)}) : StatusOf(p) = "yes"

(* _effective_adequacy_profile of a job: the user's word on a profile that   *)
(* stands, else the last profile; none, if the user has said both.           *)
Candidates(j) == {p \in DOMAIN assessed : assessed[p].job = j /\ Stands(p)}
Successors(j) == {p \in Candidates(j) : assessed[p].basis \in Candidates(j)}
Effective(j) ==
    LET last == {p \in Successors(j) : \A q \in Successors(j) : assessed[q].basis # p}
    IN  IF Successors(j) = {} THEN Newest(Candidates(j))
        ELSE IF Cardinality(last) = 1 THEN last ELSE {}

(* assess: a profile of the sources as they are; an equal one is taken up.   *)
RecordProfile(j, basis, word) ==
    LET profile == [job |-> j, of |-> Snapshot, basis |-> basis, word |-> word]
    IN  /\ registered /\ stage[j] # "completed"
        /\ \/ (\E p \in DOMAIN assessed : assessed[p] = profile) /\ UNCHANGED assessed
           \/ /\ \A p \in DOMAIN assessed : assessed[p] # profile
              /\ Len(assessed) < MaxProfiles
              /\ assessed' = Append(assessed, profile)

-----------------------------------------------------------------------------
Undecided(j) == duty[j] # Nothing /\ duty[j].status \in {"leased", "submitted"}
Leased(p) == [profile |-> p, status |-> "leased", cites |-> FALSE]
Promises(j) == \E p \in Effective(j) : p = duty[j].profile

(* Creating and refreshing a task, up to the assessment of the job.  The     *)
(* jobs are named in the order of their first assessments.                   *)
AssessJob(j) ==
    /\ duty[j] = Nothing \/ Undecided(j)
    /\ \A i \in Semantic : i < j => \E p \in DOMAIN assessed : assessed[p].job = i
    /\ RecordProfile(j, 0, "none")
    /\ assessed' # assessed
    /\ UNCHANGED <<sources, duty, stage, calls>>
Ready(j) ==
    /\ duty[j] = Nothing \/ Undecided(j)
    /\ \E p \in Candidates(j) : assessed[p].basis = 0
    /\ Effective(j) # {}

(* The job waits for better pages, if they are not fit for a card or, when   *)
(* the task is refreshed, the user has asked for them.  The wait is what the *)
(* paper's gate says: if another job's profile opens it, the call fails and  *)
(* the job is left running.                                                  *)
Unfit == Machine("card", pages[active]) # "yes"
Remediated(j) ==
    duty[j] # Nothing /\ \E p \in Effective(j) : assessed[p].word = "remediate"
BlockJob(j) ==
    /\ Ready(j)
    /\ Remediated(j) \/ Unfit
    /\ stage' = [stage EXCEPT ![j] = IF Remediated(j) /\ MayCite THEN "running" ELSE "blocked"]
    /\ UNCHANGED <<sources, assessed, duty, calls>>

(* Else it waits for the agent, and the task, new or a successor, is bound   *)
(* to what counts.                                                           *)
BindTask(j) ==
    /\ Ready(j) /\ ~Remediated(j) /\ ~Unfit
    /\ stage[j] = "agent" => ~Promises(j)
    /\ \E p \in Effective(j) : duty' = [duty EXCEPT ![j] = Leased(p)]
    /\ stage' = [stage EXCEPT ![j] = "agent"]
    /\ UNCHANGED <<sources, assessed, calls>>

(* request_revision: the successor is bound to what counts now.              *)
ReviseTask(j) ==
    /\ Undecided(j) /\ duty[j].status = "submitted" /\ stage[j] = "agent"
    /\ \E p \in Effective(j) : duty' = [duty EXCEPT ![j] = Leased(p)]
    /\ UNCHANGED <<sources, assessed, stage, calls>>

(* submit_result upon a basis that is current: a result that cites is staged *)
(* if the gate is open, else the job waits for better pages.                 *)
SubmitCandidate(j) ==
    /\ Undecided(j) /\ duty[j].status = "leased" /\ stage[j] = "agent" /\ Promises(j)
    /\ \E cites \in BOOLEAN :
        IF cites /\ ~MayCite
        THEN stage' = [stage EXCEPT ![j] = "blocked"] /\ UNCHANGED duty
        ELSE /\ duty' = [duty EXCEPT ![j].status = "submitted", ![j].cites = cites]
             /\ UNCHANGED stage
    /\ UNCHANGED <<sources, assessed, calls>>
RejectCandidate(j) ==
    /\ Undecided(j) /\ duty[j].status = "submitted"
    /\ duty' = [duty EXCEPT ![j].status = "rejected"]
    /\ UNCHANGED <<sources, assessed, stage, calls>>

(* Approval, in one step: the job is as the task knows it and the profile it *)
(* is bound to stands.  Whether it still counts is not asked.                *)
ApproveCandidate(j) ==
    /\ Undecided(j) /\ duty[j].status = "submitted" /\ stage[j] = "agent" /\ Stands(duty[j].profile)
    /\ duty' = [duty EXCEPT ![j].status = "approved"]
    /\ stage' = [stage EXCEPT ![j] = "completed"]
    /\ UNCHANGED <<sources, assessed, calls>>

-----------------------------------------------------------------------------
(* decide: the profile of an undecided task stands, it is uncertain but not  *)
(* hopeless, and the user has said nothing of it yet.                        *)
ReviewSource(j) ==
    /\ Undecided(j)
    /\ LET p == duty[j].profile
       IN  /\ Stands(p) /\ Words(p) = {} /\ StatusOf(p) = "uncertain"
           /\ Cardinality(calls) < MaxCalls
           /\ \E word \in {"accept", "remediate"} :
               calls' = calls \cup {[job |-> j, profile |-> p, word |-> word]}
    /\ UNCHANGED <<sources, assessed, duty, stage>>
(* Then the word is recorded as a profile of its own, if the sources are     *)
(* those of the profile it is about; the task and other words are not looked *)
(* at again.                                                                 *)
RecordWordOfAny(c) ==  \* Mutation: the sources may have changed since the review.
    /\ RecordProfile(c.job, c.profile, c.word)
    /\ calls' = calls \ {c} /\ UNCHANGED <<sources, duty, stage>>
RecordWord(c) ==
    /\ Stands(c.profile) /\ RecordProfile(c.job, c.profile, c.word)
    /\ calls' = calls \ {c} /\ UNCHANGED <<sources, duty, stage>>
\* A call is refused, or dies.
AbandonCall(c) == calls' = calls \ {c} /\ UNCHANGED <<sources, assessed, duty, stage>>

-----------------------------------------------------------------------------
Shift == shifts < MaxShifts /\ shifts' = shifts + 1 /\ UNCHANGED <<pages, assessed, duty, stage, calls>>
ParseAnew == active = 1 /\ active' = 2 /\ Shift /\ UNCHANGED <<registered, supplement>>
ChangeFile == registered' = ~registered /\ Shift /\ UNCHANGED <<active, supplement>>
ChangeSupplement ==
    /\ supplement' = IF supplement = "there" THEN "gone" ELSE "there"
    /\ Shift /\ UNCHANGED <<active, registered>>

DecisionNext ==
    \/ \E j \in Semantic :
        \/ AssessJob(j) \/ BlockJob(j) \/ BindTask(j) \/ ReviseTask(j)
        \/ SubmitCandidate(j) \/ RejectCandidate(j) \/ ApproveCandidate(j) \/ ReviewSource(j)
    \/ \E c \in calls : RecordWord(c) \/ AbandonCall(c)
    \/ ParseAnew \/ ChangeFile \/ ChangeSupplement
DecisionSpec == DecisionInit /\ [][DecisionNext]_decisionVars

-----------------------------------------------------------------------------
(* What a profile says of its pages is warranted: the machine is sure of     *)
(* them, or it is not but the user has accepted these very pages.            *)
Reviewed(p) == {q \in DOMAIN assessed : assessed[q].word = "accept"
                  /\ assessed[assessed[q].basis].of.parse = assessed[p].of.parse}
Warranted(p) ==
    LET found == Machine("citation", pages[assessed[p].of.parse])
    IN  found = "yes" \/ (found = "uncertain" /\ Reviewed(p) # {})
(* What is cited was fit to be, by the machine's word or by the user's upon  *)
(* a review of the very pages the task is bound to, while they were active.  *)
(* No decision about other pages, old or new, opens the gate, however        *)
(* decisions, assessments of two jobs and new parses overlap; and none opens *)
(* it for pages without text.                                                *)
CitationsAreWarranted ==
    \A j \in Semantic : duty[j] # Nothing /\ duty[j].cites => Warranted(duty[j].profile)

(* Stated, but not so (docs/workflow.md:426-427: "A changed source, Parse    *)
(* output, Profile or bundle head rejects stale submission or approval").    *)
(* The user asks for better pages after the result was submitted, and it is  *)
(* approved all the same.                                                    *)
DecisionsAreHeeded ==
    \A j \in Semantic :
        duty[j] # Nothing /\ duty[j].status = "approved" => "remediate" \notin Words(duty[j].profile)
(* Stated, but not so.  The gate looks at the newest profile of the paper:   *)
(* what the user has accepted for one job lets another job cite whose own    *)
(* profile is uncertain.                                                     *)
JobsCiteForThemselves ==
    \A j \in Semantic : duty[j] # Nothing /\ duty[j].cites => StatusOf(duty[j].profile) = "yes"
(* Stated, but not so.  Two decisions may each find that nothing has been    *)
(* said; then no task of the job can be refreshed, submitted or revised      *)
(* until the sources change.                                                 *)
OneWordEach == \A p \in DOMAIN assessed : Cardinality(Words(p)) <= 1
(* Stated, but not so, with four profiles.  See BlockJob.                    *)
RefusedJobsWait == \A j \in Semantic : stage[j] # "running"
=============================================================================
