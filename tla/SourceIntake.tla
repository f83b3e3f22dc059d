---------------------------- MODULE SourceIntake ----------------------------
(* One intake job of a PDF (deterministic_intake_application.py,             *)
(* local_source_intake.py, source_asset.py, registry.py), driven by several  *)
(* calls at once: the file is copied into the inbox or selected there, gets  *)
(* a receipt, is registered as a paper and associated with it, and the job   *)
(* goes on to the deterministic trunk or to the trusted parse.  Every call   *)
(* may die between any two of these; the next one goes on from the receipts. *)
(* A commit is one step here: TransactionKernel has its inside.              *)
EXTENDS CommitLog
CONSTANTS
    Caller,      \* calls that may run at once
    MaxCommits   \* bound: commits to each of the two stores
ASSUME IntakeAssumption == MaxCommits \in Nat \ {0}

Rank == [source_intake |-> 0, registry |-> 1, source_association |-> 2,
         deterministic_trunk |-> 3]
IntakeNode == DOMAIN Rank
Authority == "trusted_parse_authority"

VARIABLES
    mode,       \* the file is uploaded, or waits in the watched inbox
    policy,     \* "legacy_direct_parse" or "trusted_supervised_parse"
    job,        \* Nothing or the head of the job's states
    part,       \* the copy's part file; "linked" when the inbox has it too
    holders,    \* callers whose staged identity is that of the part file
    inbox,      \* the file in the inbox
    assets,     \* commits to the source-asset store; the last is its content
    papers,     \* papers this job added to the registry
    call,       \* per caller: where it is, and what it has read
    mishaps     \* deaths, failures, edits and job recoveries so far
intakeVars == <<mode, policy, job, part, holders, inbox, assets, papers, call, mishaps>>

Ref(kind, n) == <<kind, n>>
Refs == {"asset", "paper"} \X (1..MaxCommits)
Job == [status : {"created", "running", "waiting_user", "recovering", "cancelled"},
        node : IntakeNode \cup {Authority}, outputs : SUBSET Refs, retries : 0..MaxFaults]
\* A job is not the lack of one.
ASSUME NothingIsNoJob == Nothing \notin Job
Place == {"source", "register", "receipt", "publish", "unlink", "continue", "registry",
          "paper", "add", "source_association", "associate", "associating",
          "deterministic_trunk"}
Idle == [at |-> "idle", seen |-> Nothing, asset |-> 0, paper |-> 0]

IntakeTypeOK ==
    /\ mode \in {"upload", "watched_inbox"}
    /\ policy \in {"legacy_direct_parse", "trusted_supervised_parse"}
    /\ job \in {Nothing} \cup Job
    /\ part \in {"none", "torn", "whole", "linked"}
    /\ holders \subseteq Caller
    /\ inbox \in {"none", "whole", "edited"}
    /\ assets \in Seq([root : 1..MaxCommits, paper : 0..MaxCommits, event : Outcome])
    /\ papers \in Seq([bytes : {"whole", "edited"}, event : Outcome])
    /\ call \in [Caller -> {Idle} \cup
         [at : Place, seen : Job, asset : 0..MaxCommits, paper : 0..MaxCommits]]
    /\ mishaps \in 0..MaxFaults

IntakeInit ==
    /\ mode \in {"upload", "watched_inbox"}
    /\ policy \in {"legacy_direct_parse", "trusted_supervised_parse"}
    /\ job = Nothing /\ part = "none" /\ holders = {}
    /\ inbox = IF mode = "upload" THEN "none" ELSE "whole"
    /\ assets = <<>> /\ papers = <<>>
    /\ call = [c \in Caller |-> Idle] /\ mishaps = 0

-----------------------------------------------------------------------------
Ends(status) == status = "cancelled"
Live == job # Nothing /\ ~Ends(job.status)
At(c, place) == call[c].at = place
Goes(c, place) == call' = [call EXCEPT ![c].at = place]
Ending(c) == call' = [call EXCEPT ![c] = Idle]

Latest == Len(assets)
\* One root receipt, with exactly one event, which names it.
Receipted ==
    /\ Latest # 0
    /\ {n \in Recorded(assets) : assets[n].paper = 0} = {assets[Latest].root}
\* What the store holds after a commit, and what still refers to it: the
\* validator of the workspace refuses a store or a job that leaves a name of an
\* event or of the job unresolved.
Content == IF Latest = 0 THEN {} ELSE {assets[Latest].root, Latest}
Named(s) == {n \in 1..Latest : Ref("asset", n) \in s.outputs}
Droppable(kept) == Recorded(assets) \cup Named(job) \subseteq kept
PaperReceipts == Recorded(papers)
AssociationReceipts == {n \in Recorded(assets) : assets[n].paper # 0}

-----------------------------------------------------------------------------
(* A call starts.  The idempotency key leads every retry to the same job.    *)
StartJob(c) ==
    /\ call[c] = Idle /\ job = Nothing
    /\ job' = [status |-> "created", node |-> "source_intake", outputs |-> {}, retries |-> 0]
    /\ call' = [call EXCEPT ![c] = [Idle EXCEPT !.at = "source", !.seen = job']]
    /\ UNCHANGED <<mode, policy, part, holders, inbox, assets, papers, mishaps>>
ReplayJob(c) ==
    /\ call[c] = Idle /\ Live
    /\ call' = [call EXCEPT ![c] = [Idle EXCEPT !.at = "source", !.seen = job]]
    /\ UNCHANGED <<mode, policy, job, part, holders, inbox, assets, papers, mishaps>>

(* resume: without a receipt there is nothing to go on with.  With one, the  *)
(* copy is published from its part file when it has not been.                *)
ResumeEmpty(c) ==
    /\ call[c] = Idle /\ Live /\ Latest = 0 /\ job.status = "created"
    /\ job' = [job EXCEPT !.status = "waiting_user"]
    /\ UNCHANGED <<mode, policy, part, holders, inbox, assets, papers, call, mishaps>>
MatchesReceipts == \A p \in PaperReceipts : papers[p].bytes = "whole"
Resume(c) ==
    /\ call[c] = Idle /\ Live /\ job.node # Authority
    /\ Receipted /\ Cardinality(PaperReceipts) <= 1 /\ MatchesReceipts
    /\ \/ /\ inbox # "none"
          /\ call' = [call EXCEPT ![c] =
               [at |-> "registry", seen |-> job, asset |-> Latest, paper |-> 0]]
          /\ UNCHANGED holders
       \/ /\ mode = "upload" /\ inbox = "none" /\ part = "whole"
          /\ call' = [call EXCEPT ![c] =
               [at |-> "publish", seen |-> job, asset |-> Latest, paper |-> 0]]
          /\ holders' = holders \cup {c}
    /\ UNCHANGED <<mode, policy, job, part, inbox, assets, papers, mishaps>>

-----------------------------------------------------------------------------
(* The source: an inbox file that stands with its receipt is left as it is.  *)
SourceStands(c) ==
    /\ At(c, "source") /\ mode = "upload"
    /\ inbox = "whole" /\ part # "linked" /\ Latest # 0
    /\ Goes(c, "continue")
    /\ UNCHANGED <<mode, policy, job, part, holders, inbox, assets, papers, mishaps>>
StageCopy(c) ==
    /\ At(c, "source") /\ mode = "upload" /\ inbox = "none" /\ part = "none"
    /\ part' = "whole" /\ holders' = {c}
    /\ Goes(c, "register")
    /\ UNCHANGED <<mode, policy, job, inbox, assets, papers, mishaps>>
ResumeOwnCopy(c) ==  \* Mutation: a part file another call staged is not resumed.
    /\ At(c, "source") /\ mode = "upload" /\ inbox = "none" /\ part = "whole"
    /\ c \in holders
    /\ Goes(c, "register")
    /\ UNCHANGED <<mode, policy, job, part, holders, inbox, assets, papers, mishaps>>
ResumeCopy(c) ==
    /\ At(c, "source") /\ mode = "upload" /\ inbox = "none" /\ part = "whole"
    /\ holders' = holders \cup {c}
    /\ Goes(c, "register")
    /\ UNCHANGED <<mode, policy, job, part, inbox, assets, papers, mishaps>>
SelectCandidate(c) ==
    /\ At(c, "source") /\ mode = "watched_inbox" /\ inbox = "whole"
    /\ Goes(c, "register")
    /\ UNCHANGED <<mode, policy, job, part, holders, inbox, assets, papers, mishaps>>

\* The file the receipt is for is what this call staged or selected.
Holds(c) == IF mode = "upload" THEN c \in holders /\ part = "whole" ELSE inbox = "whole"
AfterReceipt == IF mode = "upload" THEN "publish" ELSE "continue"
LookUpReceipt(c) ==
    /\ At(c, "register") /\ Holds(c)
    /\ Goes(c, IF Latest = 0 THEN "receipt" ELSE AfterReceipt)
    /\ UNCHANGED <<mode, policy, job, part, holders, inbox, assets, papers, mishaps>>
(* The token is taken after the read: a root that another call committed in  *)
(* between is overwritten, unless its event was recorded.                    *)
WriteReceipt(c) ==
    /\ At(c, "receipt") /\ Holds(c) /\ Droppable({}) /\ Latest < MaxCommits
    /\ \E event \in Outcomes(mishaps) :
        /\ assets' = Append(assets, [root |-> Latest + 1, paper |-> 0, event |-> event])
        /\ mishaps' = mishaps + Cost(event)
        /\ IF event = "recorded" THEN Goes(c, AfterReceipt) /\ UNCHANGED <<part, holders>>
           ELSE /\ Ending(c)
                /\ \/ UNCHANGED <<part, holders>>
                   \/ mode = "upload" /\ part' = "none" /\ holders' = {}
    /\ UNCHANGED <<mode, policy, job, inbox, papers>>

LinkCopy(c) ==
    /\ At(c, "publish") /\ Holds(c) /\ inbox = "none"
    /\ inbox' = "whole" /\ part' = "linked"
    /\ Goes(c, "unlink")
    /\ UNCHANGED <<mode, policy, job, holders, assets, papers, mishaps>>
UnlinkPart(c) ==
    /\ At(c, "unlink") /\ part = "linked"
    /\ part' = "none" /\ holders' = {}
    /\ Goes(c, IF call[c].asset = 0 THEN "continue" ELSE "registry")
    /\ UNCHANGED <<mode, policy, job, inbox, assets, papers, mishaps>>

-----------------------------------------------------------------------------
Continue(c) ==
    /\ At(c, "continue") /\ Receipted /\ call[c].seen.node # Authority
    /\ call' = [call EXCEPT ![c].at = "registry", ![c].asset = Latest]
    /\ UNCHANGED <<mode, policy, job, part, holders, inbox, assets, papers, mishaps>>

(* _progress: what a call has done names the job's next node.                *)
Results(c, node) ==
    IF node = "source_association" THEN {Ref("paper", call[c].paper)}
    ELSE {Ref("asset", call[c].asset)}
Skips(s, node, results) ==
    \/ Ends(s.status) \/ s.status = "waiting_user"
    \/ s.status = "running" /\ (s.node \notin IntakeNode \/ Rank[s.node] > Rank[node])
    \/ s.status = "running" /\ s.node = node /\ results \subseteq s.outputs
Running(s, node, results) ==
    [s EXCEPT !.status = "running", !.node = node, !.outputs = @ \cup results]
Advances(s, t) == s.status = "running" => s.node # t.node /\ s.outputs # t.outputs

Following ==
    [registry |-> "paper", source_association |-> "associate", deterministic_trunk |-> "idle"]
Progressed(c, node, s) ==
    call' = [call EXCEPT ![c] = IF Following[node] = "idle" THEN Idle
                                ELSE [@ EXCEPT !.at = Following[node], !.seen = s]]
Progress(c, node) ==
    LET s == call[c].seen
        t == Running(s, node, Results(c, node))
    IN  /\ At(c, node)
        /\ node = "deterministic_trunk" => policy = "legacy_direct_parse"
        /\ \/ Skips(s, node, Results(c, node)) /\ Progressed(c, node, s) /\ UNCHANGED job
           \/ /\ ~Skips(s, node, Results(c, node))
              /\ (job = s /\ Advances(s, t) /\ Named(t) \subseteq Content) \/ job = t
              /\ job' = t /\ Progressed(c, node, t)
        /\ UNCHANGED <<mode, policy, part, holders, inbox, assets, papers, mishaps>>

(* The trusted policy ends with the wait for an authority, whatever the job  *)
(* this call last saw allows.                                                *)
AwaitAuthority(c) ==
    LET s == call[c].seen
        t == [s EXCEPT !.status = "waiting_user", !.node = Authority,
                       !.outputs = @ \cup {Ref("asset", call[c].asset)}]
    IN  /\ At(c, "deterministic_trunk") /\ policy = "trusted_supervised_parse"
        /\ \/ job = s /\ s.status \in {"created", "running", "recovering"} /\ Named(t) \subseteq Content
           \/ job = t
        /\ job' = t /\ Ending(c)
        /\ UNCHANGED <<mode, policy, part, holders, inbox, assets, papers, mishaps>>

-----------------------------------------------------------------------------
(* _reconcile_paper: the registry's receipts of this job decide.             *)
ReusePaper(c) ==
    /\ At(c, "paper")
    /\ \E p \in PaperReceipts :
        /\ PaperReceipts = {p} /\ papers[p].bytes = "whole"
        /\ call' = [call EXCEPT ![c].at = "source_association", ![c].paper = p]
    /\ UNCHANGED <<mode, policy, job, part, holders, inbox, assets, papers, mishaps>>
SkipsRegistry(c) ==  \* Mutation: the association is tried without a paper.
    /\ At(c, "paper") /\ PaperReceipts = {}
    /\ Goes(c, "source_association")
    /\ UNCHANGED <<mode, policy, job, part, holders, inbox, assets, papers, mishaps>>
NeedsPaper(c) ==
    /\ At(c, "paper") /\ PaperReceipts = {}
    /\ Goes(c, "add")
    /\ UNCHANGED <<mode, policy, job, part, holders, inbox, assets, papers, mishaps>>
\* The paper's fingerprint is that of the inbox file as it is now.
AddPaper(c) ==
    /\ At(c, "add") /\ Live /\ inbox # "none" /\ Len(papers) < MaxCommits
    /\ \E event \in Outcomes(mishaps) :
        /\ papers' = Append(papers, [bytes |-> inbox, event |-> event])
        /\ mishaps' = mishaps + Cost(event)
        /\ IF event = "recorded"
           THEN call' = [call EXCEPT ![c].at = "source_association", ![c].paper = Len(papers')]
           ELSE Ending(c)
    /\ UNCHANGED <<mode, policy, job, part, holders, inbox, assets>>

(* _reconcile_association, with the source state this call has read.         *)
FindAnyAssociation(c) ==  \* Mutation: the association's receipt is not asked for.
    /\ At(c, "associate")
    /\ assets[call[c].asset].paper = call[c].paper
    /\ Goes(c, "deterministic_trunk")
    /\ UNCHANGED <<mode, policy, job, part, holders, inbox, assets, papers, mishaps>>
FindAssociation(c) ==
    /\ At(c, "associate")
    /\ assets[call[c].asset].paper = call[c].paper
    /\ Cardinality(AssociationReceipts) = 1
    /\ Goes(c, "deterministic_trunk")
    /\ UNCHANGED <<mode, policy, job, part, holders, inbox, assets, papers, mishaps>>
InboxMatches == inbox = "whole" /\ part # "linked"
CheckAssociation(c) ==
    /\ At(c, "associate") /\ Live
    /\ call[c].asset = Latest /\ assets[Latest].paper = 0
    /\ papers[call[c].paper].bytes = "whole" /\ InboxMatches
    /\ Goes(c, "associating")
    /\ UNCHANGED <<mode, policy, job, part, holders, inbox, assets, papers, mishaps>>
WriteAssociation(c) ==
    /\ At(c, "associating") /\ InboxMatches /\ Droppable({call[c].asset}) /\ Latest < MaxCommits
    /\ \E event \in Outcomes(mishaps) :
        /\ assets' = Append(assets, [root |-> assets[call[c].asset].root,
                                     paper |-> call[c].paper, event |-> event])
        /\ mishaps' = mishaps + Cost(event)
        /\ IF event = "recorded"
           THEN call' = [call EXCEPT ![c].at = "deterministic_trunk", ![c].asset = Latest + 1]
           ELSE Ending(c)
    /\ UNCHANGED <<mode, policy, job, part, holders, inbox, papers>>

-----------------------------------------------------------------------------
IntakeStep(c) ==
    \/ SourceStands(c) \/ StageCopy(c) \/ ResumeCopy(c) \/ SelectCandidate(c)
    \/ LookUpReceipt(c) \/ WriteReceipt(c) \/ LinkCopy(c) \/ UnlinkPart(c) \/ Continue(c)
    \/ \E node \in IntakeNode \ {"source_intake"} : Progress(c, node)
    \/ AwaitAuthority(c) \/ ReusePaper(c) \/ NeedsPaper(c) \/ AddPaper(c)
    \/ FindAssociation(c) \/ CheckAssociation(c) \/ WriteAssociation(c)

\* An error before the receipt removes the part file this call still holds.
DropsOwnPart(c) ==
    IF call[c].at \in {"register", "receipt"} /\ c \in holders /\ part = "whole"
    THEN part' = "none" /\ holders' = {} ELSE UNCHANGED <<part, holders>>
(* A call whose next check fails is refused.  So is one whose token was      *)
(* taken before another call's commit.                                       *)
Refuse(c) ==
    /\ call[c] # Idle
    /\ \/ ~ENABLED IntakeStep(c)
       \/ At(c, "receipt") /\ Latest # 0
       \/ At(c, "associating") /\ Latest # call[c].asset
    /\ DropsOwnPart(c) /\ Ending(c)
    /\ UNCHANGED <<mode, policy, job, inbox, assets, papers, mishaps>>
Mishap == mishaps < MaxFaults /\ mishaps' = mishaps + 1
FailCall(c) ==
    /\ call[c] # Idle /\ Mishap
    /\ DropsOwnPart(c) /\ Ending(c)
    /\ UNCHANGED <<mode, policy, job, inbox, assets, papers>>
KillCall(c) ==
    /\ call[c] # Idle /\ Mishap
    /\ part' \in {part} \cup (IF ENABLED StageCopy(c) THEN {"torn"} ELSE {})
    /\ Ending(c)
    /\ UNCHANGED <<mode, policy, job, holders, inbox, assets, papers>>
EditInbox ==
    /\ inbox = "whole" /\ part # "linked" /\ Mishap
    /\ inbox' = "edited"
    /\ UNCHANGED <<mode, policy, job, part, holders, assets, papers, call>>
RestoreInbox ==
    /\ inbox = "edited" /\ inbox' = "whole"
    /\ UNCHANGED <<mode, policy, job, part, holders, assets, papers, call, mishaps>>

(* The user's other requests, and transaction recovery, which records what   *)
(* the store still holds and parks what has been overwritten.                *)
CancelJob ==
    /\ Live /\ job' = [job EXCEPT !.status = "cancelled"]
    /\ UNCHANGED <<mode, policy, part, holders, inbox, assets, papers, call, mishaps>>
RecoverJob ==
    /\ Live /\ job.status \in {"running", "waiting_user"} /\ Mishap
    /\ job' = [job EXCEPT !.status = "recovering", !.retries = @ + 1]
    /\ UNCHANGED <<mode, policy, part, holders, inbox, assets, papers, call>>
RecoverTransactions ==
    /\ assets' = Resolved(assets) /\ papers' = Resolved(papers)
    /\ <<assets', papers'>> # <<assets, papers>>
    /\ UNCHANGED <<mode, policy, job, part, holders, inbox, call, mishaps>>

IntakeNext ==
    \/ \E c \in Caller :
        \/ StartJob(c) \/ ReplayJob(c) \/ ResumeEmpty(c) \/ Resume(c)
        \/ IntakeStep(c) \/ Refuse(c) \/ FailCall(c) \/ KillCall(c)
    \/ EditInbox \/ RestoreInbox \/ CancelJob \/ RecoverJob \/ RecoverTransactions

\* Running calls go on or are refused; the client keeps repeating its call
\* and an operator runs the transaction recovery when one is needed.
IntakeFairness ==
    /\ \A c \in Caller : WF_intakeVars(IntakeStep(c) \/ Refuse(c))
    /\ SF_intakeVars(\E c \in Caller : ReplayJob(c))
    /\ WF_intakeVars(RecoverTransactions)
IntakeSpec == IntakeInit /\ [][IntakeNext]_intakeVars /\ IntakeFairness

-----------------------------------------------------------------------------
\* A job that has left the intake waits for the trunk or for an authority.
Left(s) == s # Nothing /\ s.node \in {"deterministic_trunk", Authority}

(* A job that left the intake names one paper, which the registry recorded,  *)
(* and an association of the source with it, which is recorded as well; and  *)
(* an asset is only ever associated with a paper of its own bytes that the   *)
(* registry has recorded, however the inbox file changed in the meantime.    *)
TrunkIsAssociated ==
    /\ Left(job) => \E p \in PaperReceipts :
        /\ \A q \in 1..Len(papers) : Ref("paper", q) \in job.outputs <=> q = p
        /\ \E n \in AssociationReceipts : assets[n].paper = p /\ Ref("asset", n) \in job.outputs
    /\ \A n \in 1..Latest : assets[n].paper # 0 =>
        papers[assets[n].paper] = [bytes |-> "whole", event |-> "recorded"]

(* What a repeated call cannot get past: files it will not touch, receipts   *)
(* that are not unique or not its own, a job that waits or was recovered.    *)
DeadEnd ==
    \/ part = "torn" \/ inbox = "edited"
    \/ part = "linked" /\ \A c \in Caller : ~At(c, "unlink")
    \/ Cardinality(PaperReceipts) > 1 \/ ~MatchesReceipts
    \/ \E n \in 1..Latest : assets[n].event = "parked"
    \/ Live /\ (job.status = "waiting_user" \/ job.retries > 0)

(* What Guardian reports of an intake as an error (guardian.py): files in    *)
(* the inbox that an intake has left there, receipts without their event,    *)
(* sources that are not what was receipted or registered, open journals.     *)
StrayFiles == part # "none" \/ (mode = "upload" /\ inbox # "none" /\ Latest = 0)
UnnamedReceipts == Content \ Recorded(assets)
Observed(bytes) == inbox = bytes /\ part # "linked"
AlteredSources ==
    \/ Latest # 0 /\ ~Observed("whole")
    \/ \E p \in 1..Len(papers) :
        ~(Latest # 0 /\ assets[Latest].paper = p) /\ ~Observed(papers[p].bytes)
UnsettledJournals ==
    \/ Recorded(assets) # 1..Latest \/ Recorded(papers) # 1..Len(papers)
IntakeIsClean ==
    ~StrayFiles /\ UnnamedReceipts = {} /\ ~AlteredSources /\ ~UnsettledJournals
(* However calls overlapped, died and were repeated: an intake that has left *)
(* leaves nothing behind that Guardian reports, once its journals are        *)
(* resolved and no call runs, short of the dead ends.                        *)
FinishedIntakeIsClean ==
    Left(job) /\ ~DeadEnd /\ ~UnsettledJournals /\ (\A c \in Caller : call[c] = Idle) =>
        IntakeIsClean

\* With the client repeating its call, an intake reaches the trunk or the wait
\* for an authority, is cancelled, or meets one of the dead ends.
IntakeSettles == job # Nothing ~> (Left(job) \/ ~Live \/ DeadEnd)
=============================================================================
