----------------------------- MODULE PipelineJob -----------------------------
(***************************************************************************)
(* Pipeline Jobs (pipeline_jobs.py, services/pipeline_job.py): a job is a   *)
(* chain of immutable state revisions in process/jobs.jsonl.  A caller who  *)
(* saw a state asks to create a job, to move it, to cancel it or to recover *)
(* it; a call repeated with the same intent returns what the first one      *)
(* stored.  The store itself is shared and written as ValidatedStore says.  *)
(*                                                                          *)
(* A job is named by the id of its root revision.  Timestamps, wait reasons *)
(* and recovery actions are left out: whatever the status requires of them  *)
(* is supplied by the caller.  Of the fields that identify a creation, the  *)
(* first node stands for all but the idempotency key.                       *)
(***************************************************************************)
EXTENDS ValidatedStore

CONSTANTS
    JobStore,   \* process/jobs.jsonl
    Node,       \* nodes of a route
    Key,        \* idempotency keys
    Output,     \* records a job can name as its outputs
    Requested,  \* statuses that callers ask for
    NoState     \* no revision

ASSUME JobStoreAssumption == JobStore \in Store
ASSUME NoStateAssumption == NoState \notin Id

VARIABLES
    body,       \* the job revision behind an id
    answered    \* revisions returned to some caller, by a commit or a replay

jobvars == <<storevars, body, answered>>

Terminal == {"completed", "completed_with_findings", "failed", "cancelled"}
Waiting == {"waiting_user", "waiting_source", "waiting_agent", "paused"}
Status == Terminal \cup Waiting \cup {"created", "running", "recovering"}

ASSUME RequestedAssumption == Requested \subseteq Status

(* ALLOWED_TRANSITIONS                                                      *)
Anytime == {"running", "paused", "recovering", "failed", "cancelled"}
AllowedTransitions ==
    [created |-> {"running", "waiting_user", "waiting_source", "paused", "failed", "cancelled"},
     running |-> Status \ {"created"},
     waiting_user |-> Anytime \cup {"waiting_agent"},
     waiting_agent |-> Anytime,
     waiting_source |-> Anytime,
     paused |-> Anytime \ {"paused"},
     recovering |-> {"running", "waiting_user", "waiting_source", "paused"} \cup Terminal]

JobState ==
    [job : Id, revision : Nat \ {0}, predecessor : Id \cup {NoState}, status : Status,
     node : Node, outputs : SUBSET Output, key : Key, retry : Nat]

JobTypeOK ==
    /\ StoreTypeOK
    /\ body \in [Id -> JobState \cup {[job |-> NoState]}]
    /\ answered \subseteq Id

JobInit ==
    /\ StoreInit
    /\ body = [i \in Id |-> [job |-> NoState]]
    /\ answered = {}

-----------------------------------------------------------------------------
(* A terminal state that may move on, for a mutation.                       *)
ReopeningTransition(from, to) ==
    to \in IF from \in Terminal THEN Anytime ELSE AllowedTransitions[from]

(* validate_transition                                                      *)
ValidTransition(from, to) ==
    from \notin Terminal /\ to \in AllowedTransitions[from]

(* validate_running_progress, of what a running job becomes.                *)
RunningProgress(previous, next) ==
    previous.status = "running" /\ next.status = "running" =>
        /\ next.node # previous.node
        /\ previous.outputs \subseteq next.outputs
        /\ previous.outputs # next.outputs
        /\ next.retry = previous.retry

Revisions(content, j) == {i \in Ids(content) : body[i].job = j}
Jobs(content) == {body[i].job : i \in Ids(content)}

(* current_pipeline_states: the highest revision of the job.                *)
Current(content, j) ==
    CHOOSE i \in Revisions(content, j) :
        \A k \in Revisions(content, j) : body[k].revision <= body[i].revision

ValidRoot(s) ==
    s.predecessor = NoState /\ s.status = "created" /\ s.retry = 0 /\ s.outputs = {}

Follows(i, s) ==
    LET p == body[i]
    IN  /\ s.predecessor = i
        /\ s.key = p.key
        /\ p.outputs \subseteq s.outputs
        /\ ValidTransition(p.status, s.status)
        /\ RunningProgress(p, s)
        /\ p.retry <= s.retry

(* pipeline_job_chain_diagnostics reports nothing.                          *)
ChainValid(content) ==
    /\ \A i, k \in Ids(content) : body[i].key = body[k].key => body[i].job = body[k].job
    /\ \A j \in Jobs(content) :
         LET mine == Revisions(content, j)
         IN  /\ {body[i].revision : i \in mine} = 1 .. Cardinality(mine)
             /\ \A i \in mine :
                  IF body[i].revision = 1 THEN ValidRoot(body[i])
                  ELSE \E k \in mine :
                         body[k].revision = body[i].revision - 1 /\ Follows(k, body[i])

-----------------------------------------------------------------------------
(* A fresh revision, computed from what the store holds now.                *)
Submit(c, i, state, inputs) ==
    /\ Propose(c, JobStore, i, inputs)
    /\ body' = [body EXCEPT ![i] = state]
    /\ UNCHANGED answered

(* The call was made before: its result is returned and nothing is written. *)
Replay(c, i) ==
    /\ pc[c] = "idle"
    /\ answered' = answered \cup {i}
    /\ UNCHANGED <<storevars, body>>

Root(i, n, k) ==
    [job |-> i, revision |-> 1, predecessor |-> NoState, status |-> "created",
     node |-> n, outputs |-> {}, key |-> k, retry |-> 0]

(* create: one job per idempotency key.                                     *)
KeyHolders(k) == {i \in Ids(store[JobStore]) : body[i].key = k}

Create(c, i, n, k) ==
    /\ KeyHolders(k) = {}
    /\ Submit(c, i, Root(i, n, k), {})

(* The same intent returns the job's current state; another is a conflict.  *)
ReplayCreate(c, n, k) ==
    \E r \in KeyHolders(k) :
        /\ body[r].revision = 1
        /\ body[r].node = n
        /\ Replay(c, Current(store[JobStore], body[r].job))

(* _transition_intent: the state that revision e would become.              *)
Successor(e, status, n, outs, more) ==
    [job |-> body[e].job, revision |-> body[e].revision + 1, predecessor |-> e,
     status |-> status, node |-> n, outputs |-> body[e].outputs \cup outs,
     key |-> body[e].key, retry |-> body[e].retry + more]

(* transition: the caller expects revision e, which must be the head.       *)
Transition(c, i, e, status, n, outs, more) ==
    LET next == Successor(e, status, n, outs, more)
    IN  /\ e \in Ids(store[JobStore])
        /\ e = Current(store[JobStore], body[e].job)
        /\ ValidTransition(body[e].status, status)
        /\ RunningProgress(body[e], next)
        /\ Submit(c, i, next, {e})

(* The head already is what the caller asks of its predecessor e.           *)
ReplayTransition(c, e) ==
    /\ e \in Ids(store[JobStore])
    /\ \E h \in Ids(store[JobStore]) :
         /\ body[h].predecessor = e
         /\ h = Current(store[JobStore], body[e].job)
         /\ Replay(c, h)

(* cancel and recover: a transition to one status, at the node the job's    *)
(* head had when they looked.                                               *)
Cancel(c, i, e, n) == Transition(c, i, e, "cancelled", n, {}, 0)
RecoverJob(c, i, e, n) == Transition(c, i, e, "recovering", n, {}, 1)

(* The promotion's steps.  The validator is the chain of the new file.      *)
Promote(c) ==
    /\ Proceed(c, ChainValid(Proposal(c)))
    /\ answered' = answered \cup (acked' \ acked)
    /\ UNCHANGED body

JobRequest(c) ==
    /\ pc[c] = "idle"
    /\ \/ \E i \in Id, n \in Node, k \in Key : Create(c, i, n, k)
       \/ \E n \in Node, k \in Key : ReplayCreate(c, n, k)
       \/ \E i, e \in Id, status \in Requested, n \in Node, outs \in SUBSET Output, more \in 0 .. 1 :
            Transition(c, i, e, status, n, outs, more)
       \/ \E i, e \in Id, n \in Node : Cancel(c, i, e, n) \/ RecoverJob(c, i, e, n)
       \/ \E e \in Id : ReplayTransition(c, e)

JobNext ==
    \/ \E c \in Client : JobRequest(c) \/ Promote(c)
    \/ Disturb /\ UNCHANGED <<body, answered>>

JobSpec == JobInit /\ [][JobNext]_jobvars

-----------------------------------------------------------------------------
(***************************************************************************)
(* Properties                                                               *)
(***************************************************************************)

(* A job's durable revisions: those up to the latest that an event announces.*)
Durable(j) ==
    LET mine == Revisions(store[JobStore], j)
    IN  {i \in mine : \E k \in mine \cap recorded : body[i].revision <= body[k].revision}
History(j) ==
    [n \in 1 .. Cardinality(Durable(j)) |->
        body[CHOOSE i \in Durable(j) : body[i].revision = n]]

Ledger == INSTANCE JobLedger WITH
    Job <- Id, Final <- Terminal, ledger <- [j \in Id |-> History(j)]

(* Concurrent callers, stale reads, crashes and recoveries included, the    *)
(* durable history of every job grows only at its end and only as           *)
(* JobLedger allows: no branch, no second job for a key, no way back.       *)
ImplementsJobLedger == Ledger!LSpec

(* Two successful promotions never make two revisions of one job with the   *)
(* same number, nor two jobs of one idempotency key, even when one of them  *)
(* was computed before the other was visible.                               *)
OneSuccessor ==
    \A a, b \in acked :
        /\ body[a].job = body[b].job /\ body[a].revision = body[b].revision => a = b
        /\ body[a].key = body[b].key => body[a].job = body[b].job

(* _job_event_diagnostics of Guardian: revisions that no success event      *)
(* announces, and success events of revisions that are not there.           *)
StatesWithoutEvent == Ids(store[JobStore]) \ recorded
EventsWithoutState == recorded \ Stored
(* Jobs and process events tell the same story: whatever callers overlap and*)
(* die, Guardian finds a revision without its event only while a journal of *)
(* it is open or parked, never an event without its revision, and no event  *)
(* names what is lost for good.                                             *)
EventsTellTheJobs ==
    /\ EventsWithoutState = {} /\ StatesWithoutEvent \subseteq Unsettled
    /\ NamesResolveOrUnsettled

(* "terminal Job revisions are their own immutable receipts"                *)
(* (docs/p3a-pipeline-job-kernel-closure-manifest.md:28-29): once a caller  *)
(* was given one, by the commit or by an exact rerun, it stays.             *)
ReceiptsAreImmutable ==
    \A i \in answered : body[i].status \in Terminal => i \in Stored
=============================================================================
