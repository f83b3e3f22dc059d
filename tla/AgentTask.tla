------------------------------ MODULE AgentTask ------------------------------
(***************************************************************************)
(* Agent Tasks that process a paper semantically                            *)
(* (services/agent_task_application.py, agent_tasks.py, primary_bundles.py).*)
(* A task asks an external agent for a result about one paper.  It belongs  *)
(* to a semantic job, is bound to the inputs it was created for, and goes   *)
(* created, leased, submitted, decided.  Approval is a saga over three      *)
(* stores: a revision is appended to the paper's bundle, the semantic job   *)
(* is completed, and only then the task is approved; a caller who was       *)
(* interrupted repeats the call.  Creating and refreshing a task are sagas  *)
(* too: they move the job before they write the task.                       *)
(*                                                                          *)
(* Each write is a promotion as ValidatedStore has it, here in one step: the*)
(* new file is computed from a read that may be older than the compare-and- *)
(* swap token, and it is installed only if it still has every record that a *)
(* process event names.  A crash may leave it installed and unannounced.    *)
(*                                                                          *)
(* There is one paper and one origin job, so a key names a semantic job.    *)
(* `source' stands for everything outside the job and the bundle that a     *)
(* task is bound to: the paper record, the live source file, the active     *)
(* parse and the adequacy profiles computed from them.  The Primary and the *)
(* Review kinds have the same handlers under other names.                   *)
(***************************************************************************)
EXTENDS Integers, FiniteSets

CONSTANTS
    Client,       \* processes that run the application service
    Key,          \* idempotency keys of task creations
    Input,        \* states of the inputs a task is bound to
    Adequate,     \* those that the source adequacy gate allows
    None,         \* no record, no key
    MaxTasks,     \* bound on the tasks of one behaviour
    MaxRevision,  \* bound on the revisions of a job
    MaxFaults     \* bound on crashes and changes of the inputs

ASSUME InputAssumption == Adequate \subseteq Input
ASSUME BoundAssumption == MaxTasks \in Nat /\ MaxRevision \in Nat /\ MaxFaults \in Nat

VARIABLES
    store,      \* the records of jobs.jsonl, agent_tasks.jsonl and the bundle
    unnamed,    \* records of the stores that no process event names
    past,       \* what the jobs and the tasks were when a caller may have read them
    open,       \* promotions that were installed and not announced
    gone,       \* history: records that were installed and overwritten
    drifted,    \* revisions parked because the inputs changed under them
    source,     \* the inputs now
    profiles,   \* adequacy profiles: a job and the inputs it assessed
    made,       \* tasks created so far
    work,       \* each client's place in its call, and its locals
    faults      \* crashes and changes so far

vars == <<store, unnamed, past, open, gone, drifted, source, profiles, made, work, faults>>

JobTerminal == {"completed", "cancelled"}
Startable == {"created", "waiting_agent", "waiting_source"}
TaskTerminal == {"revision_requested", "superseded", "rejected", "approved"}

(* A revision of the bundle, and the task whose result it holds.            *)
Revision == [number : Nat \ {0}, task : Nat \ {0}, id : Nat]

JobStatus == JobTerminal \cup Startable \cup {"running"}
Node == {"processing", "assessed", "reassessed", "remediation", "commit", "committed"}
JobState ==
    [job : Key, revision : Nat \ {0}, status : JobStatus, node : Node,
     outputs : SUBSET (Input \cup Revision), id : Nat]

(* What a task is bound to: the job's state, the inputs, the bundle's head. *)
Basis == [job : JobState, input : Input, bundle : SUBSET Revision]

TaskState ==
    [task : Nat \ {0}, revision : Nat \ {0}, key : Key \cup {None}, from : Nat,
     status : TaskTerminal \cup {"created", "leased", "submitted"}, basis : Basis,
     next : Nat, applied : JobState \cup {None}, id : Nat]

Place ==
    {"idle", "job", "assess", "gate", "resume", "wait", "bind", "block", "blocked",
     "commit", "install", "finish", "complete", "decide"}

Work ==
    [at : Place, key : Key \cup {None}, seen : SUBSET TaskState, task : TaskState \cup {None},
     job : JobState \cup {None}, input : Input \cup {None}, revision : Revision \cup {None}]

Idle ==
    [at |-> "idle", key |-> None, seen |-> {}, task |-> None, job |-> None, input |-> None,
     revision |-> None]

Record == JobState \cup TaskState \cup Revision
ASSUME NoneIsNoRecord == None \notin Key \cup Input \cup Record
Records(content) == content.jobs \cup content.tasks \cup content.bundle

AgentTypeOK ==
    /\ store \in [jobs : SUBSET JobState, tasks : SUBSET TaskState, bundle : SUBSET Revision]
    /\ unnamed \subseteq Records(store)
    /\ past \in [jobs : SUBSET SUBSET JobState, tasks : SUBSET SUBSET TaskState]
    /\ open \subseteq [store : {"jobs", "tasks", "bundle"}, names : SUBSET Record]
    /\ drifted \subseteq Revision
    /\ source \in Input
    /\ profiles \subseteq Key \X Input
    /\ made \in 0 .. MaxTasks
    /\ gone \subseteq Record
    /\ work \in [Client -> Work]
    /\ faults \in 0 .. MaxFaults

Init ==
    /\ store = [jobs |-> {}, tasks |-> {}, bundle |-> {}]
    /\ unnamed = {}
    /\ past = [jobs |-> {{}}, tasks |-> {{}}]
    /\ open = {}
    /\ drifted = {}
    /\ source \in Adequate
    /\ profiles = {}
    /\ made = 0
    /\ gone = {}
    /\ work = [c \in Client |-> Idle]
    /\ faults = 0

-----------------------------------------------------------------------------
(* Chains of revisions                                                      *)

JobChain(jobs, j) == {s \in jobs : s.job = j}
JobHead(jobs, j) == CHOOSE s \in JobChain(jobs, j) : s.revision = Cardinality(JobChain(jobs, j))
JobHeads(jobs) == {JobHead(jobs, s.job) : s \in jobs}

TaskChain(tasks, t) == {s \in tasks : s.task = t}
TaskHead(tasks, t) == CHOOSE s \in TaskChain(tasks, t) : s.revision = Cardinality(TaskChain(tasks, t))
TaskHeads(tasks) == {TaskHead(tasks, s.task) : s \in tasks}
Active(tasks) == {s \in TaskHeads(tasks) : s.status \notin TaskTerminal}

(* The active revision of a bundle that has one.                            *)
ActiveRevision(bundle) == CHOOSE r \in bundle : r.number = Cardinality(bundle)

(* agent_task_chain_diagnostics and its counterpart for jobs report nothing:*)
(* revisions are contiguous, and a task and its successor name each other.  *)
Contiguous(content) ==
    /\ \A s \in content.jobs :
         LET chain == JobChain(content.jobs, s.job)
         IN  {r.revision : r \in chain} = 1 .. Cardinality(chain)
    /\ \A s \in content.tasks :
         LET chain == TaskChain(content.tasks, s.task)
         IN  {r.revision : r \in chain} = 1 .. Cardinality(chain)
Reciprocal(tasks) ==
    \A s \in tasks :
        /\ s.next # 0 => \E t \in tasks : t.task = s.next /\ t.from = s.task
        /\ s.from # 0 => \E t \in tasks : t.task = s.from /\ t.next = s.task

(* validate_bundle, where one store refers to another.                      *)
Resolves(content) ==
    /\ \A t \in content.tasks : t.applied # None => t.applied \in content.jobs
    /\ \A r \in content.bundle : TaskChain(content.tasks, r.task) # {}
    /\ \A j \in content.jobs : j.outputs \ Input \subseteq content.bundle

Valid(content) ==
    /\ Records(store) \ Records(content) \subseteq unnamed
    /\ Contiguous(content) /\ Reciprocal(content.tasks) /\ Resolves(content)

(* What a caller who promotes store s now may have read of it: what it was  *)
(* at some time, if no record is missing that an event names now.           *)
Views(s) == past[s]
Readable(s) == {view \in past[s] \cup {store'[s]} : store'[s] \ unnamed' \subseteq view}
ReadsAge == past' = [jobs |-> Readable("jobs"), tasks |-> Readable("tasks")]

-----------------------------------------------------------------------------
(* promote_bytes: store s becomes `content', with the new records `new'.    *)
Go(c, next) == work' = [work EXCEPT ![c] = next]
Done(c) == Go(c, Idle)

(* An id allocated for a record: it tells the record from equal ones before.*)
Born == Records(store) \cup gone
New(r) == [r EXCEPT !.id = Cardinality({n \in 1 .. Cardinality(gone) + 1 : [r EXCEPT !.id = n] \in Born}) + 1]

(* A journal of a store that has moved on can only be parked by recovery.   *)
Pending(s) == {p \in open : p.store # s}

Install(s, content) ==
    /\ store' = [store EXCEPT ![s] = content]
    /\ gone' = gone \cup (store[s] \ content)

(* Its process stops before the event is written.                           *)
Interrupted(c, s, new, inputs) ==
    /\ faults < MaxFaults
    /\ faults' = faults + 1
    /\ unnamed' = (unnamed \cup new) \cap Records(store')
    /\ open' = Pending(s) \cup {[store |-> s, names |-> new \cup inputs]}
    /\ Done(c)

Promote(c, s, content, new, inputs, next) ==
    /\ Valid([store EXCEPT ![s] = content])
    /\ Install(s, content)
    /\ \/ /\ unnamed' = (unnamed \ inputs) \cap Records(store')
          /\ Go(c, next)
          /\ open' = Pending(s)
          /\ UNCHANGED faults
       \/ Interrupted(c, s, new, inputs)
    /\ ReadsAge

Unwritten == <<store, unnamed, past, open, gone, faults>>

(* recover: the store still holds what the promotion wrote, and the event   *)
(* that names it is appended.                                               *)
Recover(p) ==
    /\ open' = open \ {p}
    /\ unnamed' = unnamed \ p.names
    /\ UNCHANGED <<store, gone, drifted, source, profiles, made, work, faults>>
    /\ ReadsAge

(* PipelineJobService.transition from the state a client holds; exactly the *)
(* same move made before by anybody is replayed.  What the client does next *)
(* is `at'.                                                                 *)
AllowedMove(from, to) ==
    CASE from = "created" -> to \in {"running", "waiting_source", "cancelled"}
      [] from = "running" -> to \in {"waiting_agent", "waiting_source", "completed", "cancelled"}
      [] from \in {"waiting_agent", "waiting_source"} -> to \in {"running", "cancelled"}
      [] OTHER -> FALSE

Moved(s, status, node, outputs) ==
    New([s EXCEPT !.revision = @ + 1, !.status = status, !.node = node, !.outputs = outputs])

MoveJob(c, s, status, node, outputs, at) ==
    LET intended == Moved(s, status, node, outputs)
        Next(j) == IF at = "idle" THEN Idle ELSE [work[c] EXCEPT !.at = at, !.job = j]
    IN  \E view \in Views("jobs") :
          /\ s \in view
          /\ \/ /\ s = JobHead(view, s.job)
                /\ AllowedMove(s.status, status)
                /\ s.revision < MaxRevision
                /\ Promote(c, "jobs", view \cup {intended}, {intended}, {s}, Next(intended))
             \/ LET head == JobHead(view, s.job)
                IN  /\ head = [intended EXCEPT !.id = head.id]
                    /\ Go(c, Next(head))
                    /\ UNCHANGED Unwritten
          /\ UNCHANGED <<drifted, source, profiles, made>>

-----------------------------------------------------------------------------
(* create_from_pipeline.  The task states are read first and written last.  *)
StartCreate(c, k) ==
    /\ work[c].at = "idle"
    /\ \A t \in store.tasks : t.key # k
    /\ Active(store.tasks) = {}
    /\ Go(c, [Idle EXCEPT !.at = "job", !.key = k, !.seen = store.tasks])
    /\ UNCHANGED <<Unwritten, drifted, source, profiles, made>>

(* _prepare_primary_job: the semantic job of this creation, new or not.     *)
OpenJob(c) ==
    LET k == work[c].key
        root == New([job |-> k, revision |-> 1, status |-> "created", node |-> "processing",
                     outputs |-> {}, id |-> 0])
        Next(j) == [work[c] EXCEPT !.at = "assess", !.job = j]
    IN  /\ work[c].at = "job"
        /\ \E view \in Views("jobs") :
             IF JobChain(view, k) = {}
             THEN Promote(c, "jobs", view \cup {root}, {root}, {}, Next(root))
             ELSE /\ JobHead(view, k).status \in Startable
                  /\ Go(c, Next(JobHead(view, k)))
                  /\ UNCHANGED Unwritten
        /\ UNCHANGED <<drifted, source, profiles, made>>

(* _assess_primary_operations: needs a job that is not terminal.            *)
Assess(c) ==
    LET j == work[c].job.job
    IN  /\ work[c].at = "assess"
        /\ JobChain(store.jobs, j) # {}
        /\ JobHead(store.jobs, j).status \notin JobTerminal
        /\ profiles' = profiles \cup {<<j, source>>}
        /\ Go(c, [work[c] EXCEPT !.at = "gate", !.input = source])
        /\ UNCHANGED <<Unwritten, drifted, source, made>>

(* gate: the latest current profile of the paper, whatever job it is for.   *)
Gate(c) ==
    LET allowed == source \in Adequate /\ \E k \in Key : <<k, source>> \in profiles
    IN  /\ work[c].at = "gate"
        /\ Go(c, [work[c] EXCEPT !.at = IF allowed THEN "resume" ELSE "block"])
        /\ UNCHANGED <<Unwritten, drifted, source, profiles, made>>

(* _transition_to_adequacy_wait, by way of running if the job waits.        *)
Block(c) ==
    LET j == work[c].job
        outputs == j.outputs \cup {work[c].input}
        there == j.status = "waiting_source" /\ j.node = "remediation"
    IN  \/ /\ work[c].at = "block"
           /\ there
           /\ Done(c)
           /\ UNCHANGED <<Unwritten, drifted, source, profiles, made>>
        \/ /\ work[c].at = "block"
           /\ ~there /\ j.status \in {"waiting_agent", "waiting_source"}
           /\ MoveJob(c, j, "running", "reassessed", outputs, "blocked")
        \/ /\ \/ work[c].at = "blocked"
              \/ work[c].at = "block" /\ j.status \in {"created", "running"}
           /\ MoveJob(c, j, "waiting_source", "remediation", outputs, "idle")

(* _ensure_primary_agent_wait: the job waits for the agent, and its outputs *)
(* have the profiles; again by way of running.                              *)
AwaitAgent(c) ==
    LET j == work[c].job
        outputs == j.outputs \cup {work[c].input}
        there == j.status = "waiting_agent" /\ j.node = "processing" /\ j.outputs = outputs
    IN  \/ /\ work[c].at = "resume"
           /\ there
           /\ Go(c, [work[c] EXCEPT !.at = "bind"])
           /\ UNCHANGED <<Unwritten, drifted, source, profiles, made>>
        \/ /\ work[c].at = "resume"
           /\ ~there
           /\ j.status \in Startable
           /\ MoveJob(c, j, "running", "assessed", outputs, "wait")
        \/ /\ \/ work[c].at = "wait"
              \/ work[c].at = "resume" /\ j.status = "running"
           /\ MoveJob(c, j, "waiting_agent", "processing", outputs, "bind")

(* _derive_input_basis: from a job that waits for the agent and was assessed*)
(* with the inputs as they are.                                             *)
Derivable(j) == j.status = "waiting_agent" /\ j.node = "processing" /\ <<j.job, source>> \in profiles
DerivedBasis(j) == [job |-> j, input |-> source, bundle |-> store.bundle]

Root(n, k, from, basis) ==
    [task |-> n, revision |-> 1, key |-> k, from |-> from, status |-> "created",
     basis |-> basis, next |-> 0, applied |-> None, id |-> 0]

CreateTaskUnseen(c) ==  \* Mutation: what was read at the start is not what is extended.
    LET root == Root(made + 1, work[c].key, 0, DerivedBasis(work[c].job))
    IN  /\ work[c].at = "bind" /\ work[c].task = None
        /\ Derivable(work[c].job)
        /\ made < MaxTasks
        /\ made' = made + 1
        /\ Promote(c, "tasks", store.tasks \cup {root}, {root}, {}, Idle)
        /\ UNCHANGED <<drifted, source, profiles>>

CreateTask(c) ==
    LET root == Root(made + 1, work[c].key, 0, DerivedBasis(work[c].job))
    IN  /\ work[c].at = "bind" /\ work[c].task = None
        /\ Derivable(work[c].job)
        /\ made < MaxTasks
        /\ made' = made + 1
        /\ Promote(c, "tasks", work[c].seen \cup {root}, {root}, {}, Idle)
        /\ UNCHANGED <<drifted, source, profiles>>

-----------------------------------------------------------------------------
(* One step of a task's own life, from a read of the task states; `also' is *)
(* the root of its successor.                                               *)
Step(s, status) == [s EXCEPT !.revision = @ + 1, !.status = status]

AppendStates(c, view, s, next, also) ==
    /\ Promote(c, "tasks", view \cup {New(next)} \cup also, {New(next)} \cup also, {s}, Idle)
    /\ UNCHANGED <<drifted, source, profiles>>

(* _require_current_basis                                                   *)
Current(basis) ==
    /\ JobChain(store.jobs, basis.job.job) # {}
    /\ Derivable(JobHead(store.jobs, basis.job.job))
    /\ DerivedBasis(JobHead(store.jobs, basis.job.job)) = basis

(* prepare_handoff                                                          *)
PrepareHandoff(c) ==
    /\ work[c].at = "idle"
    /\ \E view \in Views("tasks") : \E s \in TaskHeads(view) :
         /\ s.status = "created"
         /\ Current(s.basis)
         /\ AppendStates(c, view, s, Step(s, "leased"), {})
    /\ UNCHANGED made

(* submit_result, of a result the profiles support ...                      *)
SubmitResult(c) ==
    /\ work[c].at = "idle"
    /\ \E view \in Views("tasks") : \E s \in TaskHeads(view) :
         /\ s.status = "leased"
         /\ Current(s.basis)
         /\ AppendStates(c, view, s, Step(s, "submitted"), {})
    /\ UNCHANGED made

(* ... or of one that needs more than they allow: nothing is staged and the *)
(* job waits for a better source.                                           *)
SubmitBlocked(c) ==
    /\ work[c].at = "idle"
    /\ \E s \in TaskHeads(store.tasks) :
         /\ s.status = "leased"
         /\ Current(s.basis)
         /\ Go(c, [Idle EXCEPT !.at = "block", !.job = s.basis.job, !.input = s.basis.input])
    /\ UNCHANGED <<Unwritten, drifted, source, profiles, made>>

(* reject_result                                                            *)
RejectResult(c) ==
    /\ work[c].at = "idle"
    /\ \E view \in Views("tasks") : \E s \in TaskHeads(view) :
         /\ s.status = "submitted"
         /\ AppendStates(c, view, s, Step(s, "rejected"), {})
    /\ UNCHANGED made

(* request_revision: a successor bound to the inputs as they are now.       *)
RequestRevision(c) ==
    /\ work[c].at = "idle"
    /\ made < MaxTasks
    /\ made' = made + 1
    /\ \E view \in Views("tasks") : \E s \in TaskHeads(view) :
         LET j == JobHead(store.jobs, s.basis.job.job)
             ended == [Step(s, "revision_requested") EXCEPT !.next = made + 1]
         IN  /\ s.status = "submitted"
             /\ JobChain(store.jobs, s.basis.job.job) # {}
             /\ Derivable(j)
             /\ AppendStates(c, view, s, ended, {Root(made + 1, None, s.task, DerivedBasis(j))})

(* refresh_primary_task: the job is assessed again, as at creation, before  *)
(* the task is superseded by one that is bound to the inputs as they are.   *)
StartRefresh(c) ==
    /\ work[c].at = "idle"
    /\ \E s \in Active(store.tasks) :
         /\ JobChain(store.jobs, s.basis.job.job) # {}
         /\ Go(c, [Idle EXCEPT !.at = "assess", !.seen = store.tasks, !.task = s,
                               !.job = JobHead(store.jobs, s.basis.job.job)])
    /\ UNCHANGED <<Unwritten, drifted, source, profiles, made>>

SupersedeTask(c) ==
    LET s == work[c].task
        basis == DerivedBasis(work[c].job)
        ended == [Step(s, "superseded") EXCEPT !.next = made + 1]
    IN  /\ work[c].at = "bind" /\ s # None
        /\ Derivable(work[c].job)
        /\ basis # s.basis
        /\ made < MaxTasks
        /\ made' = made + 1
        /\ AppendStates(c, work[c].seen, s, ended, {Root(made + 1, None, s.task, basis)})

-----------------------------------------------------------------------------
(* approve_primary_result                                                   *)
StartApprove(c) ==
    /\ work[c].at = "idle"
    /\ \E s \in TaskHeads(store.tasks) :
         /\ s.status = "submitted"
         /\ Go(c, [Idle EXCEPT !.at = "commit", !.task = s])
    /\ UNCHANGED <<Unwritten, drifted, source, profiles, made>>

(* _commit_or_recover_primary_bundle: the active revision already is this   *)
(* task's ...                                                               *)
HasSomeRevision(s) == store.bundle # {}  \* Mutation: whose revision it is is not asked.

HasRevision(s) == store.bundle # {} /\ ActiveRevision(store.bundle).task = s.task

RecoverRevision(c) ==
    /\ work[c].at = "commit"
    /\ HasRevision(work[c].task)
    /\ Go(c, [work[c] EXCEPT !.at = "finish", !.revision = ActiveRevision(store.bundle)])
    /\ UNCHANGED <<Unwritten, drifted, source, profiles, made>>

(* ... or one is to be appended, if the bundle, the inputs and the job's    *)
(* state are what the task is bound to (_require_bound_primary_inputs).     *)
AnyBundle(basis) == TRUE  \* Mutation: the bundle's head is not compared.

SameBundle(basis) == store.bundle = basis.bundle
SameInputs(basis) ==
    /\ source = basis.input
    /\ JobChain(store.jobs, basis.job.job) # {} /\ JobHead(store.jobs, basis.job.job) = basis.job

CheckInputs(c) ==
    LET s == work[c].task
    IN  /\ work[c].at = "commit"
        /\ ~HasRevision(s)
        /\ SameBundle(s.basis) /\ SameInputs(s.basis)
        /\ Go(c, [work[c] EXCEPT !.at = "install"])
        /\ UNCHANGED <<Unwritten, drifted, source, profiles, made>>

(* Under the lock the bundle is compared again, the file is replaced, and   *)
(* then the inputs and the job are checked once more.                       *)
RevisionFromZero(s) ==  \* Mutation: revisions are counted from zero.
    New([number |-> Cardinality(store.bundle), task |-> s.task, id |-> 0])

NextRevision(s) == New([number |-> Cardinality(store.bundle) + 1, task |-> s.task, id |-> 0])

CommitRevision(c) ==
    LET s == work[c].task
        r == NextRevision(s)
    IN  /\ work[c].at = "install"
        /\ SameBundle(s.basis) /\ SameInputs(s.basis)
        /\ Promote(c, "bundle", store.bundle \cup {r}, {r}, {s},
                   [work[c] EXCEPT !.at = "finish", !.revision = r])
        /\ UNCHANGED <<drifted, source, profiles, made>>

(* If they are others by then, the journal is parked and no event recorded, *)
(* but the revision stays in the bundle.  A crash before the check leaves a *)
(* journal like any other.                                                  *)
CommitDrifts(c) ==
    LET s == work[c].task
        r == NextRevision(s)
    IN  /\ work[c].at = "install"
        /\ SameBundle(s.basis) /\ ~SameInputs(s.basis)
        /\ Valid([store EXCEPT !.bundle = @ \cup {r}])
        /\ Install("bundle", store.bundle \cup {r})
        /\ \/ /\ drifted' = drifted \cup {r}
              /\ unnamed' = unnamed \cup {r}
              /\ open' = Pending("bundle")
              /\ Done(c)
              /\ UNCHANGED faults
           \/ Interrupted(c, "bundle", {r}, {s}) /\ UNCHANGED drifted
        /\ ReadsAge
        /\ UNCHANGED <<source, profiles, made>>

(* The semantic job, as it is now: it is started if it waits, and then      *)
(* completed; or it was completed with this revision before.                *)
FinishJob(c) ==
    /\ work[c].at = "finish"
    /\ \E j \in JobHeads(store.jobs) :
         LET outputs == j.outputs \cup {work[c].revision}
         IN  /\ j.job = work[c].task.basis.job.job
             /\ \/ /\ j.status = "completed" /\ j.node = "committed" /\ work[c].revision \in j.outputs
                   /\ Go(c, [work[c] EXCEPT !.at = "decide", !.job = j])
                   /\ UNCHANGED <<Unwritten, drifted, source, profiles, made>>
                \/ j.status = "waiting_agent" /\ MoveJob(c, j, "running", "commit", outputs, "complete")
                \/ j.status # "waiting_agent" /\ MoveJob(c, j, "completed", "committed", outputs, "decide")

CompleteJob(c) ==
    LET j == work[c].job
    IN  /\ work[c].at = "complete"
        /\ MoveJob(c, j, "completed", "committed", j.outputs \cup {work[c].revision}, "decide")

(* The task states are read again; the head must still be what it was.      *)
ApproveTask(c) ==
    LET s == work[c].task
    IN  /\ work[c].at = "decide"
        /\ \E view \in Views("tasks") :
             /\ s \in TaskHeads(view)
             /\ AppendStates(c, view, s, [Step(s, "approved") EXCEPT !.applied = work[c].job], {})
        /\ UNCHANGED made

-----------------------------------------------------------------------------
(* The user cancels a semantic job.                                         *)
CancelJob(c) ==
    /\ work[c].at = "idle"
    /\ \E view \in Views("jobs") : \E s \in view :
         LET next == Moved(s, "cancelled", s.node, s.outputs)
         IN  /\ s = JobHead(view, s.job)
             /\ AllowedMove(s.status, "cancelled")
             /\ s.revision < MaxRevision
             /\ Promote(c, "jobs", view \cup {next}, {next}, {s}, Idle)
    /\ UNCHANGED <<drifted, source, profiles, made>>

(* A call ends early: something it has read is not so any more, or its next *)
(* step refuses ...                                                         *)
Outdated(c) ==
    LET w == work[c]
    IN  \/ w.job # None /\ w.job \notin JobHeads(store.jobs)
        \/ w.task # None /\ w.task \notin TaskHeads(store.tasks)
        \/ w.input # None /\ w.input # source
        \/ (w.key # None \/ w.seen # {}) /\ w.seen # store.tasks
Refused(c) ==
    LET w == work[c]
    IN  \/ w.at = "job" /\ JobChain(store.jobs, w.key) # {}
                        /\ JobHead(store.jobs, w.key).status \notin Startable
        \/ w.at = "assess" /\ w.job.status \in JobTerminal
        \/ w.at = "bind" /\ w.task # None /\ w.task.basis = DerivedBasis(w.job)
        \/ /\ w.at = "commit" /\ ~HasRevision(w.task)
           /\ ~SameBundle(w.task.basis) \/ ~SameInputs(w.task.basis)
        \/ w.at = "install" /\ ~SameBundle(w.task.basis)
        \/ /\ w.at = "finish"
           /\ \A j \in JobHeads(store.jobs) : j.job = w.task.basis.job.job => j.status \in JobTerminal

GiveUp(c) ==
    /\ work[c].at # "idle"
    /\ Outdated(c) \/ Refused(c)
    /\ Done(c)
    /\ UNCHANGED <<Unwritten, drifted, source, profiles, made>>

(* ... or the process stops between two writes.                             *)
Crash(c) ==
    /\ work[c].at # "idle"
    /\ faults < MaxFaults
    /\ faults' = faults + 1
    /\ Done(c)
    /\ UNCHANGED <<store, unnamed, past, open, gone, drifted, source, profiles, made>>

ChangeInputs ==
    /\ faults < MaxFaults
    /\ faults' = faults + 1
    /\ source' \in Input \ {source}
    /\ UNCHANGED <<store, unnamed, past, open, gone, drifted, profiles, made, work>>

CreateOrRefresh(c) ==
    \/ \E k \in Key : StartCreate(c, k)
    \/ OpenJob(c) \/ StartRefresh(c)
    \/ Assess(c) \/ Gate(c) \/ Block(c) \/ AwaitAgent(c)
    \/ CreateTask(c) \/ SupersedeTask(c)

Approve(c) ==
    \/ StartApprove(c) \/ RecoverRevision(c) \/ CheckInputs(c) \/ CommitRevision(c) \/ CommitDrifts(c)
    \/ FinishJob(c) \/ CompleteJob(c) \/ ApproveTask(c)

Next ==
    \/ \E c \in Client :
         \/ CreateOrRefresh(c) \/ Approve(c)
         \/ PrepareHandoff(c) \/ SubmitResult(c) \/ SubmitBlocked(c)
         \/ RejectResult(c) \/ RequestRevision(c)
         \/ CancelJob(c) \/ GiveUp(c) \/ Crash(c)
    \/ \E p \in open : Recover(p)
    \/ ChangeInputs

Spec == Init /\ [][Next]_vars

-----------------------------------------------------------------------------
(***************************************************************************)
(* Properties                                                               *)
(***************************************************************************)
Owner(r) == TaskChain(store.tasks, r.task)

(* "Pipeline Job already has an active Agent Task"                          *)
(* (services/agent_task_application.py:284): one at a time, however         *)
(* creations, refreshes and revisions of it interleave and crash.           *)
OneActiveTask == \A s, t \in Active(store.tasks) : s = t

(* Every revision was worked out against exactly the revisions before it:   *)
(* no correction is based on a bundle that had moved on, and no task has a  *)
(* second revision (docs/p4b-primary-semantic-bundle-implementation-plan.md *)
(* :214).                                                                   *)
RevisionFollowsItsBasis ==
    \A r \in store.bundle : \A t \in Owner(r) :
        t.basis.bundle = {q \in store.bundle : q.number < r.number}

(* _agent_task_diagnostics of an approved task: its revision is in the       *)
(* bundle, and the job state it names is there, completed where a task of    *)
(* this kind is committed, for the same job, with that revision as output.   *)
MatchingRevisions(t) == {r \in store.bundle : r.task = t.task}
AppliedWith(t, r) ==
    /\ t.applied \in store.jobs
    /\ t.applied.status = "completed" /\ t.applied.node = "committed"
    /\ t.applied.job = t.basis.job.job
    /\ r \in t.applied.outputs
(* Whatever calls overlap, crash and are repeated, Guardian has nothing to   *)
(* say of an approved task.                                                  *)
ApprovedIsApplied ==
    \A t \in {s \in store.tasks : s.status = "approved"} :
        \E r \in MatchingRevisions(t) : MatchingRevisions(t) = {r} /\ AppliedWith(t, r)

\* What Guardian reports of the bundle: revisions without a receipt.
Unreceipted == {r \in store.bundle : TaskHead(store.tasks, r.task).status # "approved"}
(* "a retry after bundle replacement completes only missing Job or Task     *)
(* state" (docs/architecture.md:629-630): the task of a revision in the     *)
(* bundle is approved or still can be.                                      *)
RevisionCanBeApproved ==
    \A r \in Unreceipted : TaskHead(store.tasks, r.task).status = "submitted"
(* "Submission and approval both fail closed when the source, Parse, ... or *)
(* semantic Job ... has changed"                                            *)
(* (docs/decisions/0034-primary-semantic-bundle-authority.md:32-34): no task*)
(* is approved with a revision that was parked because its inputs changed.  *)
DriftIsNotApproved ==
    store.bundle \cap drifted \subseteq Unreceipted
=============================================================================
