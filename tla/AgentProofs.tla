----------------------------- MODULE AgentProofs -----------------------------
(* Proofs about Agent Tasks (AgentTask), for any number of clients, of       *)
(* semantic jobs and of states of the inputs, and whatever the bounds.       *)
(* Nothing that a client holds is compared with what is canonical: what      *)
(* makes its call safe is that every content it may have read is as sound    *)
(* as the store's, that a task is bound once to a basis, and that the bundle *)
(* only grows on top of the basis it is compared with under the lock.        *)
EXTENDS AgentTask, FiniteSetTheorems, TLAPS

-----------------------------------------------------------------------------
(* What a sound content is.  A basis for every task number: what the task of *)
(* that number is bound to, wherever one of its states is, in the store, in  *)
(* an older content or in a client's hands.                                  *)
BasisOf == [Nat \ {0} -> Basis \cup {None}]

(* A state of one of the first n tasks.  If it is approved, its job was      *)
(* completed with a revision of its own in the bundle.                       *)
TaskSound(t, basis, n, bundle) ==
    /\ t \in TaskState /\ t.task <= n /\ t.basis = basis[t.task]
    /\ t.status = "approved" =>
         /\ t.applied \in JobState
         /\ t.applied.status = "completed" /\ t.applied.node = "committed"
         /\ t.applied.job = t.basis.job.job
         /\ \E r \in bundle : r.task = t.task /\ r \in t.applied.outputs

Numbered(chain) == {r.revision : r \in chain} = 1 .. Cardinality(chain)
TasksChained(tasks) == \A s \in tasks : Numbered(TaskChain(tasks, s.task))
JobsChained(jobs) == \A s \in jobs : Numbered(JobChain(jobs, s.job))

TasksSound(tasks, basis, n, bundle) ==
    /\ IsFiniteSet(tasks) /\ TasksChained(tasks)
    /\ \A t \in tasks : TaskSound(t, basis, n, bundle)
    /\ \A s, t \in Active(tasks) : s = t

JobsSound(jobs) == IsFiniteSet(jobs) /\ jobs \subseteq JobState /\ JobsChained(jobs)

(* The bundle's revisions are numbered through, and each was worked out      *)
(* against those before it.                                                  *)
BundleSound(basis, n, bundle) ==
    /\ IsFiniteSet(bundle) /\ bundle \subseteq Revision
    /\ \A q, r \in bundle : q.number = r.number => q = r
    /\ \A r \in bundle :
         /\ r.number <= Cardinality(bundle) /\ r.task <= n
         /\ basis[r.task].bundle = {q \in bundle : q.number < r.number}

(* What a client holds at each place of its call.                            *)
Approving == {"commit", "install", "finish", "complete", "decide"}
Assessing == {"gate", "resume", "wait", "bind", "block", "blocked"}
WorkSound(w, basis, n, bundle) ==
    /\ w \in Work
    /\ TasksSound(w.seen, basis, n, bundle)
    /\ w.task # None => TaskSound(w.task, basis, n, bundle)
    /\ w.at \in Approving => w.task # None /\ w.task.status = "submitted" /\ w.seen = {}
    /\ w.at \notin Approving => Active(w.seen) = {w.task} \ {None}
    /\ w.at = "job" => w.key # None
    /\ w.at \in Assessing \cup {"assess", "complete", "decide"} => w.job # None
    /\ w.at \in Assessing => w.input # None
    /\ w.at \in {"finish", "complete", "decide"} =>
         w.revision \in bundle /\ w.revision.task = w.task.task
    /\ w.at \in {"complete", "decide"} => w.job.job = w.task.basis.job.job
    /\ w.at = "decide" =>
         w.job.status = "completed" /\ w.job.node = "committed" /\ w.revision \in w.job.outputs

AgentSound(basis) ==
    /\ \A tasks \in past.tasks \cup {store.tasks} : TasksSound(tasks, basis, made, store.bundle)
    /\ \A jobs \in past.jobs \cup {store.jobs} : JobsSound(jobs)
    /\ BundleSound(basis, made, store.bundle)
    /\ \A c \in Client : WorkSound(work[c], basis, made, store.bundle)

AgentInv ==
    /\ AgentTypeOK /\ IsFiniteSet(gone) /\ Resolves(store)
    /\ \E basis \in BasisOf : AgentSound(basis)

-----------------------------------------------------------------------------
(* Chains: numbered 1, 2, ... as many as there are, states have distinct     *)
(* numbers, and one has the last.                                            *)
LEMMA ChainFacts ==
    ASSUME NEW chain, IsFiniteSet(chain), Numbered(chain)
    PROVE  /\ Cardinality(chain) \in Nat
           /\ \A q, r \in chain : q.revision = r.revision => q = r
           /\ \A r \in chain : r.revision \in 1 .. Cardinality(chain)
           /\ chain # {} => \E r \in chain : r.revision = Cardinality(chain)
<1> DEFINE n == Cardinality(chain)
           f == [r \in chain |-> r.revision]
<1>1. n \in Nat
  BY FS_CardinalityType
<1>2. f \in Surjection(chain, 1 .. n)
  BY DEF Surjection, Numbered
<1>3. Cardinality(1 .. n) = n
  BY <1>1, FS_Interval
<1>4. f \in Injection(chain, 1 .. n)
  BY <1>2, <1>3, FS_SurjSameCardinalityImpliesInj
<1>5. \A q, r \in chain : q.revision = r.revision => f[q] = f[r]
  OBVIOUS
<1>6. \A q, r \in chain : q.revision = r.revision => q = r
  BY <1>4, <1>5 DEF Injection, IsInjective
<1>7. chain # {} => n >= 1
  BY <1>1, FS_EmptySet
<1> QED  BY <1>1, <1>6, <1>7 DEF Numbered

(* The head of a task that is in a chained set, and of a job.                *)
LEMMA TaskHeadIn ==
    ASSUME NEW tasks, IsFiniteSet(tasks), TasksChained(tasks), NEW t,
           TaskChain(tasks, t) # {}
    PROVE  /\ TaskHead(tasks, t) \in tasks /\ TaskHead(tasks, t).task = t
           /\ Cardinality(TaskChain(tasks, t)) \in Nat
           /\ TaskHead(tasks, t).revision = Cardinality(TaskChain(tasks, t))
           /\ \A h \in TaskChain(tasks, t) :
                h.revision = Cardinality(TaskChain(tasks, t)) => TaskHead(tasks, t) = h
<1> DEFINE chain == TaskChain(tasks, t)
<1>1. IsFiniteSet(chain)
  BY FS_Subset DEF TaskChain
<1>2. Numbered(chain)
  <2>1. PICK s \in tasks : s.task = t
    BY DEF TaskChain
  <2> QED  BY <2>1 DEF TasksChained
<1>3. \E r \in chain : r.revision = Cardinality(chain)
  BY <1>1, <1>2, ChainFacts
<1>4. TaskHead(tasks, t) \in chain /\ TaskHead(tasks, t).revision = Cardinality(chain)
  BY <1>3 DEF TaskHead
<1> QED  BY <1>1, <1>2, <1>4, ChainFacts DEF TaskChain

(* The head of a chain of job states is a state of that job.                 *)
LEMMA JobHeadIn ==
    ASSUME NEW jobs, JobsSound(jobs), NEW j, JobChain(jobs, j) # {}
    PROVE  JobHead(jobs, j) \in jobs /\ JobHead(jobs, j) \in JobState /\ JobHead(jobs, j).job = j
<1> DEFINE chain == JobChain(jobs, j)
<1>1. IsFiniteSet(chain)
  BY FS_Subset DEF JobChain, JobsSound
<1>2. Numbered(chain)
  <2>1. PICK s \in jobs : s.job = j
    BY DEF JobChain
  <2> QED  BY <2>1 DEF JobsChained, JobsSound
<1>3. \E r \in chain : r.revision = Cardinality(chain)
  BY <1>1, <1>2, ChainFacts
<1>4. JobHead(jobs, j) \in chain
  BY <1>3 DEF JobHead
<1> QED  BY <1>4 DEF JobChain, JobsSound

(* The head of a task's chain is a state of the task, numbered by the        *)
(* chain's length.                                                           *)
LEMMA HeadsIn ==
    ASSUME NEW tasks, IsFiniteSet(tasks), TasksChained(tasks), NEW h \in TaskHeads(tasks)
    PROVE  /\ h \in tasks /\ h = TaskHead(tasks, h.task)
           /\ Cardinality(TaskChain(tasks, h.task)) \in Nat
           /\ h.revision = Cardinality(TaskChain(tasks, h.task))
<1>1. PICK s \in tasks : h = TaskHead(tasks, s.task)
  BY DEF TaskHeads
<1>2. TaskChain(tasks, s.task) # {}
  BY DEF TaskChain
<1> QED  BY <1>1, <1>2, TaskHeadIn

-----------------------------------------------------------------------------
(* What a promotion adds to a sound content.  A state is added to one of its *)
(* tasks: then the state is its head, and every other head is what it was.   *)
LEMMA NextIsHead ==
    ASSUME NEW view, IsFiniteSet(view), TasksChained(view), NEW s \in TaskHeads(view),
           NEW next, next.task = s.task, next.revision = s.revision + 1
    PROVE  LET content == view \cup {next}
           IN  /\ IsFiniteSet(content) /\ TasksChained(content)
               /\ TaskHead(content, s.task) = next
               /\ \A t : t # s.task => TaskChain(content, t) = TaskChain(view, t)
<1> DEFINE content == view \cup {next}
           old == TaskChain(view, s.task)
           new == TaskChain(content, s.task)
<1>1. IsFiniteSet(content)
  BY FS_AddElement
<1>2. s \in view /\ Cardinality(old) \in Nat /\ s.revision = Cardinality(old)
  BY HeadsIn
<1>3. Numbered(old) /\ IsFiniteSet(old)
  BY <1>2, FS_Subset DEF TasksChained, TaskChain
<1>4. new = old \cup {next}
  BY DEF TaskChain
<1>5. next \notin old
  BY <1>2, <1>3 DEF Numbered
<1>6. Cardinality(new) = Cardinality(old) + 1
  BY <1>3, <1>4, <1>5, FS_AddElement
<1>7. Numbered(new)
  <2>1. {r.revision : r \in new} = {r.revision : r \in old} \cup {next.revision}
    BY <1>4
  <2>2. {r.revision : r \in new} = (1 .. Cardinality(old)) \cup {Cardinality(old) + 1}
    BY <1>2, <1>3, <2>1 DEF Numbered
  <2>3. (1 .. Cardinality(old)) \cup {Cardinality(old) + 1} = 1 .. (Cardinality(old) + 1)
    BY <1>2
  <2> QED  BY <1>6, <2>2, <2>3 DEF Numbered
<1>8. \A t : t # s.task => TaskChain(content, t) = TaskChain(view, t)
  BY DEF TaskChain
<1>9. TasksChained(content)
  <2> SUFFICES ASSUME NEW q \in content PROVE Numbered(TaskChain(content, q.task))
    BY DEF TasksChained
  <2>1. CASE q.task = s.task
    BY <1>7, <2>1
  <2>2. CASE q.task # s.task
    BY <1>8, <2>2 DEF TasksChained
  <2> QED  BY <2>1, <2>2
<1>10. TaskHead(content, s.task) = next
  <2>1. next \in new /\ next.revision = Cardinality(new)
    BY <1>2, <1>4, <1>6
  <2> QED  BY <1>1, <1>9, <2>1, TaskHeadIn
<1> QED  BY <1>1, <1>8, <1>9, <1>10

(* The first state of a task is added: it is the head.                       *)
LEMMA RootIsHead ==
    ASSUME NEW view, IsFiniteSet(view), TasksChained(view), NEW root,
           root.revision = 1, \A s \in view : s.task # root.task
    PROVE  LET content == view \cup {root}
           IN  /\ IsFiniteSet(content) /\ TasksChained(content)
               /\ TaskHead(content, root.task) = root
               /\ \A t : t # root.task => TaskChain(content, t) = TaskChain(view, t)
<1> DEFINE content == view \cup {root}
           new == TaskChain(content, root.task)
<1>1. IsFiniteSet(content)
  BY FS_AddElement
<1>2. new = {root}
  BY DEF TaskChain
<1>3. Cardinality(new) = 1
  BY <1>2, FS_Singleton
<1>4. {r.revision : r \in new} = {1}
  BY <1>2
<1>5. Numbered(new)
  BY <1>3, <1>4 DEF Numbered
<1>6. \A t : t # root.task => TaskChain(content, t) = TaskChain(view, t)
  BY DEF TaskChain
<1>7. TasksChained(content)
  <2> SUFFICES ASSUME NEW q \in content PROVE Numbered(TaskChain(content, q.task))
    BY DEF TasksChained
  <2>1. CASE q.task = root.task
    BY <1>5, <2>1
  <2>2. CASE q.task # root.task
    BY <1>6, <2>2 DEF TasksChained
  <2> QED  BY <2>1, <2>2
<1>8. TaskHead(content, root.task) = root
  BY <1>1, <1>2, <1>3, <1>7, TaskHeadIn
<1> QED  BY <1>1, <1>6, <1>7, <1>8

(* An active task is that of an active state: it is a head, and not ended.   *)
LEMMA ActiveIs ==
    ASSUME NEW tasks, NEW h
    PROVE  h \in Active(tasks) <=>
             /\ h.status \notin TaskTerminal
             /\ \E s \in tasks : h = TaskHead(tasks, s.task)
BY DEF Active, TaskHeads

(* A set that agrees with a view on the chains of all tasks but one has no   *)
(* other active tasks than the view has, but for that one's head.            *)
LEMMA ActiveAfter ==
    ASSUME NEW view, NEW content, NEW n,
           \A t : t # n => TaskChain(content, t) = TaskChain(view, t)
    PROVE  \A h \in Active(content) : h \in Active(view) \/ h = TaskHead(content, n)
<1> SUFFICES ASSUME NEW h \in Active(content), h # TaskHead(content, n)
             PROVE  h \in Active(view)
  OBVIOUS
<1>1. PICK s \in content : h = TaskHead(content, s.task)
  BY ActiveIs
<1>2. s.task # n /\ s \in TaskChain(content, s.task)
  BY <1>1 DEF TaskChain
<1>3. s \in view /\ TaskHead(view, s.task) = TaskHead(content, s.task)
  BY <1>2 DEF TaskChain, TaskHead
<1> QED  BY <1>1, <1>3, ActiveIs

(* One state more, of the active task s or of none that is: at most one task *)
(* is active after it as before, and none but that one is.                   *)
LEMMA StepStaysSound ==
    ASSUME NEW view, NEW basis, NEW n, NEW bundle, TasksSound(view, basis, n, bundle),
           NEW s \in TaskHeads(view), s.status \notin TaskTerminal,
           NEW next, TaskSound(next, basis, n, bundle),
           next.task = s.task, next.revision = s.revision + 1
    PROVE  /\ TasksSound(view \cup {next}, basis, n, bundle)
           /\ Active(view \cup {next}) \subseteq {next}
           /\ next.status \in TaskTerminal => Active(view \cup {next}) = {}
<1> DEFINE content == view \cup {next}
<1>1. /\ IsFiniteSet(content) /\ TasksChained(content)
      /\ TaskHead(content, s.task) = next
      /\ \A t : t # s.task => TaskChain(content, t) = TaskChain(view, t)
  BY NextIsHead DEF TasksSound
<1>2. s \in Active(view) /\ s \in view
  BY HeadsIn DEF Active, TasksSound
<1>3. \A h \in Active(content) : h = next
  <2> SUFFICES ASSUME NEW h \in Active(content), h # next PROVE FALSE
    OBVIOUS
  <2>1. h = s
    BY <1>1, <1>2, ActiveAfter DEF TasksSound
  <2>2. PICK q \in content : h = TaskHead(content, q.task)
    BY ActiveIs
  <2>3. TaskChain(content, q.task) # {}
    BY DEF TaskChain
  <2>4. h.task = q.task
    BY <1>1, <2>2, <2>3, TaskHeadIn
  <2> QED  BY <1>1, <2>1, <2>2, <2>4
<1>4. next.status \in TaskTerminal => Active(content) = {}
  BY <1>3, ActiveIs
<1>5. \A t \in content : TaskSound(t, basis, n, bundle)
  BY DEF TasksSound
<1> QED  BY <1>1, <1>3, <1>4, <1>5 DEF TasksSound

(* The first state of a task, where no other is active.                      *)
LEMMA RootStaysSound ==
    ASSUME NEW view, NEW basis, NEW n, NEW bundle, TasksSound(view, basis, n, bundle),
           Active(view) = {}, NEW root, TaskSound(root, basis, n, bundle), root.revision = 1,
           \A s \in view : s.task # root.task
    PROVE  TasksSound(view \cup {root}, basis, n, bundle)
<1> DEFINE content == view \cup {root}
<1>1. /\ IsFiniteSet(content) /\ TasksChained(content)
      /\ TaskHead(content, root.task) = root
      /\ \A t : t # root.task => TaskChain(content, t) = TaskChain(view, t)
  BY RootIsHead DEF TasksSound
<1>2. \A h \in Active(content) : h = root
  BY <1>1, ActiveAfter
<1>3. \A t \in content : TaskSound(t, basis, n, bundle)
  BY DEF TasksSound
<1> QED  BY <1>1, <1>2, <1>3 DEF TasksSound

(* A store without tasks is sound.                                           *)
LEMMA NoTasksAreSound ==
    ASSUME NEW basis, NEW n, NEW bundle
    PROVE  TasksSound({}, basis, n, bundle) /\ Active({}) = {}
<1>1. IsFiniteSet({})
  BY FS_EmptySet
<1> QED  BY <1>1 DEF TasksSound, TasksChained, Active, TaskHeads

-----------------------------------------------------------------------------
(* What is sound stays so when tasks are created and the bundle grows.       *)
Grown(basis, n, bundle, basis2, n2, bundle2) ==
    /\ n \in Nat /\ n2 \in Nat /\ n <= n2
    /\ bundle \subseteq bundle2
    /\ \A i \in 1 .. n : basis2[i] = basis[i]

(* A task state keeps to the basis its task was created on.                  *)
LEMMA TaskStays ==
    ASSUME NEW basis, NEW n, NEW bundle, NEW basis2, NEW n2, NEW bundle2,
           Grown(basis, n, bundle, basis2, n2, bundle2), NEW t, TaskSound(t, basis, n, bundle)
    PROVE  TaskSound(t, basis2, n2, bundle2)
<1>1. t.task \in 1 .. n /\ t.task <= n2
  BY DEF Grown, TaskSound, TaskState
<1>2. t.basis = basis2[t.task]
  BY <1>1 DEF Grown, TaskSound
<1> QED  BY <1>1, <1>2 DEF Grown, TaskSound

(* So does every state of a set of them.                                     *)
LEMMA TasksStay ==
    ASSUME NEW basis, NEW n, NEW bundle, NEW basis2, NEW n2, NEW bundle2,
           Grown(basis, n, bundle, basis2, n2, bundle2),
           NEW tasks, TasksSound(tasks, basis, n, bundle)
    PROVE  TasksSound(tasks, basis2, n2, bundle2)
<1>1. \A t \in tasks : TaskSound(t, basis2, n2, bundle2)
  BY TaskStays DEF TasksSound
<1> QED  BY <1>1 DEF TasksSound

(* What a client has in hand stays sound as the bundle and the tasks grow.   *)
LEMMA WorkStays ==
    ASSUME NEW basis, NEW n, NEW bundle, NEW basis2, NEW n2, NEW bundle2,
           Grown(basis, n, bundle, basis2, n2, bundle2), NEW w, WorkSound(w, basis, n, bundle)
    PROVE  WorkSound(w, basis2, n2, bundle2)
<1>1. TasksSound(w.seen, basis2, n2, bundle2)
  BY TasksStay DEF WorkSound
<1>2. w.task # None => TaskSound(w.task, basis2, n2, bundle2)
  BY TaskStays DEF WorkSound
<1>3. w.at \in {"finish", "complete", "decide"} =>
        w.revision \in bundle2 /\ w.revision.task = w.task.task
  BY DEF WorkSound, Grown
<1> QED  BY <1>1, <1>2, <1>3 DEF WorkSound

(* A client that holds nothing is sound.                                     *)
LEMMA IdleIsSound ==
    ASSUME NEW basis, NEW n, NEW bundle
    PROVE  WorkSound(Idle, basis, n, bundle)
<1>1. Idle \in Work
  BY DEF Idle, Work, Place
<1>2. /\ Idle.seen = {} /\ Idle.task = None /\ Idle.at = "idle"
  BY DEF Idle
<1> QED  BY <1>1, <1>2, NoTasksAreSound DEF WorkSound, Approving, Assessing

(* An id makes no difference to what a record says.                          *)
LEMMA NewKeeps ==
    ASSUME IsFiniteSet(gone)
    PROVE  /\ \A j \in JobState : New(j) \in JobState /\ New(j) = [j EXCEPT !.id = New(j).id]
           /\ \A t \in TaskState : New(t) \in TaskState /\ New(t) = [t EXCEPT !.id = New(t).id]
           /\ \A r \in Revision : New(r) \in Revision /\ New(r) = [r EXCEPT !.id = New(r).id]
<1>1. \A r : \E id \in Nat : New(r) = [r EXCEPT !.id = id]
  <2> SUFFICES ASSUME NEW r PROVE \E id \in Nat : New(r) = [r EXCEPT !.id = id]
    OBVIOUS
  <2> DEFINE taken == {n \in 1 .. Cardinality(gone) + 1 : [r EXCEPT !.id = n] \in Born}
  <2>1. Cardinality(gone) \in Nat
    BY FS_CardinalityType
  <2>2. IsFiniteSet(1 .. Cardinality(gone) + 1)
    BY <2>1, FS_Interval
  <2>3. IsFiniteSet(taken)
    BY <2>2, FS_Subset
  <2>4. Cardinality(taken) + 1 \in Nat
    BY <2>3, FS_CardinalityType
  <2> QED  BY <2>4 DEF New
<1>2. ASSUME NEW j \in JobState
      PROVE  New(j) \in JobState /\ New(j) = [j EXCEPT !.id = New(j).id]
  <2>1. PICK id \in Nat : New(j) = [j EXCEPT !.id = id]
    BY <1>1
  <2> QED  BY <2>1 DEF JobState
<1>3. ASSUME NEW t \in TaskState
      PROVE  New(t) \in TaskState /\ New(t) = [t EXCEPT !.id = New(t).id]
  <2>1. PICK id \in Nat : New(t) = [t EXCEPT !.id = id]
    BY <1>1
  <2> QED  BY <2>1 DEF TaskState
<1>4. ASSUME NEW r \in Revision
      PROVE  New(r) \in Revision /\ New(r) = [r EXCEPT !.id = New(r).id]
  <2>1. PICK id \in Nat : New(r) = [r EXCEPT !.id = id]
    BY <1>1
  <2> QED  BY <2>1 DEF Revision
<1> QED  BY <1>2, <1>3, <1>4

(* A fresh id changes no field of a job state that a decision reads.         *)
LEMMA NewJob ==
    ASSUME IsFiniteSet(gone), NEW j \in JobState
    PROVE  /\ New(j) \in JobState /\ New(j).job = j.job /\ New(j).status = j.status
           /\ New(j).node = j.node /\ New(j).outputs = j.outputs /\ New(j).revision = j.revision
<1>1. New(j) \in JobState /\ New(j) = [j EXCEPT !.id = New(j).id]
  BY NewKeeps
<1> DEFINE i == New(j).id
<1>2. New(j) = [j EXCEPT !.id = i]
  BY <1>1
<1> HIDE DEF i
<1> QED  BY <1>1, <1>2 DEF JobState

(* Nor of a task state.                                                      *)
LEMMA NewTask ==
    ASSUME IsFiniteSet(gone), NEW t \in TaskState
    PROVE  /\ New(t) \in TaskState /\ New(t).task = t.task /\ New(t).status = t.status
           /\ New(t).revision = t.revision /\ New(t).basis = t.basis /\ New(t).applied = t.applied
<1>1. New(t) \in TaskState /\ New(t) = [t EXCEPT !.id = New(t).id]
  BY NewKeeps
<1> DEFINE i == New(t).id
<1>2. New(t) = [t EXCEPT !.id = i]
  BY <1>1
<1> HIDE DEF i
<1> QED  BY <1>1, <1>2 DEF TaskState

(* Nor of a revision of the bundle.                                          *)
LEMMA NewRevision ==
    ASSUME IsFiniteSet(gone), NEW r \in Revision
    PROVE  New(r) \in Revision /\ New(r).number = r.number /\ New(r).task = r.task
<1>1. New(r) \in Revision /\ New(r) = [r EXCEPT !.id = New(r).id]
  BY NewKeeps
<1> DEFINE i == New(r).id
<1>2. New(r) = [r EXCEPT !.id = i]
  BY <1>1
<1> HIDE DEF i
<1> QED  BY <1>1, <1>2 DEF Revision

-----------------------------------------------------------------------------
(* What a promotion does to everything but the content of its store.         *)
Stores == [jobs : SUBSET JobState, tasks : SUBSET TaskState, bundle : SUBSET Revision]
Pasts == [jobs : SUBSET SUBSET JobState, tasks : SUBSET SUBSET TaskState]
Opens == [store : {"jobs", "tasks", "bundle"}, names : SUBSET Record]

(* The store's three files hold finitely many records.                       *)
LEMMA ContentsFinite ==
    ASSUME NEW basis, AgentSound(basis)
    PROVE  IsFiniteSet(store.jobs) /\ IsFiniteSet(store.tasks) /\ IsFiniteSet(store.bundle)
BY DEF AgentSound, TasksSound, JobsSound, BundleSound

(* Replacing one file by content that has its type yields a store of its     *)
(* type, whose chains and references the validation has accepted.            *)
LEMMA InstallDoes ==
    ASSUME AgentTypeOK, IsFiniteSet(gone), NEW s \in {"jobs", "tasks", "bundle"}, NEW content,
           [store EXCEPT ![s] = content] \in Stores, IsFiniteSet(store[s]),
           Valid([store EXCEPT ![s] = content]), Install(s, content)
    PROVE  /\ store' = [store EXCEPT ![s] = content] /\ store' \in Stores
           /\ Contiguous(store') /\ Resolves(store')
           /\ gone' \subseteq Record /\ IsFiniteSet(gone')
<1>1. store' = [store EXCEPT ![s] = content]
  BY DEF Install
<1>2. Contiguous(store') /\ Resolves(store')
  BY <1>1 DEF Valid
<1>3. gone' = gone \cup (store[s] \ content)
  BY DEF Install
<1>4. gone' \subseteq Record
  <2>1. store[s] \subseteq Record /\ gone \subseteq Record
    BY DEF AgentTypeOK, Record
  <2> QED  BY <1>3, <2>1
<1>5. IsFiniteSet(store[s] \ content)
  BY FS_Subset
<1>6. IsFiniteSet(gone')
  BY <1>3, <1>5, FS_Union
<1> QED  BY <1>1, <1>2, <1>4, <1>6

(* The contents that may be read later are those that could be read before,  *)
(* and the present one.                                                      *)
LEMMA PastAges ==
    ASSUME ReadsAge
    PROVE  /\ past' = [jobs |-> past'.jobs, tasks |-> past'.tasks]
           /\ \A view \in past'.jobs : view \in past.jobs \/ view = store'.jobs
           /\ \A view \in past'.tasks : view \in past.tasks \/ view = store'.tasks
<1>1. past' = [jobs |-> Readable("jobs"), tasks |-> Readable("tasks")]
  BY DEF ReadsAge
<1>2. past'.jobs = Readable("jobs") /\ past'.tasks = Readable("tasks")
  BY <1>1
<1>3. \A s : \A view \in Readable(s) : view \in past[s] \/ view = store'[s]
  BY DEF Readable
<1> QED  BY <1>1, <1>2, <1>3

(* They keep their type.                                                     *)
LEMMA PastHasItsType ==
    ASSUME AgentTypeOK, ReadsAge, store' \in Stores
    PROVE  past' \in Pasts
<1>1. /\ past' = [jobs |-> past'.jobs, tasks |-> past'.tasks]
      /\ \A view \in past'.jobs : view \in past.jobs \/ view = store'.jobs
      /\ \A view \in past'.tasks : view \in past.tasks \/ view = store'.tasks
  BY PastAges
<1>2. past.jobs \subseteq SUBSET JobState /\ past.tasks \subseteq SUBSET TaskState
  BY DEF AgentTypeOK
<1>3. store'.jobs \in SUBSET JobState /\ store'.tasks \in SUBSET TaskState
  BY DEF Stores
<1>4. past'.jobs \subseteq SUBSET JobState
  BY <1>1, <1>2, <1>3
<1>5. past'.tasks \subseteq SUBSET TaskState
  BY <1>1, <1>2, <1>3
<1> QED  BY <1>1, <1>4, <1>5 DEF Pasts

(* A promotion that is interrupted leaves the client idle and one journal    *)
(* open.                                                                     *)
LEMMA InterruptionLeaves ==
    ASSUME AgentTypeOK, NEW c \in Client, NEW s \in {"jobs", "tasks", "bundle"},
           NEW new \in SUBSET Record, NEW inputs \in SUBSET Record,
           Interrupted(c, s, new, inputs)
    PROVE  /\ faults' \in 0 .. MaxFaults /\ unnamed' \subseteq Records(store')
           /\ open' \subseteq Opens /\ Go(c, Idle)
<1>1. faults' \in 0 .. MaxFaults
  BY BoundAssumption DEF Interrupted, AgentTypeOK
<1>2. unnamed' \subseteq Records(store')
  BY DEF Interrupted
<1> DEFINE journal == [store |-> s, names |-> new \cup inputs]
<1>3. journal \in Opens
  BY DEF Opens
<1>4. open' = {p \in open : p.store # s} \cup {journal} /\ open \subseteq Opens
  BY DEF Interrupted, Pending, AgentTypeOK, Opens
<1> HIDE DEF journal
<1>5. open' \subseteq Opens
  BY <1>3, <1>4
<1> QED  BY <1>1, <1>2, <1>5 DEF Interrupted, Done

(* A promotion, completed or interrupted after its replacement, has written  *)
(* exactly the content it was given.                                         *)
LEMMA PromoteDoes ==
    ASSUME AgentTypeOK, IsFiniteSet(gone), NEW c \in Client,
           NEW s \in {"jobs", "tasks", "bundle"}, NEW content,
           [store EXCEPT ![s] = content] \in Stores, IsFiniteSet(store[s]),
           NEW new \in SUBSET Record, NEW inputs \in SUBSET Record, NEW next,
           Promote(c, s, content, new, inputs, next)
    PROVE  /\ store' = [store EXCEPT ![s] = content] /\ store' \in Stores
           /\ Contiguous(store') /\ Resolves(store')
           /\ unnamed' \subseteq Records(store') /\ open' \subseteq Opens
           /\ gone' \subseteq Record /\ IsFiniteSet(gone') /\ faults' \in 0 .. MaxFaults
           /\ past' \in Pasts /\ ReadsAge
           /\ Go(c, next) \/ Go(c, Idle)
<1>1. /\ store' = [store EXCEPT ![s] = content] /\ store' \in Stores
      /\ Contiguous(store') /\ Resolves(store')
      /\ gone' \subseteq Record /\ IsFiniteSet(gone')
  BY InstallDoes DEF Promote
<1>2. past' \in Pasts /\ ReadsAge
  BY <1>1, PastHasItsType DEF Promote
<1>3. CASE Interrupted(c, s, new, inputs)
  BY <1>1, <1>2, <1>3, InterruptionLeaves
<1>4. CASE /\ unnamed' = (unnamed \ inputs) \cap Records(store')
           /\ Go(c, next) /\ open' = Pending(s) /\ UNCHANGED faults
  BY <1>1, <1>2, <1>4 DEF Pending, AgentTypeOK, Opens
<1> QED  BY <1>3, <1>4 DEF Promote

-----------------------------------------------------------------------------
(* A step that writes nothing: a client goes on with what is sound.          *)
LEMMA MovesOn ==
    ASSUME AgentInv, NEW c \in Client, NEW w,
           \A basis \in BasisOf : AgentSound(basis) => WorkSound(w, basis, made, store.bundle),
           work' = [work EXCEPT ![c] = w],
           UNCHANGED <<store, unnamed, past, open, gone, made, drifted>>,
           profiles' \subseteq Key \X Input, source' \in Input, faults' \in 0 .. MaxFaults
    PROVE  AgentInv'
<1>1. PICK basis \in BasisOf : AgentSound(basis)
  BY DEF AgentInv
<1>2. WorkSound(w, basis, made, store.bundle) /\ w \in Work
  BY <1>1 DEF WorkSound
<1>3. \A d \in Client : work'[d] = IF d = c THEN w ELSE work[d]
  BY DEF AgentInv, AgentTypeOK
<1>4. \A d \in Client : WorkSound(work'[d], basis, made, store.bundle)
  BY <1>1, <1>2, <1>3 DEF AgentSound
<1>5. AgentSound(basis)'
  BY <1>1, <1>4 DEF AgentSound
<1>6. work' \in [Client -> Work]
  BY <1>2 DEF AgentInv, AgentTypeOK
<1>7. AgentTypeOK'
  BY <1>6 DEF AgentInv, AgentTypeOK
<1> QED  BY <1>1, <1>5, <1>7 DEF AgentInv

(* A promotion of the jobs.                                                  *)
LEMMA JobsWritten ==
    ASSUME AgentInv, NEW c \in Client, NEW view \in past.jobs, NEW new \in JobState,
           NEW inputs \in SUBSET JobState, NEW next,
           \A basis \in BasisOf : AgentSound(basis) => WorkSound(next, basis, made, store.bundle),
           Promote(c, "jobs", view \cup {new}, {new}, inputs, next),
           UNCHANGED <<drifted, source, profiles, made>>
    PROVE  AgentInv'
<1>1. PICK basis \in BasisOf : AgentSound(basis)
  BY DEF AgentInv
<1> DEFINE content == view \cup {new}
<1>2. JobsSound(view)
  BY <1>1 DEF AgentSound
<1>3. content \subseteq JobState /\ IsFiniteSet(content)
  BY <1>2, FS_AddElement DEF JobsSound
<1>4. store \in Stores /\ AgentTypeOK /\ IsFiniteSet(gone)
  BY DEF AgentInv, AgentTypeOK, Stores
<1>5. [store EXCEPT !.jobs = content] \in Stores
  BY <1>3, <1>4 DEF Stores
<1>6. {new} \in SUBSET Record /\ inputs \in SUBSET Record /\ IsFiniteSet(store["jobs"])
  BY <1>1, ContentsFinite DEF Record
<1>7. /\ store' = [store EXCEPT !.jobs = content] /\ store' \in Stores
      /\ Contiguous(store') /\ Resolves(store')
      /\ unnamed' \subseteq Records(store') /\ open' \subseteq Opens
      /\ gone' \subseteq Record /\ IsFiniteSet(gone') /\ faults' \in 0 .. MaxFaults
      /\ past' \in Pasts /\ ReadsAge
      /\ Go(c, next) \/ Go(c, Idle)
  <2>1. "jobs" \in {"jobs", "tasks", "bundle"}
    OBVIOUS
  <2>2. Promote(c, "jobs", content, {new}, inputs, next)
    OBVIOUS
  <2> HIDE DEF content
  <2> QED  BY <1>4, <1>5, <1>6, <2>1, <2>2, PromoteDoes
<1> HIDE DEF content
<1>8. store'.jobs = content /\ store'.tasks = store.tasks /\ store'.bundle = store.bundle
  BY <1>4, <1>7 DEF Stores
<1>9. JobsSound(content)
  <2>1. \A q \in content : Numbered(JobChain(content, q.job))
    BY <1>7, <1>8 DEF Contiguous, Numbered
  <2> QED  BY <1>3, <2>1 DEF JobsSound, JobsChained
<1>10. PICK w \in {next, Idle} : work' = [work EXCEPT ![c] = w]
  BY <1>7 DEF Go
<1>11. WorkSound(w, basis, made, store.bundle)
  BY <1>1, IdleIsSound
<1>12. \A d \in Client : work'[d] = IF d = c THEN w ELSE work[d]
  BY <1>10 DEF AgentInv, AgentTypeOK
<1>13. \A d \in Client : WorkSound(work'[d], basis, made, store.bundle)
  BY <1>1, <1>11, <1>12 DEF AgentSound
<1>14. AgentSound(basis)'
  <2>1. \A jobs \in past'.jobs \cup {store'.jobs} : JobsSound(jobs)
    BY <1>1, <1>7, <1>8, <1>9, PastAges DEF AgentSound
  <2>2. \A tasks \in past'.tasks \cup {store'.tasks} : TasksSound(tasks, basis, made,
          store.bundle)
    BY <1>1, <1>7, <1>8, PastAges DEF AgentSound
  <2> QED  BY <1>1, <1>8, <1>13, <2>1, <2>2 DEF AgentSound
<1>15. work' \in [Client -> Work]
  BY <1>4, <1>10, <1>11 DEF WorkSound, AgentTypeOK
<1>16. AgentTypeOK'
  BY <1>4, <1>7, <1>15 DEF AgentTypeOK, Stores, Opens, Pasts
<1> QED  BY <1>1, <1>7, <1>14, <1>16 DEF AgentInv

(* What is sound stays so in all that a step does not write.                 *)
LEMMA OthersStaySound ==
    ASSUME AgentInv, NEW basis, AgentSound(basis), NEW c \in Client, NEW w,
           work' = [work EXCEPT ![c] = w],
           NEW basis2, Grown(basis, made, store.bundle, basis2, made', store'.bundle),
           WorkSound(w, basis2, made', store'.bundle), ReadsAge,
           TasksSound(store'.tasks, basis2, made', store'.bundle), JobsSound(store'.jobs),
           BundleSound(basis2, made', store'.bundle)
    PROVE  AgentSound(basis2)'
<1> DEFINE n == made'
           bundle == store'.bundle
<1>1. \A tasks \in past'.tasks \cup {store'.tasks} : TasksSound(tasks, basis2, made',
        store'.bundle)
  BY PastAges, TasksStay DEF AgentSound
<1>2. \A jobs \in past'.jobs \cup {store'.jobs} : JobsSound(jobs)
  BY PastAges DEF AgentSound
<1>3. \A d \in Client : work'[d] = IF d = c THEN w ELSE work[d]
  BY DEF AgentInv, AgentTypeOK
<1>4. \A d \in Client : WorkSound(work[d], basis2, made', store'.bundle)
  BY WorkStays DEF AgentSound
<1>5. \A d \in Client : WorkSound(work'[d], basis2, made', store'.bundle)
  BY <1>3, <1>4
<1> QED  BY <1>1, <1>2, <1>5 DEF AgentSound

(* Tasks are counted, and the bundle holds revisions.                        *)
LEMMA MadeIsNat == ASSUME AgentInv PROVE made \in Nat /\ store.bundle \subseteq Revision
BY BoundAssumption DEF AgentInv, AgentTypeOK

(* A promotion of the task states, that may create a task.                   *)
LEMMA TasksWritten ==
    ASSUME AgentInv, NEW c \in Client, NEW content, NEW new \in SUBSET TaskState,
           NEW inputs \in SUBSET TaskState, Promote(c, "tasks", content, new, inputs, Idle),
           NEW basis, AgentSound(basis), NEW basis2 \in BasisOf,
           made' \in 0 .. MaxTasks, made <= made', \A i \in 1 .. made : basis2[i] = basis[i],
           TasksSound(content, basis2, made', store.bundle),
           UNCHANGED <<drifted, source, profiles>>
    PROVE  AgentInv'
<1>1. store \in Stores /\ AgentTypeOK /\ IsFiniteSet(gone)
  BY DEF AgentInv, AgentTypeOK, Stores
<1>2. content \in SUBSET TaskState
  BY DEF TasksSound, TaskSound
<1>3. [store EXCEPT !.tasks = content] \in Stores
  BY <1>1, <1>2 DEF Stores
<1>4. new \in SUBSET Record /\ inputs \in SUBSET Record /\ IsFiniteSet(store["tasks"])
  BY ContentsFinite DEF Record
<1>5. "tasks" \in {"jobs", "tasks", "bundle"}
  OBVIOUS
<1>6. /\ store' = [store EXCEPT !.tasks = content] /\ store' \in Stores
      /\ Contiguous(store') /\ Resolves(store')
      /\ unnamed' \subseteq Records(store') /\ open' \subseteq Opens
      /\ gone' \subseteq Record /\ IsFiniteSet(gone') /\ faults' \in 0 .. MaxFaults
      /\ past' \in Pasts /\ ReadsAge
      /\ Go(c, Idle) \/ Go(c, Idle)
  BY <1>1, <1>3, <1>4, <1>5, PromoteDoes
<1>7. store'.jobs = store.jobs /\ store'.tasks = content /\ store'.bundle = store.bundle
  BY <1>1, <1>6 DEF Stores
<1>8. Grown(basis, made, store.bundle, basis2, made', store'.bundle)
  BY <1>7, MadeIsNat, BoundAssumption DEF Grown
<1>9. BundleSound(basis2, made', store'.bundle)
  <2>1. BundleSound(basis, made, store.bundle)
    BY DEF AgentSound
  <2>2. \A r \in store.bundle : r.task \in 1 .. made /\ r.task <= made'
    BY <2>1, MadeIsNat, BoundAssumption DEF BundleSound, Revision
  <2>3. \A r \in store.bundle : basis2[r.task] = basis[r.task]
    BY <2>2
  <2> QED  BY <1>7, <2>1, <2>2, <2>3 DEF BundleSound
<1>10. JobsSound(store'.jobs)
  BY <1>7 DEF AgentSound
<1>11. TasksSound(store'.tasks, basis2, made', store'.bundle)
  BY <1>7
<1>12. work' = [work EXCEPT ![c] = Idle]
  BY <1>6 DEF Go
<1>13. WorkSound(Idle, basis2, made', store'.bundle)
  BY IdleIsSound
<1>14. AgentSound(basis2)'
  BY <1>6, <1>8, <1>9, <1>10, <1>11, <1>12, <1>13, OthersStaySound
<1>15. work' \in [Client -> Work]
  BY <1>1, <1>12, <1>13 DEF WorkSound, AgentTypeOK
<1>16. AgentTypeOK'
  BY <1>1, <1>6, <1>15 DEF AgentTypeOK, Stores, Opens, Pasts
<1> QED  BY <1>6, <1>14, <1>16 DEF AgentInv

(* A revision that is numbered after the others, of a task that is bound to  *)
(* all of them.                                                              *)
LEMMA RevisionStaysSound ==
    ASSUME NEW basis, NEW n, NEW bundle, BundleSound(basis, n, bundle),
           NEW r \in Revision, r.number = Cardinality(bundle) + 1, r.task <= n,
           basis[r.task].bundle = bundle
    PROVE  BundleSound(basis, n, bundle \cup {r})
<1>1. Cardinality(bundle) \in Nat
  BY FS_CardinalityType DEF BundleSound
<1>2. \A q \in bundle : q.number \in Nat /\ q.number < r.number
  BY <1>1 DEF BundleSound, Revision
<1>3. r \notin bundle
  BY <1>2
<1>4. IsFiniteSet(bundle \cup {r}) /\ Cardinality(bundle \cup {r}) = Cardinality(bundle) + 1
  BY <1>3, FS_AddElement DEF BundleSound
<1>5. r.number \in Nat
  BY DEF Revision
<1>6. \A q, p \in bundle \cup {r} : q.number = p.number => q = p
  BY <1>2, <1>5 DEF BundleSound
<1>7. \A p \in bundle \cup {r} : p.number <= Cardinality(bundle \cup {r}) /\ p.task <= n
  BY <1>1, <1>2, <1>4 DEF BundleSound
<1>8. \A p \in bundle : {q \in bundle \cup {r} : q.number < p.number} = {q \in bundle :
        q.number < p.number}
  BY <1>2, <1>5
<1>9. {q \in bundle \cup {r} : q.number < r.number} = bundle
  BY <1>2, <1>5
<1>10. \A p \in bundle \cup {r} : basis[p.task].bundle = {q \in bundle \cup {r} :
         q.number < p.number}
  BY <1>8, <1>9 DEF BundleSound
<1> QED  BY <1>4, <1>6, <1>7, <1>10 DEF BundleSound

-----------------------------------------------------------------------------
(* A move of a job, whoever makes it.                                        *)
JobLike(j, s, status, node, outputs) ==
    /\ j \in JobState /\ j.job = s.job /\ j.status = status
    /\ j.node = node /\ j.outputs = outputs

(* The next state of a job differs from the last one in what the move sets.  *)
LEMMA MovedIs ==
    ASSUME IsFiniteSet(gone), NEW s \in JobState,
           NEW status \in JobStatus,
           NEW node \in Node,
           NEW outputs \in SUBSET (Input \cup Revision)
    PROVE  JobLike(Moved(s, status, node, outputs), s, status, node, outputs)
<1> DEFINE m == [s EXCEPT !.revision = @ + 1, !.status = status, !.node = node,
      !.outputs = outputs]
<1>1. m \in JobState
  <2>1. s.revision + 1 \in Nat \ {0}
    BY DEF JobState
  <2> QED  BY <2>1 DEF JobState
<1>2. m.job = s.job /\ m.status = status /\ m.node = node /\ m.outputs = outputs
  BY DEF JobState
<1> HIDE DEF m
<1>3. JobLike(New(m), s, status, node, outputs)
  BY <1>1, <1>2, NewJob DEF JobLike
<1> QED  BY <1>3 DEF Moved, m

(* A move of the job, refused, committed or interrupted, keeps the invariant *)
(* if the client may go on with the state it wrote.                          *)
LEMMA JobMoves ==
    ASSUME AgentInv, NEW c \in Client, NEW s \in JobState,
           NEW status \in JobStatus,
           NEW node \in Node,
           NEW outputs \in SUBSET (Input \cup Revision), NEW at,
           \A basis \in BasisOf : AgentSound(basis) =>
             \A j : JobLike(j, s, status, node, outputs) =>
               \/ at = "idle"
               \/ WorkSound([work[c] EXCEPT !.at = at, !.job = j], basis, made, store.bundle),
           MoveJob(c, s, status, node, outputs, at)
    PROVE  AgentInv'
<1> DEFINE intended == Moved(s, status, node, outputs)
           then(j) == IF at = "idle" THEN Idle ELSE [work[c] EXCEPT !.at = at, !.job = j]
<1>1. IsFiniteSet(gone) /\ AgentTypeOK
  BY DEF AgentInv
<1>2. JobLike(intended, s, status, node, outputs)
  BY <1>1, MovedIs
<1>3. \A j : JobLike(j, s, status, node, outputs) =>
        \A basis \in BasisOf : AgentSound(basis) => WorkSound(then(j), basis, made, store.bundle)
  BY IdleIsSound
<1>4. PICK view \in past.jobs :
        /\ s \in view
        /\ \/ /\ s = JobHead(view, s.job)
              /\ Promote(c, "jobs", view \cup {intended}, {intended}, {s}, then(intended))
           \/ LET head == JobHead(view, s.job)
              IN  /\ head = [intended EXCEPT !.id = head.id]
                  /\ Go(c, then(head))
                  /\ UNCHANGED Unwritten
        /\ UNCHANGED <<drifted, source, profiles, made>>
  BY DEF MoveJob, Views
<1> HIDE DEF intended, then
<1>5. CASE Promote(c, "jobs", view \cup {intended}, {intended}, {s}, then(intended))
  <2>1. intended \in JobState /\ {s} \in SUBSET JobState
    BY <1>2 DEF JobLike
  <2> DEFINE next == then(intended)
  <2>2. \A basis \in BasisOf : AgentSound(basis) => WorkSound(next, basis, made, store.bundle)
    BY <1>2, <1>3
  <2>3. Promote(c, "jobs", view \cup {intended}, {intended}, {s}, next)
    BY <1>5
  <2> HIDE DEF next
  <2> QED  BY <1>4, <2>1, <2>2, <2>3, JobsWritten
<1>6. ASSUME NEW head, head = JobHead(view, s.job), head = [intended EXCEPT !.id = head.id],
             Go(c, then(head)), UNCHANGED Unwritten
      PROVE  AgentInv'
  <2>1. PICK b \in BasisOf : AgentSound(b)
    BY DEF AgentInv
  <2>2. JobsSound(view) /\ JobChain(view, s.job) # {}
    BY <1>4, <2>1 DEF AgentSound, JobChain
  <2>3. head \in JobState
    BY <1>6, <2>2, JobHeadIn
  <2> DEFINE i == head.id
  <2>4. head = [intended EXCEPT !.id = i]
    BY <1>6
  <2> HIDE DEF i
  <2>5. intended \in JobState
    BY <1>2 DEF JobLike
  <2>6. /\ head.job = intended.job /\ head.status = intended.status
        /\ head.node = intended.node /\ head.outputs = intended.outputs
    BY <2>4, <2>5 DEF JobState
  <2>7. JobLike(head, s, status, node, outputs)
    BY <1>2, <2>3, <2>6 DEF JobLike
  <2> DEFINE w == then(head)
  <2>8. \A basis \in BasisOf : AgentSound(basis) => WorkSound(w, basis, made, store.bundle)
    BY <1>3, <2>7
  <2>9. work' = [work EXCEPT ![c] = w]
    BY <1>6 DEF Go
  <2> HIDE DEF w
  <2>10. profiles' \subseteq Key \X Input /\ source' \in Input /\ faults' \in 0 .. MaxFaults
    BY <1>1, <1>4, <1>6 DEF AgentTypeOK, Unwritten
  <2> QED  BY <1>4, <1>6, <2>8, <2>9, <2>10, MovesOn DEF Unwritten
<1> QED  BY <1>4, <1>5, <1>6

(* What a client holds, at each of the two halves of a call's places.        *)
LEMMA AssessorIsSound ==
    ASSUME NEW basis, NEW n, NEW bundle, NEW w \in Work, w.at \in Assessing \cup {"job",
           "assess"},
           TasksSound(w.seen, basis, n, bundle), w.task # None => TaskSound(w.task, basis, n,
             bundle),
           Active(w.seen) = {w.task} \ {None}, w.at = "job" => w.key # None,
           w.at # "job" => w.job # None, w.at \in Assessing => w.input # None
    PROVE  WorkSound(w, basis, n, bundle)
<1>1. w.at \notin Approving /\ w.at \notin {"finish", "complete", "decide"}
  BY DEF Assessing, Approving
<1>2. w.at \in Assessing \cup {"assess", "complete", "decide"} => w.job # None
  BY <1>1 DEF Assessing
<1>3. w.at \in Approving => w.task # None /\ w.task.status = "submitted" /\ w.seen = {}
  BY <1>1
<1>4. w.at \in {"finish", "complete", "decide"} =>
        w.revision \in bundle /\ w.revision.task = w.task.task
  BY <1>1
<1>5. w.at \in {"complete", "decide"} => w.job.job = w.task.basis.job.job
  BY <1>1
<1>6. w.at = "decide" =>
        w.job.status = "completed" /\ w.job.node = "committed" /\ w.revision \in w.job.outputs
  BY <1>1
<1> QED  BY <1>2, <1>3, <1>4, <1>5, <1>6 DEF WorkSound

(* What an approving client must have in hand to be sound.                   *)
LEMMA ApproverIsSound ==
    ASSUME NEW basis, NEW n, NEW bundle, NEW w \in Work, w.at \in Approving,
           w.task # None, TaskSound(w.task, basis, n, bundle), w.task.status = "submitted",
           w.seen = {},
           w.at \in {"finish", "complete", "decide"} =>
             w.revision \in bundle /\ w.revision.task = w.task.task,
           w.at \in {"complete", "decide"} => w.job # None /\ w.job.job = w.task.basis.job.job,
           w.at = "decide" =>
             w.job.status = "completed" /\ w.job.node = "committed"
               /\ w.revision \in w.job.outputs
    PROVE  WorkSound(w, basis, n, bundle)
<1>1. w.at \notin Assessing /\ w.at # "job"
  BY DEF Assessing, Approving
<1>2. TasksSound(w.seen, basis, n, bundle)
  BY NoTasksAreSound
<1>3. w.at \in Assessing \cup {"assess", "complete", "decide"} => w.job # None
  BY <1>1 DEF Approving
<1>4. w.at \notin Approving => Active(w.seen) = {w.task} \ {None}
  OBVIOUS
<1>5. w.at = "job" => w.key # None
  BY <1>1
<1>6. w.at \in Assessing => w.input # None
  BY <1>1
<1>7. w.at \in {"complete", "decide"} => w.job.job = w.task.basis.job.job
  OBVIOUS
<1> QED  BY <1>2, <1>3, <1>4, <1>5, <1>6, <1>7 DEF WorkSound

(* A client that assesses goes on assessing; one that approves goes on with  *)
(* the job of its task.                                                      *)
LEMMA AssessmentGoesOn ==
    ASSUME NEW basis, NEW n, NEW bundle, NEW w, WorkSound(w, basis, n, bundle),
           w.at \in Assessing, NEW at \in Assessing, NEW j \in JobState
    PROVE  WorkSound([w EXCEPT !.at = at, !.job = j], basis, n, bundle)
<1> DEFINE v == [w EXCEPT !.at = at, !.job = j]
<1>1. w \in Work
  BY DEF WorkSound
<1>2. v \in Work
  BY <1>1 DEF Work, Assessing, Place
<1>3. /\ v.at = at /\ v.job = j /\ v.key = w.key /\ v.seen = w.seen /\ v.task = w.task
      /\ v.input = w.input /\ v.revision = w.revision
  BY <1>1 DEF Work
<1>4. j # None /\ at # "job"
  BY NoneIsNoRecord DEF Record, Assessing
<1> HIDE DEF v
<1>5. w.at \notin Approving
  BY DEF Assessing, Approving
<1>6. w.input # None /\ Active(w.seen) = {w.task} \ {None}
  BY <1>5 DEF WorkSound
<1>7. TasksSound(v.seen, basis, n, bundle)
        /\ (v.task # None => TaskSound(v.task, basis, n, bundle))
  BY <1>3 DEF WorkSound
<1>8. v.at \in Assessing \cup {"job", "assess"} /\ v.at # "job"
  BY <1>3, <1>4
<1>9. v.job # None /\ v.input # None /\ Active(v.seen) = {v.task} \ {None}
  BY <1>3, <1>4, <1>6
<1>10. WorkSound(v, basis, n, bundle)
  BY <1>2, <1>7, <1>8, <1>9, AssessorIsSound
<1> QED  BY <1>10 DEF v

(* An approval that has written its revision goes on with a later state of   *)
(* its job.                                                                  *)
LEMMA ApprovalGoesOn ==
    ASSUME NEW basis, NEW n, NEW bundle, NEW w, WorkSound(w, basis, n, bundle),
           w.at \in {"finish", "complete"}, NEW at \in {"complete", "decide"}, NEW j \in JobState,
           j.job = w.task.basis.job.job,
           at = "decide" => j.status = "completed" /\ j.node = "committed"
             /\ w.revision \in j.outputs
    PROVE  WorkSound([w EXCEPT !.at = at, !.job = j], basis, n, bundle)
<1> DEFINE v == [w EXCEPT !.at = at, !.job = j]
<1>1. w \in Work
  BY DEF WorkSound
<1>2. v \in Work
  BY <1>1 DEF Work, Place
<1>3. /\ v.at = at /\ v.job = j /\ v.key = w.key /\ v.seen = w.seen /\ v.task = w.task
      /\ v.input = w.input /\ v.revision = w.revision
  BY <1>1 DEF Work
<1>4. j # None
  BY NoneIsNoRecord DEF Record
<1> HIDE DEF v
<1>5. w.at \in Approving /\ v.at \in Approving
  BY <1>3 DEF Approving
<1>6. w.task # None /\ w.task.status = "submitted" /\ w.seen = {}
  BY <1>5 DEF WorkSound
<1>7. w.revision \in bundle /\ w.revision.task = w.task.task
        /\ TaskSound(w.task, basis, n, bundle)
  BY <1>6 DEF WorkSound
<1>8. /\ v.task # None /\ v.task.status = "submitted" /\ v.seen = {} /\ v.job # None
      /\ TaskSound(v.task, basis, n, bundle)
  BY <1>3, <1>4, <1>6, <1>7
<1>9. v.revision \in bundle /\ v.revision.task = v.task.task /\ v.job.job = v.task.basis.job.job
  BY <1>3, <1>7
<1>10. v.at = "decide" =>
         v.job.status = "completed" /\ v.job.node = "committed" /\ v.revision \in v.job.outputs
  BY <1>3
<1>11. WorkSound(v, basis, n, bundle)
  BY <1>2, <1>5, <1>8, <1>9, <1>10, ApproverIsSound
<1> QED  BY <1>11 DEF v

-----------------------------------------------------------------------------
(* Creations and refreshes, up to the task.                                  *)
LEMMA ClientIsSound ==
    ASSUME AgentInv, NEW basis, AgentSound(basis), NEW c \in Client
    PROVE  WorkSound(work[c], basis, made, store.bundle) /\ work[c] \in Work
BY DEF AgentSound, WorkSound

(* What a client has in hand at each of its places.                          *)
LEMMA ClientTypes ==
    ASSUME AgentInv, NEW c \in Client
    PROVE  /\ work[c] \in Work
           /\ work[c].at = "job" => work[c].key \in Key
           /\ work[c].at \in Assessing \cup {"assess", "complete",
             "decide"} => work[c].job \in JobState
           /\ work[c].at \in Assessing => work[c].input \in Input
           /\ work[c].at \in Approving => work[c].task \in TaskState
<1>1. PICK basis \in BasisOf : AgentSound(basis)
  BY DEF AgentInv
<1>2. WorkSound(work[c], basis, made, store.bundle) /\ work[c] \in Work
  BY <1>1, ClientIsSound
<1>3. /\ work[c].key \in Key \cup {None} /\ work[c].job \in JobState \cup {None}
      /\ work[c].input \in Input \cup {None} /\ work[c].task \in TaskState \cup {None}
  BY <1>2 DEF Work
<1> QED  BY <1>2, <1>3 DEF WorkSound

(* A creation reads the task states, and begins only if none is active in    *)
(* what it read.                                                             *)
LEMMA StartCreateKeeps ==
    ASSUME AgentInv, NEW c \in Client, NEW k \in Key, StartCreate(c, k)
    PROVE  AgentInv'
<1> DEFINE w == [Idle EXCEPT !.at = "job", !.key = k, !.seen = store.tasks]
<1>1. AgentTypeOK
  BY DEF AgentInv
<1>2. w \in Work
  BY <1>1 DEF Idle, Work, Place, AgentTypeOK
<1>3. w.at = "job" /\ w.key = k /\ w.seen = store.tasks /\ w.task = None
  BY DEF Idle
<1>4. work' = [work EXCEPT ![c] = w] /\ Active(store.tasks) = {}
  BY DEF StartCreate, Go
<1>5. UNCHANGED <<store, unnamed, past, open, gone, made, drifted, faults, profiles, source>>
  BY DEF StartCreate, Unwritten
<1> HIDE DEF w
<1>6. ASSUME NEW basis \in BasisOf, AgentSound(basis)
      PROVE  WorkSound(w, basis, made, store.bundle)
  <2>1. TasksSound(w.seen, basis, made, store.bundle)
    BY <1>3, <1>6 DEF AgentSound
  <2>2. w.at \in Assessing \cup {"job", "assess"} /\ w.at \notin Assessing
    BY <1>3 DEF Assessing
  <2>3. Active(w.seen) = {w.task} \ {None} /\ w.key # None
    BY <1>3, <1>4, NoneIsNoRecord
  <2> QED  BY <1>2, <1>3, <2>1, <2>2, <2>3, AssessorIsSound
<1>7. profiles' \subseteq Key \X Input /\ source' \in Input /\ faults' \in 0 .. MaxFaults
  BY <1>1, <1>5 DEF AgentTypeOK
<1> QED  BY <1>4, <1>5, <1>6, <1>7, MovesOn

(* The job that a creation has opened is its job from there on.              *)
LEMMA JobOpened ==
    ASSUME AgentInv, NEW c \in Client, work[c].at = "job", NEW j \in JobState,
           NEW basis, AgentSound(basis)
    PROVE  WorkSound([work[c] EXCEPT !.at = "assess", !.job = j], basis, made, store.bundle)
<1> DEFINE w == [work[c] EXCEPT !.at = "assess", !.job = j]
<1>1. WorkSound(work[c], basis, made, store.bundle) /\ work[c] \in Work
  BY ClientIsSound
<1>2. w \in Work
  BY <1>1 DEF Work, Place
<1>3. w.at = "assess" /\ w.job = j /\ w.seen = work[c].seen /\ w.task = work[c].task
  BY <1>1 DEF Work
<1> HIDE DEF w
<1>4. w.job # None /\ w.at \notin Assessing
  BY <1>3, NoneIsNoRecord DEF Record, Assessing
<1>5. work[c].at \notin Approving
  BY DEF Approving
<1>6. Active(w.seen) = {w.task} \ {None}
  BY <1>1, <1>3, <1>5 DEF WorkSound
<1>7. TasksSound(w.seen, basis, made, store.bundle)
      /\ (w.task # None => TaskSound(w.task, basis, made, store.bundle))
  BY <1>1, <1>3 DEF WorkSound
<1>8. WorkSound(w, basis, made, store.bundle)
  BY <1>2, <1>3, <1>4, <1>6, <1>7, AssessorIsSound
<1> QED  BY <1>8 DEF w

(* The semantic job is opened, or the one found is taken up.                 *)
LEMMA OpenJobKeeps ==
    ASSUME AgentInv, NEW c \in Client, OpenJob(c)
    PROVE  AgentInv'
<1> DEFINE k == work[c].key
           first == [job |-> k, revision |-> 1, status |-> "created", node |-> "processing",
                     outputs |-> {}, id |-> 0]
           root == New(first)
           then(j) == [work[c] EXCEPT !.at = "assess", !.job = j]
<1>1. work[c].at = "job" /\ k \in Key /\ AgentTypeOK /\ IsFiniteSet(gone)
  BY ClientTypes DEF OpenJob, AgentInv
<1>2. first \in JobState
  BY <1>1 DEF JobState, JobStatus, Startable, Node
<1> HIDE DEF first
<1>3. root \in JobState
  BY <1>1, <1>2, NewJob
<1>4. PICK view \in past.jobs :
        IF JobChain(view, k) = {}
        THEN Promote(c, "jobs", view \cup {root}, {root}, {}, then(root))
        ELSE /\ Go(c, then(JobHead(view, k)))
             /\ UNCHANGED Unwritten
  BY DEF OpenJob, Views, first
<1>5. UNCHANGED <<drifted, source, profiles, made>>
  BY DEF OpenJob
<1>6. \A j \in JobState : \A basis \in BasisOf :
        AgentSound(basis) => WorkSound(then(j), basis, made, store.bundle)
  BY <1>1, JobOpened
<1> HIDE DEF root, then, k
<1>7. CASE JobChain(view, k) = {}
  <2> DEFINE next == then(root)
  <2>1. \A basis \in BasisOf : AgentSound(basis) => WorkSound(next, basis, made, store.bundle)
    BY <1>3, <1>6
  <2>2. Promote(c, "jobs", view \cup {root}, {root}, {}, next)
    BY <1>4, <1>7
  <2>3. {} \in SUBSET JobState
    OBVIOUS
  <2> HIDE DEF next
  <2> QED  BY <1>3, <1>5, <2>1, <2>2, <2>3, JobsWritten
<1>8. CASE JobChain(view, k) # {}
  <2> DEFINE head == JobHead(view, k)
             w == then(head)
  <2>1. PICK b \in BasisOf : AgentSound(b)
    BY DEF AgentInv
  <2>2. JobsSound(view)
    BY <2>1 DEF AgentSound
  <2>3. head \in JobState
    BY <1>8, <2>2, JobHeadIn
  <2>4. \A basis \in BasisOf : AgentSound(basis) => WorkSound(w, basis, made, store.bundle)
    BY <1>6, <2>3
  <2>5. work' = [work EXCEPT ![c] = w] /\ UNCHANGED Unwritten
    BY <1>4, <1>8 DEF Go
  <2> HIDE DEF w
  <2>6. profiles' \subseteq Key \X Input /\ source' \in Input /\ faults' \in 0 .. MaxFaults
    BY <1>1, <1>5, <2>5 DEF AgentTypeOK, Unwritten
  <2> QED  BY <1>5, <2>4, <2>5, <2>6, MovesOn DEF Unwritten
<1> QED  BY <1>7, <1>8

(* The profile of the basis is read, or assessed anew.                       *)
LEMMA AssessKeeps ==
    ASSUME AgentInv, NEW c \in Client, Assess(c)
    PROVE  AgentInv'
<1> DEFINE w == [work[c] EXCEPT !.at = "gate", !.input = source]
<1>1. /\ work[c].at = "assess" /\ work[c].job \in JobState /\ work[c] \in Work
      /\ AgentTypeOK /\ source \in Input
  BY ClientTypes DEF Assess, AgentInv, AgentTypeOK
<1>2. w \in Work
  BY <1>1 DEF Work, Place
<1>3. w.at = "gate" /\ w.job = work[c].job /\ w.seen = work[c].seen /\ w.task = work[c].task
      /\ w.input = source
  BY <1>1 DEF Work
<1>4. work' = [work EXCEPT ![c] = w]
  BY DEF Assess, Go
<1>5. UNCHANGED <<store, unnamed, past, open, gone, made, drifted, faults, source>>
  BY DEF Assess, Unwritten
<1>6. profiles' \subseteq Key \X Input
  <2>1. <<work[c].job.job, source>> \in Key \X Input
    BY <1>1 DEF JobState
  <2> QED  BY <1>1, <2>1 DEF Assess, AgentTypeOK
<1> HIDE DEF w
<1>7. ASSUME NEW basis \in BasisOf, AgentSound(basis)
      PROVE  WorkSound(w, basis, made, store.bundle)
  <2>1. WorkSound(work[c], basis, made, store.bundle)
    BY <1>7, ClientIsSound
  <2>2. w.at \in Assessing /\ w.at # "job" /\ work[c].at \notin Approving
    BY <1>1, <1>3 DEF Assessing, Approving
  <2>3. w.job # None /\ w.input # None
    BY <1>1, <1>3, NoneIsNoRecord DEF Record
  <2>4. Active(w.seen) = {w.task} \ {None}
    BY <1>3, <2>1, <2>2 DEF WorkSound
  <2>5. TasksSound(w.seen, basis, made, store.bundle)
        /\ (w.task # None => TaskSound(w.task, basis, made, store.bundle))
    BY <1>3, <2>1 DEF WorkSound
  <2> QED  BY <1>2, <2>2, <2>3, <2>4, <2>5, AssessorIsSound
<1>8. source' \in Input /\ faults' \in 0 .. MaxFaults
  BY <1>1, <1>5 DEF AgentTypeOK
<1> QED  BY <1>4, <1>5, <1>6, <1>7, <1>8, MovesOn

(* A client that assesses goes to another place, and nothing else changes.   *)
LEMMA PlaceChanges ==
    ASSUME AgentInv, NEW c \in Client, work[c].at \in Assessing, NEW at \in Assessing,
           Go(c, [work[c] EXCEPT !.at = at]),
           UNCHANGED <<Unwritten, drifted, source, profiles, made>>
    PROVE  AgentInv'
<1> DEFINE w == [work[c] EXCEPT !.at = at]
<1>1. /\ work[c].job \in JobState /\ work[c].input \in Input /\ work[c] \in Work /\ AgentTypeOK
      /\ at # "job" /\ work[c].at \notin Approving
  BY ClientTypes DEF AgentInv, Assessing, Approving
<1>2. w \in Work
  BY <1>1 DEF Work, Place, Assessing
<1>3. w.at = at /\ w.job = work[c].job /\ w.seen = work[c].seen /\ w.task = work[c].task
      /\ w.input = work[c].input
  BY <1>1 DEF Work
<1>4. work' = [work EXCEPT ![c] = w]
  BY DEF Go
<1> HIDE DEF w
<1>5. ASSUME NEW basis \in BasisOf, AgentSound(basis)
      PROVE  WorkSound(w, basis, made, store.bundle)
  <2>1. WorkSound(work[c], basis, made, store.bundle)
    BY <1>5, ClientIsSound
  <2>2. w.at \in Assessing \cup {"job", "assess"} /\ w.at # "job"
    BY <1>1, <1>3
  <2>3. w.job # None /\ w.input # None
    BY <1>1, <1>3, NoneIsNoRecord DEF Record
  <2>4. Active(w.seen) = {w.task} \ {None}
    BY <1>1, <1>3, <2>1 DEF WorkSound
  <2>5. TasksSound(w.seen, basis, made, store.bundle)
        /\ (w.task # None => TaskSound(w.task, basis, made, store.bundle))
    BY <1>3, <2>1 DEF WorkSound
  <2> QED  BY <1>2, <2>2, <2>3, <2>4, <2>5, AssessorIsSound
<1>6. profiles' \subseteq Key \X Input /\ source' \in Input /\ faults' \in 0 .. MaxFaults
  BY <1>1 DEF AgentTypeOK, Unwritten
<1> QED  BY <1>4, <1>5, <1>6, MovesOn DEF Unwritten

(* The job stands where the assessment expects it, or is a no-op.            *)
LEMMA GateKeeps ==
    ASSUME AgentInv, NEW c \in Client, Gate(c)
    PROVE  AgentInv'
<1>1. PICK at \in {"resume", "block"} : Go(c, [work[c] EXCEPT !.at = at])
  BY DEF Gate
<1>2. work[c].at \in Assessing /\ at \in Assessing
  BY DEF Gate, Assessing
<1> QED  BY <1>1, <1>2, PlaceChanges DEF Gate

(* A client goes idle without a write.                                       *)
LEMMA IdleKeeps ==
    ASSUME AgentInv, NEW c \in Client, Done(c),
           UNCHANGED <<store, unnamed, past, open, gone, made, drifted, source, profiles>>,
           faults' \in 0 .. MaxFaults
    PROVE  AgentInv'
<1>1. \A basis \in BasisOf : AgentSound(basis) => WorkSound(Idle, basis, made, store.bundle)
  BY IdleIsSound
<1>2. work' = [work EXCEPT ![c] = Idle]
  BY DEF Done, Go
<1>3. profiles' \subseteq Key \X Input /\ source' \in Input
  BY DEF AgentInv, AgentTypeOK
<1> QED  BY <1>1, <1>2, <1>3, MovesOn

(* A move of the job that is assessed, to wait or to go on.                  *)
LEMMA AssessmentMoves ==
    ASSUME AgentInv, NEW c \in Client, work[c].at \in Assessing,
           NEW status \in JobStatus,
           NEW node \in Node,
           NEW at \in Assessing \cup {"idle"},
           MoveJob(c, work[c].job, status, node, work[c].job.outputs \cup {work[c].input}, at)
    PROVE  AgentInv'
<1> DEFINE s == work[c].job
           outputs == s.outputs \cup {work[c].input}
<1>1. s \in JobState /\ work[c].input \in Input
  BY ClientTypes
<1>2. outputs \in SUBSET (Input \cup Revision)
  BY <1>1 DEF JobState
<1>3. MoveJob(c, s, status, node, outputs, at)
  OBVIOUS
<1> HIDE DEF s, outputs
<1>4. ASSUME NEW basis \in BasisOf, AgentSound(basis), NEW j, JobLike(j, s, status, node,
             outputs),
             at # "idle"
      PROVE  WorkSound([work[c] EXCEPT !.at = at, !.job = j], basis, made, store.bundle)
  BY <1>4, ClientIsSound, AssessmentGoesOn DEF JobLike
<1>5. \A basis \in BasisOf : AgentSound(basis) =>
        \A j : JobLike(j, s, status, node, outputs) =>
          \/ at = "idle"
          \/ WorkSound([work[c] EXCEPT !.at = at, !.job = j], basis, made, store.bundle)
  BY <1>4
<1> QED  BY <1>1, <1>2, <1>3, <1>5, JobMoves

(* An unusable profile blocks the job.                                       *)
LEMMA BlockKeeps ==
    ASSUME AgentInv, NEW c \in Client, Block(c)
    PROVE  AgentInv'
<1>1. CASE Done(c) /\ UNCHANGED <<Unwritten, drifted, source, profiles, made>>
  BY <1>1, IdleKeeps DEF Unwritten, AgentInv, AgentTypeOK
<1>2. CASE /\ work[c].at = "block"
           /\ MoveJob(c, work[c].job, "running", "reassessed",
                      work[c].job.outputs \cup {work[c].input}, "blocked")
  BY <1>2, AssessmentMoves DEF Assessing, JobStatus, Node
<1>3. CASE /\ work[c].at \in {"block", "blocked"}
           /\ MoveJob(c, work[c].job, "waiting_source", "remediation",
                      work[c].job.outputs \cup {work[c].input}, "idle")
  BY <1>3, AssessmentMoves DEF Assessing, JobStatus, Startable, Node
<1> QED  BY <1>1, <1>2, <1>3 DEF Block

(* A usable profile leaves the job waiting for the agent.                    *)
LEMMA AwaitAgentKeeps ==
    ASSUME AgentInv, NEW c \in Client, AwaitAgent(c)
    PROVE  AgentInv'
<1>1. CASE /\ work[c].at = "resume" /\ Go(c, [work[c] EXCEPT !.at = "bind"])
           /\ UNCHANGED <<Unwritten, drifted, source, profiles, made>>
  BY <1>1, PlaceChanges DEF Assessing
<1>2. CASE /\ work[c].at = "resume"
           /\ MoveJob(c, work[c].job, "running", "assessed",
                      work[c].job.outputs \cup {work[c].input}, "wait")
  BY <1>2, AssessmentMoves DEF Assessing, JobStatus, Node
<1>3. CASE /\ work[c].at \in {"resume", "wait"}
           /\ MoveJob(c, work[c].job, "waiting_agent", "processing",
                      work[c].job.outputs \cup {work[c].input}, "bind")
  BY <1>3, AssessmentMoves DEF Assessing, JobStatus, Startable, Node
<1> QED  BY <1>1, <1>2, <1>3 DEF AwaitAgent

(* A refresh takes up a task that is not over, with the job of its basis.    *)
LEMMA StartRefreshKeeps ==
    ASSUME AgentInv, NEW c \in Client, StartRefresh(c)
    PROVE  AgentInv'
<1>1. PICK s \in Active(store.tasks) :
        /\ JobChain(store.jobs, s.basis.job.job) # {}
        /\ Go(c, [Idle EXCEPT !.at = "assess", !.seen = store.tasks, !.task = s,
                              !.job = JobHead(store.jobs, s.basis.job.job)])
  BY DEF StartRefresh
<1> DEFINE j == JobHead(store.jobs, s.basis.job.job)
           w == [Idle EXCEPT !.at = "assess", !.seen = store.tasks, !.task = s, !.job = j]
<1>2. AgentTypeOK /\ work' = [work EXCEPT ![c] = w]
  BY <1>1 DEF AgentInv, Go
<1>3. UNCHANGED <<store, unnamed, past, open, gone, made, drifted, faults, source, profiles>>
  BY DEF StartRefresh, Unwritten
<1>4. PICK b \in BasisOf : AgentSound(b)
  BY DEF AgentInv
<1>5. JobsSound(store.jobs) /\ TasksSound(store.tasks, b, made, store.bundle)
  BY <1>4 DEF AgentSound
<1>6. j \in JobState
  BY <1>1, <1>5, JobHeadIn
<1>7. s \in store.tasks /\ s \in TaskState
  BY <1>5, HeadsIn DEF Active, TasksSound, TaskSound
<1> HIDE DEF j
<1>8. w \in Work
  BY <1>2, <1>6, <1>7 DEF Idle, Work, Place, AgentTypeOK
<1>9. w.at = "assess" /\ w.seen = store.tasks /\ w.task = s /\ w.job = j
  BY DEF Idle
<1> HIDE DEF w
<1>10. ASSUME NEW basis \in BasisOf, AgentSound(basis)
       PROVE  WorkSound(w, basis, made, store.bundle)
  <2>1. TasksSound(w.seen, basis, made, store.bundle)
    BY <1>9, <1>10 DEF AgentSound
  <2>2. TaskSound(w.task, basis, made, store.bundle)
    BY <1>7, <1>9, <2>1 DEF TasksSound
  <2>3. w.task # None /\ w.job # None /\ w.at \notin Assessing
    BY <1>6, <1>7, <1>9, NoneIsNoRecord DEF Record, Assessing
  <2>4. Active(w.seen) = {w.task} \ {None}
    BY <1>1, <1>9, <2>1, <2>3 DEF TasksSound
  <2> QED  BY <1>8, <1>9, <2>1, <2>2, <2>3, <2>4, AssessorIsSound
<1>11. profiles' \subseteq Key \X Input /\ source' \in Input /\ faults' \in 0 .. MaxFaults
  BY <1>2, <1>3 DEF AgentTypeOK
<1> QED  BY <1>2, <1>3, <1>10, <1>11, MovesOn

-----------------------------------------------------------------------------
(* The first state of a new task: its number is fresh, so a basis can be     *)
(* assigned to it, and what was assigned before stays.                       *)
LEMMA RootIsSound ==
    ASSUME AgentInv, NEW basis \in BasisOf, AgentSound(basis), NEW k \in Key \cup {None},
           NEW from \in Nat, NEW j \in JobState
    PROVE  LET b == DerivedBasis(j)
               root == Root(made + 1, k, from, b)
               after == [basis EXCEPT ![made + 1] = b]
           IN  /\ after \in BasisOf /\ \A i \in 1 .. made : after[i] = basis[i]
               /\ Grown(basis, made, store.bundle, after, made + 1, store.bundle)
               /\ root.task = made + 1 /\ root.revision = 1
               /\ TaskSound(root, after, made + 1, store.bundle)
<1> DEFINE b == DerivedBasis(j)
           root == Root(made + 1, k, from, b)
           after == [basis EXCEPT ![made + 1] = b]
<1>1. made \in Nat /\ made + 1 \in Nat \ {0} /\ AgentTypeOK
  BY MadeIsNat DEF AgentInv
<1>2. b \in Basis
  BY <1>1 DEF DerivedBasis, Basis, AgentTypeOK
<1> HIDE DEF b
<1>3. /\ root \in TaskState /\ root.task = made + 1 /\ root.revision = 1
      /\ root.basis = b /\ root.status = "created"
  BY <1>1, <1>2 DEF Root, TaskState
<1>4. after \in BasisOf
  BY <1>1, <1>2 DEF BasisOf
<1>5. after[made + 1] = b /\ \A i \in 1 .. made : after[i] = basis[i]
  BY <1>1 DEF BasisOf
<1> HIDE DEF root, after
<1>6. TaskSound(root, after, made + 1, store.bundle)
  BY <1>1, <1>3, <1>5 DEF TaskSound
<1>7. Grown(basis, made, store.bundle, after, made + 1, store.bundle)
  BY <1>1, <1>5 DEF Grown
<1> QED  BY <1>3, <1>4, <1>5, <1>6, <1>7 DEF root, after, b

(* A number that no sound set of tasks has yet.                              *)
LEMMA NumberIsFresh ==
    ASSUME NEW basis, NEW n \in Nat, NEW bundle, NEW tasks, TasksSound(tasks, basis, n, bundle)
    PROVE  \A s \in tasks : s.task # n + 1
BY DEF TasksSound, TaskSound, TaskState

(* The task is created in the content that was read when none was active, on *)
(* a basis derived from the store as it is now.                              *)
LEMMA CreateTaskKeeps ==
    ASSUME AgentInv, NEW c \in Client, CreateTask(c)
    PROVE  AgentInv'
<1> DEFINE w == work[c]
           root == Root(made + 1, w.key, 0, DerivedBasis(w.job))
<1>1. PICK basis \in BasisOf : AgentSound(basis)
  BY DEF AgentInv
<1>2. /\ w.at = "bind" /\ w.task = None /\ made < MaxTasks /\ made' = made + 1
      /\ Promote(c, "tasks", w.seen \cup {root}, {root}, {}, Idle)
      /\ UNCHANGED <<drifted, source, profiles>>
  BY DEF CreateTask
<1>3. w.job \in JobState /\ w.key \in Key \cup {None} /\ WorkSound(w, basis, made, store.bundle)
  BY <1>1, <1>2, ClientTypes, ClientIsSound DEF Assessing, Work
<1>4. PICK after \in BasisOf :
        /\ \A i \in 1 .. made : after[i] = basis[i]
        /\ Grown(basis, made, store.bundle, after, made + 1, store.bundle)
        /\ root.task = made + 1 /\ root.revision = 1
        /\ TaskSound(root, after, made + 1, store.bundle)
  <2>1. 0 \in Nat
    OBVIOUS
  <2> QED  BY <1>1, <1>3, <2>1, RootIsSound
<1> HIDE DEF root
<1>5. made \in Nat /\ made' \in 0 .. MaxTasks /\ made <= made'
  BY <1>2, MadeIsNat, BoundAssumption
<1>6. TasksSound(w.seen, basis, made, store.bundle) /\ Active(w.seen) = {}
  BY <1>2, <1>3 DEF WorkSound, Approving
<1>7. TasksSound(w.seen, after, made + 1, store.bundle)
  BY <1>4, <1>6, TasksStay
<1>8. \A s \in w.seen : s.task # root.task
  BY <1>4, <1>5, <1>6, NumberIsFresh
<1>9. TasksSound(w.seen \cup {root}, after, made', store.bundle)
  BY <1>2, <1>4, <1>6, <1>7, <1>8, RootStaysSound
<1>10. {root} \in SUBSET TaskState /\ {} \in SUBSET TaskState
  BY <1>4 DEF TaskSound
<1> HIDE DEF w
<1> QED  BY <1>1, <1>2, <1>4, <1>5, <1>9, <1>10, TasksWritten

(* One more state of a task that is not ended.                               *)
LEMMA StepIsWritten ==
    ASSUME AgentInv, NEW basis \in BasisOf, AgentSound(basis), NEW c \in Client, NEW view,
           TasksSound(view, basis, made, store.bundle), NEW s \in TaskHeads(view),
           s.status \notin TaskTerminal, NEW next, TaskSound(next, basis, made, store.bundle),
           next.task = s.task, next.revision = s.revision + 1,
           AppendStates(c, view, s, next, {}), made' = made
    PROVE  AgentInv'
<1> DEFINE new == New(next)
<1>1. IsFiniteSet(gone) /\ next \in TaskState
  BY DEF AgentInv, TaskSound
<1>2. /\ new \in TaskState /\ new.task = next.task /\ new.status = next.status
      /\ new.revision = next.revision /\ new.basis = next.basis /\ new.applied = next.applied
  BY <1>1, NewTask
<1>3. /\ Promote(c, "tasks", view \cup {new} \cup {}, {new} \cup {}, {s}, Idle)
      /\ UNCHANGED <<drifted, source, profiles>>
  BY DEF AppendStates
<1> HIDE DEF new
<1>4. TaskSound(new, basis, made, store.bundle)
  BY <1>2 DEF TaskSound
<1>5. TasksSound(view \cup {new}, basis, made, store.bundle)
  <2>1. new.task = s.task /\ new.revision = s.revision + 1
    BY <1>2
  <2> QED  BY <1>4, <2>1, StepStaysSound
<1>6. s \in view /\ view \subseteq TaskState
  BY HeadsIn DEF TasksSound, TaskSound
<1>7. {new} \in SUBSET TaskState /\ {s} \in SUBSET TaskState
  BY <1>2, <1>6
<1>8. made' \in 0 .. MaxTasks /\ made <= made'
  BY MadeIsNat DEF AgentInv, AgentTypeOK
<1>9. view \cup {new} \cup {} = view \cup {new} /\ {new} \cup {} = {new}
  OBVIOUS
<1>10. Promote(c, "tasks", view \cup {new}, {new}, {s}, Idle)
  BY <1>3, <1>9
<1>11. TasksSound(view \cup {new}, basis, made', store.bundle)
         /\ \A i \in 1 .. made : basis[i] = basis[i]
  BY <1>5
<1> QED  BY <1>3, <1>7, <1>8, <1>10, <1>11, TasksWritten

(* The last state of a task, and the first of its successor.                 *)
LEMMA SuccessorIsWritten ==
    ASSUME AgentInv, NEW basis \in BasisOf, AgentSound(basis), NEW c \in Client, NEW view,
           TasksSound(view, basis, made, store.bundle), NEW s \in TaskHeads(view),
           s.status \notin TaskTerminal, NEW next, TaskSound(next, basis, made, store.bundle),
           next.task = s.task, next.revision = s.revision + 1, next.status \in TaskTerminal,
           NEW j \in JobState, made' = made + 1, made < MaxTasks,
           AppendStates(c, view, s, next, {Root(made + 1, None, s.task, DerivedBasis(j))})
    PROVE  AgentInv'
<1> DEFINE new == New(next)
           root == Root(made + 1, None, s.task, DerivedBasis(j))
<1>1. IsFiniteSet(gone) /\ next \in TaskState /\ made \in Nat
  BY MadeIsNat DEF AgentInv, TaskSound
<1>2. /\ new \in TaskState /\ new.task = next.task /\ new.status = next.status
      /\ new.revision = next.revision /\ new.basis = next.basis /\ new.applied = next.applied
  BY <1>1, NewTask
<1>3. /\ Promote(c, "tasks", view \cup {new} \cup {root}, {new} \cup {root}, {s}, Idle)
      /\ UNCHANGED <<drifted, source, profiles>>
  BY DEF AppendStates
<1>4. s \in view /\ s \in TaskState /\ s.task \in Nat
  BY HeadsIn DEF TasksSound, TaskSound, TaskState
<1>5. PICK after \in BasisOf :
        /\ \A i \in 1 .. made : after[i] = basis[i]
        /\ Grown(basis, made, store.bundle, after, made + 1, store.bundle)
        /\ root.task = made + 1 /\ root.revision = 1
        /\ TaskSound(root, after, made + 1, store.bundle)
  BY <1>4, RootIsSound
<1> HIDE DEF new, root
<1>6. TaskSound(new, basis, made, store.bundle)
  BY <1>2 DEF TaskSound
<1>7. TasksSound(view \cup {new}, basis, made, store.bundle) /\ Active(view \cup {new}) = {}
  <2>1. new.task = s.task /\ new.revision = s.revision + 1 /\ new.status \in TaskTerminal
    BY <1>2
  <2> QED  BY <1>6, <2>1, StepStaysSound
<1>8. \A q \in view \cup {new} : q.task # root.task
  BY <1>1, <1>5, <1>7, NumberIsFresh
<1>9. TasksSound(view \cup {new}, after, made + 1, store.bundle)
  BY <1>5, <1>7, TasksStay
<1>10. TasksSound(view \cup {new} \cup {root}, after, made', store.bundle)
  BY <1>5, <1>7, <1>8, <1>9, RootStaysSound
<1>11. {new} \cup {root} \in SUBSET TaskState /\ {s} \in SUBSET TaskState
  BY <1>2, <1>4, <1>5 DEF TaskSound
<1>12. made' \in 0 .. MaxTasks /\ made <= made'
  BY <1>1, BoundAssumption
<1> QED  BY <1>3, <1>5, <1>10, <1>11, <1>12, TasksWritten

(* What a step of a task makes of its head.                                  *)
LEMMA StepIsSound ==
    ASSUME NEW basis, NEW n, NEW bundle, NEW s, TaskSound(s, basis, n, bundle),
           NEW status \in {"leased", "submitted", "rejected", "revision_requested", "superseded"}
    PROVE  /\ TaskSound(Step(s, status), basis, n, bundle)
           /\ Step(s, status).task = s.task /\ Step(s, status).revision = s.revision + 1
           /\ Step(s, status).status = status
           /\ \A m \in Nat : LET ended == [Step(s, status) EXCEPT !.next = m]
                             IN  /\ TaskSound(ended, basis, n, bundle) /\ ended.task = s.task
                                 /\ ended.revision = s.revision + 1 /\ ended.status = status
<1> DEFINE next == Step(s, status)
<1>1. s \in TaskState /\ s.revision + 1 \in Nat \ {0}
  BY DEF TaskSound, TaskState
<1>2. /\ next \in TaskState /\ next.task = s.task /\ next.revision = s.revision + 1
      /\ next.status = status /\ next.basis = s.basis
  BY <1>1 DEF Step, TaskState, TaskTerminal
<1> HIDE DEF next
<1>3. TaskSound(next, basis, n, bundle)
  BY <1>2 DEF TaskSound
<1>4. ASSUME NEW m \in Nat
      PROVE  LET ended == [next EXCEPT !.next = m]
             IN  /\ TaskSound(ended, basis, n, bundle) /\ ended.task = s.task
                 /\ ended.revision = s.revision + 1 /\ ended.status = status
  <2> DEFINE ended == [next EXCEPT !.next = m]
  <2>1. /\ ended \in TaskState /\ ended.task = s.task /\ ended.revision = s.revision + 1
        /\ ended.status = status /\ ended.basis = s.basis
    BY <1>2 DEF TaskState
  <2> HIDE DEF ended
  <2>2. TaskSound(ended, basis, n, bundle)
    BY <1>3, <2>1, <1>2 DEF TaskSound
  <2> QED  BY <2>1, <2>2 DEF ended
<1> QED  BY <1>2, <1>3, <1>4 DEF next

(* Whatever content a client may read is sound, and so is each head in it.   *)
LEMMA ViewIsSound ==
    ASSUME AgentInv, NEW basis, AgentSound(basis), NEW view \in Views("tasks"),
           NEW s \in TaskHeads(view)
    PROVE  TasksSound(view, basis, made, store.bundle) /\ TaskSound(s, basis, made, store.bundle)
<1>1. TasksSound(view, basis, made, store.bundle)
  BY DEF Views, AgentSound
<1>2. s \in view
  BY <1>1, HeadsIn DEF TasksSound
<1> QED  BY <1>1, <1>2 DEF TasksSound

(* prepare_handoff, submit_result, reject_result.                            *)
LEMMA LifeKeeps ==
    ASSUME AgentInv, NEW c \in Client, PrepareHandoff(c) \/ SubmitResult(c) \/ RejectResult(c)
    PROVE  AgentInv'
<1>1. PICK basis \in BasisOf : AgentSound(basis)
  BY DEF AgentInv
<1>2. PICK view \in Views("tasks") : \E s \in TaskHeads(view),
                                       status \in {"leased", "submitted", "rejected"} :
        /\ s.status \in {"created", "leased", "submitted"}
        /\ AppendStates(c, view, s, Step(s, status), {})
  BY DEF PrepareHandoff, SubmitResult, RejectResult
<1>3. made' = made
  BY DEF PrepareHandoff, SubmitResult, RejectResult
<1>4. PICK s \in TaskHeads(view), status \in {"leased", "submitted", "rejected"} :
        /\ s.status \in {"created", "leased", "submitted"}
        /\ AppendStates(c, view, s, Step(s, status), {})
  BY <1>2
<1> DEFINE next == Step(s, status)
<1>5. TasksSound(view, basis, made, store.bundle) /\ TaskSound(s, basis, made, store.bundle)
  BY <1>1, ViewIsSound
<1>6. TaskSound(next, basis, made, store.bundle) /\ next.task = s.task
      /\ next.revision = s.revision + 1
  <2>1. status \in {"leased", "submitted", "rejected", "revision_requested", "superseded"}
    OBVIOUS
  <2> QED  BY <1>5, <2>1, StepIsSound
<1>7. s.status \notin TaskTerminal /\ AppendStates(c, view, s, next, {})
  BY <1>4 DEF TaskTerminal
<1> HIDE DEF next
<1> QED  BY <1>1, <1>3, <1>5, <1>6, <1>7, StepIsWritten

(* A submission that declares its input unusable sets out to block the job.  *)
LEMMA SubmitBlockedKeeps ==
    ASSUME AgentInv, NEW c \in Client, SubmitBlocked(c)
    PROVE  AgentInv'
<1>1. PICK s \in TaskHeads(store.tasks) :
        Go(c, [Idle EXCEPT !.at = "block", !.job = s.basis.job, !.input = s.basis.input])
  BY DEF SubmitBlocked
<1> DEFINE w == [Idle EXCEPT !.at = "block", !.job = s.basis.job, !.input = s.basis.input]
<1>2. AgentTypeOK /\ work' = [work EXCEPT ![c] = w]
  BY <1>1 DEF AgentInv, Go
<1>3. UNCHANGED <<store, unnamed, past, open, gone, made, drifted, faults, source, profiles>>
  BY DEF SubmitBlocked, Unwritten
<1>4. PICK b \in BasisOf : AgentSound(b)
  BY DEF AgentInv
<1>5. s \in TaskState
  BY <1>4, HeadsIn DEF AgentSound, TasksSound, TaskSound
<1>6. s.basis.job \in JobState /\ s.basis.input \in Input
  BY <1>5 DEF TaskState, Basis
<1>7. w \in Work
  BY <1>6 DEF Idle, Work, Place
<1>8. w.at = "block" /\ w.seen = {} /\ w.task = None /\ w.job \in JobState /\ w.input \in Input
  BY <1>6 DEF Idle
<1> HIDE DEF w
<1>9. ASSUME NEW basis \in BasisOf, AgentSound(basis)
      PROVE  WorkSound(w, basis, made, store.bundle)
  <2>1. TasksSound(w.seen, basis, made, store.bundle) /\ Active(w.seen) = {w.task} \ {None}
    BY <1>8, NoTasksAreSound
  <2>2. w.job # None /\ w.input # None /\ w.at \in Assessing
    BY <1>8, NoneIsNoRecord DEF Record, Assessing
  <2> QED  BY <1>7, <1>8, <2>1, <2>2, AssessorIsSound
<1>10. profiles' \subseteq Key \X Input /\ source' \in Input /\ faults' \in 0 .. MaxFaults
  BY <1>2, <1>3 DEF AgentTypeOK
<1> QED  BY <1>2, <1>3, <1>9, <1>10, MovesOn

(* A request for a revision ends the task and creates its successor in one   *)
(* file.                                                                     *)
LEMMA RequestRevisionKeeps ==
    ASSUME AgentInv, NEW c \in Client, RequestRevision(c)
    PROVE  AgentInv'
<1>1. PICK basis \in BasisOf : AgentSound(basis)
  BY DEF AgentInv
<1>2. PICK view \in Views("tasks") : \E s \in TaskHeads(view) :
        LET j == JobHead(store.jobs, s.basis.job.job)
            ended == [Step(s, "revision_requested") EXCEPT !.next = made + 1]
        IN  /\ s.status = "submitted"
            /\ JobChain(store.jobs, s.basis.job.job) # {}
            /\ AppendStates(c, view, s, ended, {Root(made + 1, None, s.task, DerivedBasis(j))})
  BY DEF RequestRevision
<1>3. PICK s \in TaskHeads(view) :
        LET j == JobHead(store.jobs, s.basis.job.job)
            ended == [Step(s, "revision_requested") EXCEPT !.next = made + 1]
        IN  /\ s.status = "submitted"
            /\ JobChain(store.jobs, s.basis.job.job) # {}
            /\ AppendStates(c, view, s, ended, {Root(made + 1, None, s.task, DerivedBasis(j))})
  BY <1>2
<1> DEFINE j == JobHead(store.jobs, s.basis.job.job)
           next == [Step(s, "revision_requested") EXCEPT !.next = made + 1]
<1>4. made' = made + 1 /\ made < MaxTasks /\ made + 1 \in Nat
  BY MadeIsNat DEF RequestRevision
<1>5. TasksSound(view, basis, made, store.bundle) /\ TaskSound(s, basis, made, store.bundle)
  BY <1>1, ViewIsSound
<1>6. /\ TaskSound(next, basis, made, store.bundle) /\ next.task = s.task
      /\ next.revision = s.revision + 1 /\ next.status = "revision_requested"
  BY <1>4, <1>5, StepIsSound
<1>7. JobsSound(store.jobs)
  BY <1>1 DEF AgentSound
<1>8. j \in JobState
  BY <1>3, <1>7, JobHeadIn
<1>9. AppendStates(c, view, s, next, {Root(made + 1, None, s.task, DerivedBasis(j))})
  BY <1>3
<1>10. s.status \notin TaskTerminal /\ next.status \in TaskTerminal
  BY <1>3, <1>6 DEF TaskTerminal
<1> HIDE DEF j, next
<1> QED  BY <1>1, <1>4, <1>5, <1>6, <1>8, <1>9, <1>10, SuccessorIsWritten

(* So does a refresh that has assessed the profile again.                    *)
LEMMA SupersedeTaskKeeps ==
    ASSUME AgentInv, NEW c \in Client, SupersedeTask(c)
    PROVE  AgentInv'
<1>1. PICK basis \in BasisOf : AgentSound(basis)
  BY DEF AgentInv
<1> DEFINE s == work[c].task
           j == work[c].job
           view == work[c].seen
           next == [Step(s, "superseded") EXCEPT !.next = made + 1]
<1>2. /\ work[c].at = "bind" /\ s # None /\ made < MaxTasks /\ made' = made + 1
      /\ AppendStates(c, view, s, next, {Root(made + 1, None, s.task, DerivedBasis(j))})
  BY DEF SupersedeTask
<1>3. WorkSound(work[c], basis, made, store.bundle) /\ work[c].at \notin Approving
  BY <1>1, <1>2, ClientIsSound DEF Approving
<1>4. TasksSound(view, basis, made, store.bundle) /\ TaskSound(s, basis, made, store.bundle)
      /\ Active(view) = {s}
  BY <1>2, <1>3 DEF WorkSound
<1>5. s \in TaskHeads(view) /\ s.status \notin TaskTerminal
  BY <1>4 DEF Active
<1>6. j \in JobState
  BY <1>2, ClientTypes DEF Assessing
<1>7. made + 1 \in Nat
  BY MadeIsNat
<1>8. /\ TaskSound(next, basis, made, store.bundle) /\ next.task = s.task
      /\ next.revision = s.revision + 1 /\ next.status = "superseded"
  BY <1>4, <1>7, StepIsSound
<1>9. next.status \in TaskTerminal
  BY <1>8 DEF TaskTerminal
<1> HIDE DEF s, j, view, next
<1> QED  BY <1>1, <1>2, <1>4, <1>5, <1>6, <1>8, <1>9, SuccessorIsWritten

-----------------------------------------------------------------------------
(* Approvals.                                                                *)
LEMMA StartApproveKeeps ==
    ASSUME AgentInv, NEW c \in Client, StartApprove(c)
    PROVE  AgentInv'
<1>1. PICK s \in TaskHeads(store.tasks) :
        s.status = "submitted" /\ Go(c, [Idle EXCEPT !.at = "commit", !.task = s])
  BY DEF StartApprove
<1> DEFINE w == [Idle EXCEPT !.at = "commit", !.task = s]
<1>2. AgentTypeOK /\ work' = [work EXCEPT ![c] = w]
  BY <1>1 DEF AgentInv, Go
<1>3. UNCHANGED <<store, unnamed, past, open, gone, made, drifted, faults, source, profiles>>
  BY DEF StartApprove, Unwritten
<1>4. PICK b \in BasisOf : AgentSound(b)
  BY DEF AgentInv
<1>5. s \in store.tasks /\ s \in TaskState
  BY <1>4, HeadsIn DEF AgentSound, TasksSound, TaskSound
<1>6. w \in Work
  BY <1>5 DEF Idle, Work, Place
<1>7. w.at = "commit" /\ w.seen = {} /\ w.task = s
  BY DEF Idle
<1> HIDE DEF w
<1>8. ASSUME NEW basis \in BasisOf, AgentSound(basis)
      PROVE  WorkSound(w, basis, made, store.bundle)
  <2>1. TaskSound(w.task, basis, made, store.bundle)
    BY <1>5, <1>7, <1>8 DEF AgentSound, TasksSound
  <2>2. w.task # None /\ w.task.status = "submitted" /\ w.at \in Approving
    BY <1>1, <1>5, <1>7, NoneIsNoRecord DEF Record, Approving
  <2> QED  BY <1>6, <1>7, <2>1, <2>2, ApproverIsSound
<1>9. profiles' \subseteq Key \X Input /\ source' \in Input /\ faults' \in 0 .. MaxFaults
  BY <1>2, <1>3 DEF AgentTypeOK
<1> QED  BY <1>2, <1>3, <1>8, <1>9, MovesOn

(* An approving client holds a submitted state of its task.                  *)
LEMMA ApproverHolds ==
    ASSUME AgentInv, NEW basis, AgentSound(basis), NEW c \in Client, work[c].at \in Approving
    PROVE  /\ work[c] \in Work /\ work[c].task # None /\ work[c].task \in TaskState
           /\ TaskSound(work[c].task, basis, made, store.bundle)
           /\ work[c].task.status = "submitted" /\ work[c].seen = {}
BY ClientIsSound, ClientTypes DEF WorkSound

(* The active revision is one of the bundle.                                 *)
LEMMA ActiveRevisionIn ==
    ASSUME AgentInv, store.bundle # {}
    PROVE  ActiveRevision(store.bundle) \in store.bundle
<1>1. PICK basis \in BasisOf : AgentSound(basis)
  BY DEF AgentInv
<1> DEFINE bundle == store.bundle
           n == Cardinality(bundle)
           f == [r \in bundle |-> r.number]
<1>2. BundleSound(basis, made, bundle)
  BY <1>1 DEF AgentSound
<1>3. IsFiniteSet(bundle) /\ n \in Nat
  BY <1>2, FS_CardinalityType DEF BundleSound
<1>4. f \in [bundle -> 1 .. n]
  BY <1>2, <1>3 DEF BundleSound, Revision
<1>5. \A q, r \in bundle : f[q] = f[r] => q = r
  BY <1>2 DEF BundleSound
<1>6. f \in Injection(bundle, 1 .. n)
  BY <1>4, <1>5 DEF Injection, IsInjective
<1>7. IsFiniteSet(1 .. n) /\ Cardinality(1 .. n) = n
  BY <1>3, FS_Interval
<1>8. f \in Surjection(bundle, 1 .. n)
  BY <1>3, <1>6, <1>7, FS_Injection
<1>9. n \in 1 .. n
  BY <1>3, FS_EmptySet
<1>10. \E r \in bundle : f[r] = n
  BY <1>8, <1>9 DEF Surjection
<1>11. \E r \in bundle : r.number = Cardinality(bundle)
  BY <1>10
<1> QED  BY <1>11 DEF ActiveRevision

(* What an approver goes on with, once it has a revision.                    *)
LEMMA RevisionHeld ==
    ASSUME NEW basis, NEW n, NEW bundle, NEW w, WorkSound(w, basis, n, bundle),
           w.at \in {"commit", "install"}, NEW r \in Revision, r \in bundle, r.task = w.task.task
    PROVE  WorkSound([w EXCEPT !.at = "finish", !.revision = r], basis, n, bundle)
<1> DEFINE v == [w EXCEPT !.at = "finish", !.revision = r]
<1>1. w \in Work /\ w.at \in Approving
  BY DEF WorkSound, Approving
<1>2. v \in Work
  BY <1>1 DEF Work, Place
<1>3. v.at = "finish" /\ v.revision = r /\ v.seen = w.seen /\ v.task = w.task
  BY <1>1 DEF Work
<1> HIDE DEF v
<1>4. v.at \in Approving
  BY <1>3 DEF Approving
<1>5. w.task # None /\ TaskSound(w.task, basis, n, bundle) /\ w.task.status = "submitted"
        /\ w.seen = {}
  BY <1>1 DEF WorkSound
<1>6. WorkSound(v, basis, n, bundle)
  BY <1>2, <1>3, <1>4, <1>5, ApproverIsSound
<1> QED  BY <1>6 DEF v

(* An approval finds the revision an earlier attempt has written.            *)
LEMMA RecoverRevisionKeeps ==
    ASSUME AgentInv, NEW c \in Client, RecoverRevision(c)
    PROVE  AgentInv'
<1> DEFINE r == ActiveRevision(store.bundle)
           w == [work[c] EXCEPT !.at = "finish", !.revision = r]
<1>1. AgentTypeOK /\ work' = [work EXCEPT ![c] = w] /\ work[c].at = "commit"
  BY DEF RecoverRevision, Go, AgentInv
<1>2. UNCHANGED <<store, unnamed, past, open, gone, made, drifted, faults, source, profiles>>
  BY DEF RecoverRevision, Unwritten
<1>3. r \in store.bundle /\ r \in Revision /\ r.task = work[c].task.task
  BY ActiveRevisionIn, MadeIsNat DEF RecoverRevision, HasRevision
<1> HIDE DEF r
<1>4. ASSUME NEW basis \in BasisOf, AgentSound(basis)
      PROVE  WorkSound(w, basis, made, store.bundle)
  BY <1>1, <1>3, <1>4, ClientIsSound, RevisionHeld
<1> HIDE DEF w
<1>5. profiles' \subseteq Key \X Input /\ source' \in Input /\ faults' \in 0 .. MaxFaults
  BY <1>1, <1>2 DEF AgentTypeOK
<1> QED  BY <1>1, <1>2, <1>4, <1>5, MovesOn

(* An approval compares its task's basis with the store, before the lock.    *)
LEMMA CheckInputsKeeps ==
    ASSUME AgentInv, NEW c \in Client, CheckInputs(c)
    PROVE  AgentInv'
<1> DEFINE w == [work[c] EXCEPT !.at = "install"]
<1>1. AgentTypeOK /\ work' = [work EXCEPT ![c] = w] /\ work[c].at \in Approving
  BY DEF CheckInputs, Go, AgentInv, Approving
<1>2. UNCHANGED <<store, unnamed, past, open, gone, made, drifted, faults, source, profiles>>
  BY DEF CheckInputs, Unwritten
<1>3. work[c] \in Work
  BY ClientTypes
<1>4. w \in Work
  BY <1>3 DEF Work, Place
<1>5. w.at = "install" /\ w.task = work[c].task /\ w.seen = work[c].seen
  BY <1>3 DEF Work
<1> HIDE DEF w
<1>6. ASSUME NEW basis \in BasisOf, AgentSound(basis)
      PROVE  WorkSound(w, basis, made, store.bundle)
  <2>1. /\ w.task # None /\ TaskSound(w.task, basis, made, store.bundle)
        /\ w.task.status = "submitted" /\ w.seen = {}
    BY <1>1, <1>5, <1>6, ApproverHolds
  <2>2. w.at \in Approving
    BY <1>5 DEF Approving
  <2> QED  BY <1>4, <1>5, <2>1, <2>2, ApproverIsSound
<1>7. profiles' \subseteq Key \X Input /\ source' \in Input /\ faults' \in 0 .. MaxFaults
  BY <1>1, <1>2 DEF AgentTypeOK
<1> QED  BY <1>1, <1>2, <1>6, <1>7, MovesOn

(* The revision that an approval appends: its task is bound to all before it.*)
LEMMA NextRevisionIs ==
    ASSUME AgentInv, NEW basis, AgentSound(basis), NEW c \in Client, work[c].at \in Approving,
           SameBundle(work[c].task.basis)
    PROVE  LET r == NextRevision(work[c].task)
           IN  /\ r \in Revision /\ r.task = work[c].task.task
               /\ BundleSound(basis, made, store.bundle \cup {r})
<1> DEFINE s == work[c].task
           first == [number |-> Cardinality(store.bundle) + 1, task |-> s.task, id |-> 0]
           r == New(first)
<1>1. TaskSound(s, basis, made, store.bundle) /\ s \in TaskState
  BY ApproverHolds
<1>2. BundleSound(basis, made, store.bundle) /\ IsFiniteSet(gone) /\ store.bundle = s.basis.bundle
  BY DEF AgentSound, AgentInv, SameBundle
<1>3. Cardinality(store.bundle) \in Nat
  BY <1>2, FS_CardinalityType DEF BundleSound
<1>4. /\ first \in Revision /\ first.task = s.task /\ first.number = Cardinality(store.bundle) + 1
  BY <1>1, <1>3 DEF Revision, TaskState
<1> HIDE DEF first
<1>5. r \in Revision /\ r.task = s.task /\ r.number = Cardinality(store.bundle) + 1
  BY <1>2, <1>4, NewRevision
<1> HIDE DEF r
<1>6. r.task <= made /\ basis[r.task].bundle = store.bundle
  BY <1>1, <1>2, <1>5 DEF TaskSound
<1>7. BundleSound(basis, made, store.bundle \cup {r})
  BY <1>2, <1>5, <1>6, RevisionStaysSound
<1> QED  BY <1>5, <1>7 DEF r, first, NextRevision

(* Whatever becomes of the call, the bundle is as sound with the revision.   *)
LEMMA BundleGrows ==
    ASSUME AgentInv, NEW basis, AgentSound(basis), NEW c \in Client, work[c].at = "install",
           SameBundle(work[c].task.basis), NEW r, r = NextRevision(work[c].task),
           store' = [store EXCEPT !.bundle = store.bundle \cup {r}],
           Go(c, Idle) \/ Go(c, [work[c] EXCEPT !.at = "finish", !.revision = r]),
           made' = made, ReadsAge
    PROVE  AgentSound(basis)' /\ work' \in [Client -> Work]
<1>1. /\ r \in Revision /\ r.task = work[c].task.task
      /\ BundleSound(basis, made, store.bundle \cup {r})
  BY NextRevisionIs DEF Approving
<1>2. store'.bundle = store.bundle \cup {r} /\ store'.jobs = store.jobs
        /\ store'.tasks = store.tasks
  BY DEF AgentInv, AgentTypeOK
<1>3. made \in Nat
  BY MadeIsNat
<1>4. Grown(basis, made, store.bundle, basis, made', store'.bundle)
  BY <1>2, <1>3 DEF Grown
<1>5. WorkSound(work[c], basis, made', store'.bundle)
  BY <1>4, ClientIsSound, WorkStays
<1> DEFINE next == [work[c] EXCEPT !.at = "finish", !.revision = r]
<1>6. WorkSound(next, basis, made', store'.bundle)
  BY <1>1, <1>2, <1>5, RevisionHeld
<1>7. Go(c, Idle) \/ Go(c, next)
  OBVIOUS
<1> HIDE DEF next
<1>8. PICK w : work' = [work EXCEPT ![c] = w] /\ WorkSound(w, basis, made', store'.bundle)
  BY <1>6, <1>7, IdleIsSound DEF Go
<1>9. TasksSound(store'.tasks, basis, made', store'.bundle) /\ JobsSound(store'.jobs)
  BY <1>2, <1>4, TasksStay DEF AgentSound
<1>10. BundleSound(basis, made', store'.bundle)
  BY <1>1, <1>2
<1>11. AgentSound(basis)'
  BY <1>4, <1>8, <1>9, <1>10, OthersStaySound
<1>12. work' \in [Client -> Work]
  BY <1>8 DEF WorkSound, AgentInv, AgentTypeOK
<1> QED  BY <1>11, <1>12

(* The revision is written under the lock, where the bundle is compared      *)
(* again.                                                                    *)
LEMMA CommitRevisionKeeps ==
    ASSUME AgentInv, NEW c \in Client, CommitRevision(c)
    PROVE  AgentInv'
<1>1. PICK basis \in BasisOf : AgentSound(basis)
  BY DEF AgentInv
<1> DEFINE s == work[c].task
<1>2. PICK r : r = NextRevision(s)
  OBVIOUS
<1> DEFINE content == store.bundle \cup {r}
           next == [work[c] EXCEPT !.at = "finish", !.revision = r]
<1>3. /\ work[c].at = "install" /\ SameBundle(s.basis)
      /\ Promote(c, "bundle", content, {r}, {s}, next)
      /\ UNCHANGED <<drifted, source, profiles, made>>
  BY <1>2 DEF CommitRevision
<1>4. r \in Revision /\ s \in TaskState
  BY <1>1, <1>2, <1>3, NextRevisionIs, ApproverHolds DEF Approving
<1>5. store \in Stores /\ AgentTypeOK /\ IsFiniteSet(gone)
  BY DEF AgentInv, AgentTypeOK, Stores
<1>6. [store EXCEPT !.bundle = content] \in Stores
  BY <1>4, <1>5 DEF Stores
<1>7. {r} \in SUBSET Record /\ {s} \in SUBSET Record /\ IsFiniteSet(store["bundle"])
      /\ "bundle" \in {"jobs", "tasks", "bundle"}
  BY <1>1, <1>4, ContentsFinite DEF Record
<1> HIDE DEF content, next, s
<1>8. /\ store' = [store EXCEPT !.bundle = content] /\ store' \in Stores
      /\ Contiguous(store') /\ Resolves(store')
      /\ unnamed' \subseteq Records(store') /\ open' \subseteq Opens
      /\ gone' \subseteq Record /\ IsFiniteSet(gone') /\ faults' \in 0 .. MaxFaults
      /\ past' \in Pasts /\ ReadsAge
      /\ Go(c, next) \/ Go(c, Idle)
  BY <1>3, <1>5, <1>6, <1>7, PromoteDoes
<1>9. AgentSound(basis)' /\ work' \in [Client -> Work]
  BY <1>1, <1>2, <1>3, <1>8, BundleGrows DEF content, next, s
<1>10. AgentTypeOK'
  BY <1>3, <1>5, <1>8, <1>9 DEF AgentTypeOK, Stores, Opens, Pasts
<1> QED  BY <1>1, <1>8, <1>9, <1>10 DEF AgentInv

(* The same commit in a store whose other inputs have drifted.               *)
LEMMA CommitDriftsKeeps ==
    ASSUME AgentInv, NEW c \in Client, CommitDrifts(c)
    PROVE  AgentInv'
<1>1. PICK basis \in BasisOf : AgentSound(basis)
  BY DEF AgentInv
<1> DEFINE s == work[c].task
<1>2. PICK r : r = NextRevision(s)
  OBVIOUS
<1> DEFINE content == store.bundle \cup {r}
<1>3. /\ work[c].at = "install" /\ SameBundle(s.basis)
      /\ Valid([store EXCEPT !.bundle = content]) /\ Install("bundle", content) /\ ReadsAge
      /\ UNCHANGED <<source, profiles, made>>
  BY <1>2 DEF CommitDrifts
<1>4. r \in Revision /\ s \in TaskState
  BY <1>1, <1>2, <1>3, NextRevisionIs, ApproverHolds DEF Approving
<1>5. store \in Stores /\ AgentTypeOK /\ IsFiniteSet(gone)
  BY DEF AgentInv, AgentTypeOK, Stores
<1>6. [store EXCEPT !.bundle = content] \in Stores
  BY <1>4, <1>5 DEF Stores
<1>7. {r} \in SUBSET Record /\ {s} \in SUBSET Record /\ IsFiniteSet(store["bundle"])
      /\ "bundle" \in {"jobs", "tasks", "bundle"}
  BY <1>1, <1>4, ContentsFinite DEF Record
<1> HIDE DEF content
<1>8. /\ store' = [store EXCEPT !.bundle = content] /\ store' \in Stores
      /\ Contiguous(store') /\ Resolves(store')
      /\ gone' \subseteq Record /\ IsFiniteSet(gone')
  BY <1>3, <1>5, <1>6, <1>7, InstallDoes
<1>9. past' \in Pasts
  BY <1>3, <1>5, <1>8, PastHasItsType
<1>10. Go(c, Idle) /\ unnamed' \subseteq Records(store') /\ open' \subseteq Opens
       /\ faults' \in 0 .. MaxFaults /\ drifted' \subseteq Revision
  <2>1. CASE /\ drifted' = drifted \cup {r} /\ unnamed' = unnamed \cup {r}
             /\ open' = Pending("bundle") /\ Done(c) /\ UNCHANGED faults
    <3>1. Records(store) \cup {r} \subseteq Records(store')
      BY <1>5, <1>8 DEF Records, content, Stores
    <3> QED  BY <1>4, <1>5, <2>1, <3>1 DEF AgentTypeOK, Pending, Done, Opens
  <2>2. CASE Interrupted(c, "bundle", {r}, {s}) /\ UNCHANGED drifted
    BY <1>5, <1>7, <2>2, InterruptionLeaves DEF AgentTypeOK
  <2> QED  BY <1>2, <2>1, <2>2 DEF CommitDrifts
<1>11. AgentSound(basis)' /\ work' \in [Client -> Work]
  BY <1>1, <1>2, <1>3, <1>8, <1>10, BundleGrows DEF content
<1>12. AgentTypeOK'
  BY <1>3, <1>5, <1>8, <1>9, <1>10, <1>11 DEF AgentTypeOK, Stores, Opens, Pasts
<1> QED  BY <1>1, <1>8, <1>11, <1>12 DEF AgentInv

(* The job of an approval: a move of its head, or its head as it is.         *)
LEMMA ApprovalMoves ==
    ASSUME AgentInv, NEW c \in Client, work[c].at \in {"finish", "complete"}, NEW s \in JobState,
           s.job = work[c].task.basis.job.job,
           \/ MoveJob(c, s, "running", "commit", s.outputs \cup {work[c].revision}, "complete")
           \/ MoveJob(c, s, "completed", "committed", s.outputs \cup {work[c].revision}, "decide")
    PROVE  AgentInv'
<1> DEFINE r == work[c].revision
           outputs == s.outputs \cup {r}
<1>1. r \in Revision
  <2>1. PICK basis \in BasisOf : AgentSound(basis)
    BY DEF AgentInv
  <2>2. r \in store.bundle
    BY <2>1, ClientIsSound DEF WorkSound
  <2> QED  BY <2>2, MadeIsNat
<1>2. outputs \in SUBSET (Input \cup Revision) /\ r \in outputs
  BY <1>1 DEF JobState
<1> HIDE DEF outputs
<1>3. CASE MoveJob(c, s, "running", "commit", outputs, "complete")
  <2>1. ASSUME NEW basis \in BasisOf, AgentSound(basis), NEW j,
               JobLike(j, s, "running", "commit", outputs)
        PROVE  WorkSound([work[c] EXCEPT !.at = "complete", !.job = j], basis, made, store.bundle)
    BY <2>1, ClientIsSound, ApprovalGoesOn DEF JobLike
  <2>2. \A basis \in BasisOf : AgentSound(basis) =>
          \A j : JobLike(j, s, "running", "commit", outputs) =>
            \/ "complete" = "idle"
            \/ WorkSound([work[c] EXCEPT !.at = "complete", !.job = j], basis, made, store.bundle)
    BY <2>1
  <2>3. "running" \in JobStatus /\ "commit" \in Node
    BY DEF JobStatus, Node
  <2> QED  BY <1>2, <1>3, <2>2, <2>3, JobMoves
<1>4. CASE MoveJob(c, s, "completed", "committed", outputs, "decide")
  <2>1. ASSUME NEW basis \in BasisOf, AgentSound(basis), NEW j,
               JobLike(j, s, "completed", "committed", outputs)
        PROVE  WorkSound([work[c] EXCEPT !.at = "decide", !.job = j], basis, made, store.bundle)
    BY <1>2, <2>1, ClientIsSound, ApprovalGoesOn DEF JobLike
  <2>2. \A basis \in BasisOf : AgentSound(basis) =>
          \A j : JobLike(j, s, "completed", "committed", outputs) =>
            \/ "decide" = "idle"
            \/ WorkSound([work[c] EXCEPT !.at = "decide", !.job = j], basis, made, store.bundle)
    BY <2>1
  <2>3. "completed" \in JobStatus /\ "committed" \in Node
    BY DEF JobStatus, JobTerminal, Node
  <2> QED  BY <1>2, <1>4, <2>2, <2>3, JobMoves
<1> QED  BY <1>3, <1>4 DEF outputs

(* The job is taken to its commit node, or found completed with the          *)
(* revision.                                                                 *)
LEMMA FinishJobKeeps ==
    ASSUME AgentInv, NEW c \in Client, FinishJob(c)
    PROVE  AgentInv'
<1>1. PICK b \in BasisOf : AgentSound(b)
  BY DEF AgentInv
<1>2. work[c].at = "finish"
  BY DEF FinishJob
<1>3. PICK j \in JobHeads(store.jobs) :
        /\ j.job = work[c].task.basis.job.job
        /\ \/ /\ j.status = "completed" /\ j.node = "committed" /\ work[c].revision \in j.outputs
              /\ Go(c, [work[c] EXCEPT !.at = "decide", !.job = j])
              /\ UNCHANGED <<Unwritten, drifted, source, profiles, made>>
           \/ MoveJob(c, j, "running", "commit", j.outputs \cup {work[c].revision}, "complete")
           \/ MoveJob(c, j, "completed", "committed", j.outputs \cup {work[c].revision}, "decide")
  BY DEF FinishJob
<1>4. j \in JobState
  <2>1. PICK s \in store.jobs : j = JobHead(store.jobs, s.job)
    BY DEF JobHeads
  <2>2. JobChain(store.jobs, s.job) # {} /\ JobsSound(store.jobs)
    BY <1>1 DEF JobChain, AgentSound
  <2> QED  BY <2>1, <2>2, JobHeadIn
<1>5. CASE /\ j.status = "completed" /\ j.node = "committed" /\ work[c].revision \in j.outputs
           /\ Go(c, [work[c] EXCEPT !.at = "decide", !.job = j])
           /\ UNCHANGED <<Unwritten, drifted, source, profiles, made>>
  <2> DEFINE w == [work[c] EXCEPT !.at = "decide", !.job = j]
  <2>1. \A basis \in BasisOf : AgentSound(basis) => WorkSound(w, basis, made, store.bundle)
    BY <1>2, <1>3, <1>4, <1>5, ClientIsSound, ApprovalGoesOn
  <2>2. work' = [work EXCEPT ![c] = w]
    BY <1>5 DEF Go
  <2> HIDE DEF w
  <2>3. profiles' \subseteq Key \X Input /\ source' \in Input /\ faults' \in 0 .. MaxFaults
    BY <1>5 DEF AgentInv, AgentTypeOK, Unwritten
  <2> QED  BY <1>5, <2>1, <2>2, <2>3, MovesOn DEF Unwritten
<1>6. CASE \/ MoveJob(c, j, "running", "commit", j.outputs \cup {work[c].revision}, "complete")
           \/ MoveJob(c, j, "completed", "committed", j.outputs \cup {work[c].revision}, "decide")
  BY <1>2, <1>3, <1>4, <1>6, ApprovalMoves
<1> QED  BY <1>3, <1>5, <1>6

(* The job is completed with the revision among its outputs.                 *)
LEMMA CompleteJobKeeps ==
    ASSUME AgentInv, NEW c \in Client, CompleteJob(c)
    PROVE  AgentInv'
<1>1. PICK b \in BasisOf : AgentSound(b)
  BY DEF AgentInv
<1> DEFINE j == work[c].job
<1>2. work[c].at = "complete"
      /\ MoveJob(c, j, "completed", "committed", j.outputs \cup {work[c].revision}, "decide")
  BY DEF CompleteJob
<1>3. j \in JobState
  BY <1>2, ClientTypes
<1>4. j.job = work[c].task.basis.job.job
  BY <1>1, <1>2, ClientIsSound DEF WorkSound
<1> HIDE DEF j
<1> QED  BY <1>2, <1>3, <1>4, ApprovalMoves

(* The task is approved with the completed job that applied it.              *)
LEMMA ApproveTaskKeeps ==
    ASSUME AgentInv, NEW c \in Client, ApproveTask(c)
    PROVE  AgentInv'
<1>1. PICK basis \in BasisOf : AgentSound(basis)
  BY DEF AgentInv
<1> DEFINE s == work[c].task
           j == work[c].job
           step == Step(s, "approved")
           next == [step EXCEPT !.applied = j]
<1>2. PICK view \in Views("tasks") :
        s \in TaskHeads(view) /\ AppendStates(c, view, s, next, {})
  BY DEF ApproveTask
<1>3. work[c].at = "decide" /\ made' = made
  BY DEF ApproveTask
<1>4. TasksSound(view, basis, made, store.bundle) /\ TaskSound(s, basis, made, store.bundle)
  BY <1>1, <1>2, ViewIsSound
<1>5. s.status = "submitted" /\ s \in TaskState /\ j \in JobState
  BY <1>1, <1>3, ApproverHolds, ClientTypes DEF Approving
<1>6. /\ j.status = "completed" /\ j.node = "committed" /\ j.job = s.basis.job.job
      /\ work[c].revision \in j.outputs /\ work[c].revision \in store.bundle
      /\ work[c].revision.task = s.task
  BY <1>1, <1>3, ClientIsSound DEF WorkSound
<1>7. s.revision + 1 \in Nat \ {0}
  BY <1>5 DEF TaskState
<1>8. /\ step \in TaskState /\ step.task = s.task /\ step.revision = s.revision + 1
      /\ step.status = "approved" /\ step.basis = s.basis
  BY <1>5, <1>7 DEF Step, TaskState, TaskTerminal
<1> HIDE DEF step
<1>9. /\ next \in TaskState /\ next.task = s.task /\ next.revision = s.revision + 1
      /\ next.status = "approved" /\ next.basis = s.basis /\ next.applied = j
  BY <1>5, <1>8 DEF TaskState
<1> HIDE DEF next
<1>10. TaskSound(next, basis, made, store.bundle)
  <2>1. next.task <= made /\ next.basis = basis[next.task]
    BY <1>4, <1>9 DEF TaskSound
  <2>2. \E r \in store.bundle : r.task = next.task /\ r \in next.applied.outputs
    BY <1>6, <1>9
  <2> QED  BY <1>5, <1>6, <1>9, <2>1, <2>2 DEF TaskSound
<1>11. s.status \notin TaskTerminal
  BY <1>5 DEF TaskTerminal
<1> HIDE DEF s, j
<1> QED  BY <1>1, <1>2, <1>3, <1>4, <1>9, <1>10, <1>11, StepIsWritten

-----------------------------------------------------------------------------
(* The rest: cancellations, calls that end early, crashes, changes of the    *)
(* inputs and recoveries.                                                    *)
LEMMA CancelJobKeeps ==
    ASSUME AgentInv, NEW c \in Client, CancelJob(c)
    PROVE  AgentInv'
<1>1. PICK b \in BasisOf : AgentSound(b)
  BY DEF AgentInv
<1>2. PICK view \in past.jobs : \E s \in view :
        LET next == Moved(s, "cancelled", s.node, s.outputs)
        IN  Promote(c, "jobs", view \cup {next}, {next}, {s}, Idle)
  BY DEF CancelJob, Views
<1>3. PICK s \in view :
        LET next == Moved(s, "cancelled", s.node, s.outputs)
        IN  Promote(c, "jobs", view \cup {next}, {next}, {s}, Idle)
  BY <1>2
<1> DEFINE next == Moved(s, "cancelled", s.node, s.outputs)
<1>4. s \in JobState
  BY <1>1 DEF AgentSound, JobsSound
<1>5. next \in JobState
  <2>1. /\ "cancelled" \in JobStatus /\ s.node \in Node
        /\ s.outputs \in SUBSET (Input \cup Revision) /\ IsFiniteSet(gone)
    BY <1>4 DEF JobStatus, JobTerminal, JobState, AgentInv
  <2> QED  BY <1>4, <2>1, MovedIs DEF JobLike
<1>6. Promote(c, "jobs", view \cup {next}, {next}, {s}, Idle)
  BY <1>3
<1> HIDE DEF next
<1>7. {s} \in SUBSET JobState
  BY <1>4
<1>8. \A basis \in BasisOf : AgentSound(basis) => WorkSound(Idle, basis, made, store.bundle)
  BY IdleIsSound
<1>9. UNCHANGED <<drifted, source, profiles, made>>
  BY DEF CancelJob
<1> QED  BY <1>5, <1>6, <1>7, <1>8, <1>9, JobsWritten

(* A request that gives up or dies leaves nothing in hand.                   *)
LEMMA EndingsKeep ==
    ASSUME AgentInv, NEW c \in Client, GiveUp(c) \/ Crash(c)
    PROVE  AgentInv'
<1>1. CASE GiveUp(c)
  BY <1>1, IdleKeeps DEF GiveUp, Unwritten, AgentInv, AgentTypeOK
<1>2. CASE Crash(c)
  <2>1. faults' \in 0 .. MaxFaults
    BY <1>2, BoundAssumption DEF Crash, AgentInv, AgentTypeOK
  <2> QED  BY <1>2, <2>1, IdleKeeps DEF Crash
<1> QED  BY <1>1, <1>2

(* The inputs of an assessment change between the steps of a client.         *)
LEMMA ChangeInputsKeeps ==
    ASSUME AgentInv, ChangeInputs
    PROVE  AgentInv'
<1>1. PICK basis \in BasisOf : AgentSound(basis)
  BY DEF AgentInv
<1>2. UNCHANGED <<store, unnamed, past, open, gone, drifted, profiles, made, work>>
      /\ source' \in Input
  BY DEF ChangeInputs
<1>3. faults' \in 0 .. MaxFaults
  BY BoundAssumption DEF ChangeInputs, AgentInv, AgentTypeOK
<1>4. AgentSound(basis)'
  BY <1>1, <1>2 DEF AgentSound
<1>5. AgentTypeOK'
  BY <1>2, <1>3 DEF AgentInv, AgentTypeOK
<1> QED  BY <1>1, <1>2, <1>4, <1>5 DEF AgentInv

(* Recovery appends the event of what an open journal wrote.                 *)
LEMMA RecoverKeeps ==
    ASSUME AgentInv, NEW p \in open, Recover(p)
    PROVE  AgentInv'
<1>1. PICK basis \in BasisOf : AgentSound(basis)
  BY DEF AgentInv
<1>2. /\ UNCHANGED <<store, gone, drifted, source, profiles, made, work, faults>>
      /\ open' \subseteq open /\ unnamed' \subseteq unnamed /\ ReadsAge
  BY DEF Recover
<1>3. past' \in Pasts
  BY <1>2, PastHasItsType DEF AgentInv, AgentTypeOK, Stores
<1>4. AgentSound(basis)'
  <2>1. \A tasks \in past'.tasks \cup {store'.tasks} : TasksSound(tasks, basis, made,
          store.bundle)
    BY <1>1, <1>2, PastAges DEF AgentSound
  <2>2. \A jobs \in past'.jobs \cup {store'.jobs} : JobsSound(jobs)
    BY <1>1, <1>2, PastAges DEF AgentSound
  <2> QED  BY <1>1, <1>2, <2>1, <2>2 DEF AgentSound
<1>5. AgentTypeOK'
  BY <1>2, <1>3 DEF AgentInv, AgentTypeOK, Pasts
<1> QED  BY <1>1, <1>2, <1>4, <1>5 DEF AgentInv

(* The invariant holds before the first task.                                *)
LEMMA AgentInvInit == ASSUME Init PROVE AgentInv
<1> DEFINE basis == [n \in Nat \ {0} |-> None]
<1>1. basis \in BasisOf
  BY DEF BasisOf
<1>2. store = [jobs |-> {}, tasks |-> {}, bundle |-> {}] /\ past = [jobs |-> {{}}, tasks |-> {{}}]
      /\ made = 0 /\ gone = {} /\ work = [c \in Client |-> Idle]
  BY DEF Init
<1>3. IsFiniteSet({}) /\ IsFiniteSet(gone)
  BY <1>2, FS_EmptySet
<1>4. AgentSound(basis)
  <2>1. \A tasks \in past.tasks \cup {store.tasks} : TasksSound(tasks, basis, made, store.bundle)
    <3>1. TasksSound({}, basis, made, store.bundle)
      BY NoTasksAreSound
    <3>2. past.tasks \cup {store.tasks} = {{}}
      BY <1>2
    <3> QED  BY <3>1, <3>2
  <2>2. \A jobs \in past.jobs \cup {store.jobs} : JobsSound(jobs)
    BY <1>2, <1>3 DEF JobsSound, JobsChained
  <2>3. BundleSound(basis, made, store.bundle)
    BY <1>2, <1>3 DEF BundleSound
  <2>4. \A c \in Client : WorkSound(work[c], basis, made, store.bundle)
    BY <1>2, IdleIsSound
  <2> QED  BY <2>1, <2>2, <2>3, <2>4 DEF AgentSound
<1>5. Resolves(store)
  BY <1>2 DEF Resolves
<1>6. AgentTypeOK
  <2>1. Idle \in Work
    BY DEF Idle, Work, Place
  <2>2. source \in Input /\ 0 \in 0 .. MaxTasks /\ 0 \in 0 .. MaxFaults
    BY InputAssumption, BoundAssumption DEF Init
  <2> QED  BY <1>2, <2>1, <2>2 DEF Init, AgentTypeOK, Records
<1> QED  BY <1>1, <1>3, <1>4, <1>5, <1>6 DEF AgentInv

(* Every action keeps it.                                                    *)
LEMMA AgentInvNext == ASSUME AgentInv, [Next]_vars PROVE AgentInv'
<1>1. ASSUME NEW c \in Client, CreateOrRefresh(c)
      PROVE  AgentInv'
  BY <1>1, StartCreateKeeps, OpenJobKeeps, StartRefreshKeeps, AssessKeeps, GateKeeps, BlockKeeps,
     AwaitAgentKeeps, CreateTaskKeeps, SupersedeTaskKeeps DEF CreateOrRefresh
<1>2. ASSUME NEW c \in Client, Approve(c)
      PROVE  AgentInv'
  BY <1>2, StartApproveKeeps, RecoverRevisionKeeps, CheckInputsKeeps, CommitRevisionKeeps,
     CommitDriftsKeeps, FinishJobKeeps, CompleteJobKeeps, ApproveTaskKeeps DEF Approve
<1>3. ASSUME NEW c \in Client,
             \/ PrepareHandoff(c) \/ SubmitResult(c) \/ SubmitBlocked(c)
             \/ RejectResult(c) \/ RequestRevision(c)
             \/ CancelJob(c) \/ GiveUp(c) \/ Crash(c)
      PROVE  AgentInv'
  BY <1>3, LifeKeeps, SubmitBlockedKeeps, RequestRevisionKeeps, CancelJobKeeps, EndingsKeep
<1>4. CASE UNCHANGED vars
  <2>1. PICK basis \in BasisOf : AgentSound(basis)
    BY DEF AgentInv
  <2>2. AgentSound(basis)'
    BY <1>4, <2>1 DEF AgentSound, vars
  <2>3. AgentTypeOK'
    BY <1>4 DEF AgentInv, AgentTypeOK, vars
  <2> QED  BY <1>4, <2>1, <2>2, <2>3 DEF AgentInv, vars
<1> QED  BY <1>1, <1>2, <1>3, <1>4, ChangeInputsKeeps, RecoverKeeps DEF Next

(* The strengthening of all that follows is inductive.                       *)
THEOREM AgentInvariant == Spec => []AgentInv
BY AgentInvInit, AgentInvNext, PTL DEF Spec

(* Every variable keeps its type.                                            *)
THEOREM AgentTypesHold == Spec => []AgentTypeOK
<1>1. AgentInv => AgentTypeOK
  BY DEF AgentInv
<1> QED  BY <1>1, AgentInvariant, PTL

(* One task is active at a time, whatever creations, refreshes and requests  *)
(* for a revision overlap, on however many semantic jobs.                    *)
THEOREM OneTaskIsActive == Spec => []OneActiveTask
<1>1. AgentInv => OneActiveTask
  BY DEF AgentInv, AgentSound, TasksSound, OneActiveTask
<1> QED  BY <1>1, AgentInvariant, PTL

(* A revision was worked out against exactly the revisions before it.        *)
THEOREM RevisionsFollowTheirBasis == Spec => []RevisionFollowsItsBasis
<1>1. ASSUME AgentInv PROVE RevisionFollowsItsBasis
  <2>1. PICK basis \in BasisOf : AgentSound(basis)
    BY <1>1 DEF AgentInv
  <2>2. \A t \in store.tasks : t.basis = basis[t.task]
    BY <2>1 DEF AgentSound, TasksSound, TaskSound
  <2>3. \A r \in store.bundle : basis[r.task].bundle = {q \in store.bundle : q.number < r.number}
    BY <2>1 DEF AgentSound, BundleSound
  <2> QED  BY <2>2, <2>3 DEF RevisionFollowsItsBasis, Owner, TaskChain
<1> QED  BY <1>1, AgentInvariant, PTL

(* An approved task has exactly one revision in the bundle, and its job was  *)
(* completed with it.                                                        *)
THEOREM ApprovalsAreApplied == Spec => []ApprovedIsApplied
<1>1. ASSUME AgentInv PROVE ApprovedIsApplied
  <2>1. PICK basis \in BasisOf : AgentSound(basis)
    BY <1>1 DEF AgentInv
  <2>2. ASSUME NEW t \in store.tasks, t.status = "approved"
        PROVE  \E r \in MatchingRevisions(t) : MatchingRevisions(t) = {r} /\ AppliedWith(t, r)
    <3>1. TaskSound(t, basis, made, store.bundle) /\ BundleSound(basis, made, store.bundle)
      BY <2>1 DEF AgentSound, TasksSound
    <3>2. PICK r \in store.bundle : r.task = t.task /\ r \in t.applied.outputs
      BY <2>2, <3>1 DEF TaskSound
    <3>3. t.applied # None /\ t.applied \in store.jobs
      BY <1>1, <2>2, <3>1, NoneIsNoRecord DEF TaskSound, Record, AgentInv, Resolves
    <3>4. AppliedWith(t, r)
      BY <2>2, <3>1, <3>2, <3>3 DEF AppliedWith, TaskSound
    <3>5. ASSUME NEW q \in store.bundle, q.task = t.task
          PROVE  q = r
      <4>1. {p \in store.bundle : p.number < q.number} = {p \in store.bundle :
              p.number < r.number}
        BY <3>1, <3>2, <3>5 DEF BundleSound
      <4>2. q.number \in Nat /\ r.number \in Nat
        BY <3>1 DEF BundleSound, Revision
      <4>3. ~(q.number < r.number) /\ ~(r.number < q.number)
        BY <4>1, <4>2
      <4> QED  BY <3>1, <4>2, <4>3 DEF BundleSound
    <3> QED  BY <3>2, <3>4, <3>5 DEF MatchingRevisions
  <2> QED  BY <2>2 DEF ApprovedIsApplied
<1> QED  BY <1>1, AgentInvariant, PTL
=============================================================================
