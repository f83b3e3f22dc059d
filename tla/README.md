# LitGrove, modelled in TLA+

LitGrove ("Research KB Core", `src/research_kb/`) is the deterministic execution layer of a local
research knowledge base. A workspace is a directory of canonical JSON and JSONL stores; every change
to one of them goes through a transaction kernel that journals it, replaces one file and appends a
process event. There is no server and no daemon: each call is a process of its own, any number of
them may run at once, any of them may be killed between two file operations, and all that connects
them is the files and one lock file.

This directory holds the TLA+ modules that model it, the TLC configurations that check them on small
instances, and TLAPS proofs for every value of the constants. `PROJECT.json` lists the runs, the
mutation each property must catch, the source lines each definition stands for, the hazards the
properties are for, and the findings.

## 1. The system

### Components, their state and their operations

| component | source | state | operations |
|---|---|---|---|
| transaction kernel | `storage/transactions.py`, `process_events.py`, `services/recovery.py` | `process/transactions/*.json`, `process/process_events.jsonl`, the target store | `promote_bytes`, `record_failure`, `recover`, `transaction_integrity_diagnostics` |
| file primitives | `storage/json_io.py` | temporary files | fsynced temporary, `os.replace` |
| workspace lock | `storage/locking.py` | one lock file | acquire with a 30 s timeout |
| workspace validation | `bundle.py`, `workspace_validation.py`, `contracts/validator.py` | none | load every store, check schemas, chains and references |
| Pipeline Jobs | `pipeline_jobs.py`, `services/pipeline_job.py` | `process/jobs.jsonl`, chains of revisions | create, transition, cancel, recover, list, show |
| job authority | `services/_pipeline_authority.py` | none | does the current job grant an operation? |
| identity corrections | `identity_corrections.py`, `services/registry_identity.py` | a chain of corrections | merge, alias, split, archive, tombstone, project |
| registry, source assets | `services/registry.py`, `services/source_asset.py`, `source_assets.py` | `registry.jsonl`, chains of asset states | add, replace, register, associate, relink, observe |
| deterministic intake, trunk | `services/deterministic_*`, `services/local_source_intake.py` | part and inbox files; the rest is in jobs, assets and papers | start from an upload or the inbox, resume, cancel, advance |
| parse, adequacy, trusted parse | `services/parse*.py`, `services/source_adequacy*.py`, `services/trusted_parse*.py` | page stores, adequacy profiles, authorities | parse, assess, resolve |
| records and bundles | `services/records.py`, `*_bundles.py`, `services/reading_application.py`, `services/review_memory.py` | evidence, cards, queues, bundles | propose, commit, revise |
| Agent Tasks | `agent_tasks.py`, `services/agent_task_application.py`, `services/*_context.py` | `agent_tasks.jsonl`, chains of task states | create, lease, submit, reject, request revision, refresh, approve |
| organization, questions, tags, screening | `services/research_organization.py`, `services/question_*.py`, `services/tags.py` | bundles | propose, commit, revise |
| Step 7 synthesis | `services/step7_*.py`, `step7_support.py` | candidates | promote, approve, read with their freshness |
| discovery | `services/discovery*.py` | candidates with their receipts, files in the inbox | search, select, resolve, acquire |
| Guardian | `guardian.py`, `services/guardian_disposition.py` | reports, dispositions | check, dispose |
| operations | `backup.py`, `operational_maintenance.py` | archives, receipts | back up, restore, archive, compact |
| workspace lifecycle | `services/bootstrap.py`, `services/workspace_*.py` | the workspace itself | bootstrap, adopt, materialize |
| catalog | `services/catalog.py`, `catalog/` | a rebuildable projection in SQLite | rebuild, update, inspect, query |
| exchange | `exchange*.py` | packages, receipts | export, import, recover |
| generated views | `obsidian_views.py`, `services/obsidian_*.py` | generations of pages, one manifest | preview, render, status |

### How they interact

Every service follows one protocol. It reads stores **without** the lock, computes the record it
wants, computes the whole new file from what it read, **then** takes the store's digest as a
compare-and-swap token, and calls `promote_bytes` with that token and a validator. The kernel takes
the lock, compares the store with the token, writes a journal, runs the validator (which loads the
whole workspace with the new file in place of the old one), replaces the file, appends the process
event and completes the journal. Services refer to each other's records by id; a job authorizes the
mutations of other services; process events name every record.

### What is hard

* A crash at any of the kernel's file operations, and recovery that can itself be interrupted.
* Interleaving: whatever was read before the lock may be stale under it, the token included.
* Retries: a repeated call must find that it was made before, also when its first attempt is half
  done.
* References between stores that are written by different services.
* Workflows of many transactions that stop in the middle.

### What makes each part correct

* kernel: events tell the truth; nothing replaced goes unrecorded; what is settled stays settled;
  recovery finishes.
* write protocol: no acknowledged record is lost; no record is lost without a trace; events resolve.
* jobs: one durable history per job that only grows; one job per key; no way back.
* corrections: references resolve; a paper's identity is the last decision about it; no cycles.
* intake: a job leaves with one paper of its own bytes, is reconciled with one run under one
  authority, and is completed on uncertain pages only if the user accepted them.
* agent tasks: the exact rerun resumes and does nothing twice; what is applied was computed from
  what is there; an applied proposal does not stay undecided.
* operations: a backup is restorable; archiving loses no event that recovery needs.
* lifecycle: a confirmed plan is applied to the workspace it was computed from, whole or resumably.
* organization: names, assignments, criteria and decisions have one owner; what a decision is based
  on governs when it is committed; accepted revisions stay.
* records: the records of a paper explain one another; what follows from changed records says so.
* discovery: a receipt names the source that is there.
* source assets: chains stand, no two claim a paper, and what is called current has its bytes.
* adequacy: what is cited was fit to be, by the machine's word or the user's on those very pages.
* Guardian: a finding's dispositions form one line; what went its way to the end is not reported.
* catalog, views: what calls itself current is; after the last change they come to show it.

## 2. The modules

| module | what it is |
|---|---|
| `TransactionKernel` | the kernel, one action per file operation |
| `AtomicPromotion` | what the kernel promises: a transaction is pending, then settled once, truthfully |
| `ValidatedStore` | the write protocol of any service, with the kernel reduced to its critical section |
| `PipelineJob` | Pipeline Jobs on `ValidatedStore` |
| `JobLedger` | what callers of jobs rely on: durable histories that grow at their end |
| `IdentityCorrection` | identity corrections and the jobs that authorize them, on `PipelineJob` |
| `AgentTask` | semantic Agent Tasks with the job, the bundle and the adequacy gate they act on |
| `WorkspaceBase` | the constants the operations share |
| `OperationalArchive` | archival of settled journals |
| `BackupRestore` | backups and restores |
| `Exchange` | exchange imports and exports |
| `WorkspaceMaterialization` | the two-phase creation of a workspace directory |
| `WorkspaceBootstrap` | initialization, adoption and opening of a workspace |
| `CommitLog` | a store whose commits are single steps, and what becomes of their events |
| `SourceIntake` | an intake job: file, receipt, paper, association, job states |
| `TrustedParse` | a trusted intake from the wait for an authority to its completion |
| `SourceAssets` | the receipts of a paper's files: chains of observations in one store |
| `AdequacyDecision` | what a paper's pages may be used for: profiles, semantic tasks, user decisions |
| `GuardianReview` | Guardian's reports and the user's dispositions of their findings |
| `MCIdentityCorrection`, `MCAgentTask` | add symmetry for TLC |
| `ResearchOrganization` | tags, links, directions, criteria, decisions, questions: bundles revised as a whole |
| `CanonicalRecords` | the records of a paper, a question's mapping and its Step 7 candidate |
| `ProposalTask` | Agent Tasks that propose for the library, route a document or report on a query |
| `DiscoveryAcquisition` | selected candidates and the acquisition of their sources |
| `Catalog` | the SQLite projection of the stores |
| `GeneratedViews` | the generated Obsidian pages and their manifest |
| `MCOperations`, `MCServices`, `MCResearch` | put modules that share no variable into one run |
| `TransactionKernelProofs`, `JobProofs`, `AgentProofs`, `OperationsProofs` | theorems and proofs: the kernel; the write protocol, jobs and corrections; Agent Tasks; the operations |
| `SourceProofs`, `TrustedParseProofs`, `ServicesProofs`, `ResearchProofs` | theorems and proofs: intakes and source assets; trusted parses; what else `Services` composes; what `Research` composes |

### TransactionKernel

State: `target` (each store's digest), `journal`, `events`, `tmps` (temporary files left by a fault)
are what is on disk; `pc`, `mode`, `cur`, `mem`, `outcome`, `todo` are the locals of the process
that holds the lock, so a crash resets them and nothing else. A promotion is `BeginPromotion`,
`WriteJournal`, `Install`, `CheckPasses` or `CheckFails`, `AppendEvent`, `WriteJournal` twice;
`Reject` is a validator that refuses, `WriteError` an I/O error at the current write (with the
handler's reaction, `HandleFailure`), `Crash` a kill. Recovery is `BeginRecovery`, then for each
journal in id order one of `ScanSkip`, `ScanPark`, `ScanClose`, `ScanAppend`, then `RecoveryDone`.
`ExternalEdit` is an editor that does not take the lock. Contents are digests, and every
transaction's content is new: records carry fresh ids.

`ImplementsAtomicPromotion` is the refinement: journals and events together map to the status of
each transaction in `AtomicPromotion`.

### ValidatedStore

A store is the sequence of its records' ids. A client goes through `Propose` (the read), `TakeToken`
(the second read), `Conflict` or `Prepare`, `Replace` or `Refuse`, `Record`, `Close`; `FailedWrite`
and `Stop` are the faults, `Recover` settles any set of open journals. What `TransactionKernel`
checks in detail, here is five steps. `StoreNext` is any service at all; a service's module replaces
`Propose` by its own requests and passes its validator's verdict to `Proceed`.

The protocol's token does not protect what it seems to: it is read after the content. What does is
`NamesResolve`: the validator rejects a workspace in which a process event names a record that does
not exist, and a stale file lacks exactly such records. An update whose event is not yet written is
not protected, and `LossIsAccounted` says what is left: its journal.

### PipelineJob, IdentityCorrection

`Create`, `Transition`, `Cancel`, `RecoverJob` compute a revision from the store as it is
(`Submit`); `ReplayCreate` and `ReplayTransition` are exact reruns; `Promote` is the rest of the
protocol with `ChainValid`, the chain validator, as its verdict. `IdentityCorrection` has
`Authorize` (reads the job store), `Correct` (reads the whole workspace), `ReplayCorrection`,
`Decline`, the jobs' own steps `JobStep`, and `PromoteValidated`, whose verdict covers both stores.
`IdentityInit` starts with one recorded job, as the service requires one.

### AgentTask

Here one promotion is one step (`Promote`), because what is hard lies above it: creation, refresh
and approval are sagas of three to a dozen promotions, and between any two of them another client
may act or the process may stop. A client has a place in its call (`work[c].at`) and the locals it
carries from there.

* Creation: `StartCreate` (the first read of the task states), `OpenJob`, `Assess`, `Gate`, then
  `AwaitAgent` and `CreateTask`, or `Block`. Refresh is `StartRefresh`, the same middle, and
  `SupersedeTask`. Both extend the task states read at the start.
* `PrepareHandoff`, `SubmitResult`, `RejectResult`, `RequestRevision` are one promotion each;
  `SubmitBlocked` is a result that needs more than the profiles allow. Reads that follow one another
  without a write are one step.
* Approval: `StartApprove`, then `RecoverRevision` or `CheckInputs` and `CommitRevision` or
  `CommitDrifts`, then `FinishJob`, `CompleteJob`, `ApproveTask`. `MatchingRevisions`, `AppliedWith`
  and `Unreceipted` are what Guardian asks of approved tasks and of revisions.
* `GiveUp` is any refusal, `Crash` a process that stops between writes, `Interrupted` one that stops
  between a replacement and its event, `Recover` the recovery of its journal.

What `ValidatedStore` proves of promotions is built in: a read was some content of the file
(`past`), and a file is installed only if it has every record that an event names (`Valid`), so the
reads that can still have an effect are those that have these records (`Readable`, `Views`);
`ReadsAge` adds a content to `past` when a step changes a file. `gone` and `past` are history,
`drifted` the parked revisions; nothing reads `gone` and `drifted` but `New`, which keeps ids fresh,
and the properties.

### The operations

Five modules, one per operation of the workspace as a whole. Each has its on-disk state, the locals
of the running calls, a death at any point between two file operations, and the repeated request or
the recovery that the code offers.

* `OperationalArchive`: `PreviewArchive`, `StartArchive`, `PublishArchive`, `UnlinkJournal` (one per
  journal), `AppendArchiveEvent`, `WriteArchiveReceipt`; `ResumeArchive` is the request with the
  same digest after a death. Writers and their recovery appear as what they do to journals and
  events. `ArchiveFindings` is what the Guardian reports.
* `BackupRestore`: a creation under the lock (`PreviewBackup` to `WriteBackupReceipt`), restores
  without it (`StageRestore`, `PublishRestore`, `MarkRestore`, `ReceiptRestore`) into a directory
  that another restore may take first; a failed step undoes its own work, a death nothing.
* `Exchange`: the journalled import and its recovery, the receipted export.
* `WorkspaceMaterialization`: stage, validation, rename, receipt, with the journal inside the
  directory, and `Resume` and `Discard` as recovery classifies what it finds.
* `WorkspaceBootstrap`: validation before and under the lock, the directories, the marker last;
  opening takes no lock; an older program may write in between; configurations may be edited.

### SourceIntake

One job, several calls on it, two stores of which a commit is one step. A call has a place
(`call[c].at`) and the locals of `_continue`: the job state it last saw, its source state and its
paper. `Outcomes` says what a commit may end as: recorded; replaced with its journal open (a death
or an error before the event), or parked. `Resolved` is the transaction recovery, as
`TransactionKernel` has it in detail. What the workspace validator protects in these stores is
`Droppable`: a stale file may be installed only if every asset state that an event or the job names
is still in it.

* Calls: `StartJob`, `ReplayJob` (the idempotency key leads to the same job), `Resume`,
  `ResumeEmpty`, `CancelJob`, `RecoverJob`.
* The file: `StageCopy`, `ResumeCopy`, `SourceStands`, `SelectCandidate`; `LookUpReceipt` and
  `WriteReceipt` (the token is read between them); `LinkCopy` and `UnlinkPart`. `holders` are the
  calls whose staged identity is that of the part file, which is what the code compares.
* The rest of `_continue`: `Progress` for each node with `Skips`, `ReusePaper`, `NeedsPaper`,
  `AddPaper`, `FindAssociation`, `CheckAssociation`, `WriteAssociation`, `AwaitAuthority`.
* `Refuse` is a failed check or a token that is out of date, `FailCall` an error, `KillCall` a
  death, `EditInbox` and `RestoreInbox` a user who changes the file and puts it back.

### TrustedParse

State: the job's states (`history`), the authorities, the promotions of the paper's pages and the
adequacy profiles, each as a sequence. A call's locals are in `approval[c]`.

* `Prepare` is the preparation and the first check of the approval, which compares the same state;
  then `CommitAuthority`, `Execute`, `RunWorker`, `Promote`, `Reconcile`, in the order of `approve`.
  Every job transition is `Transition`: to a successor of the state that was read, if it is still
  the head, or no change if the same successor is there already.
* The trunk: `ReplayTrunk`, `TakeRoute`, `EnterTrunk`, `AwaitSource`, `Assess`, `Gate`,
  `CompleteRoute`, `FinishRoute`.
* The user: `ChooseRoute`; `Decide`, `RecordDecision`, `ReplayDecision`, `ContinueDecision` on an
  uncertain source, all through `Binds`, the lineage that the resolution insists on.
* `FailApproval` routes a failure to where the job waits, `RefuseApproval` is any other error.
  `Revoke`, `Expire`, `EditSource`, `RestoreSource`, `ParseDirectly`, `CancelTrusted`,
  `RecoverTrusted`, `RecoverCommits` are other people, the clock, and recovery.

Merged or left out: prepare and approve are one call (between them a preview may expire, which
refuses the call); the observation of the source asset that the trunk records; errors inside the
trunk of an approval are refusals; the verdict "no" (it leads where a remediation leads).
`ProvenanceIsSound` and `AssessmentIsSound` are Guardian's diagnostics of a job and its profiles.

### SourceAssets

`filed` is the one store of all assets, a sequence of receipts; `noted` are those an event names,
`left` those whose journal was left open. A call plans a receipt (`Registered`,
`RegisterManifestation`, `Associate`, `Relink`, `ObserveMissing`, `ObserveFile`, the methods of the
same names up to the write), then takes its token and commits (`CommitReceipt`), whose guard
`ChainsStand` is the validator of the chains (a chain is the set of an asset's places in the store,
and `Succeeds` what may follow what in it) and `SeenStill` the repeated look at the file; or it is
refused or dies. `Touch` is a user who moves, removes or overwrites a file. `Currentness`,
`PaperSourceIsCurrent`, `UnreceiptedStates`, `AlteredAssets` are what others conclude from the
chains. Two places and two contents; one paper.

### AdequacyDecision

`assessed` are the profiles of a paper, each of one semantic job, with the sources as they were (the
parse and whether a supplement was known), the profile it decides about and the word of the user.
`Machine` is the assessment of pages that have text or not, on every page or not, in a known order
or not; `StatusOf` adds the user's word, `Stands` is freshness, `MayCite` the gate of the paper,
`Effective` the profile that counts for a job's task. `AssessJob`, `BlockJob`, `BindTask` are
creation and refresh in three steps; `ReviseTask`, `SubmitCandidate`, `RejectCandidate`,
`ApproveCandidate` one step each, `AgentTask` having what is inside; `ReviewSource` and `RecordWord`
the user's decision, between which anything may happen. `ParseAnew`, `ChangeFile`,
`ChangeSupplement` change the sources. A supplement that has gone makes every profile of the paper
stale, whatever it is for.

### GuardianReview

`reports` are the findings of each check (`CheckWorkspace`, `WriteReport`), `dispositions` the
store. A caller sees a finding and its head (`SeeFinding`), records what it has to say
(`RecordDisposition`, which finds its own earlier word as an exact rerun), and commits
(`CommitDisposition`) with a token younger than its read; `RefuseDisposition`, `DieJudging`,
`RecoverDispositions` as everywhere. `LinesStand` is the validator.

### ResearchOrganization

`bundle` is the file of each bundle, a sequence of revisions; `reported` are the revisions that
process events name. A promotion is `EditTag`, `AssignTag`, `EditPlain` (directions and field-map
entries), `EditCriteria`, `Screen`, `EditQuestion` or `ReplaceMapping` (each the whole method up to
the write, from what it has read), then `TakeBundleToken`, then `CommitRevision` or `CommitMapping`,
whose guard is the token and the `locked_precondition` of that method (`Precondition`). The two
promotions validate differently: services of this group check their bundle only, the legacy mapping
and corrections of papers (`CorrectPaper`) the whole workspace (`OrganizationValid`). One question,
one direction and one paper stand for all; tags are explored apart from screening, which share no
file.

### CanonicalRecords

`record` has for each store of one paper and question what there is: the unit card, evidence and
queue items, a review memory with its parse, the mapping and the candidate, each with its time,
whether the user gave it, and what it cites. `PromoteCard` to `PromoteCandidate` are the unlocked
checks, `StampRecord` the timestamp, `TakeRecordToken` the token, `CommitRecord` the locked checks
(`Locked`: the validator's rules across records, the freshness of the mapping, the closure and
signature of a candidate). Left out: cross-view sources, mappings that need resolution, the
background of a review, the stability of source bytes; one paper stands for the two or more of a
synthesis.

### DiscoveryAcquisition

`store` is the one file of all candidates; `final` and `parts` are the files in the inbox, which are
told apart by their inode. Selection is `BeginSelect`, `TakeStoreToken`, `CommitSelect`; acquisition
is `Show`, `Download`, `Reread`, `LinkFile` (published inside the promotion, before the store is
replaced), `ReplaceStore`, `CheckFails`, `FinishAcquisition`; `FailWork` and `CleanUp` are the
handler that takes back what it published unless a receipt names it. `Tidy` and `Put` are users who
remove or add files. Left out: search and its reports, the network, the handover to the intake.

### Catalog

`truth` is what the stores say, `database` the projection with its rows, the watermark in its
metadata and the digest of the operational heads. `StartUpdate`, `ReadPapers`, `ReadHeads`,
`ReadBindings` are the reads in their order; then `Swap` of a rebuild, or `OpenUpdate` and
`CommitUpdate`, between which another session may write. `hot` is the rollback journal of a killed
update. `Damage` and `Discard` are faults and users. Left out: search, locators, cached labels, the
benchmark's registry delta, the window between inspection and connection.

### GeneratedViews

`fact` numbers the last change of each record the pages are made of. `Uses` is what a page names as
its dependencies, `Shows` what it shows; `Watermark` marks each page with the changes of its
dependencies. A render is `Preview`, `Confirm` under the lock (or `RefuseRender`), `Plan`, `Stage`,
`Activate`; `FailRender`, `DieRendering`, `EditPage`, `DiscardViews`, `RemoveGeneration` are what
goes wrong or what users do. Left out: unreferenced generations, equal timestamps, pages of review
routes, path checks.

### ProposalTask

`library` is, for each thing a proposal may be about, the chain of its revisions, or the record in
place for a candidate of Step 7; an entry says which task made it, what it follows and, for a
decision, under which criteria. `CreateDirectTask` binds a task to `Basis`, the heads its context
quotes and `context` for the rest; `SubmitProposal`, `RejectProposal` as in the code. An approval is
`BeginApproval` (where it is recognised that the task's result was committed before),
`RequireCurrentBasis`, `DeriveScreening`, `ReadTarget`, `TakeFileToken`, `CommitProposal`,
`FinishApproval`, or `AcceptReport` for a report; `DieInApproval` ends it anywhere. `EditDirectly`
and `ChangeContext` are the user. The commits of the two writers are single steps here,
`ResearchOrganization` and `CanonicalRecords` having what is inside. Left out: the lease, the chain
of a task's states (`AgentTask` has both), the recovery of a promotion's journal.

## 3. The runs

| run | bounds | shows |
|---|---|---|
| `Kernel` | 2 transactions and bare events on one guarded store, 1 outside edit, 2 faults, torn temporaries | the kernel's safety, refinement and liveness |
| `KernelTorn` | 2 transactions, 1 fault | finding: recovery can be blocked for ever |
| `PipelineJob` | 2 clients, 3 revisions, 2 nodes, 1 key, 1 fault | durability, agreement of revisions and events, refinement of `JobLedger` |
| `Identity` | 2 clients, 4 ids (1 job, 3 new records), 2 papers, 1 fault | references and identities across two stores |
| `AgentTask` | 2 clients, 1 creation key, 2 tasks, 6 job revisions, 3 states of the inputs (one inadequate), 1 fault | one active task; revisions at most once per task and on the basis they were worked out against; approvals backed by bundle and job |
| `AgentReceipts` | as above, no fault | finding: a task can be rejected while its approval is half done |
| `AgentDrift` | as above, 1 fault | finding: a retry approves a revision that was parked because its inputs changed |
| `Operations` | 2 journals, 2 archives; 1 backup, 2 restores into 1 directory; 2 imports of 1 archive, 1 export to 2 files; 2 proposals for 1 target; 2 initializers, 2 configurations; 2 faults | nothing is lost, doubled or taken over, and what was interrupted settles when it is repeated |
| `Services` | 2 callers, 3 commits per store; 2 approvals, 2 records per store, 8 job states; 2 keepers, 3 receipts, 2 changes of files; 2 semantic jobs, 2 decisions under way, 3 profiles, 1 change of the sources; 2 judges, 1 report, 3 dispositions; 1 fault | associations, receipts, chains, citations and dispositions rest on what they say; repeated calls settle and leave nothing to report |
| `Research` | 2 editors, 2 each of tags, links, criteria and decisions, 4 revisions; 2 sessions, 2 edits; 2 writers, 1 evidence, 1 queue item, 5 times; 2 callers, 2 candidates, 1 context, 2 files; 1 renderer, 2 changes; 2 reviewers, 1 proposal, 2 commits, 1 change of its context; 1 fault | owners, targets, closures and receipts stand; proposals are applied to what their agent saw and are decided; projections are true and converge |
| `OrganizationChains` | 2 editors, 2 identities of each kind, 4 revisions | finding: a recorded revision of a bundle is overwritten |
| `RecordsDrift` | 2 writers, 1 evidence, 1 queue item, 5 times | finding: a candidate stays current although a record it rests on has changed after it |

**Why the bounds are enough.** All conflicts in the protocol are between two writers and one crash:
a third writer meets the same store, and a second crash the same journals (the kernel, where a
second fault strikes during recovery from the first, has two). Three job revisions let a job be
created, moved, and moved again by a stale caller, and let two callers create a job under one key;
two nodes make running progress possible. Three new records beside the first job let a merge be
followed by an alias and a split, or by a job revision that names a correction. What the bounds
cannot show, the proofs do: they hold for every value of the constants. `MaxFaults` and the finite
`Id` and `EventId` are the only bounds on behaviours; with ids used up the job runs stop, hence
`CHECK_DEADLOCK FALSE` in them. The kernel runs check deadlock. `Requested` and `Asked` restrict
what callers ask for: every status but the ones in `Requested` is reached through `Cancel` and
`RecoverJob` or not at all, and archive and tombstone are not asked for, because they do not change
what papers point at. `PaperSymmetry` permutes papers and clients in a run without temporal
properties.

In the Agent Task runs two tasks are a task and its successor or a task and another creation; six
job revisions let a job be blocked, resumed, started and completed (created, waiting for the source,
running, waiting for the agent, running, completed). `MaxFaults` counts crashes and changes of the
inputs together, so a behaviour has one or the other, `MaxTasks` and `MaxRevision` stop creations
and job moves. When they are used up nothing may be left to do, hence `CHECK_DEADLOCK FALSE`. One
creation key is one semantic job: a second one makes the run too long, and the proof covers any
number of them. The inputs are one value for paper record, live source, parse and profiles: the code
compares each and treats a change of any alike. `Alike` permutes clients, which no record names, and
the adequate inputs, which differ in nothing else; there is no temporal property in these runs.

`Operations`, `Services` and `Research` put modules into one run that share no variable; `area`
chooses which one a behaviour moves, and only that one's fairness is required. This is the sum of
their state spaces and not their product, and each component is explored from all of its initial
states. Two faults let a death strike the repetition of what a first death interrupted; two
processes per operation are one that works and one that gets in its way. In `Services` a behaviour
has one fault and two calls: a call that dies is repeated by the other or again by itself. Three
commits per store are a root, a second root that overwrites it and an association. `MaxRecords = 2`
allows a second authority, a second parse and one decision on a machine profile. Eight job states
are two more than a job needs that waits for the user's word and completes; the bound is needed,
because two racing route choices can undo each other for ever. In all of these the calls are used up
in the end, hence `CHECK_DEADLOCK FALSE`.

Three receipts are the one there is at first and two that may race for its successor or for a second
chain; two changes let a file go and come back, or another take its place. Three profiles are the
machine's of one job, another of the second job or of new pages, and the user's word on one of them;
one change of the sources before, between or after them. The first pages are complete and fit for a
card, so that a task is ever bound, and no supplement is known at first. Three dispositions are a
first and two that may follow it.

In `Research` two revisions there are from the start (a question, and a tag or criteria), so four
leave two commits, which is what two editors with one read each can do to each other. Five times
give two writers two records each and one to a third. Two edits of the stores are one before and one
during an update. One renderer meets the facts that change, the edits and removals of its pages, and
one fault; two renderers exclude each other by the lock and meet only in the preview, which the
change of a fact makes as stale as the other's render does. `MaxCommits = 6` are four revisions that
may exist at the start and two more: a proposal's and an edit, or one proposal's twice. One task and
two calls, because tasks meet only in the records they change, which the edits stand for.

**Fairness.** `FairSpec` of the kernel: a process that holds the lock keeps executing (weak fairness
of its own steps): it is sequential code without waits. Recovery is called again and again and gets
the lock now and then (strong fairness of `BeginRecovery`): the documentation tells users to run it
until nothing is pending, and `workspace_lock` is polled, so a steady stream of promotions can delay
recovery but does not shut it out. Faults, crashes and edits are never required and are bounded by
`MaxFaults`. Under it `RecoveryCompletesIfClean` holds and `RecoveryCompletes` does not.

Operations and intakes: a running call goes on, or is refused, as sequential code does (weak
fairness per call). That the interrupted request is repeated (`ResumeArchive`, the recovery of an
import, `Resume` of a proposal, initialization, `ReplayJob`, `Prepare`) and that an operator runs
the transaction recovery (`RecoverTransactions`, `RecoverCommits`) is what the documents ask of the
caller, so it is assumed: weakly where nothing can disable it, strongly where other calls or the
lock can. Nothing is assumed of cancelling, of the user's decisions, of edits or their undoing. The
liveness properties name what a repetition cannot get past. For an intake (`DeadEnd`): a torn part
file or a second link to it, an edited inbox file or a paper of edited bytes, two papers, a parked
commit, a job that waits or was taken through `job recover`. For a trusted intake (`Stuck`): an
edited source, two authorities or one that is no longer current, pages that another parse replaced.
Projections: `CatalogFairness` asks that an update that has started goes on and that a session whose
catalog is not current updates it, which is when the application calls it
(docs/p7b-agent-proposal-and-app-surface-implementation-plan.md:163); `ViewsFairness` that a render
goes on and that its caller, shown the difference between pages and records, previews it as shown
again and again. `Converged` is asked only where the code offers a way back: not with a rollback
journal or damage in place of the database, which a user removes, and not with a leftover temporary
manifest. `ProposalFairness` asks that an approval that runs goes on and that the user repeats the
approval of a task until it is decided (docs/architecture.md:629-630 speaks of that retry); each
call's refusals are part of its steps. In `MCResearch` and `MCServices` each of these is asked of
the behaviours of its area only. No liveness is claimed of jobs, corrections and semantic Agent
Tasks, whose callers need never come back.

## 4. What is proved

With TLAPS, for any set of transactions, stores, clients, records and any number of faults, from the
constants' `ASSUME`s alone:

* **Kernel** (`TransactionKernelProofs`): type correctness, `EventsAreTruthful`,
  `CompleteMatchesEvent`, `NoSilentReplacement`, `SettledIsFinal`, `SuccessesChain`, and the
  refinement of `AtomicPromotion`. Each of them speaks of states in which the lock is free or
  anything may be half written, so none is inductive: `IInv` adds what the disk must look like at
  each value of `pc` and what recovery may still conclude from a digest. `ChainInv` adds, of a store
  nobody edits, that what it holds was announced last, or follows what was announced last, or
  overtook it and then has a journal that never completes.
* **Any service** (`JobProofs`): `AckedDurable`, `LossIsAccounted` and `NamesResolveOrUnsettled`.
  The invariant `SInv` says that acknowledged ids are recorded, recorded ids named and stored, named
  ids installed; that what was installed is recorded or in a journal still to settle (`Announced`);
  and that an open journal whose record was installed never again finds its store as it was before
  (`Journals`), so recovery cannot call it a failure. The proof uses nothing about the service: not
  what it proposes, not its validator.
* **Jobs** (`JobProofs`): the same three for jobs, type correctness, `EventsTellTheJobs` (revisions
  and events agree but for an open or parked journal, from `SInv`'s nesting of ids) and
  `OneSuccessor`. The store is a valid chain in every state because the chain validator runs under
  the lock on the file that is installed (`JInv`); as many revisions as numbers leave one revision
  per number (a surjection between finite sets of one size is injective). And the refinement of
  `JobLedger`: an open journal's file ends with its record, so a step announces at most one
  revision; the predecessor links of the valid chain fix which ids lie below it, so the announced
  history of a job stays the same or grows at its end.
* **Jobs and corrections** (`JobProofs`): type correctness, `AckedDurable` and
  `ReferencesAlwaysHold`, which needs that each file is validated against the other store as it is
  at that moment, and that no body behind a stored id ever changes. `IdentityIsLastDecision` for any
  finite set of papers and any corrections: the projection is a recursive function, and what is
  shown of it by induction is shown of the first or last number that would be a counterexample
  (`FirstNumber`, `LastNumber`); a decision stands (`DecisionsStand`) until one that names its
  paper.
* **The operations** (`OperationsProofs`): the invariants of the run and `NothingForeignIsTouched`,
  and all of them of the composition (`OperationsInv`). Each component's invariant says what a call
  may take for granted at each of its places: an archive that is published keeps the journals it
  claims, and a request that resumes fits what it finds (`ArchiveInv`); the stage of a restore is
  settled content, and a root it has published is its own until the receipt (`BackupInv`); the phase
  of an import tells what is in place, one import of a bundle runs, and exports agree with their
  receipts (`ExchangeInv`); a commit publishes its own unchanged stage and what is published is
  journalled as such (`MaterializationInv`); what was opened has its marker (`BootstrapInv`).
* **Intakes and source assets** (`SourceProofs`): `TrunkIsAssociated`, `FinishedIntakeIsClean`,
  `SourcesStand`, `UndisturbedSourcesAreClean`. `IntakeInv` says of every receipt, job state and
  call that what it names was recorded before it and is of the source's own bytes. `AssetInv` says
  that the store is chains of successors, and the same of every copy a keeper has read together with
  its draft: that makes the draft's predecessor the head when the store is still that copy, and the
  validator decides when it is not. `UndisturbedInv` is about behaviours without accidents.
* **Trusted parses** (`TrustedParseProofs`): `ParsesAreBound` and `ParseIsSound`. `TrustedInv` ties
  every state of the job and every call to recorded receipts that belong together: states only
  extend what they follow, so what the first one named the last one names. `StraightInv` is about a
  job that never took a detour: each node it has reached says what must have happened.
* **Adequacy, Guardian, the services together** (`ServicesProofs`): `CitationsAreWarranted`. `DInv`
  adds that a word is said of a profile of the same sources and that tasks and decisions name
  profiles there are. The argument rests on two things: profiles are only appended, so what warrants
  a citation stays; and the gate's profile and the task's are compared with one state of the
  sources, so they are of the same pages. `DispositionsStand`: in `ReviewInv` the dispositions of a
  finding form one line in the store and in every copy a caller has read. `ServicesInv` carries all
  of these to `MCServices`, where `FinishedWorkIsClean` joins three of them.
* **Research** (`ResearchProofs`): the invariants of all six components, `CommitsSeeTheirBasis`, and
  all of the composition. `RecordsInv` and `OrganizationInv` are re-established by what is validated
  under the lock, so an old read can only lead to a refusal; `EditsHaveTags` is what an edit may
  keep of an old read, since bundles are never removed. `DiscoveryInv`: the number of a file is in
  one place at a time (a part, the inbox, a call, a receipt), so no handler can take back what
  another has published. `ViewsInv`: what a page shows is a function of its mark, in the manifest
  and in every render under way; a page whose mark is the current one therefore shows what the
  records say. `ProposalInv`: there is an assignment of ids to targets such that every chain, task
  and approval speaks of ids of its own target, and the library an approval has read is the library
  or has lost its head by an edit.
* **Agent Tasks** (`AgentProofs`): type correctness, `OneActiveTask`, `RevisionFollowsItsBasis` and
  `ApprovedIsApplied`, for any number of clients, creation keys and inputs. What a step writes is
  computed from what was read some steps ago, so `AgentInv` asks of **every content a client may
  have read or holds** what it asks of the store: chains without gaps, one active task, approved
  tasks applied. Beside it there is an assignment of one basis to each task number, which every copy
  of a task agrees with. A revision follows its basis because the bundle is compared again under the
  lock; a task stays the only active one because a step extends a content by a state of its only
  active task, or by the root of a new task if it has none.

The constants' `ASSUME`s are what the proofs take for granted: a value that stands for nothing
(`Nothing`, `None`, `NoState`, `Nobody`, `Foreign`) is no value of the kind it is absent from,
identities of different kinds differ (`BundlesAreApart`, `ItemsAreApart`), bounds are numbers, and
large enough for the state a workspace starts with; papers are finitely many. TLC evaluates all of
them.

Some proofs changed a model, where it was wrong or could not be reasoned about. `Succeeds` in
`SourceAssets` admitted a second reason of a root; the validator does not. `ParseIsSound` failed
with more than seven job states, when a parse takes a detour over the wait for its authority: it
says so now (`NoDetour`), and the bound is eight. `Views` of `AgentTask` admitted contents that no
file ever had: with a second creation key they broke `OneActiveTask`. Reads are now contents there
were (`past`). The others, such as `SuccessesChain` (over `LeftBy`), the chains of `SourceAssets`
and `CanonicalAfter`, say the same as before without choosing or recursing over what a proof must
name.

Only model-checked: liveness, since fairness is `ENABLED`, which is out of the prover's reach:
`RecoveryCompletesIfClean`, `InterruptedOperationsSettle`, `IntakesSettle`, `ProjectionsConverge`,
`ProposalsSettle`. Every other property of a passing run, safety, action property or refinement, is
proved. Proved and in no run: the type invariants of kernel, jobs and corrections,
`CompleteMatchesEvent`, `NamesResolveOrUnsettled`, `OneSuccessor`. The properties of the runs that
find a violation are false, and so have no proof.

## 5. Findings

Five runs show where the code does not do what its documents say; `PROJECT.json` quotes them. In
short: a crash while a temporary file is open blocks recovery for good; a task can be rejected,
revised or refreshed after its result became canonical; a revision parked for changed inputs is
approved by repeating the call; a recorded revision of a tag, link, screening or organization bundle
is overwritten by a promotion that read the bundle before it, after which no validation of the
workspace succeeds; a Step 7 candidate stays current when a record stamped before it is written
after it.

Properties stated in the modules that do not hold either, and that no run is spent on:

* `DetectedDriftNeverSucceeds` (`TransactionKernel`): when the journal write that parks a detected
  drift fails, recovery records a success (docs/decisions/0006-atomic-promotion-and-recovery.md:26).
* `RecoveredWorkspaceIsClean` (`TransactionKernel`): recovery appends a missing event behind later
  ones, and `transaction_integrity_diagnostics`, which orders journals by event position, reports a
  broken chain.
* `ReceiptsAreImmutable` (`PipelineJob`): an exact rerun returns a terminal revision without its
  event, and a caller with an older read overwrites it
  (docs/p3a-pipeline-job-kernel-closure-manifest.md:28).
* `ReviewsStand` (`CanonicalRecords`): that a record is human-reviewed is checked on a copy older
  than the token, so a review given in between is replaced by an agent (services/records.py:240).
* `ReceiptsStand` (`DiscoveryAcquisition`): a selection computed before an acquisition overwrites
  its receipt (docs/contributor-guide.md:216).
* `EveryParseIsSound` (`TrustedParse`): two approvals overlap, one fails after the other has
  promoted its run; the job is completed without the run's receipt, and Guardian reports it
  (guardian.py:1262).
* `ApprovedIsBound` (`ProposalTask`): two approvals of one organization proposal make two records,
  and Guardian reports the approved task (guardian.py:782).
* `CompletedOnUsableProfile` (`TrustedParse`): one call's gate finds the profile the user has
  accepted in another, and completes its job on the uncertain one it has assessed itself
  (docs/p3c-source-adequacy-and-deterministic-trunk-closure-manifest.md:49-51).
* `RejectedLeavesNothing` (`ProposalTask`): a proposal is rejected between its commit and its
  approval.
* `DecisionsAreNotRemapped` (`ProposalTask`): criteria edited between the check of the basis and the
  second derivation of the context give the agent's aliases another meaning
  (docs/p7d2-screening-agent-and-app-implementation-plan.md:132).
* `DecisionsAreHeeded` (`AdequacyDecision`): a result submitted before the user asked for better
  pages is approved after it (docs/workflow.md:426-427, docs/architecture.md:935-937).
* `JobsCiteForThemselves` (`AdequacyDecision`): the gate reads the newest profile of the paper, so
  what the user accepted for one job opens it for another.
* `OneWordEach` (`AdequacyDecision`): two decisions about one profile both commit; no task of the
  job can then be refreshed, submitted or revised until the sources change.
* `RefusedJobsWait` (`AdequacyDecision`, with four profiles): a refresh that should wait for better
  pages finds the gate opened by another job, fails, and leaves its job running.
* `CurrentHeadsAreIndexed` (`Catalog`): the digests bound to the operational heads are read after
  the heads, so a state appended in between is called current and is not indexed
  (services/catalog.py:243).
* `CrashLeavesItRenderable` (`GeneratedViews`): a death during the first write of the manifest
  leaves a temporary file that every later status, preview and render refuses
  (docs/p9-obsidian-generated-views-implementation-plan.md:78).

Other things met while modelling, which the models contain and no run is spent on:

* A correction can commit after the job that authorized it was cancelled
  (`services/registry_identity.py:78`).
* A death between a promotion and its event, repeated before recovery, gives an intake job two
  papers, or a trusted job two authorities or two runs; both then refuse for ever ("multiple
  receipts"). Two racing callers do the same without a death.
* A resume before the upload leaves the job waiting for the user, and all later steps skip its job
  states. A job taken through `job recover` after its paper was named goes back to node `registry`
  and cannot leave it, because running progress must grow the outputs.
* An approval that assessed before the user accepted an uncertain source can complete the job naming
  the uncertain profile; the gate was asked about the accepted one. A second approval whose trunk
  starts late makes a second adequacy origin, and racing decisions make two successors; the
  resolution then refuses for ever.
* A death between parse and reconciliation and an authority that expires before the retry leave a
  job with complete receipts at the wait for an authority. A death at the route of an approved job
  leaves it running where no service resumes it.
* Two route choices can undo each other's running semantic gate without end.
* A temporary file left in the workspace closes it to every command, `transaction recover` included,
  because the layout check refuses what it does not know; a load during another process's atomic
  write is refused for the same reason. An import that dies between the removal of its stage and its
  journal entry is parked.
* The legacy mapping can be replaced between the read and the commit of its successor question,
  whose predecessor then does not match. Tag links and decisions keep their paper from being
  archived or merged, contrary to docs/p7c-tags-implementation-plan.md:74.
* A memory can be committed for a parse that is no longer active; a mapping is checked for freshness
  by its timestamps only.
* A kill during an update of the catalog leaves `catalog-v1.sqlite3-journal`, which a rebuild does
  not remove.
* An edit of a page between the confirmation of a preview and the stage is carried along or rendered
  over without the authority to discard it.

## 6. What is not modelled, and why

* Schema checks of single fields, JSON text, CLI parsing, rendering, read models, compatibility and
  privacy reports: pure functions without state of their own.
* Parser workers and network adapters: external programs.
* Timestamps, wait reasons, rationales: no modelled property depends on them; what the code requires
  of them the caller is assumed to supply.
* Of Agent Tasks: exact reruns that write nothing; several papers or origin jobs; jobs that are
  paused or recovered while a task waits; the leases of proposals.
* A lock timeout: it ends a call before it changed anything.
* Platform-specific publication (the rename path used on Windows) and file security attestations.
* Of sources: replacement of a paper's record, assets of several papers; the trunk's own parse under
  the legacy policy and its command line.
* Of Guardian: findings of single fields, the text of reports and of the remedies they name.

## 7. Plan

1. Done: kernel, write protocol, jobs, identity corrections, with the proofs of all their safety
   properties and of both refinements.
2. Done: `SourceIntake`, `TrustedParse`, `SourceAssets`, `AdequacyDecision`, `GuardianReview`, with
   the proofs of their invariants and of `FinishedWorkIsClean` over all of them.
3. Done: `AgentTask` and `ProposalTask` with the proofs of their invariants. Next: an abstract
   specification (a task's answer is applied at most once, and to the basis it was computed from)
   and the proof that `AgentTask` implements it.
4. Done: archive, backup, restore, exchange, materialization, bootstrap, with their proofs. Next:
   the action properties behind them (a published archive never changes, a journalled import only
   moves on).
5. Done: `ResearchOrganization`, `CanonicalRecords`, `DiscoveryAcquisition`, `Catalog`,
   `GeneratedViews`, with their proofs. Next: what a reader may conclude from two reads of a
   projection.
6. Next of the code that no module covers: the replacement of a paper's record, and the trunk's own
   parse under the legacy policy.
