---------------------------- MODULE BackupRestore ----------------------------
(* Backups and restores of one workspace (backup.py).  A backup is previewed *)
(* and created under the workspace lock: archive written beside the target,  *)
(* read back, published by rename, then a local receipt.  A restore runs     *)
(* without that lock, into a directory that must not exist: staged,          *)
(* validated as a workspace, published by rename, marked, receipted.  Both   *)
(* undo their own work when a step fails, and undo nothing when they die.    *)
EXTENDS WorkspaceBase
CONSTANTS
    Backup,        \* backup ids, each with an archive path of its own
    Restore,       \* restore ids, the processes that restore
    TargetRoot,    \* directories a restore may create
    MaxWrites      \* bound: committed transactions of the workspace
ASSUME BackupAssumption == MaxWrites \in Nat

Mode == {"inventory_only", "included"}
VARIABLES
    store,        \* the workspace's canonical content, as a version
    unsettled,    \* does it hold what recovery or the Guardian would report?
    source,       \* do the source files still match their fingerprints?
    previewed,    \* the plan the user last previewed, or Nothing
    creating,     \* the running creation: Nothing or [id, step, plan]
    archiveFile,  \* per backup: Nothing or [plan, intact]
    backupStage,  \* backups whose stage file is on disk
    receipt,      \* backups with a local receipt
    restoring,    \* per restore: Nothing or [step, plan, root]
    restoreStage, \* restores whose stage directory is on disk
    root,         \* per target: Nothing or [plan, marked, receipted, by]
    breaks
workspaceSide == <<store, unsettled, source>>
createSide == <<previewed, creating, backupStage, receipt>>
restoreSide == <<restoring, restoreStage, root>>
backupVars == <<workspaceSide, createSide, archiveFile, restoreSide, breaks>>

Plan == [store : 0..MaxWrites, unsettled : BOOLEAN, mode : Mode]
Root == [plan : Plan, marked : BOOLEAN, receipted : BOOLEAN, by : Restore]
\* A directory that is there is not one that is missing.
ASSUME NothingIsNoRoot == Nothing \notin Root
BackupTypeOK ==
    /\ store \in 0..MaxWrites /\ unsettled \in BOOLEAN /\ source \in BOOLEAN
    /\ previewed \in Plan \cup {Nothing}
    /\ creating \in {Nothing} \cup
         [id : Backup, step : {"planned", "written", "published"}, plan : Plan]
    /\ archiveFile \in [Backup -> {Nothing} \cup [plan : Plan, intact : BOOLEAN]]
    /\ backupStage \subseteq Backup /\ receipt \subseteq Backup
    /\ restoring \in [Restore -> {Nothing} \cup
         [step : {"staged", "published", "marked"}, plan : Plan, root : TargetRoot]]
    /\ restoreStage \subseteq Restore
    /\ root \in [TargetRoot -> {Nothing} \cup Root]
    /\ breaks \in 0..MaxFaults

BackupInit ==
    /\ store = 0 /\ unsettled = FALSE /\ source = TRUE
    /\ previewed = Nothing /\ creating = Nothing
    /\ archiveFile = [b \in Backup |-> Nothing]
    /\ backupStage = {} /\ receipt = {}
    /\ restoring = [r \in Restore |-> Nothing] /\ restoreStage = {}
    /\ root = [t \in TargetRoot |-> Nothing] /\ breaks = 0

-----------------------------------------------------------------------------
(* The workspace goes on: its writers hold the lock a creation holds.        *)
Commit ==
    /\ creating = Nothing /\ ~unsettled /\ store < MaxWrites
    /\ store' = store + 1 /\ unsettled' \in BOOLEAN    \* the writer may die
    /\ UNCHANGED <<source, createSide, archiveFile, restoreSide, breaks>>
SettleWorkspace ==
    /\ creating = Nothing /\ unsettled /\ unsettled' = FALSE
    /\ UNCHANGED <<store, source, createSide, archiveFile, restoreSide, breaks>>
ChangeSource ==
    /\ breaks < MaxFaults /\ source' = ~source /\ breaks' = breaks + 1
    /\ UNCHANGED <<store, unsettled, createSide, archiveFile, restoreSide>>

-----------------------------------------------------------------------------
\* The plan binds every byte of the workspace and, when sources are included,
\* refuses sources that no longer match their fingerprints.
Plannable(mode) == mode = "included" => source
CurrentPlan(mode) == [store |-> store, unsettled |-> unsettled, mode |-> mode]

PreviewBackup(mode) ==
    /\ creating = Nothing /\ Plannable(mode)
    /\ previewed' = CurrentPlan(mode)
    /\ UNCHANGED <<workspaceSide, creating, backupStage, receipt, archiveFile, restoreSide, breaks>>

StartUnpreviewedBackup(b) ==
    /\ creating = Nothing
    /\ b \notin receipt /\ b \notin backupStage /\ archiveFile[b] = Nothing
    /\ creating' = [id |-> b, step |-> "planned", plan |-> previewed]
    /\ UNCHANGED <<workspaceSide, previewed, backupStage, receipt, archiveFile, restoreSide, breaks>>
StartBackup(b) ==
    /\ creating = Nothing /\ previewed # Nothing
    /\ Plannable(previewed.mode) /\ CurrentPlan(previewed.mode) = previewed
    /\ b \notin receipt /\ b \notin backupStage /\ archiveFile[b] = Nothing
    /\ creating' = [id |-> b, step |-> "planned", plan |-> previewed]
    /\ UNCHANGED <<workspaceSide, previewed, backupStage, receipt, archiveFile, restoreSide, breaks>>

Step(s) == creating # Nothing /\ creating.step = s

WriteArchive ==
    /\ Step("planned")
    /\ backupStage' = backupStage \cup {creating.id}
    /\ creating' = [creating EXCEPT !.step = "written"]
    /\ UNCHANGED <<workspaceSide, previewed, receipt, archiveFile, restoreSide, breaks>>

\* The written archive passed the reader and nobody took the target.
PublishBackup ==
    /\ Step("written") /\ archiveFile[creating.id] = Nothing
    /\ archiveFile' = [archiveFile EXCEPT ![creating.id] =
         [plan |-> creating.plan, intact |-> TRUE]]
    /\ backupStage' = backupStage \ {creating.id}
    /\ creating' = [creating EXCEPT !.step = "published"]
    /\ UNCHANGED <<workspaceSide, previewed, receipt, restoreSide, breaks>>

WriteBackupReceipt ==
    /\ Step("published")
    /\ receipt' = receipt \cup {creating.id}
    /\ creating' = Nothing
    /\ UNCHANGED <<workspaceSide, previewed, backupStage, archiveFile, restoreSide, breaks>>

\* A step raises: what was published goes if it is still what was written.
FailBackup ==
    /\ creating # Nothing /\ breaks < MaxFaults
    /\ archiveFile' = [archiveFile EXCEPT ![creating.id] =
         IF Step("published") /\ @ # Nothing /\ @.intact THEN Nothing ELSE @]
    /\ backupStage' = backupStage \ {creating.id}
    /\ creating' = Nothing /\ breaks' = breaks + 1
    /\ UNCHANGED <<workspaceSide, previewed, receipt, restoreSide>>

DieInBackup ==
    /\ creating # Nothing /\ breaks < MaxFaults
    /\ creating' = Nothing /\ breaks' = breaks + 1
    /\ UNCHANGED <<workspaceSide, previewed, backupStage, receipt, archiveFile, restoreSide>>

DamageArchive(b) ==
    /\ breaks < MaxFaults /\ archiveFile[b] # Nothing /\ archiveFile[b].intact
    /\ archiveFile' = [archiveFile EXCEPT ![b].intact = FALSE]
    /\ breaks' = breaks + 1
    /\ UNCHANGED <<workspaceSide, createSide, restoreSide>>

-----------------------------------------------------------------------------
\* What the staged workspace must satisfy: records and journals settled, and
\* sources that match, which only an inclusive archive brings along.
Inspected(b) == archiveFile[b] # Nothing /\ archiveFile[b].intact
Restorable(plan) == ~plan.unsettled /\ (plan.mode = "included" \/ source)

\* Inspect, stage, extract (which inspects again), validate; a refusal removes
\* the stage it made, so that only a success or a death is visible.
StageRestore(r, b, t) ==
    /\ restoring[r] = Nothing /\ r \notin restoreStage
    /\ root[t] = Nothing /\ Inspected(b) /\ Restorable(archiveFile[b].plan)
    /\ restoring' = [restoring EXCEPT ![r] =
         [step |-> "staged", plan |-> archiveFile[b].plan, root |-> t]]
    /\ restoreStage' = restoreStage \cup {r}
    /\ UNCHANGED <<workspaceSide, createSide, archiveFile, root, breaks>>

\* The rename: another restore may have taken the target since, and then this
\* one fails and removes its stage, and only its stage.
PublishOverTarget(r) ==
    /\ restoring[r] # Nothing /\ restoring[r].step = "staged"
    /\ root' = [root EXCEPT ![restoring[r].root] = [plan |-> restoring[r].plan,
         marked |-> FALSE, receipted |-> FALSE, by |-> r]]
    /\ restoring' = [restoring EXCEPT ![r].step = "published"]
    /\ restoreStage' = restoreStage \ {r}
    /\ UNCHANGED <<workspaceSide, createSide, archiveFile, breaks>>
PublishRestore(r) ==
    /\ restoring[r] # Nothing /\ restoring[r].step = "staged"
    /\ LET t == restoring[r].root IN
       IF root[t] = Nothing
       THEN /\ root' = [root EXCEPT ![t] = [plan |-> restoring[r].plan,
                 marked |-> FALSE, receipted |-> FALSE, by |-> r]]
            /\ restoring' = [restoring EXCEPT ![r].step = "published"]
       ELSE /\ UNCHANGED root
            /\ restoring' = [restoring EXCEPT ![r] = Nothing]
    /\ restoreStage' = restoreStage \ {r}
    /\ UNCHANGED <<workspaceSide, createSide, archiveFile, breaks>>

MarkRestore(r) ==
    /\ restoring[r] # Nothing /\ restoring[r].step = "published"
    /\ root' = [root EXCEPT ![restoring[r].root].marked = TRUE]
    /\ restoring' = [restoring EXCEPT ![r].step = "marked"]
    /\ UNCHANGED <<workspaceSide, createSide, archiveFile, restoreStage, breaks>>

ReceiptRestore(r) ==
    /\ restoring[r] # Nothing /\ restoring[r].step = "marked"
    /\ root' = [root EXCEPT ![restoring[r].root].receipted = TRUE]
    /\ restoring' = [restoring EXCEPT ![r] = Nothing]
    /\ UNCHANGED <<workspaceSide, createSide, archiveFile, restoreStage, breaks>>

FailRestore(r) ==
    /\ restoring[r] # Nothing /\ breaks < MaxFaults
    /\ root' = IF restoring[r].step = "staged" THEN root
               ELSE [root EXCEPT ![restoring[r].root] = Nothing]
    /\ restoreStage' = restoreStage \ {r}
    /\ restoring' = [restoring EXCEPT ![r] = Nothing] /\ breaks' = breaks + 1
    /\ UNCHANGED <<workspaceSide, createSide, archiveFile>>

DieInRestore(r) ==
    /\ restoring[r] # Nothing /\ breaks < MaxFaults
    /\ restoring' = [restoring EXCEPT ![r] = Nothing] /\ breaks' = breaks + 1
    /\ UNCHANGED <<workspaceSide, createSide, archiveFile, restoreStage, root>>

BackupNext ==
    \/ Commit \/ SettleWorkspace \/ ChangeSource
    \/ \E m \in Mode : PreviewBackup(m)
    \/ \E b \in Backup : StartBackup(b) \/ DamageArchive(b)
    \/ WriteArchive \/ PublishBackup \/ WriteBackupReceipt
    \/ FailBackup \/ DieInBackup
    \/ \E r \in Restore :
        \/ \E b \in Backup, t \in TargetRoot : StageRestore(r, b, t)
        \/ PublishRestore(r) \/ MarkRestore(r) \/ ReceiptRestore(r)
        \/ FailRestore(r) \/ DieInRestore(r)

BackupSpec == BackupInit /\ [][BackupNext]_backupVars

-----------------------------------------------------------------------------
\* A restored workspace holds settled content of one archive, and whoever is
\* still restoring into a directory is the one that created it: no failing
\* restore can take away the workspace another one published.
RestoresKeepApart ==
    /\ \A t \in TargetRoot : root[t] # Nothing => ~root[t].plan.unsettled
    /\ \A r \in Restore :
        restoring[r] # Nothing /\ restoring[r].step # "staged" =>
            /\ root[restoring[r].root] # Nothing
            /\ root[restoring[r].root].by = r
            /\ ~root[restoring[r].root].receipted
=============================================================================
