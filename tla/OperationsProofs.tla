--------------------------- MODULE OperationsProofs ---------------------------
(* Proofs about the workspace's operations, each for any number of archives, *)
(* backups, imports, proposals and processes, and about their composition.   *)
(* Each component has an inductive invariant of its own; the composition     *)
(* moves one component at a time, so it keeps all of them.                   *)
EXTENDS MCOperations, TLAPS

-----------------------------------------------------------------------------
(* A journal that was begun has its file until an archive that is published  *)
(* names it; a complete one has its event.                                   *)
JournalsAreKept ==
    \A j \in Journal :
        /\ j \in active => journal[j] # "none"
        /\ journal[j] = "open" => j \in active
        /\ journal[j] = "complete" => j \in event
        /\ journal[j] = "complete" /\ j \notin active => \E a \in Published : j \in basis[a]
(* What the archives claim is complete and claimed once, and what a settled  *)
(* one claims is gone from the active set.                                   *)
ClaimsStand ==
    /\ \A a \in Published : \A j \in basis[a] : journal[j] = "complete"
    /\ \A a, b \in Published : a # b => basis[a] \cap basis[b] = {}
    /\ \A a \in Archive : archive[a] = "settled" => a \in event /\ basis[a] \cap active = {}
    /\ \A a, b \in Published : archive[a] # "settled" /\ archive[b] # "settled" => a = b
(* A request works on what it may publish: while it stages, every archive    *)
(* before it is settled and its journals are active.                         *)
RequestsAreFit ==
    archiving # Nothing =>
        /\ archive[archiving] \in {"staged", "published"}
        /\ archive[archiving] = "staged" =>
            /\ basis[archiving] \subseteq EligibleJournals
            /\ \A b \in Published : archive[b] = "settled"
ArchiveInv == ArchiveTypeOK /\ JournalsAreKept /\ ClaimsStand /\ RequestsAreFit

(* A workspace starts with no archive and no journal.                        *)
LEMMA ArchiveInvInit == ASSUME ArchiveInit PROVE ArchiveInv
  BY FaultAssumption DEF ArchiveInit, ArchiveInv, ArchiveTypeOK, JournalsAreKept, ClaimsStand,
     RequestsAreFit, Published

(* Writers run while no archive is made: they touch journals that no archive *)
(* has claimed.                                                              *)
LEMMA WritersKeepArchives ==
    ASSUME ArchiveInv, NEW j \in Journal,
           OpenJournal(j) \/ AppendJournalEvent(j) \/ CompleteJournal(j)
    PROVE  ArchiveInv'
<1> USE DEF ArchiveInv, ArchiveTypeOK
<1>1. UNCHANGED <<archive, basis, archiving, torn, shown, deaths>> /\ archiving = Nothing
  BY DEF OpenJournal, AppendJournalEvent, CompleteJournal
<1>2. Published' = Published
  BY <1>1 DEF Published
<1>3. ArchiveTypeOK' /\ RequestsAreFit'
  BY <1>1 DEF OpenJournal, AppendJournalEvent, CompleteJournal, RequestsAreFit
<1>4. JournalsAreKept'
  BY <1>1, <1>2 DEF OpenJournal, AppendJournalEvent, CompleteJournal, JournalsAreKept
<1>5. ClaimsStand'
  BY <1>1, <1>2 DEF OpenJournal, AppendJournalEvent, CompleteJournal, ClaimsStand, Published
<1> QED  BY <1>3, <1>4, <1>5

(* An archive that stages claims active journals, no other archive's.        *)
LEMMA StartKeepsArchives ==
    ASSUME ArchiveInv, NEW digest \in shown, NEW a \in Archive, StartArchive(digest, a)
    PROVE  ArchiveInv'
<1> USE DEF ArchiveInv, ArchiveTypeOK, StartArchive
<1>1. Published' = Published /\ \A b \in Published : b # a
  BY DEF Published
<1>2. /\ \A b \in Published : archive'[b] = archive[b] /\ basis'[b] = basis[b]
        /\ archive'[a] = "staged" /\ basis'[a] = digest /\ digest \subseteq Journal
  BY <1>1 DEF Published
<1>3. ArchiveTypeOK' /\ JournalsAreKept'
  BY <1>1, <1>2 DEF JournalsAreKept
<1>4. ClaimsStand'
  BY <1>1, <1>2 DEF ClaimsStand
<1>5. RequestsAreFit'
  BY <1>1, <1>2 DEF RequestsAreFit, EligibleJournals
<1> QED  BY <1>3, <1>4, <1>5

(* Publication: the new archive's journals are active, so no other claims    *)
(* them, and the archives before it are settled.                             *)
LEMMA PublishKeepsArchives ==
    ASSUME ArchiveInv, NEW a \in Archive, PublishArchive(a)
    PROVE  ArchiveInv'
<1> USE DEF ArchiveInv, ArchiveTypeOK, PublishArchive
<1>1. Published' = Published \cup {a} /\ a \notin Published /\ a # Nothing
  BY ArchiveAssumption DEF Published
<1>2. /\ basis[a] \subseteq EligibleJournals
      /\ \A b \in Published : archive[b] = "settled" /\ basis[a] \cap basis[b] = {}
  BY <1>1 DEF RequestsAreFit, ClaimsStand, EligibleJournals, Published
<1>3. ArchiveTypeOK' /\ JournalsAreKept'
  BY <1>1 DEF JournalsAreKept
<1>4. ClaimsStand'
  BY <1>1, <1>2 DEF ClaimsStand, EligibleJournals
<1>5. RequestsAreFit'
  BY <1>1 DEF RequestsAreFit
<1> QED  BY <1>3, <1>4, <1>5

(* Settlement takes away only files of journals the archive claims.          *)
LEMMA SettlingKeepsArchives ==
    ASSUME ArchiveInv, NEW a \in Archive,
           \/ AppendArchiveEvent(a) \/ WriteArchiveReceipt(a)
           \/ \E j \in Journal : UnlinkJournal(a, j)
    PROVE  ArchiveInv'
<1> USE DEF ArchiveInv, ArchiveTypeOK
<1>1. CASE AppendArchiveEvent(a)
  <2>1. Published' = Published /\ event \subseteq event'
    BY <1>1 DEF AppendArchiveEvent, Published
  <2> QED  BY <1>1, <2>1 DEF AppendArchiveEvent, JournalsAreKept, ClaimsStand, RequestsAreFit,
           EligibleJournals
<1>2. CASE WriteArchiveReceipt(a)
  <2>1. Published' = Published
    BY <1>2 DEF WriteArchiveReceipt, Published
  <2> QED  BY <1>2, <2>1 DEF WriteArchiveReceipt, JournalsAreKept, ClaimsStand, RequestsAreFit
<1>3. ASSUME NEW j \in Journal, UnlinkJournal(a, j) PROVE ArchiveInv'
  <2>1. Published' = Published /\ a \in Published /\ journal[j] = "complete" /\ j \in basis[a]
    BY <1>3 DEF UnlinkJournal, Published
  <2>2. JournalsAreKept'
    BY <1>3, <2>1 DEF UnlinkJournal, JournalsAreKept
  <2> QED  BY <1>3, <2>1, <2>2 DEF UnlinkJournal, ClaimsStand, RequestsAreFit
<1> QED  BY <1>1, <1>2, <1>3

(* A death leaves everything where it is; an error removes a stage.          *)
LEMMA EndingsKeepArchives ==
    ASSUME ArchiveInv, ArchiverDies \/ ArchiverFails
    PROVE  ArchiveInv'
<1> USE DEF ArchiveInv, ArchiveTypeOK
<1>1. archiving \in Archive /\ deaths' \in 0..MaxFaults
  BY FaultAssumption DEF ArchiverDies, ArchiverFails
<1>2. CASE ArchiverDies
  BY <1>1, <1>2 DEF ArchiverDies, JournalsAreKept, ClaimsStand, RequestsAreFit, Published
<1>3. CASE ArchiverFails
  <2>1. Published' = Published /\ \A b \in Published : archive'[b] = archive[b]
    BY <1>1, <1>3 DEF ArchiverFails, Published
  <2>2. ArchiveTypeOK' /\ JournalsAreKept' /\ RequestsAreFit'
    BY <1>1, <1>3, <2>1 DEF ArchiverFails, JournalsAreKept, RequestsAreFit
  <2>3. ClaimsStand'
    BY <1>1, <1>3, <2>1 DEF ArchiverFails, ClaimsStand
  <2> QED  BY <2>2, <2>3
<1> QED  BY <1>2, <1>3

(* Every step of writers, archiver and recovery keeps the archives.          *)
LEMMA ArchiveInvNext == ASSUME ArchiveInv, [ArchiveNext]_archiveVars PROVE ArchiveInv'
<1>1. CASE PreviewArchive \/ \E digest \in shown : ResumeArchive(digest)
  BY <1>1 DEF PreviewArchive, ResumeArchive, ArchiveInv, ArchiveTypeOK, JournalsAreKept,
     ClaimsStand, RequestsAreFit, Published, EligibleJournals
<1>2. CASE UNCHANGED archiveVars
  BY <1>2 DEF archiveVars, ArchiveInv, ArchiveTypeOK, JournalsAreKept, ClaimsStand,
     RequestsAreFit, Published, EligibleJournals
<1> QED  BY <1>1, <1>2, WritersKeepArchives, StartKeepsArchives, PublishKeepsArchives,
         SettlingKeepsArchives, EndingsKeepArchives DEF ArchiveNext, ArchiveStep

(* The inductive invariant of operational_maintenance.py: archives claim     *)
(* complete journals, each once, and a request publishes only when every     *)
(* archive before it is settled.                                             *)
THEOREM ArchiveInvariant == ArchiveSpec => []ArchiveInv
  BY ArchiveInvInit, ArchiveInvNext, PTL DEF ArchiveSpec

(* A journal whose file is gone was complete, and an archive has it.         *)
LEMMA ArchivePromise == ArchiveInv => NoJournalLost
  BY DEF ArchiveInv, ArchiveTypeOK, JournalsAreKept, ClaimsStand, NoJournalLost, ArchiveFindings,
     Published

(* Archiving takes a journal file away only when a published archive         *)
(* holds it: every journal that began is in the active set or in an          *)
(* archive (the unlink and resume paths of operational_maintenance.py).      *)
THEOREM NoJournalIsLost == ArchiveSpec => []NoJournalLost
  BY ArchivePromise, ArchiveInvariant, PTL

-----------------------------------------------------------------------------
(* A restore brings settled content, and a directory it has published is its *)
(* own until it has given the receipt.                                       *)
RestoresAreSettled ==
    /\ \A r \in Restore : restoring[r] # Nothing => ~restoring[r].plan.unsettled
    /\ \A t \in TargetRoot : root[t] # Nothing => ~root[t].plan.unsettled
RootsAreOwned ==
    \A r \in Restore :
        restoring[r] # Nothing /\ restoring[r].step # "staged" =>
            /\ root[restoring[r].root] # Nothing
            /\ root[restoring[r].root].by = r
            /\ ~root[restoring[r].root].receipted
BackupInv == BackupTypeOK /\ RestoresAreSettled /\ RootsAreOwned

(* Before any backup there is nothing to restore.                            *)
LEMMA BackupInvInit == ASSUME BackupInit PROVE BackupInv
<1>1. /\ \A r \in Restore : restoring[r] = Nothing
      /\ \A t \in TargetRoot : root[t] = Nothing
  BY DEF BackupInit
<1>2. store \in 0..MaxWrites /\ breaks \in 0..MaxFaults
  BY FaultAssumption, BackupAssumption DEF BackupInit
<1>3. unsettled \in BOOLEAN /\ source \in BOOLEAN
  BY Zenon DEF BackupInit
<1>4. BackupTypeOK
  BY <1>2, <1>3 DEF BackupInit, BackupTypeOK
<1> QED  BY <1>1, <1>4 DEF BackupInv, RestoresAreSettled, RootsAreOwned

(* What a preview plans has a plan's shape.                                  *)
LEMMA PlansAreTyped == ASSUME BackupInv, NEW mode \in Mode PROVE CurrentPlan(mode) \in Plan
  BY DEF BackupInv, BackupTypeOK, CurrentPlan, Plan

(* Workspace and backups: no restore and no directory changes.               *)
LEMMA CreationKeepsRestores ==
    ASSUME BackupInv,
           \/ Commit \/ SettleWorkspace \/ ChangeSource
           \/ \E m \in Mode : PreviewBackup(m)
           \/ \E b \in Backup : StartBackup(b) \/ DamageArchive(b)
           \/ WriteArchive \/ PublishBackup \/ WriteBackupReceipt \/ FailBackup \/ DieInBackup
    PROVE  BackupInv'
<1> USE FaultAssumption, BackupAssumption DEF BackupInv, workspaceSide, createSide, restoreSide
<1>1. UNCHANGED restoreSide
  BY DEF Commit, SettleWorkspace, ChangeSource, PreviewBackup, StartBackup, DamageArchive,
     WriteArchive, PublishBackup, WriteBackupReceipt, FailBackup, DieInBackup
<1>2. RestoresAreSettled' /\ RootsAreOwned'
  BY <1>1 DEF RestoresAreSettled, RootsAreOwned
<1>3. BackupTypeOK'
  <2>1. CASE Commit \/ SettleWorkspace \/ ChangeSource
    <3>1. unsettled' \in BOOLEAN
      BY <2>1, Zenon DEF Commit, SettleWorkspace, ChangeSource, BackupTypeOK
    <3>2. source' \in BOOLEAN
      BY <2>1, Zenon DEF Commit, SettleWorkspace, ChangeSource, BackupTypeOK
    <3>3. store' \in 0..MaxWrites /\ breaks' \in 0..MaxFaults
      BY <2>1 DEF Commit, SettleWorkspace, ChangeSource, BackupTypeOK
    <3>4. UNCHANGED <<createSide, archiveFile, restoreSide>>
      BY <2>1 DEF Commit, SettleWorkspace, ChangeSource
    <3> QED  BY <3>1, <3>2, <3>3, <3>4 DEF BackupTypeOK
  <2>2. ASSUME NEW m \in Mode, PreviewBackup(m) PROVE BackupTypeOK'
    BY <2>2, PlansAreTyped DEF PreviewBackup, BackupTypeOK
  <2>3. ASSUME NEW b \in Backup, StartBackup(b) PROVE BackupTypeOK'
    BY <2>3 DEF StartBackup, BackupTypeOK
  <2>4. ASSUME NEW b \in Backup, DamageArchive(b) PROVE BackupTypeOK'
    <3> DEFINE damaged == [archiveFile[b] EXCEPT !.intact = FALSE]
    <3>1. damaged \in [plan : Plan, intact : BOOLEAN]
      BY <2>4 DEF DamageArchive, BackupTypeOK
    <3>2. archiveFile' = [archiveFile EXCEPT ![b] = damaged]
      BY <2>4 DEF DamageArchive, BackupTypeOK
    <3>3. UNCHANGED <<store, unsettled, source, previewed, creating, backupStage, receipt,
                      restoring, restoreStage, root>> /\ breaks' \in 0..MaxFaults
      BY <2>4 DEF DamageArchive, BackupTypeOK
    <3>4. archiveFile' \in [Backup -> {Nothing} \cup [plan : Plan, intact : BOOLEAN]]
      <4> HIDE DEF damaged
      <4> QED  BY <3>1, <3>2 DEF BackupTypeOK
    <3> QED  BY <3>3, <3>4 DEF BackupTypeOK
  <2>5. CASE WriteArchive \/ WriteBackupReceipt \/ DieInBackup
    BY <2>5 DEF WriteArchive, WriteBackupReceipt, DieInBackup, Step, BackupTypeOK
  <2>6. CASE PublishBackup
    BY <2>6 DEF PublishBackup, Step, BackupTypeOK
  <2>7. CASE FailBackup
    BY <2>7 DEF FailBackup, BackupTypeOK
  <2> QED  BY <2>1, <2>2, <2>3, <2>4, <2>5, <2>6, <2>7
<1> QED  BY <1>2, <1>3

(* Only a settled plan is staged.                                            *)
LEMMA StagingKeepsRestores ==
    ASSUME BackupInv, NEW r \in Restore, NEW b \in Backup, NEW t \in TargetRoot,
           StageRestore(r, b, t)
    PROVE  BackupInv'
<1> DEFINE new == [step |-> "staged", plan |-> archiveFile[b].plan, root |-> t]
<1> USE DEF BackupInv, StageRestore
<1>1. /\ archiveFile[b].plan \in Plan /\ ~archiveFile[b].plan.unsettled
      /\ new \in [step : {"staged", "published", "marked"}, plan : Plan, root : TargetRoot]
      /\ new.step = "staged" /\ ~new.plan.unsettled
  BY DEF BackupTypeOK, Inspected, Restorable
<1>2. restoring' = [restoring EXCEPT ![r] = new] /\ root' = root
  OBVIOUS
<1> HIDE DEF new
<1>3. BackupTypeOK'
  BY <1>1, <1>2 DEF BackupTypeOK, workspaceSide, createSide
<1>4. RestoresAreSettled' /\ RootsAreOwned'
  BY <1>1, <1>2 DEF BackupTypeOK, RestoresAreSettled, RootsAreOwned
<1> QED  BY <1>3, <1>4

(* The directory must be free: no other restore loses its own.               *)
LEMMA PublishingKeepsRestores ==
    ASSUME BackupInv, NEW r \in Restore, PublishRestore(r)
    PROVE  BackupInv'
<1> USE DEF BackupInv
<1> DEFINE t == restoring[r].root
<1> DEFINE new == [plan |-> restoring[r].plan, marked |-> FALSE, receipted |-> FALSE, by |-> r]
<1>1. t \in TargetRoot /\ ~new.plan.unsettled /\ new.by = r /\ ~new.receipted
      /\ new \in Root
  BY DEF BackupTypeOK, RestoresAreSettled, PublishRestore, Root
<1>2. new # Nothing
  BY <1>1, NothingIsNoRoot
<1>3. CASE root[t] = Nothing
  <2>1. root' = [root EXCEPT ![t] = new] /\ restoring' = [restoring EXCEPT ![r].step = "published"]
    BY <1>3 DEF PublishRestore
  <2> HIDE DEF new
  <2>2. BackupTypeOK'
    BY <1>1, <2>1 DEF BackupTypeOK, PublishRestore, workspaceSide, createSide
  <2>3. RestoresAreSettled'
    BY <1>1, <2>1 DEF BackupTypeOK, RestoresAreSettled, PublishRestore
  <2>4. RootsAreOwned'
    BY <1>1, <1>2, <1>3, <2>1 DEF BackupTypeOK, RootsAreOwned, PublishRestore
  <2> QED  BY <2>2, <2>3, <2>4
<1>4. CASE root[t] # Nothing
  BY <1>4 DEF PublishRestore, BackupTypeOK, RestoresAreSettled, RootsAreOwned, workspaceSide,
     createSide
<1> QED  BY <1>3, <1>4

(* Two restores that have published own different directories.               *)
LEMMA CompletingKeepsRestores ==
    ASSUME BackupInv, NEW r \in Restore,
           MarkRestore(r) \/ ReceiptRestore(r) \/ FailRestore(r) \/ DieInRestore(r)
    PROVE  BackupInv'
<1> USE NothingIsNoRoot DEF BackupInv, BackupTypeOK, Root, workspaceSide, createSide
<1>0. restoring[r] # Nothing /\ restoring[r].root \in TargetRoot /\ restoring[r].plan \in Plan
  BY DEF MarkRestore, ReceiptRestore, FailRestore, DieInRestore
<1>1. CASE MarkRestore(r)
  <2> DEFINE t == restoring[r].root
  <2> DEFINE new == [root[t] EXCEPT !.marked = TRUE]
  <2>1. root[t] \in Root /\ root[t].by = r /\ ~root[t].receipted /\ ~root[t].plan.unsettled
    BY <1>0, <1>1 DEF MarkRestore, RestoresAreSettled, RootsAreOwned
  <2>2. new \in Root /\ new.by = r /\ ~new.receipted /\ ~new.plan.unsettled
    BY <2>1
  <2>3. root' = [root EXCEPT ![t] = new] /\ new # Nothing
    BY <1>0, <1>1, <2>2 DEF MarkRestore
  <2> HIDE DEF new
  <2>4. restoring' = [restoring EXCEPT ![r].step = "marked"]
        /\ UNCHANGED <<workspaceSide, createSide, archiveFile, restoreStage, breaks>>
    BY <1>1 DEF MarkRestore
  <2>5. BackupTypeOK'
    BY <1>0, <2>2, <2>3, <2>4
  <2>6. RestoresAreSettled'
    BY <1>0, <2>2, <2>3, <2>4 DEF RestoresAreSettled
  <2>7. ASSUME NEW q \in Restore \ {r}, restoring'[q] # Nothing, restoring'[q].step # "staged"
        PROVE  restoring[q] = restoring'[q] /\ restoring[q].root # t
    BY <1>0, <2>1, <2>4, <2>7 DEF RootsAreOwned
  <2>8. RootsAreOwned'
    BY <1>0, <2>2, <2>3, <2>4, <2>7 DEF RootsAreOwned
  <2> QED  BY <2>5, <2>6, <2>8
<1>2. CASE ReceiptRestore(r)
  <2> DEFINE t == restoring[r].root
  <2> DEFINE new == [root[t] EXCEPT !.receipted = TRUE]
  <2>1. root[t] \in Root /\ root[t].by = r /\ ~root[t].plan.unsettled
    BY <1>0, <1>2 DEF ReceiptRestore, RestoresAreSettled, RootsAreOwned
  <2>2. new \in Root /\ new.by = r /\ ~new.plan.unsettled
    BY <2>1
  <2>3. root' = [root EXCEPT ![t] = new] /\ new # Nothing
    BY <1>0, <1>2, <2>2 DEF ReceiptRestore
  <2> HIDE DEF new
  <2>4. restoring' = [restoring EXCEPT ![r] = Nothing]
        /\ UNCHANGED <<workspaceSide, createSide, archiveFile, restoreStage, breaks>>
    BY <1>2 DEF ReceiptRestore
  <2>5. BackupTypeOK'
    BY <1>0, <2>2, <2>3, <2>4
  <2>6. RestoresAreSettled'
    BY <1>0, <2>2, <2>3, <2>4 DEF RestoresAreSettled
  <2>7. ASSUME NEW q \in Restore, restoring'[q] # Nothing, restoring'[q].step # "staged"
        PROVE  restoring[q] = restoring'[q] /\ restoring[q].root # t
    BY <1>0, <2>1, <2>4, <2>7 DEF RootsAreOwned
  <2>8. RootsAreOwned'
    BY <1>0, <2>3, <2>7 DEF RootsAreOwned
  <2> QED  BY <2>5, <2>6, <2>8
<1>3. CASE FailRestore(r)
  BY <1>3, FaultAssumption DEF FailRestore, RestoresAreSettled, RootsAreOwned
<1>4. CASE DieInRestore(r)
  BY <1>4, FaultAssumption DEF DieInRestore, RestoresAreSettled, RootsAreOwned
<1> QED  BY <1>1, <1>2, <1>3, <1>4

(* Every step of the workspace, of a creation and of a restore keeps the     *)
(* restores apart.                                                           *)
LEMMA BackupInvNext == ASSUME BackupInv, [BackupNext]_backupVars PROVE BackupInv'
<1>1. CASE UNCHANGED backupVars
  BY <1>1 DEF backupVars, workspaceSide, createSide, restoreSide, BackupInv, BackupTypeOK,
     RestoresAreSettled, RootsAreOwned
<1> QED  BY <1>1, CreationKeepsRestores, StagingKeepsRestores, PublishingKeepsRestores,
         CompletingKeepsRestores DEF BackupNext

(* The inductive invariant of backup.py: restores bring settled content,     *)
(* and a restore that has published owns its directory until its receipt.   *)
THEOREM BackupInvariant == BackupSpec => []BackupInv
  BY BackupInvInit, BackupInvNext, PTL DEF BackupSpec

(* What owns a directory is alone in it.                                     *)
LEMMA BackupPromise == BackupInv => RestoresKeepApart
  BY DEF BackupInv, RestoresAreSettled, RootsAreOwned, RestoresKeepApart

(* Two restores never publish the same directory and never restore           *)
(* content that was unsettled when it was backed up.                         *)
THEOREM RestoresStayApart == BackupSpec => []RestoresKeepApart
  BY BackupPromise, BackupInvariant, PTL

-----------------------------------------------------------------------------
(* What a journal's phase says of the directories of its import.             *)
PhasesAreTrue ==
    \A i \in Import :
        /\ package[i] # "none" => stage[i] = "none"
        /\ phase[i] \in {"none", "failed"} => stage[i] = "none" /\ package[i] = "none"
        /\ phase[i] \in {"published", "complete"} => package[i] # "none"
(* The import that runs is the only one of its bundle, and nothing runs      *)
(* while recovery is between a removed stage and its journal.                *)
RunsAreAlone ==
    /\ importing # Nothing =>
        /\ phase[importing] \in {"prepared", "staged", "published"}
        /\ phase[importing] = "prepared" => package[importing] = "none"
        /\ package[importing] = "none" =>
            \A j \in Import : package[j] # "none" => bundle[j] # bundle[importing]
    /\ discarding # Nothing =>
        /\ importing = Nothing /\ phase[discarding] \in {"prepared", "staged"}
        /\ stage[discarding] = "none" /\ package[discarding] = "none"
BundlesAreImportedOnce ==
    \A i, j \in Import :
        package[i] # "none" /\ package[j] # "none" /\ bundle[i] = bundle[j] => i = j
(* An export that is published stands unacknowledged at its target, and what *)
(* is acknowledged agrees with the receipt.                                  *)
ExportsAgree ==
    /\ exporting # Nothing /\ exporting.step = "published" =>
        exported[exporting.target] =
            [id |-> exporting.id, local |-> exporting.local, acknowledged |-> FALSE]
    /\ \A t \in ExportTarget :
        exported[t] # Nothing /\ exported[t].acknowledged =>
            exportReceipt[exported[t].id] = exported[t].local
ImportInv == PhasesAreTrue /\ RunsAreAlone /\ BundlesAreImportedOnce
ExchangeInv == ExchangeTypeOK /\ ImportInv /\ ExportsAgree

(* A workspace starts without imports and exports.                           *)
LEMMA ExchangeInvInit == ASSUME ExchangeInit PROVE ExchangeInv
<1>1. ExchangeTypeOK
  BY FaultAssumption, ExchangeAssumption DEF ExchangeInit, ExchangeTypeOK, Phase
<1>2. ImportInv /\ ExportsAgree
  BY DEF ExchangeInit, ImportInv, PhasesAreTrue, RunsAreAlone, BundlesAreImportedOnce, ExportsAgree
<1> QED  BY <1>1, <1>2 DEF ExchangeInv

(* A step of an import or of its recovery leaves the exports alone.          *)
LEMMA ExportsElsewhere == ASSUME ExchangeInv, UNCHANGED exportVars PROVE ExportsAgree'
  BY DEF ExchangeInv, ExportsAgree, exportVars

(* An export step leaves the imports alone.                                  *)
LEMMA ImportsElsewhere == ASSUME ExchangeInv, UNCHANGED importVars PROVE ImportInv'
  BY DEF ExchangeInv, ImportInv, PhasesAreTrue, RunsAreAlone, BundlesAreImportedOnce, importVars

(* A bundle that any package holds is not imported again.                    *)
LEMMA StartKeepsImports ==
    ASSUME ExchangeInv, NEW i \in Import, StartImport(i)
    PROVE  ExchangeInv'
<1> USE DEF ExchangeInv, ExchangeTypeOK, StartImport
<1>0. i # Nothing /\ preflight.bundle \in Bundle
  BY NothingIsNoNumber DEF Import
<1>1. \A j \in Import : package[j] # "none" => bundle[j] # preflight.bundle
  BY DEF ImportsReadable, ExistingImport
<1>2. ExchangeTypeOK'
  BY <1>0 DEF Phase, exportVars
<1>3. PhasesAreTrue'
  BY DEF ImportInv, PhasesAreTrue
<1>4. RunsAreAlone'
  BY <1>0, <1>1 DEF ImportInv, RunsAreAlone, LockFree
<1>5. BundlesAreImportedOnce'
  BY <1>1 DEF ImportInv, BundlesAreImportedOnce
<1> QED  BY <1>2, <1>3, <1>4, <1>5, ExportsElsewhere DEF ImportInv

(* The steps of the running import; only its publication makes a package.    *)
LEMMA RunningKeepsImports ==
    ASSUME ExchangeInv, NEW i \in Import, ImportStep(i)
    PROVE  ExchangeInv'
<1> USE DEF ExchangeInv, ExchangeTypeOK
<1>0. i # Nothing /\ importing = i /\ UNCHANGED exportVars /\ UNCHANGED <<bundle, discarding>>
  BY NothingIsNoNumber DEF Import, ImportStep, BeginExtract, FinishExtract, PublishPackage,
     JournalImport, RejectPackage
<1>1. CASE BeginExtract(i) \/ FinishExtract(i)
  <2>1. package[i] = "none" /\ UNCHANGED <<phase, package, importing>>
        /\ \A j \in Import \ {i} : stage'[j] = stage[j]
    BY <1>0, <1>1 DEF BeginExtract, FinishExtract, ImportInv, RunsAreAlone
  <2>2. ExchangeTypeOK'
    BY <1>1 DEF BeginExtract, FinishExtract, exportVars
  <2>3. ImportInv'
    BY <1>0, <1>1, <2>1 DEF BeginExtract, FinishExtract, ImportInv, PhasesAreTrue, RunsAreAlone,
       BundlesAreImportedOnce
  <2> QED  BY <1>0, <2>2, <2>3, ExportsElsewhere
<1>2. CASE PublishPackage(i)
  <2>1. ExchangeTypeOK'
    BY <1>2 DEF PublishPackage, exportVars
  <2>2. PhasesAreTrue' /\ RunsAreAlone'
    BY <1>0, <1>2 DEF PublishPackage, ImportInv, PhasesAreTrue, RunsAreAlone
  <2>3. BundlesAreImportedOnce'
    BY <1>0, <1>2 DEF PublishPackage, ImportInv, RunsAreAlone, BundlesAreImportedOnce
  <2> QED  BY <1>0, <2>1, <2>2, <2>3, ExportsElsewhere DEF ImportInv
<1>3. CASE JournalImport(i)
  <2>1. NextPhase(i) \in {"staged", "published", "complete"}
    BY <1>3 DEF JournalImport, NextPhase
  <2>2. NextPhase(i) \in {"published", "complete"} => package[i] # "none"
    BY <1>3 DEF JournalImport, NextPhase
  <2>3. phase' = [phase EXCEPT ![i] = NextPhase(i)] /\ UNCHANGED <<stage, package>>
        /\ importing' = IF NextPhase(i) = "complete" THEN Nothing ELSE i
    BY <1>3 DEF JournalImport
  <2>4. ExchangeTypeOK'
    BY <1>0, <1>3, <2>1, <2>3 DEF JournalImport, exportVars, Phase
  <2>5. ImportInv'
    BY <1>0, <2>1, <2>2, <2>3 DEF ImportInv, PhasesAreTrue, RunsAreAlone, BundlesAreImportedOnce
  <2> QED  BY <1>0, <2>4, <2>5, ExportsElsewhere
<1>4. CASE RejectPackage(i)
  BY <1>0, <1>4, ExportsElsewhere DEF RejectPackage, ImportInv, PhasesAreTrue, RunsAreAlone,
     BundlesAreImportedOnce, exportVars
<1> QED  BY <1>1, <1>2, <1>3, <1>4 DEF ImportStep

(* Recovery closes what it finds and makes no package.                       *)
LEMMA RecoveryKeepsImports ==
    ASSUME ExchangeInv, NEW i \in Import, RecoveryStep(i)
    PROVE  ExchangeInv'
<1> USE DEF ExchangeInv, ExchangeTypeOK
<1>0. i # Nothing /\ UNCHANGED exportVars /\ UNCHANGED <<bundle, package, importing>>
  BY NothingIsNoNumber DEF Import, RecoveryStep, RecoverImport, DiscardStage, JournalDiscard
<1>1. CASE RecoverImport(i)
  <2>1. Verdict(i) \in {"complete", "failed", "needs_resolution"}
    BY <1>1 DEF RecoverImport, Verdict
  <2>2. /\ Verdict(i) = "complete" => package[i] = "valid"
        /\ Verdict(i) = "failed" => package[i] = "none" /\ stage[i] = "none"
    BY DEF Verdict
  <2>3. phase' = [phase EXCEPT ![i] = Verdict(i)] /\ UNCHANGED <<stage, discarding>>
        /\ importing = Nothing /\ discarding = Nothing
    BY <1>1 DEF RecoverImport, Visited, LockFree
  <2>4. ExchangeTypeOK'
    BY <1>1, <2>1 DEF RecoverImport, Phase, exportVars
  <2>5. ImportInv'
    BY <1>0, <2>1, <2>2, <2>3 DEF ImportInv, PhasesAreTrue, RunsAreAlone, BundlesAreImportedOnce
  <2> QED  BY <1>0, <2>4, <2>5, ExportsElsewhere
<1>2. CASE DiscardStage(i)
  <2>1. package[i] = "none" /\ phase[i] \in {"prepared", "staged"} /\ importing = Nothing
    BY <1>2 DEF DiscardStage, Verdict, Visited, LockFree
  <2>2. ExchangeTypeOK'
    BY <1>2 DEF DiscardStage, exportVars
  <2>3. ImportInv'
    BY <1>0, <1>2, <2>1 DEF DiscardStage, ImportInv, PhasesAreTrue, RunsAreAlone,
       BundlesAreImportedOnce
  <2> QED  BY <1>0, <2>2, <2>3, ExportsElsewhere
<1>3. CASE JournalDiscard(i)
  <2>1. ExchangeTypeOK'
    BY <1>3 DEF JournalDiscard, exportVars, Phase
  <2>2. ImportInv'
    BY <1>0, <1>3 DEF JournalDiscard, ImportInv, PhasesAreTrue, RunsAreAlone,
       BundlesAreImportedOnce
  <2> QED  BY <1>0, <2>1, <2>2, ExportsElsewhere
<1> QED  BY <1>1, <1>2, <1>3 DEF RecoveryStep

(* The end of a call, a new preflight, damage and the workspace's own        *)
(* records.                                                                  *)
LEMMA DisturbancesKeepImports ==
    ASSUME ExchangeInv,
           \/ WriteLocal \/ ImportEnds \/ \E b \in Bundle : Preflight(b)
           \/ \E i \in Import : DamagePackage(i)
    PROVE  ExchangeInv'
<1> USE FaultAssumption, ExchangeAssumption DEF ExchangeInv, ExchangeTypeOK
<1>0. UNCHANGED exportVars
  BY DEF WriteLocal, ImportEnds, Preflight, DamagePackage
<1>1. CASE WriteLocal
  BY <1>0, <1>1, ExportsElsewhere, ImportsElsewhere DEF WriteLocal, importVars, exportVars
<1>2. ASSUME NEW b \in Bundle, Preflight(b) PROVE ExchangeInv'
  <2>1. ImportInv'
    BY <1>2 DEF Preflight, ImportInv, PhasesAreTrue, RunsAreAlone, BundlesAreImportedOnce
  <2> QED  BY <1>0, <1>2, <2>1, ExportsElsewhere DEF Preflight, exportVars
<1>3. CASE ImportEnds
  <2>1. ImportInv'
    BY <1>3 DEF ImportEnds, ImportInv, PhasesAreTrue, RunsAreAlone, BundlesAreImportedOnce
  <2>2. ExchangeTypeOK'
    BY <1>3 DEF ImportEnds, exportVars
  <2> QED  BY <1>0, <2>1, <2>2, ExportsElsewhere
<1>4. ASSUME NEW i \in Import, DamagePackage(i) PROVE ExchangeInv'
  <2>1. \A j \in Import : package'[j] # "none" <=> package[j] # "none"
    BY <1>4 DEF DamagePackage
  <2>2. ImportInv'
    BY <1>4, <2>1 DEF DamagePackage, ImportInv, PhasesAreTrue, RunsAreAlone,
       BundlesAreImportedOnce
  <2>3. ExchangeTypeOK'
    BY <1>4 DEF DamagePackage, exportVars
  <2> QED  BY <1>0, <2>2, <2>3, ExportsElsewhere
<1> QED  BY <1>1, <1>2, <1>3, <1>4

(* Exports: a receipt that is there is never replaced by another.            *)
LEMMA ExportingKeepsExports ==
    ASSUME ExchangeInv,
           \/ PublishExport \/ ReceiptExport \/ ExportEnds
           \/ \E e \in Export, t \in ExportTarget, seen \in 0..local : StartExport(e, t, seen)
    PROVE  ExchangeInv'
<1> USE FaultAssumption, ExchangeAssumption DEF ExchangeInv, ExchangeTypeOK
<1>0. ImportInv' /\ UNCHANGED <<local, importVars>>
  BY ImportsElsewhere DEF PublishExport, ReceiptExport, ExportEnds, StartExport
<1>1. ASSUME NEW e \in Export, NEW t \in ExportTarget, NEW seen \in 0..local,
             StartExport(e, t, seen)
      PROVE ExchangeInv'
  BY <1>0, <1>1 DEF StartExport, ExportsAgree, importVars
<1>2. CASE PublishExport
  <2> DEFINE new == [id |-> exporting.id, local |-> exporting.local, acknowledged |-> FALSE]
  <2>1. /\ exporting.target \in ExportTarget /\ ~new.acknowledged
        /\ new \in [id : Export, local : 0..MaxLocal, acknowledged : BOOLEAN]
    BY <1>2 DEF PublishExport
  <2>2. exported' = [exported EXCEPT ![exporting.target] = new]
        /\ UNCHANGED <<exportReceipt, slips>>
    BY <1>2 DEF PublishExport
  <2>3. /\ exporting'.target = exporting.target /\ exporting'.id = exporting.id
        /\ exporting'.local = exporting.local
        /\ exporting' \in [id : Export, target : ExportTarget,
                           local : 0..MaxLocal, step : {"staged", "published"}]
    BY <1>2 DEF PublishExport
  <2>4. ExportsAgree'
    <3>1. exported'[exporting'.target] =
            [id |-> exporting'.id, local |-> exporting'.local, acknowledged |-> FALSE]
      BY <2>1, <2>2, <2>3
    <3>2. \A t \in ExportTarget : exported'[t] = IF t = exporting.target THEN new ELSE exported[t]
      BY <2>2
    <3> HIDE DEF new
    <3> QED  BY <2>1, <2>2, <3>1, <3>2 DEF ExportsAgree
  <2>5. ExchangeTypeOK'
    <3> HIDE DEF new
    <3> QED  BY <1>0, <2>1, <2>2, <2>3 DEF importVars
  <2> QED  BY <1>0, <2>4, <2>5
<1>3. CASE ReceiptExport
  <2> DEFINE e == exporting.id  t == exporting.target  v == exporting.local
  <2>1. /\ exporting # Nothing /\ e \in Export /\ t \in ExportTarget /\ v \in 0..MaxLocal
        /\ exported[t] = [id |-> e, local |-> v, acknowledged |-> FALSE]
    BY <1>3 DEF ReceiptExport, ExportsAgree
  <2>2. exporting' = Nothing /\ UNCHANGED slips
    BY <1>3 DEF ReceiptExport
  <2>3. CASE exportReceipt[e] \in {Nothing, v}
    <3> DEFINE new == [exported[t] EXCEPT !.acknowledged = TRUE]
    <3>1. exportReceipt' = [exportReceipt EXCEPT ![e] = v]
          /\ exported' = [exported EXCEPT ![t] = new]
      BY <1>3, <2>3 DEF ReceiptExport
    <3>2. new \in [id : Export, local : 0..MaxLocal, acknowledged : BOOLEAN]
          /\ new.id = e /\ new.local = v
      <4>1. exported[t] \in [id : Export, local : 0..MaxLocal, acknowledged : BOOLEAN]
        BY <2>1
      <4>2. exported[t].id = e /\ exported[t].local = v
        BY <2>1
      <4> QED  BY <4>1, <4>2
    <3> HIDE DEF new
    <3>3. ASSUME NEW s \in ExportTarget, exported'[s] # Nothing, exported'[s].acknowledged
          PROVE  exportReceipt'[exported'[s].id] = exported'[s].local
      <4>1. CASE s = t
        BY <2>1, <3>1, <3>2, <4>1
      <4>2. CASE s # t
        <5>1. /\ exported'[s] = exported[s] /\ exported[s].local \in 0..MaxLocal
              /\ exported[s].id \in Export
              /\ exportReceipt[exported[s].id] = exported[s].local
          BY <3>1, <3>3, <4>2 DEF ExportsAgree
        <5>2. exported[s].local # Nothing
          BY <5>1, NothingIsNoNumber
        <5> QED  BY <2>1, <2>3, <3>1, <5>1, <5>2
      <4> QED  BY <4>1, <4>2
    <3>4. ExportsAgree'
      BY <2>2, <3>3 DEF ExportsAgree
    <3>5. ExchangeTypeOK'
      BY <1>0, <2>1, <2>2, <3>1, <3>2 DEF importVars
    <3> QED  BY <1>0, <3>4, <3>5
  <2>4. CASE exportReceipt[e] \notin {Nothing, v}
    <3>1. exported' = [exported EXCEPT ![t] = Nothing] /\ UNCHANGED exportReceipt
      BY <1>3, <2>4 DEF ReceiptExport
    <3>2. ExportsAgree' /\ ExchangeTypeOK'
      BY <1>0, <2>1, <2>2, <3>1 DEF ExportsAgree, importVars
    <3> QED  BY <1>0, <3>2
  <2> QED  BY <2>3, <2>4
<1>4. CASE ExportEnds
  <2>1. exported' \in [ExportTarget -> {Nothing} \cup
         [id : Export, local : 0..MaxLocal, acknowledged : BOOLEAN]]
        /\ \A t \in ExportTarget : exported'[t] \in {Nothing, exported[t]}
    BY <1>4 DEF ExportEnds
  <2>2. ExportsAgree' /\ ExchangeTypeOK'
    BY <1>0, <1>4, <2>1 DEF ExportEnds, ExportsAgree, importVars
  <2> QED  BY <1>0, <2>2
<1> QED  BY <1>1, <1>2, <1>3, <1>4

(* Every step of imports, recovery and exports keeps the invariant.          *)
LEMMA ExchangeInvNext == ASSUME ExchangeInv, [ExchangeNext]_exchangeVars PROVE ExchangeInv'
<1>1. CASE UNCHANGED exchangeVars
  BY <1>1, ExportsElsewhere, ImportsElsewhere
  DEF exchangeVars, exportVars, importVars, ExchangeInv, ExchangeTypeOK
<1> QED  BY <1>1, StartKeepsImports, RunningKeepsImports, RecoveryKeepsImports,
         DisturbancesKeepImports, ExportingKeepsExports DEF ExchangeNext

(* The inductive invariant of the exchange service: phases tell what the     *)
(* directories hold, the running import is the only one of its bundle,       *)
(* and receipts agree with what targets acknowledge.                         *)
THEOREM ExchangeInvariant == ExchangeSpec => []ExchangeInv
  BY ExchangeInvInit, ExchangeInvNext, PTL DEF ExchangeSpec

(* What the phases say is what the findings of an inspection say.            *)
LEMMA ExchangePromise == ExchangeInv => ImportedOnce
  BY DEF ExchangeInv, ExchangeTypeOK, ImportInv, PhasesAreTrue, BundlesAreImportedOnce,
     ExportsAgree, ImportedOnce, ImportFindings, Unfinished, Phase

(* However often an import is interrupted, recovered and repeated, a         *)
(* bundle has at most one package, and an acknowledged export agrees with    *)
(* its receipt.                                                              *)
THEOREM BundlesStayImportedOnce == ExchangeSpec => []ImportedOnce
  BY ExchangePromise, ExchangeInvariant, PTL

-----------------------------------------------------------------------------
(* A commit generates in a directory nobody else works in.                   *)
CommitsAreTheirOwn ==
    \A p \in Proposal : Doing(p, "commit") /\ staging[p] # Nothing => staging[p].files # "changed"
(* What a commit has published is journalled as such.                        *)
PublishedIsJournalled ==
    target # Nothing /\ target.owner # Foreign => target.head \in {"validated", "complete", "torn"}
MaterializationInv == MaterializationTypeOK /\ CommitsAreTheirOwn /\ PublishedIsJournalled

(* A materialization starts with no directory of its own.                    *)
LEMMA MaterializationInvInit == ASSUME MaterializationInit PROVE MaterializationInv
  BY FaultAssumption DEF MaterializationInit, MaterializationInv, MaterializationTypeOK,
     CommitsAreTheirOwn, PublishedIsJournalled

(* What a step may do to the staging directories: only that of one proposal  *)
(* changes, and none that somebody changed goes, but for a discard.          *)
StagesStay ==
    \A p \in Proposal :
        staging[p] # Nothing /\ staging[p].files = "changed" =>
            staging'[p] # Nothing \/ Doing(p, "discard")
TargetStays ==
    target # Nothing =>
        /\ target' # Nothing /\ target'.owner = target.owner
        /\ target.files = "changed" => target'.files = "changed"

(* A call on a proposal is a call, not its absence.                          *)
LEMMA CallsAreRecords ==
    ASSUME NEW p \in Proposal, NEW what \in {"commit", "resume", "discard"}
    PROVE  /\ [by |-> p, doing |-> what] \in Call
           /\ [by |-> p, doing |-> what] # Nothing
  BY NothingIsNoDirectory DEF Call

(* A step that replaces one staging directory.                               *)
LEMMA StagingStep ==
    ASSUME MaterializationInv, NEW p \in Proposal, NEW d \in StagingDirectory,
           staging' = [staging EXCEPT ![p] = d],
           UNCHANGED target, mishaps' \in 0..MaxFaults,
           \/ UNCHANGED working /\ (Doing(p, "commit") => d.files # "changed")
           \/ working' = [by |-> p, doing |-> "commit"] /\ d.files # "changed"
           \/ working' = [by |-> p, doing |-> "discard"]
           \/ working' = Nothing
    PROVE  MaterializationInv' /\ StagesStay /\ TargetStays
<1> USE DEF MaterializationInv, MaterializationTypeOK
<1>1. d # Nothing
  BY NothingIsNoDirectory
<1>2. MaterializationTypeOK'
  BY CallsAreRecords
<1>3. CommitsAreTheirOwn'
  BY CallsAreRecords DEF CommitsAreTheirOwn, Doing, Call
<1> QED  BY <1>1, <1>2, <1>3 DEF StagesStay, TargetStays, PublishedIsJournalled

(* The steps of a commit inside its staging directory, and the start of a    *)
(* discard.                                                                  *)
LEMMA GenerationStep ==
    ASSUME MaterializationInv, NEW p \in Proposal,
           \/ BeginCommit(p) \/ JournalIntent(p) \/ Generate(p) \/ JournalGeneration(p)
           \/ BeginDiscard(p)
    PROVE  MaterializationInv' /\ StagesStay /\ TargetStays
<1> USE DEF MaterializationInv, MaterializationTypeOK
<1>1. CASE BeginCommit(p)
  <2> DEFINE d == [files |-> "empty", head |-> "absent", digest |-> "empty"]
  <2>1. d \in StagingDirectory /\ d.files # "changed"
    BY DEF StagingDirectory, Generation, Head
  <2> QED  BY <1>1, <2>1, StagingStep DEF BeginCommit
<1>2. ASSUME NEW head \in Head, Record(p, head), UNCHANGED <<target, working, mishaps>>,
             staging[p] # Nothing
      PROVE  MaterializationInv' /\ StagesStay /\ TargetStays
  <2> DEFINE d == [staging[p] EXCEPT !.head = head, !.digest = staging[p].files]
  <2>1. d \in StagingDirectory /\ d.files = staging[p].files
    BY <1>2 DEF StagingDirectory
  <2>2. staging' = [staging EXCEPT ![p] = d]
    BY <1>2 DEF Record
  <2>3. Doing(p, "commit") => d.files # "changed"
    BY <1>2, <2>1 DEF CommitsAreTheirOwn
  <2> QED  BY <1>2, <2>1, <2>2, <2>3, StagingStep
<1>3. CASE JournalIntent(p) \/ JournalGeneration(p)
  BY <1>2, <1>3 DEF JournalIntent, JournalGeneration, Head
<1>4. CASE Generate(p)
  <2> DEFINE d == [staging[p] EXCEPT !.files = IF @ = "empty" THEN "part" ELSE "whole"]
  <2>1. d \in StagingDirectory /\ d.files # "changed"
    BY <1>4 DEF Generate, StagingDirectory, Generation
  <2>2. staging' = [staging EXCEPT ![p] = d]
    BY <1>4 DEF Generate
  <2> QED  BY <1>4, <2>1, <2>2, StagingStep DEF Generate
<1>5. CASE BeginDiscard(p)
  <2> DEFINE d == [staging[p] EXCEPT !.files = "changed", !.head = "absent"]
  <2>1. staging[p] # Nothing
    <3>1. CASE Mine(p)
      BY <1>5, <3>1, ForeignAssumption DEF BeginDiscard, RecoveryState, Mine, Closing,
         PublishedIsJournalled
    <3>2. CASE ~Mine(p)
      BY <1>5, <3>2 DEF BeginDiscard, RecoveryState
    <3> QED  BY <3>1, <3>2
  <2>2. d \in StagingDirectory /\ staging' = [staging EXCEPT ![p] = d]
    BY <1>5, <2>1 DEF BeginDiscard, StagingDirectory, Generation, Head
  <2> QED  BY <1>5, <2>2, StagingStep DEF BeginDiscard
<1> QED  BY <1>1, <1>3, <1>4, <1>5

(* A step that removes one's own staging directory or none.                  *)
LEMMA ElsewhereStep ==
    ASSUME MaterializationInv, NEW p \in Proposal,
           staging' \in {staging, [staging EXCEPT ![p] = Nothing]},
           staging' # staging => Doing(p, "commit") \/ Doing(p, "discard"),
           target' \in {Nothing} \cup TargetDirectory, TargetStays, PublishedIsJournalled',
           mishaps' \in 0..MaxFaults,
           working' \in {working, Nothing, [by |-> p, doing |-> "resume"]}
    PROVE  MaterializationInv' /\ StagesStay /\ TargetStays
<1> USE DEF MaterializationInv, MaterializationTypeOK
<1>1. MaterializationTypeOK'
  BY CallsAreRecords
<1>2. CommitsAreTheirOwn'
  BY CallsAreRecords DEF CommitsAreTheirOwn, Doing, Call
<1>3. StagesStay
  BY DEF StagesStay, CommitsAreTheirOwn
<1> QED  BY <1>1, <1>2, <1>3

(* A step that changes no staging directory.                                 *)
LEMMA StillStep ==
    ASSUME MaterializationInv, UNCHANGED staging, working' \in {working, Nothing},
           target' \in {Nothing} \cup TargetDirectory, TargetStays, PublishedIsJournalled',
           mishaps' \in 0..MaxFaults
    PROVE  MaterializationInv' /\ StagesStay /\ TargetStays
<1> USE DEF MaterializationInv, MaterializationTypeOK
<1>1. CommitsAreTheirOwn'
  BY CallsAreRecords DEF CommitsAreTheirOwn, Doing
<1> QED  BY <1>1 DEF StagesStay

(* A step that writes at the target: files are only ever changed.            *)
LEMMA TargetWrites ==
    ASSUME MaterializationInv, target # Nothing,
           NEW files \in {target.files, "changed"}, NEW head \in {target.head, "complete", "torn"},
           NEW given \in BOOLEAN, NEW jammed \in BOOLEAN,
           target' = [target EXCEPT !.files = files, !.head = head,
                                    !.receipt = given, !.jammed = jammed]
    PROVE  target' \in TargetDirectory /\ TargetStays /\ PublishedIsJournalled'
<1>1. target' \in TargetDirectory /\ target'.owner = target.owner /\ target'.files = files
      /\ target'.head = head
  BY DEF MaterializationInv, MaterializationTypeOK, TargetDirectory, Generation, Head
<1> QED  BY <1>1, NothingIsNoDirectory
         DEF TargetStays, MaterializationInv, PublishedIsJournalled

(* A step that leaves the target alone.                                      *)
LEMMA TargetUnchanged ==
    ASSUME MaterializationInv, UNCHANGED target
    PROVE  target' \in {Nothing} \cup TargetDirectory /\ TargetStays /\ PublishedIsJournalled'
  BY DEF TargetStays, MaterializationInv, MaterializationTypeOK, PublishedIsJournalled

(* Publication moves a generated directory to a free target; what follows    *)
(* writes beside its files.                                                  *)
LEMMA PublicationStep ==
    ASSUME MaterializationInv, NEW p \in Proposal,
           \/ Publish(p) \/ WriteReceipt(p) \/ CloseJournal(p)
           \/ Refuse(p) \/ Resume(p) \/ EndDiscard(p)
    PROVE  MaterializationInv' /\ StagesStay /\ TargetStays
<1>0. MaterializationTypeOK /\ UNCHANGED mishaps
  BY DEF MaterializationInv, Publish, WriteReceipt, CloseJournal, Refuse, Resume, EndDiscard
<1>1. CASE Publish(p)
  <2> DEFINE new == [owner |-> p, files |-> staging[p].files, head |-> "validated",
                     digest |-> staging[p].digest, receipt |-> FALSE, jammed |-> FALSE]
  <2>1. new \in TargetDirectory /\ new.head = "validated" /\ target = Nothing
    BY <1>0, <1>1 DEF Publish, MaterializationTypeOK, StagingDirectory, TargetDirectory, Head
  <2>2. target' = new /\ staging' = [staging EXCEPT ![p] = Nothing] /\ UNCHANGED working
    BY <1>1 DEF Publish
  <2>3. target' \in TargetDirectory /\ TargetStays /\ PublishedIsJournalled'
    <3> HIDE DEF new
    <3> QED  BY <2>1, <2>2 DEF TargetStays, PublishedIsJournalled
  <2> QED  BY <1>0, <1>1, <2>2, <2>3, ElsewhereStep DEF Publish, MaterializationTypeOK
<1>2. CASE WriteReceipt(p)
  <2>1. target' = [target EXCEPT !.files = target.files, !.head = target.head,
                                 !.receipt = TRUE, !.jammed = target.jammed]
        /\ target # Nothing /\ target.jammed \in BOOLEAN
    BY <1>0, <1>2 DEF WriteReceipt, Mine, MaterializationTypeOK, TargetDirectory
  <2> QED  BY <1>0, <1>2, <2>1, TargetWrites, ElsewhereStep DEF WriteReceipt, MaterializationTypeOK
<1>3. CASE CloseJournal(p)
  <2>1. target' = [target EXCEPT !.files = target.files, !.head = "complete",
                                 !.receipt = target.receipt, !.jammed = target.jammed]
        /\ target # Nothing /\ target.jammed \in BOOLEAN /\ target.receipt \in BOOLEAN
    BY <1>0, <1>3 DEF CloseJournal, Mine, MaterializationTypeOK, TargetDirectory
  <2> QED  BY <1>0, <1>3, <2>1, TargetWrites, ElsewhereStep DEF CloseJournal, MaterializationTypeOK
<1>4. CASE Refuse(p) \/ Resume(p)
  BY <1>0, <1>4, TargetUnchanged, ElsewhereStep DEF Refuse, Resume, MaterializationTypeOK
<1>5. CASE EndDiscard(p)
  BY <1>0, <1>5, TargetUnchanged, ElsewhereStep DEF EndDiscard, MaterializationTypeOK
<1> QED  BY <1>1, <1>2, <1>3, <1>4, <1>5

(* A call that ends, a directory somebody else puts at the target, and       *)
(* files somebody changes.                                                   *)
LEMMA MishapStep ==
    ASSUME MaterializationInv, WorkEnds \/ ForeignTarget \/ ChangeFiles
    PROVE  MaterializationInv' /\ StagesStay /\ TargetStays
<1>0. MaterializationTypeOK /\ mishaps' \in 0..MaxFaults
  BY FaultAssumption DEF MaterializationInv, MaterializationTypeOK, WorkEnds, ForeignTarget,
     ChangeFiles
<1>1. CASE WorkEnds
  <2>1. working \in Call /\ working' = Nothing /\ working.by \in Proposal
    BY <1>0, <1>1 DEF WorkEnds, MaterializationTypeOK, Call
  <2>2. CASE UNCHANGED <<staging, target>>
    BY <1>0, <2>1, <2>2, TargetUnchanged, ElsewhereStep
  <2>3. CASE /\ staging[working.by] # Nothing
             /\ staging' = [staging EXCEPT ![working.by].head = "torn"] /\ UNCHANGED target
    <3> DEFINE d == [staging[working.by] EXCEPT !.head = "torn"]
    <3>1. d \in StagingDirectory /\ staging' = [staging EXCEPT ![working.by] = d]
      BY <1>0, <2>1, <2>3 DEF MaterializationTypeOK, StagingDirectory, Head
    <3> HIDE DEF d
    <3> QED  BY <1>0, <2>1, <2>3, <3>1, StagingStep
  <2>4. CASE /\ Mine(working.by) /\ UNCHANGED staging
             /\ target' = IF target.receipt THEN [target EXCEPT !.head = "torn"]
                          ELSE [target EXCEPT !.jammed = TRUE]
    <3>1. target # Nothing /\ target.jammed \in BOOLEAN /\ target.receipt \in BOOLEAN
      BY <1>0, <2>4 DEF Mine, MaterializationTypeOK, TargetDirectory
    <3>2. target' \in TargetDirectory /\ TargetStays /\ PublishedIsJournalled'
      <4>1. CASE target.receipt
        <5>1. target' = [target EXCEPT !.files = target.files, !.head = "torn",
                                       !.receipt = target.receipt, !.jammed = target.jammed]
          BY <1>0, <2>4, <3>1, <4>1 DEF MaterializationTypeOK, TargetDirectory
        <5> QED  BY <3>1, <5>1, TargetWrites
      <4>2. CASE ~target.receipt
        <5>1. target' = [target EXCEPT !.files = target.files, !.head = target.head,
                                       !.receipt = target.receipt, !.jammed = TRUE]
          BY <1>0, <2>4, <3>1, <4>2 DEF MaterializationTypeOK, TargetDirectory
        <5> QED  BY <3>1, <5>1, TargetWrites
      <4> QED  BY <4>1, <4>2
    <3> QED  BY <1>0, <2>1, <2>4, <3>2, ElsewhereStep
  <2> QED  BY <1>1, <2>2, <2>3, <2>4 DEF WorkEnds
<1>2. CASE ForeignTarget
  <2>1. target' \in TargetDirectory /\ TargetStays /\ PublishedIsJournalled'
    BY <1>2 DEF ForeignTarget, TargetDirectory, Generation, Head, TargetStays, PublishedIsJournalled
  <2> QED  BY <1>0, <1>2, <2>1, StillStep DEF ForeignTarget
<1>3. CASE /\ target # Nothing /\ UNCHANGED <<staging, working>>
           /\ target' = [target EXCEPT !.files = "changed"]
  <2>1. /\ target # Nothing
        /\ target.receipt \in BOOLEAN /\ target.jammed \in BOOLEAN
        /\ target' = [target EXCEPT !.files = "changed", !.head = target.head,
                                    !.receipt = target.receipt, !.jammed = target.jammed]
    BY <1>0, <1>3 DEF MaterializationTypeOK, TargetDirectory
  <2>2. target' \in TargetDirectory /\ TargetStays /\ PublishedIsJournalled'
    BY <2>1, TargetWrites
  <2> QED  BY <1>0, <1>3, <2>2, StillStep
<1>4. ASSUME NEW p \in Proposal, staging[p] # Nothing, working = Nothing,
             UNCHANGED <<target, working>>,
             staging' = [staging EXCEPT ![p].files = "changed"]
      PROVE  MaterializationInv' /\ StagesStay /\ TargetStays
  <2> DEFINE d == [staging[p] EXCEPT !.files = "changed"]
  <2>1. d \in StagingDirectory /\ staging' = [staging EXCEPT ![p] = d]
    BY <1>0, <1>4 DEF MaterializationTypeOK, StagingDirectory, Generation
  <2> HIDE DEF d
  <2> QED  BY <1>0, <1>4, <2>1, StagingStep
<1> QED  BY <1>1, <1>2, <1>3, <1>4 DEF ChangeFiles

(* No step touches what is not its own.                                      *)
LEMMA MaterializationInvNext ==
    ASSUME MaterializationInv, [MaterializationNext]_materializationVars
    PROVE  MaterializationInv' /\ StagesStay /\ TargetStays
<1>1. CASE UNCHANGED materializationVars
  BY <1>1, StillStep, TargetUnchanged
  DEF materializationVars, MaterializationInv, MaterializationTypeOK
<1> QED  BY <1>1, GenerationStep, PublicationStep, MishapStep
         DEF MaterializationNext, MaterializationStep

(* The inductive invariant of workspace_materialization.py: a commit         *)
(* works in a directory of its own, and what it published is journalled.     *)
THEOREM MaterializationInvariant == MaterializationSpec => []MaterializationInv
  BY MaterializationInvInit, MaterializationInvNext, PTL DEF MaterializationSpec

(* What the action property says of a step.                                  *)
ForeignStays ==
    [/\ target # Nothing =>
        /\ target' # Nothing /\ target'.owner = target.owner
        /\ target.files = "changed" => target'.files = "changed"
     /\ \A p \in Proposal :
        staging[p] # Nothing /\ staging[p].files = "changed" =>
            staging'[p] # Nothing \/ Doing(p, "discard")]_materializationVars

(* No commit, resumption or discard removes or overwrites a target           *)
(* another put there, or files somebody changed, short of the discard        *)
(* that was asked for.                                                       *)
THEOREM NothingForeignIsEverTouched == MaterializationSpec => NothingForeignIsTouched
<1>1. MaterializationInv /\ [MaterializationNext]_materializationVars => StagesStay /\ TargetStays
  BY MaterializationInvNext
<1>2. StagesStay /\ TargetStays => ForeignStays
  BY DEF StagesStay, TargetStays, ForeignStays
<1> QED  BY <1>1, <1>2, MaterializationInvariant, PTL
         DEF MaterializationSpec, NothingForeignIsTouched, ForeignStays

-----------------------------------------------------------------------------
(* A workspace that was opened has its marker.                               *)
OpenedIsMarked == opened # {} => marker # Nothing
BootstrapInv == BootstrapTypeOK /\ OpenedStaysOpened /\ OpenedIsMarked

(* A workspace that nobody has opened.                                       *)
LEMMA BootstrapInvInit == ASSUME BootstrapInit PROVE BootstrapInv
<1>1. marker \in {Nothing} \cup [config : Config, current : BOOLEAN]
  <2>1. CASE marker = Nothing
    BY <2>1
  <2>2. ASSUME NEW current \in BOOLEAN,
               marker \in {[config |-> c, current |-> current] : c \in Config}
        PROVE  marker \in [config : Config, current : BOOLEAN]
    BY <2>2
  <2> QED  BY <2>1, <2>2 DEF BootstrapInit
<1>2. layout \in Layout /\ stores \in {"none", "valid", "broken"} /\ upsets \in 0..MaxFaults
  BY FaultAssumption DEF BootstrapInit, Layout
<1> QED  BY <1>1, <1>2 DEF BootstrapInit, BootstrapInv, BootstrapTypeOK, OpenedStaysOpened,
         OpenedIsMarked

(* An initialization replaces no current marker and removes no directory.    *)
LEMMA InitializationKeepsOpened ==
    ASSUME BootstrapInv, NEW p \in Initializer, BootstrapStep(p) \/ ValidateForBootstrap(p)
    PROVE  BootstrapInv'
<1> USE DEF BootstrapInv, BootstrapTypeOK, At, GoTo
<1>1. CASE ValidateForBootstrap(p)
  BY <1>1 DEF ValidateForBootstrap, OpenedStaysOpened, OpenedIsMarked
<1>2. CASE EnsureLockScaffold(p)
  BY <1>2 DEF EnsureLockScaffold, OpenedStaysOpened, OpenedIsMarked, Layout
<1>3. CASE AcquireLock(p)
  BY <1>3 DEF AcquireLock, OpenedStaysOpened, OpenedIsMarked
<1>4. CASE Revalidate(p)
  BY <1>4 DEF Revalidate, OpenedStaysOpened, OpenedIsMarked
<1>5. CASE EnsureManagedDirectories(p)
  BY <1>5 DEF EnsureManagedDirectories, OpenedStaysOpened, OpenedIsMarked, Layout
<1>6. CASE WriteMarker(p)
  <2>1. /\ progress[p].seen \in Config
        /\ MarkerFor(progress[p].seen) \in [config : Config, current : BOOLEAN]
    BY <1>6 DEF WriteMarker, MarkerFor
  <2>2. \A c \in opened : marker # Nothing /\ marker.current => marker' = marker
    BY <1>6 DEF WriteMarker
  <2>3. \A c \in opened : marker = MarkerFor(c) /\ marker.current /\ marker # Nothing
    BY DEF OpenedStaysOpened, OpenedIsMarked, MarkerFor
  <2>4. OpenedStaysOpened' /\ OpenedIsMarked'
    BY <1>6, <2>2, <2>3 DEF WriteMarker, OpenedStaysOpened, OpenedIsMarked
  <2>5. marker' \in {Nothing} \cup [config : Config, current : BOOLEAN]
    BY <1>6, <2>1 DEF WriteMarker
  <2> QED  BY <1>6, <2>4, <2>5 DEF WriteMarker
<1> QED  BY <1>1, <1>2, <1>3, <1>4, <1>5, <1>6 DEF BootstrapStep

(* Whoever is admitted finds a marker of its own.                            *)
LEMMA InitializedIsBound ==
    ASSUME BootstrapInv, NEW c \in Config, Initialized(c)
    PROVE  marker = MarkerFor(c) /\ layout = 3 /\ marker # Nothing
  BY DEF Initialized, LayoutErrors, PredecessorMarker

(* Opening and inspecting look at the layout and change nothing of it.       *)
LEMMA AdmissionKeepsOpened ==
    ASSUME BootstrapInv, NEW p \in Initializer,
           OpenWorkspace(p) \/ BeginInspection(p) \/ EndInspection(p)
    PROVE  BootstrapInv'
<1> USE DEF BootstrapInv, BootstrapTypeOK
<1>1. configuration[p] \in Config
  OBVIOUS
<1>2. CASE OpenWorkspace(p)
  BY <1>1, <1>2, InitializedIsBound DEF OpenWorkspace, OpenedStaysOpened, OpenedIsMarked
<1>3. CASE BeginInspection(p)
  BY <1>1, <1>3 DEF BeginInspection, OpenedStaysOpened, OpenedIsMarked, ProtectedInputs
<1>4. CASE EndInspection(p)
  BY <1>1, <1>4, InitializedIsBound DEF EndInspection, OpenedStaysOpened, OpenedIsMarked,
     ProtectedInputs
<1> QED  BY <1>2, <1>3, <1>4

(* A death, an edited configuration and an older program's writes leave a    *)
(* current marker alone.                                                     *)
LEMMA UpsetsKeepOpened ==
    ASSUME BootstrapInv,
           OlderProgramWrites \/ \E p \in Initializer : Stop(p) \/ EditConfiguration(p)
    PROVE  BootstrapInv'
<1> USE FaultAssumption DEF BootstrapInv, BootstrapTypeOK
<1>1. ASSUME NEW p \in Initializer, Stop(p) PROVE BootstrapInv'
  <2>1. leftover' \in BOOLEAN
    BY <1>1, Zenon DEF Stop
  <2> QED  BY <1>1, <2>1 DEF Stop, OpenedStaysOpened, OpenedIsMarked
<1>2. ASSUME NEW p \in Initializer, EditConfiguration(p) PROVE BootstrapInv'
  BY <1>2 DEF EditConfiguration, OpenedStaysOpened, OpenedIsMarked
<1>3. CASE OlderProgramWrites
  BY <1>3 DEF OlderProgramWrites, OpenedStaysOpened, OpenedIsMarked
<1> QED  BY <1>1, <1>2, <1>3

(* Every step of initialization and admission keeps the invariant.           *)
LEMMA BootstrapInvNext == ASSUME BootstrapInv, [BootstrapNext]_bootVars PROVE BootstrapInv'
<1>1. CASE UNCHANGED bootVars
  BY <1>1 DEF bootVars, BootstrapInv, BootstrapTypeOK, OpenedStaysOpened, OpenedIsMarked
<1> QED  BY <1>1, InitializationKeepsOpened, AdmissionKeepsOpened, UpsetsKeepOpened
         DEF BootstrapNext

(* The inductive invariant of services/bootstrap.py: what was opened has a   *)
(* current marker, and no initialization replaces one.                       *)
THEOREM BootstrapInvariant == BootstrapSpec => []BootstrapInv
  BY BootstrapInvInit, BootstrapInvNext, PTL DEF BootstrapSpec

(* A workspace that was once opened under a configuration stays              *)
(* initialized under it, whatever other initializations run, die or are      *)
(* repeated.                                                                 *)
THEOREM OpenedWorkspacesStay == BootstrapSpec => []OpenedStaysOpened
<1>1. BootstrapInv => OpenedStaysOpened
  BY DEF BootstrapInv
<1> QED  BY <1>1, BootstrapInvariant, PTL


-----------------------------------------------------------------------------
(* A step of the composition is a step or a stutter of each component.       *)
OperationsInv ==
    ArchiveInv /\ BackupInv /\ ExchangeInv /\ MaterializationInv /\ BootstrapInv

(* One area moves and the others stand still.                                *)
LEMMA OneAreaMoves ==
    ASSUME [OperationsNext]_operationsVars, area \in Areas
    PROVE  /\ [ArchiveNext]_archiveVars /\ [BackupNext]_backupVars /\ [ExchangeNext]_exchangeVars
           /\ [MaterializationNext]_materializationVars /\ [BootstrapNext]_bootVars
           /\ UNCHANGED area
<1>1. CASE UNCHANGED operationsVars
  BY <1>1 DEF operationsVars
<1>2. CASE OperationsNext
  BY <1>2 DEF OperationsNext, Areas
<1> QED  BY <1>1, <1>2

(* Archives, backups, exchange, materialization and bootstrap share only the *)
(* workspace lock: the composition keeps each one's invariant.               *)
THEOREM OperationsInvariant == OperationsSpec => []OperationsInv
<1>1. OperationsInit => OperationsInv /\ area \in Areas
  BY ArchiveInvInit, BackupInvInit, ExchangeInvInit, MaterializationInvInit, BootstrapInvInit
  DEF OperationsInit, OperationsInv
<1>2. OperationsInv /\ area \in Areas /\ [OperationsNext]_operationsVars
        => (OperationsInv /\ area \in Areas)'
  BY OneAreaMoves, ArchiveInvNext, BackupInvNext, ExchangeInvNext, MaterializationInvNext,
     BootstrapInvNext DEF OperationsInv
<1> QED  BY <1>1, <1>2, PTL DEF OperationsSpec

(* Every variable of the operations keeps its type.                          *)
THEOREM OperationsTypesHold == OperationsSpec => []OperationsTypeOK
<1>1. OperationsInv => OperationsTypeOK
  BY DEF OperationsInv, OperationsTypeOK, ArchiveInv, BackupInv, ExchangeInv, MaterializationInv,
     BootstrapInv
<1> QED  BY <1>1, OperationsInvariant, PTL

(* In the composition, too, no journal is lost, restores keep apart, bundles *)
(* are imported once, opened workspaces stay open and nothing foreign is     *)
(* touched: what the components promise alone they promise together.         *)
THEOREM OperationsKeepTheirPromises ==
    OperationsSpec =>
        /\ [](NoJournalLost /\ RestoresKeepApart /\ ImportedOnce /\ OpenedStaysOpened)
        /\ NothingForeignIsTouched
<1>1. OperationsInv => NoJournalLost /\ RestoresKeepApart /\ ImportedOnce /\ OpenedStaysOpened
  BY ArchivePromise, BackupPromise, ExchangePromise DEF OperationsInv, BootstrapInv
<1>2. OperationsInit => area \in Areas
  BY DEF OperationsInit
<1>3. area \in Areas /\ [OperationsNext]_operationsVars => (area \in Areas)'
  BY OneAreaMoves
<1>4. OperationsInv /\ area \in Areas /\ [OperationsNext]_operationsVars => ForeignStays
  BY OneAreaMoves, MaterializationInvNext DEF OperationsInv, StagesStay, TargetStays, ForeignStays
<1> QED  BY <1>1, <1>2, <1>3, <1>4, OperationsInvariant, PTL
         DEF OperationsSpec, NothingForeignIsTouched, ForeignStays
=============================================================================
