----------------------------- MODULE MCOperations -----------------------------
(* The workspace operations that share nothing but the workspace lock, each  *)
(* explored on its own: a behaviour moves the components of one area only.   *)
EXTENDS OperationalArchive, BackupRestore, Exchange, WorkspaceMaterialization,
        WorkspaceBootstrap
VARIABLE area
Areas == {"archive", "backup", "exchange", "materialization", "bootstrap"}
operationsVars == <<archiveVars, backupVars, exchangeVars, materializationVars, bootVars, area>>

OperationsInit ==
    /\ ArchiveInit /\ BackupInit /\ ExchangeInit /\ MaterializationInit /\ BootstrapInit
    /\ area \in Areas
    /\ area # "bootstrap" => layout = 3 /\ \A p \in Initializer : configuration[p] = marker.config

OperationsNext ==
    /\ UNCHANGED area
    /\ area # "archive" => UNCHANGED archiveVars
    /\ area # "backup" => UNCHANGED backupVars
    /\ area # "exchange" => UNCHANGED exchangeVars
    /\ area # "materialization" => UNCHANGED materializationVars
    /\ area # "bootstrap" => UNCHANGED bootVars
    /\ CASE area = "archive" -> ArchiveNext
         [] area = "backup" -> BackupNext
         [] area = "exchange" -> ExchangeNext
         [] area = "materialization" -> MaterializationNext
         [] area = "bootstrap" -> BootstrapNext

OperationsFairness ==
    \/ area = "archive" /\ ArchiveFairness
    \/ area = "backup"
    \/ area = "exchange" /\ ExchangeFairness
    \/ area = "materialization" /\ MaterializationFairness
    \/ area = "bootstrap" /\ BootstrapFairness

OperationsSpec ==
    OperationsInit /\ [][OperationsNext]_operationsVars /\ OperationsFairness

\* Every variable of the five components keeps its type.
OperationsTypeOK ==
    ArchiveTypeOK /\ BackupTypeOK /\ ExchangeTypeOK /\ MaterializationTypeOK /\ BootstrapTypeOK

(* What a death interrupted settles when its request or the recovery is      *)
(* repeated: published archives, imports, published workspaces and their     *)
(* initialization, short of the states each component names.                 *)
InterruptedOperationsSettle ==
    /\ PublishedArchiveSettles /\ ImportsSettle /\ PublishedIsCompleted
    /\ area = "bootstrap" => InitializationConverges
===============================================================================
