------------------------------ MODULE Exchange ------------------------------
(* Exchange archives (exchange.py, exchange_import.py).  An import is bound  *)
(* by digest to its preflight and journalled through prepared, staged,       *)
(* published, complete; nothing cleans up after an error, recovery does.  An *)
(* export publishes an archive and binds its id to it by a receipt.  Both    *)
(* hold the workspace lock.  Imported records stay external: nothing here    *)
(* writes the workspace's own records.                                       *)
EXTENDS WorkspaceBase
CONSTANTS
    ImportCount,    \* imports are 1..ImportCount, in journal-name order
    Bundle,         \* digests of the archives that may be imported
    Export,         \* export ids
    ExportTarget,   \* files an export may create
    MaxLocal        \* bound: changes of the local records
ASSUME ExchangeAssumption == ImportCount \in Nat \ {0} /\ MaxLocal \in Nat

Import == 1..ImportCount
Phase == {"none", "prepared", "staged", "published", "complete", "failed", "needs_resolution"}

VARIABLES
    local,       \* version of the local records, the basis of both directions
    preflight,   \* what the user previewed: Nothing or [bundle, local]
    phase,       \* per import: its journal's phase, "failed" for a failure
    bundle,      \* per import: the archive its journal names, or Nothing
    stage,       \* per import: "none", "partial" or "full" stage directory
    package,     \* per import: "none", "valid" or "damaged"
    importing,   \* the import whose apply runs, or Nothing
    discarding,  \* the import whose stage recovery just removed, or Nothing
    blocked,     \* imports whose journal's temporary file is left over
    exporting,   \* Nothing or [id, target, local, step]
    exported,    \* per target: Nothing or [id, local, acknowledged]
    exportReceipt, \* per export: Nothing or the version it is bound to
    slips
importVars == <<preflight, phase, bundle, stage, package, importing, discarding, blocked>>
exportVars == <<exporting, exported, exportReceipt>>
exchangeVars == <<local, importVars, exportVars, slips>>

ExchangeTypeOK ==
    /\ local \in 0..MaxLocal /\ slips \in 0..MaxFaults
    /\ preflight \in {Nothing} \cup [bundle : Bundle, local : 0..MaxLocal]
    /\ phase \in [Import -> Phase]
    /\ bundle \in [Import -> Bundle \cup {Nothing}]
    /\ stage \in [Import -> {"none", "partial", "full"}]
    /\ package \in [Import -> {"none", "valid", "damaged"}]
    /\ {importing, discarding} \subseteq Import \cup {Nothing}
    /\ blocked \subseteq Import
    /\ exporting \in {Nothing} \cup [id : Export, target : ExportTarget,
         local : 0..MaxLocal, step : {"staged", "published"}]
    /\ exported \in [ExportTarget -> {Nothing} \cup
         [id : Export, local : 0..MaxLocal, acknowledged : BOOLEAN]]
    /\ exportReceipt \in [Export -> {Nothing} \cup 0..MaxLocal]

ExchangeInit ==
    /\ local = 0 /\ slips = 0 /\ preflight = Nothing
    /\ phase = [i \in Import |-> "none"] /\ bundle = [i \in Import |-> Nothing]
    /\ stage = [i \in Import |-> "none"] /\ package = [i \in Import |-> "none"]
    /\ importing = Nothing /\ discarding = Nothing /\ blocked = {}
    /\ exporting = Nothing
    /\ exported = [t \in ExportTarget |-> Nothing]
    /\ exportReceipt = [e \in Export |-> Nothing]

LockFree == importing = Nothing /\ discarding = Nothing /\ exporting = Nothing

WriteLocal ==
    /\ LockFree /\ local < MaxLocal /\ local' = local + 1
    /\ UNCHANGED <<importVars, exportVars, slips>>

-----------------------------------------------------------------------------
\* Reading the imports raises when any published package is damaged.
ImportsReadable == \A i \in Import : package[i] # "damaged"
ExistingImport(b) == {i \in Import : package[i] = "valid" /\ bundle[i] = b}

Preflight(b) ==
    /\ ImportsReadable
    /\ preflight' = [bundle |-> b, local |-> local]
    /\ UNCHANGED <<local, phase, bundle, stage, package, importing, discarding,
                   blocked, exportVars, slips>>

\* An archive that is already imported is answered without a write.
StartDuplicateImport(i) ==
    /\ LockFree /\ ImportsReadable
    /\ preflight # Nothing /\ preflight.local = local
    /\ phase[i] = "none" /\ stage[i] = "none" /\ package[i] = "none"
    /\ phase' = [phase EXCEPT ![i] = "prepared"]
    /\ bundle' = [bundle EXCEPT ![i] = preflight.bundle]
    /\ importing' = i
    /\ UNCHANGED <<local, preflight, stage, package, discarding, blocked, exportVars, slips>>
StartImport(i) ==
    /\ LockFree /\ ImportsReadable
    /\ preflight # Nothing /\ preflight.local = local
    /\ ExistingImport(preflight.bundle) = {}
    /\ phase[i] = "none" /\ stage[i] = "none" /\ package[i] = "none"
    /\ phase' = [phase EXCEPT ![i] = "prepared"]
    /\ bundle' = [bundle EXCEPT ![i] = preflight.bundle]
    /\ importing' = i
    /\ UNCHANGED <<local, preflight, stage, package, discarding, blocked, exportVars, slips>>

BeginExtract(i) ==
    /\ importing = i /\ phase[i] = "prepared" /\ stage[i] = "none"
    /\ stage' = [stage EXCEPT ![i] = "partial"]
    /\ UNCHANGED <<local, preflight, phase, bundle, package, importing,
                   discarding, blocked, exportVars, slips>>
\* Every digest matched and the import receipt is in the stage.
FinishExtract(i) ==
    /\ importing = i /\ phase[i] = "prepared" /\ stage[i] = "partial"
    /\ stage' = [stage EXCEPT ![i] = "full"]
    /\ UNCHANGED <<local, preflight, phase, bundle, package, importing,
                   discarding, blocked, exportVars, slips>>
PublishPackage(i) ==
    /\ importing = i /\ phase[i] = "staged" /\ package[i] = "none"
    /\ stage' = [stage EXCEPT ![i] = "none"]
    /\ package' = [package EXCEPT ![i] = "valid"]
    /\ UNCHANGED <<local, preflight, phase, bundle, importing, discarding,
                   blocked, exportVars, slips>>

\* The journal follows what has been done; the last entry needs a valid package.
NextPhase(i) ==
    CASE phase[i] = "prepared" /\ stage[i] = "full" -> "staged"
      [] phase[i] = "staged" /\ package[i] # "none" -> "published"
      [] phase[i] = "published" /\ package[i] = "valid" -> "complete"
      [] OTHER -> phase[i]
JournalImport(i) ==
    /\ importing = i /\ NextPhase(i) # phase[i]
    /\ phase' = [phase EXCEPT ![i] = NextPhase(i)]
    /\ importing' = IF NextPhase(i) = "complete" THEN Nothing ELSE i
    /\ UNCHANGED <<local, preflight, bundle, stage, package, discarding,
                   blocked, exportVars, slips>>

\* The published package is read back; one that is damaged ends the import.
RejectPackage(i) ==
    /\ importing = i /\ phase[i] = "published" /\ package[i] # "valid"
    /\ importing' = Nothing
    /\ UNCHANGED <<local, preflight, phase, bundle, stage, package, discarding,
                   blocked, exportVars, slips>>

\* An error or a death ends the import where it is, or the recovery between
\* the removal of a stage and its journal.  A death in a journal write may
\* leave the temporary file, whose name the import id fixes.
ImportEnds ==
    /\ importing # Nothing \/ discarding # Nothing
    /\ slips < MaxFaults /\ slips' = slips + 1
    /\ importing' = Nothing /\ discarding' = Nothing
    /\ \E i \in {importing, discarding} \ {Nothing} :
        blocked' \in {blocked} \cup (IF TornWrites THEN {blocked \cup {i}} ELSE {})
    /\ UNCHANGED <<local, preflight, phase, bundle, stage, package, exportVars>>

DamagePackage(i) ==
    /\ slips < MaxFaults /\ package[i] = "valid"
    /\ slips' = slips + 1
    /\ package' = [package EXCEPT ![i] = "damaged"]
    /\ UNCHANGED <<local, preflight, phase, bundle, stage, importing,
                   discarding, blocked, exportVars>>

-----------------------------------------------------------------------------
(* Recovery visits the journals in order and stops at the first error.       *)
Unfinished(i) == phase[i] \notin {"none", "complete", "failed"}
Visited(i) == LockFree /\ Unfinished(i) /\ \A j \in 1..i : Unfinished(j) => j \notin blocked

Verdict(i) ==
    CASE package[i] = "valid" -> "complete"
      [] package[i] = "none" /\ stage[i] # "none" /\ phase[i] \in {"prepared", "staged"} -> "discard"
      [] package[i] = "none" /\ stage[i] = "none" /\ phase[i] = "prepared" -> "failed"
      [] OTHER -> "needs_resolution"

RecoverImport(i) ==
    /\ Visited(i) /\ Verdict(i) # "discard"
    /\ phase' = [phase EXCEPT ![i] = Verdict(i)]
    /\ UNCHANGED <<local, preflight, bundle, stage, package, importing,
                   discarding, blocked, exportVars, slips>>
DiscardStage(i) ==
    /\ Visited(i) /\ Verdict(i) = "discard"
    /\ stage' = [stage EXCEPT ![i] = "none"] /\ discarding' = i
    /\ UNCHANGED <<local, preflight, phase, bundle, package, importing,
                   blocked, exportVars, slips>>
JournalDiscard(i) ==
    /\ discarding = i
    /\ phase' = [phase EXCEPT ![i] = "failed"] /\ discarding' = Nothing
    /\ UNCHANGED <<local, preflight, bundle, stage, package, importing,
                   blocked, exportVars, slips>>

-----------------------------------------------------------------------------
\* The selection must be what the preview showed; the target must be free.
StartExport(e, t, seen) ==
    /\ LockFree /\ exported[t] = Nothing /\ seen = local
    /\ exporting' = [id |-> e, target |-> t, local |-> local, step |-> "staged"]
    /\ UNCHANGED <<local, importVars, exported, exportReceipt, slips>>
PublishExport ==
    /\ exporting # Nothing /\ exporting.step = "staged"
    /\ exported[exporting.target] = Nothing
    /\ exported' = [exported EXCEPT ![exporting.target] =
         [id |-> exporting.id, local |-> exporting.local, acknowledged |-> FALSE]]
    /\ exporting' = [exporting EXCEPT !.step = "published"]
    /\ UNCHANGED <<local, importVars, exportReceipt, slips>>
\* A receipt of the same id must be equal, or the new archive goes again.
ReceiptExport ==
    /\ exporting # Nothing /\ exporting.step = "published"
    /\ LET e == exporting.id  t == exporting.target  v == exporting.local IN
       IF exportReceipt[e] \in {Nothing, v}
       THEN /\ exportReceipt' = [exportReceipt EXCEPT ![e] = v]
            /\ exported' = [exported EXCEPT ![t].acknowledged = TRUE]
       ELSE /\ exported' = [exported EXCEPT ![t] = Nothing]
            /\ UNCHANGED exportReceipt
    /\ exporting' = Nothing
    /\ UNCHANGED <<local, importVars, slips>>
\* An error before the receipt removes the archive; a death removes nothing.
ExportEnds ==
    /\ exporting # Nothing /\ slips < MaxFaults /\ slips' = slips + 1
    /\ exported' \in {exported, [exported EXCEPT ![exporting.target] =
         IF exporting.step = "published" THEN Nothing ELSE @]}
    /\ exporting' = Nothing
    /\ UNCHANGED <<local, importVars, exportReceipt>>

ImportStep(i) ==
    \/ BeginExtract(i) \/ FinishExtract(i) \/ PublishPackage(i) \/ JournalImport(i)
    \/ RejectPackage(i)
RecoveryStep(i) == RecoverImport(i) \/ DiscardStage(i) \/ JournalDiscard(i)

ExchangeNext ==
    \/ WriteLocal \/ ImportEnds \/ PublishExport \/ ReceiptExport \/ ExportEnds
    \/ \E b \in Bundle : Preflight(b)
    \/ \E i \in Import :
        StartImport(i) \/ ImportStep(i) \/ RecoveryStep(i) \/ DamagePackage(i)
    \/ \E e \in Export, t \in ExportTarget, seen \in 0..local : StartExport(e, t, seen)

\* Running calls go on, and a user keeps asking for recovery until the lock,
\* which every other call gives back, is free for it.
ExchangeFairness ==
    /\ WF_exchangeVars(\E i \in Import : ImportStep(i))
    /\ WF_exchangeVars(PublishExport \/ ReceiptExport)
    /\ \A i \in Import : SF_exchangeVars(RecoveryStep(i))
ExchangeSpec == ExchangeInit /\ [][ExchangeNext]_exchangeVars /\ ExchangeFairness

-----------------------------------------------------------------------------
\* What the Guardian reports of imports once their journals are finished.
ImportFindings == {i \in Import :
    \/ phase[i] = "complete" /\ package[i] # "valid"
    \/ phase[i] = "failed" /\ (package[i] # "none" \/ stage[i] # "none")
    \/ package[i] # "none" /\ phase[i] # "complete"
    \/ stage[i] # "none"
    \/ Unfinished(i)}

\* An archive is imported once however often its import is interrupted,
\* recovered and repeated; a finished import is reported only when its
\* package was damaged afterwards; an acknowledged export agrees with the
\* receipt that its id is bound to.
ImportedOnce ==
    /\ \A i, j \in Import :
        package[i] # "none" /\ package[j] # "none" /\ bundle[i] = bundle[j] => i = j
    /\ \A i \in ImportFindings : ~Unfinished(i) => package[i] = "damaged"
    /\ \A t \in ExportTarget :
        exported[t] # Nothing /\ exported[t].acknowledged =>
            exportReceipt[exported[t].id] = exported[t].local

\* Recovery reaches a verdict on every interrupted import, unless a temporary
\* file stands in the way of its journal or of one before it.
ImportsSettle ==
    \A i \in Import : Unfinished(i) ~>
        (~Unfinished(i) \/ phase[i] = "needs_resolution" \/ \E j \in 1..i : j \in blocked)
=============================================================================
