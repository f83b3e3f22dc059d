------------------------- MODULE OperationalArchive -------------------------
(* Archival of settled transaction journals (operational_maintenance.py).    *)
(* Under the workspace lock a user's request moves every settled journal     *)
(* into one immutable archive directory: stage, publish by rename, unlink    *)
(* each active journal, append the archive's process event, write the        *)
(* receipt.  The process may die between any two of these.  A later request  *)
(* with the digest of the same journals resumes a published archive.         *)
(* Writers and their recovery appear by what they do to journals and events. *)
EXTENDS WorkspaceBase
CONSTANTS
    JournalCount,   \* journals are 1..JournalCount, in file-name order
    Archive         \* archive ids; an archive's process event shares its id
ASSUME ArchiveAssumption ==
    /\ JournalCount \in Nat \ {0} /\ Nothing \notin Archive

Journal == 1..JournalCount

VARIABLES
    journal,     \* "none", "open" (begun, not settled) or "complete"
    active,      \* journals with a file under .research-kb/transactions
    event,       \* ids that have their process event
    archive,     \* "none", "staged", "published" or "settled"
    basis,       \* the journals an archive's manifest names
    archiving,   \* the archive the running request works on, or Nothing
    torn,        \* archives whose next write's temporary file is left over
    shown,       \* digests the user has been shown, as sets of journals
    deaths
archiveVars ==
    <<journal, active, event, archive, basis, archiving, torn, shown, deaths>>

ArchiveTypeOK ==
    /\ journal \in [Journal -> {"none", "open", "complete"}]
    /\ active \subseteq Journal
    /\ event \subseteq Journal \cup Archive
    /\ archive \in [Archive -> {"none", "staged", "published", "settled"}]
    /\ basis \in [Archive -> SUBSET Journal]
    /\ archiving \in Archive \cup {Nothing}
    /\ torn \subseteq Archive
    /\ shown \subseteq SUBSET Journal
    /\ deaths \in 0..MaxFaults

ArchiveInit ==
    /\ journal = [j \in Journal |-> "none"]
    /\ active = {} /\ event = {} /\ torn = {} /\ shown = {} /\ deaths = 0
    /\ archive = [a \in Archive |-> "none"]
    /\ basis = [a \in Archive |-> {}]
    /\ archiving = Nothing

-----------------------------------------------------------------------------
(* Writers: a journal is opened, its event appended, then it is complete.    *)
(* Each holds the lock; a writer that died leaves its journal for recovery.  *)
OpenJournal(j) ==
    /\ archiving = Nothing /\ journal[j] = "none"
    /\ \A i \in Journal : i < j => journal[i] # "none"
    /\ journal' = [journal EXCEPT ![j] = "open"]
    /\ active' = active \cup {j}
    /\ UNCHANGED <<event, archive, basis, archiving, torn, shown, deaths>>

AppendJournalEvent(j) ==
    /\ archiving = Nothing /\ journal[j] = "open" /\ j \notin event
    /\ event' = event \cup {j}
    /\ UNCHANGED <<journal, active, archive, basis, archiving, torn, shown, deaths>>

CompleteJournal(j) ==
    /\ archiving = Nothing /\ journal[j] = "open" /\ j \in event
    /\ journal' = [journal EXCEPT ![j] = "complete"]
    /\ UNCHANGED <<active, event, archive, basis, archiving, torn, shown, deaths>>

-----------------------------------------------------------------------------
EligibleJournals == {j \in active : journal[j] = "complete" /\ j \in event}

\* The directories a request considers: a stage's name starts with a dot.
Published == {a \in Archive : archive[a] \in {"published", "settled"}}
Matching(digest) == {a \in Published : basis[a] = digest}

PreviewArchive ==
    /\ archiving = Nothing
    /\ shown' = shown \cup {EligibleJournals}
    /\ UNCHANGED <<journal, active, event, archive, basis, archiving, torn, deaths>>

\* A request whose digest no archive carries starts one, if the eligible
\* journals are still those of the digest and no other archive is unsettled.
\* Refusals and answers that write nothing leave the state as it is.
StartArchive(digest, a) ==
    /\ archiving = Nothing /\ digest \in shown
    /\ Matching(digest) = {}
    /\ \A b \in Published : archive[b] = "settled"
    /\ digest = EligibleJournals /\ digest # {}
    /\ archive[a] = "none"
    /\ archive' = [archive EXCEPT ![a] = "staged"]
    /\ basis' = [basis EXCEPT ![a] = digest]
    /\ archiving' = a
    /\ UNCHANGED <<journal, active, event, torn, shown, deaths>>

\* A request whose digest exactly one archive carries resumes that archive.
ResumeUnchangedArchive(digest) ==
    /\ archiving = Nothing /\ digest \in shown /\ digest = EligibleJournals
    /\ \E a \in Archive :
        /\ Matching(digest) = {a} /\ archive[a] = "published"
        /\ archiving' = a
    /\ UNCHANGED <<journal, active, event, archive, basis, torn, shown, deaths>>
ResumeArchive(digest) ==
    /\ archiving = Nothing /\ digest \in shown
    /\ \E a \in Archive :
        /\ Matching(digest) = {a} /\ archive[a] = "published"
        /\ archiving' = a
    /\ UNCHANGED <<journal, active, event, archive, basis, torn, shown, deaths>>

PublishArchive(a) ==
    /\ archiving = a /\ archive[a] = "staged"
    /\ archive' = [archive EXCEPT ![a] = "published"]
    /\ UNCHANGED <<journal, active, event, basis, archiving, torn, shown, deaths>>

\* Settling: each journal still matches its event, and leaves the active set.
UnlinkBeforePublication(a, j) ==
    /\ archiving = a /\ archive[a] \in {"staged", "published"}
    /\ j \in basis[a] \cap active
    /\ active' = active \ {j}
    /\ UNCHANGED <<journal, event, archive, basis, archiving, torn, shown, deaths>>
UnlinkJournal(a, j) ==
    /\ archiving = a /\ archive[a] = "published"
    /\ j \in basis[a] \cap active
    /\ \A i \in basis[a] \cap active : j <= i
    /\ j \in event /\ journal[j] = "complete"
    /\ active' = active \ {j}
    /\ UNCHANGED <<journal, event, archive, basis, archiving, torn, shown, deaths>>

AppendArchiveEvent(a) ==
    /\ archiving = a /\ archive[a] = "published"
    /\ basis[a] \cap active = {} /\ basis[a] \subseteq event
    /\ a \notin event
    /\ IF a \in torn
       THEN archiving' = Nothing /\ UNCHANGED event   \* the temporary exists
       ELSE event' = event \cup {a} /\ UNCHANGED archiving
    /\ UNCHANGED <<journal, active, archive, basis, torn, shown, deaths>>

WriteArchiveReceipt(a) ==
    /\ archiving = a /\ archive[a] = "published" /\ a \in event
    /\ basis[a] \cap active = {}
    /\ archiving' = Nothing
    /\ archive' = [archive EXCEPT ![a] = IF a \in torn THEN @ ELSE "settled"]
    /\ UNCHANGED <<journal, active, event, basis, torn, shown, deaths>>

\* The archiving process dies.  While it writes the event or the receipt, it
\* may leave that write's temporary file, whose name the archive fixes.
ArchiverDies ==
    /\ archiving # Nothing /\ deaths < MaxFaults
    /\ deaths' = deaths + 1 /\ archiving' = Nothing
    /\ torn' \in {torn} \cup
         (IF /\ TornWrites /\ archive[archiving] = "published"
             /\ basis[archiving] \cap active = {}
          THEN {torn \cup {archiving}} ELSE {})
    /\ UNCHANGED <<journal, active, event, archive, basis, shown>>

\* A step raises instead: the stage of the running request is removed.
ArchiverFails ==
    /\ archiving # Nothing /\ deaths < MaxFaults
    /\ deaths' = deaths + 1 /\ archiving' = Nothing
    /\ archive' = [archive EXCEPT ![archiving] = IF @ = "staged" THEN "none" ELSE @]
    /\ UNCHANGED <<journal, active, event, basis, torn, shown>>

ArchiveStep(a) ==
    \/ PublishArchive(a) \/ AppendArchiveEvent(a) \/ WriteArchiveReceipt(a)
    \/ \E j \in Journal : UnlinkJournal(a, j)

ArchiveNext ==
    \/ \E j \in Journal : OpenJournal(j) \/ AppendJournalEvent(j) \/ CompleteJournal(j)
    \/ PreviewArchive
    \/ \E digest \in shown, a \in Archive : StartArchive(digest, a)
    \/ \E digest \in shown : ResumeArchive(digest)
    \/ \E a \in Archive : ArchiveStep(a)
    \/ ArchiverDies \/ ArchiverFails

\* The archiving process runs on, and the user repeats an interrupted request.
ArchiveFairness ==
    /\ WF_archiveVars(\E a \in Archive : ArchiveStep(a))
    /\ WF_archiveVars(\E digest \in shown : ResumeArchive(digest))

ArchiveSpec == ArchiveInit /\ [][ArchiveNext]_archiveVars /\ ArchiveFairness

-----------------------------------------------------------------------------
(* What the Guardian reports of archives.                                    *)
ArchiveFindings == {a \in Archive :
    \/ archive[a] \in {"staged", "published"}
    \/ /\ archive[a] = "settled"
       /\ \/ basis[a] \cap active # {} \/ ~ basis[a] \cup {a} \subseteq event
          \/ \E b \in Archive \ {a} : archive[b] = "settled" /\ basis[a] \cap basis[b] # {}}

(* Properties.                                                               *)
(* No settled journal is lost or kept twice: one whose file is gone is in a  *)
(* published archive and still has its process event, and no two archives    *)
(* claim it.  A settled archive is never reported, and at most one archive   *)
(* at a time awaits settlement, so that the request that made it finds it.   *)
NoJournalLost ==
    /\ \A j \in Journal : journal[j] = "complete" /\ j \notin active =>
        j \in event /\ \E a \in Published : j \in basis[a]
    /\ \A a, b \in Published : a # b => basis[a] \cap basis[b] = {}
    /\ \A a \in ArchiveFindings : archive[a] # "settled"
    /\ \A a, b \in Published : archive[a] # "settled" /\ archive[b] # "settled" => a = b

\* A published archive is settled in the end when its request is repeated,
\* unless a death left a temporary file in its way.
PublishedArchiveSettles ==
    \A a \in Archive :
        archive[a] = "published" ~> (archive[a] = "settled" \/ a \in torn)
=============================================================================
