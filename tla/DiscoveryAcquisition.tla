------------------------- MODULE DiscoveryAcquisition -------------------------
(* Found papers become candidates by the user's selection, and a candidate's *)
(* open-access file is fetched into the local inbox and receipted            *)
(* (services/discovery_candidate.py, discovery_resolution.py,                *)
(* discovery_acquisition.py, acquisition_paths.py).  The candidates share    *)
(* one file.  An acquisition links its download to the inbox before it       *)
(* replaces that file, so a stop in between leaves one without the other,    *)
(* and a failure must take back what it has put there and nothing else.      *)
EXTENDS WorkspaceBase
CONSTANTS
    Caller,       \* calls of select and acquire that may run at once
    Candidate,    \* results a report names
    Context,      \* queries a result may be selected from
    MaxFiles      \* bound: files ever created in the inbox
ASSUME DiscoveryAssumption == MaxFiles \in Nat /\ Nothing \notin Caller

VARIABLES
    store,    \* the candidates of the store's file
    named,    \* candidates that success events name
    final,    \* per candidate: the file under its name in the inbox
    parts,    \* the partial downloads in the inbox
    files,    \* files created so far: a file is its number, its inode
    holder,   \* who holds the workspace lock
    work,     \* per caller: the call under way
    stale,    \* history: has a commit overwritten what it had not read?
    mishaps   \* deaths, failures and edits of the inbox so far
discoveryVars == <<store, named, final, parts, files, holder, work, stale, mishaps>>

\* A candidate keeps the queries it was selected from, and a receipt or 0.
Entry == [contexts : SUBSET Context, receipt : 0..MaxFiles]
ASSUME NothingIsNoEntry == Nothing \notin Entry
Library == [Candidate -> {Nothing} \cup Entry]
NoWork == [at |-> "idle", for |-> Nothing, base |-> [c \in Candidate |-> Nothing],
            token |-> [c \in Candidate |-> Nothing], context |-> Nothing, file |-> 0]
WorkPhases == {"idle", "selected", "based", "shown", "fetched", "read", "ready",
           "linked", "replaced", "failed"}
Acquiring == [at : WorkPhases, for : {Nothing} \cup Candidate, base : Library, token : Library,
              context : {Nothing} \cup Context, file : 0..MaxFiles]
DiscoveryTypeOK ==
    /\ store \in Library /\ named \subseteq Candidate
    /\ final \in [Candidate -> 0..MaxFiles] /\ parts \subseteq 1..MaxFiles
    /\ files \in 0..MaxFiles /\ holder \in {Nothing} \cup Caller
    /\ stale \in BOOLEAN /\ mishaps \in 0..MaxFaults
    /\ work \in [Caller -> Acquiring]

Known(library) == {c \in Candidate : library[c] # Nothing}
Stands(k, phase) == work[k].at = phase
Moves(k, phase) == work' = [work EXCEPT ![k].at = phase]
EndsWork(k) == work' = [work EXCEPT ![k] = NoWork]
Inbox == <<final, parts, files>>

-----------------------------------------------------------------------------
(* select: the store is read, a candidate made or given one more context.    *)
Selected(library, c, q) ==
    [library EXCEPT ![c] = [contexts |-> (IF @ = Nothing THEN {} ELSE @.contexts) \cup {q},
                            receipt |-> IF @ = Nothing THEN 0 ELSE @.receipt]]
BeginSelect(k) ==
    /\ Stands(k, "idle")
    /\ \E c \in Candidate, q \in Context :
        /\ Selected(store, c, q) # store
        /\ work' = [work EXCEPT ![k] = [NoWork EXCEPT !.at = "selected", !.for = c,
                        !.base = store, !.context = q]]
    /\ UNCHANGED <<store, named, Inbox, holder, stale, mishaps>>
(* file_sha256(target), later than the read.                                 *)
TakeStoreToken(k) ==
    /\ Stands(k, "selected") \/ Stands(k, "read")
    /\ work' = [work EXCEPT ![k].token = store,
                            ![k].at = IF @ = "selected" THEN "based" ELSE "ready"]
    /\ UNCHANGED <<store, named, Inbox, holder, stale, mishaps>>
(* The workspace is valid if its events name candidates that exist.          *)
NamesResolve(library) == named \subseteq Known(library)
CommitSelect(k) ==
    /\ Stands(k, "based") /\ holder = Nothing /\ work[k].token = store
    /\ LET library == Selected(work[k].base, work[k].for, work[k].context) IN
        NamesResolve(library) /\ store' = library
    /\ named' = named \cup {work[k].for}
    /\ stale' = (stale \/ work[k].base # store)
    /\ EndsWork(k) /\ UNCHANGED <<Inbox, holder, mishaps>>

-----------------------------------------------------------------------------
(* acquire: a candidate without receipt, whose name in the inbox is free.    *)
(* Resolution and download are the provider's and may fail.                  *)
Show(k) ==
    /\ Stands(k, "idle")
    /\ \E c \in Known(store) :
        /\ store[c].receipt = 0 /\ final[c] = 0
        /\ work' = [work EXCEPT ![k] = [NoWork EXCEPT !.at = "shown", !.for = c, !.base = store]]
    /\ UNCHANGED <<store, named, Inbox, holder, stale, mishaps>>
Download(k) ==
    /\ Stands(k, "shown") /\ files < MaxFiles
    /\ files' = files + 1 /\ parts' = parts \cup {files + 1}
    /\ work' = [work EXCEPT ![k].at = "fetched", ![k].file = files + 1]
    /\ UNCHANGED <<store, named, final, holder, stale, mishaps>>
\* The candidate must be what it was when it was shown.
Reread(k) ==
    /\ Stands(k, "fetched") /\ work[k].file \in parts
    /\ store[work[k].for] = work[k].base[work[k].for]
    /\ work' = [work EXCEPT ![k].at = "read", ![k].base = store]
    /\ UNCHANGED <<store, named, Inbox, holder, stale, mishaps>>
Receipted(k) == [work[k].base EXCEPT ![work[k].for].receipt = work[k].file]
(* In the transaction, when its journal is prepared: os.link, which does not *)
(* replace a file, and the partial is removed.                               *)
LinkFile(k) ==
    /\ Stands(k, "ready") /\ holder = Nothing /\ work[k].token = store
    /\ work[k].file \in parts /\ final[work[k].for] = 0
    /\ final' = [final EXCEPT ![work[k].for] = work[k].file]
    /\ parts' = parts \ {work[k].file}
    /\ holder' = k /\ Moves(k, "linked") /\ UNCHANGED <<store, named, files, stale, mishaps>>
ReplaceStore(k) ==
    /\ Stands(k, "linked") /\ NamesResolve(Receipted(k))
    /\ store' = Receipted(k) /\ Moves(k, "replaced")
    /\ stale' = (stale \/ work[k].base # store)
    /\ UNCHANGED <<named, Inbox, holder, mishaps>>
\* _verify_final_source, then the event.
FinishAcquisition(k) ==
    /\ Stands(k, "replaced") /\ final[work[k].for] = work[k].file
    /\ named' = named \cup {work[k].for}
    /\ holder' = Nothing /\ EndsWork(k) /\ UNCHANGED <<store, Inbox, stale, mishaps>>

(* A check that fails where it stands; elsewhere a failing write or provider *)
(* is a mishap.  The lock is released before anything is taken back.         *)
CheckFails(k) ==
    \/ (Stands(k, "based") \/ Stands(k, "ready")) /\ work[k].token # store
    \/ Stands(k, "based") /\ ~NamesResolve(Selected(work[k].base, work[k].for, work[k].context))
    \/ Stands(k, "fetched") /\ store[work[k].for] # work[k].base[work[k].for]
    \/ Stands(k, "fetched") /\ work[k].file \notin parts
    \/ Stands(k, "ready") /\ (final[work[k].for] # 0 \/ work[k].file \notin parts)
    \/ Stands(k, "linked") /\ ~NamesResolve(Receipted(k))
    \/ Stands(k, "replaced") /\ final[work[k].for] # work[k].file
FailWork(k) ==
    /\ ~Stands(k, "idle") /\ ~Stands(k, "failed")
    /\ IF CheckFails(k) THEN UNCHANGED mishaps
       ELSE mishaps < MaxFaults /\ mishaps' = mishaps + 1
    /\ Moves(k, "failed")
    /\ holder' = IF holder = k THEN Nothing ELSE holder
    /\ UNCHANGED <<store, named, Inbox, stale>>
(* _receipt_state: is the candidate's receipt the one of this call?          *)
Receipts(k) ==
    work[k].for \in Known(store) /\ store[work[k].for].receipt = work[k].file
TakesBack(k, c) == final[c] # 0 /\ final[c] = work[k].file
\* The partial, and the file in the inbox if this call has linked it there.
CleanUpAll(k) ==  \* Mutation: the receipt is not asked for.
    /\ Stands(k, "failed")
    /\ parts' = parts \ {work[k].file}
    /\ final' = [c \in Candidate |-> IF TakesBack(k, c) THEN 0 ELSE final[c]]
    /\ EndsWork(k) /\ UNCHANGED <<store, named, files, holder, stale, mishaps>>
CleanUp(k) ==
    /\ Stands(k, "failed")
    /\ parts' = parts \ {work[k].file}
    /\ final' = [c \in Candidate |-> IF TakesBack(k, c) /\ ~Receipts(k) THEN 0 ELSE final[c]]
    /\ EndsWork(k) /\ UNCHANGED <<store, named, files, holder, stale, mishaps>>
\* A death leaves what is there; the operating system releases the lock.
DieAtWork(k) ==
    /\ ~Stands(k, "idle") /\ mishaps < MaxFaults /\ mishaps' = mishaps + 1
    /\ holder' = IF holder = k THEN Nothing ELSE holder
    /\ EndsWork(k) /\ UNCHANGED <<store, named, Inbox, stale>>
(* The user removes what Guardian reports and no call is at work on: a final *)
(* without receipt, or a partial; or puts a file of another origin under a   *)
(* candidate's name.                                                         *)
Abandoned(file) == file # 0 /\ \A k \in Caller : work[k].file # file
Tidy ==
    /\ \/ \E c \in Candidate :
            /\ Abandoned(final[c]) /\ (c \in Known(store) => store[c].receipt = 0)
            /\ final' = [final EXCEPT ![c] = 0] /\ UNCHANGED parts
       \/ \E f \in parts : Abandoned(f) /\ parts' = parts \ {f} /\ UNCHANGED final
    /\ mishaps < MaxFaults /\ mishaps' = mishaps + 1
    /\ UNCHANGED <<store, named, files, holder, work, stale>>
Put ==
    /\ files < MaxFiles /\ files' = files + 1 /\ mishaps < MaxFaults /\ mishaps' = mishaps + 1
    /\ \E c \in Candidate : final[c] = 0 /\ final' = [final EXCEPT ![c] = files + 1]
    /\ UNCHANGED <<store, named, parts, holder, work, stale>>

DiscoveryInit ==
    /\ store = [c \in Candidate |-> Nothing] /\ named = {}
    /\ final = [c \in Candidate |-> 0] /\ parts = {} /\ files = 0
    /\ holder = Nothing /\ stale = FALSE /\ mishaps = 0 /\ work = [k \in Caller |-> NoWork]
DiscoveryNext ==
    \/ \E k \in Caller :
        \/ BeginSelect(k) \/ TakeStoreToken(k) \/ CommitSelect(k)
        \/ Show(k) \/ Download(k) \/ Reread(k)
        \/ LinkFile(k) \/ ReplaceStore(k) \/ FinishAcquisition(k)
        \/ FailWork(k) \/ CleanUp(k) \/ DieAtWork(k)
    \/ Tidy \/ Put
DiscoverySpec == DiscoveryInit /\ [][DiscoveryNext]_discoveryVars

-----------------------------------------------------------------------------
(* _acquisition_diagnostics: a file under a candidate's name that no receipt *)
(* names, a receipt whose file is not there, and partial downloads.          *)
UnreceiptedFinals == {c \in Known(store) : store[c].receipt = 0 /\ final[c] # 0}
BrokenReceipts ==
    {c \in Known(store) : store[c].receipt # 0 /\ final[c] # store[c].receipt}
AcquisitionsAreClean == UnreceiptedFinals = {} /\ BrokenReceipts = {} /\ parts = {}

(* Whatever fails, dies or is repeated, a receipt names the file under the   *)
(* candidate's name, and no failure takes away what is receipted, as long as *)
(* no commit has overwritten one that it had not read: such a commit loses   *)
(* receipts, and another may bring them back when the file is gone.  Calls   *)
(* that refuse one another, and of which none dies, leave nothing to report. *)
ReceiptsNameTheirSource == ~stale =>
    /\ BrokenReceipts = {}
    /\ mishaps = 0 /\ (\A k \in Caller : Stands(k, "idle")) => AcquisitionsAreClean

(* A recorded receipt stays: only acquire changes an acquisition's state     *)
(* (docs/contributor-guide.md:216).                                          *)
ReceiptsStand == [][
    \A c \in Known(store) : store[c].receipt # 0 =>
        store'[c] # Nothing /\ store'[c].receipt = store[c].receipt]_discoveryVars
=============================================================================
