------------------------------- MODULE Catalog -------------------------------
(* The search projection of the library (services/catalog.py,                *)
(* catalog/storage.py): a disposable database that sessions rebuild or bring *)
(* up to date from the canonical stores.  Updates take no workspace lock:    *)
(* the stores are read one after the other while writers go on, the rows     *)
(* that differ are computed before the database's own transaction, and two   *)
(* sessions may do so at once.                                               *)
EXTENDS WorkspaceBase
CONSTANTS
    Session,   \* the processes that have the workspace open
    MaxEdits   \* bound: versions of the paper, and states of the job
ASSUME CatalogAssumption == MaxEdits \in Nat \ {0}

VARIABLES
    truth,     \* the canonical stores: paper, whether it is tagged, the job's head
    database,  \* the projection's file
    hot,       \* does a rollback journal of a killed update lie beside it?
    update,      \* per session: the rebuild or update under way
    accidents    \* kills, damages and deletions so far
catalogVars == <<truth, database, hot, update, accidents>>

(* Source records: the paper under key 0, the job's head under its state id. *)
(* A tag's or link's commit changes the facets of the paper, not its digest. *)
Row == [key : 0..MaxEdits, digest : 0..MaxEdits, tagged : BOOLEAN]
PaperRow(t) == [key |-> 0, digest |-> t.paper, tagged |-> t.tagged]
HeadRow(head) == [key |-> head, digest |-> head, tagged |-> FALSE]
Projection(t) == {PaperRow(t), HeadRow(t.head)}

NoUpdate == [op |-> "none", at |-> "idle", seen |-> {}, digest |-> 0, changed |-> {}]
UpdatePhases == {"papers", "heads", "bindings", "swap", "open", "change"}
Update == [op : {"none", "rebuild", "update"}, at : UpdatePhases \cup {"idle"},
           seen : SUBSET Row, digest : 0..MaxEdits, changed : SUBSET (0..MaxEdits)]
Database == [rows : SUBSET Row, mark : SUBSET Row, digest : 0..MaxEdits,
             schema : {"older", "current"}, damaged : BOOLEAN]
ASSUME NothingIsNoDatabase == Nothing \notin Database
CatalogTypeOK ==
    /\ truth \in [paper : 1..MaxEdits, tagged : BOOLEAN, head : 1..MaxEdits]
    /\ database \in {Nothing} \cup Database /\ hot \in BOOLEAN /\ accidents \in 0..MaxFaults
    /\ update \in [Session -> Update]

\* What the metadata says of the rows, and what the rows themselves say.
Facets(rows) == {r.key : r \in {q \in rows : q.tagged}}
Agree(rows, mark) == Cardinality(rows) = Cardinality(mark) /\ Facets(rows) = Facets(mark)
ProjectionReady ==
    /\ database # Nothing /\ ~hot /\ ~database.damaged /\ database.schema = "current"
    /\ Facets(database.rows) = Facets(database.mark)

-----------------------------------------------------------------------------
\* Writers of the canonical stores, none of which knows of the projection.
RewritePaper == truth.paper < MaxEdits /\ truth' = [truth EXCEPT !.paper = @ + 1]
Retag == ~truth.tagged /\ truth' = [truth EXCEPT !.tagged = TRUE]
AppendState == truth.head < MaxEdits /\ truth' = [truth EXCEPT !.head = @ + 1]
WriteStores == (RewritePaper \/ Retag \/ AppendState)
         /\ UNCHANGED <<database, hot, update, accidents>>

Proceeds(s, op, phase) == update' = [update EXCEPT ![s] = [NoUpdate EXCEPT !.op = op, !.at = phase]]
NotUpdating(s) == update[s] = NoUpdate
StoresStay == UNCHANGED <<truth, database, hot, accidents>>
(* A missing or older projection is rebuilt, a readable one updated, and any *)
(* other refused.                                                            *)
StartUpdate(s) ==
    /\ NotUpdating(s)
    /\ IF database = Nothing THEN Proceeds(s, "rebuild", "papers")
       ELSE IF ProjectionReady THEN Proceeds(s, "update", "papers")
       ELSE /\ ~hot /\ ~database.damaged /\ database.schema = "older"
            /\ Proceeds(s, "rebuild", "papers")
    /\ StoresStay
StartRebuild(s) == NotUpdating(s) /\ Proceeds(s, "rebuild", "papers") /\ StoresStay

AtPhase(s, phase) == update[s].at = phase
MovedTo(s, phase) == [update[s] EXCEPT !.at = phase]
ReadPapers(s) ==
    /\ AtPhase(s, "papers")
    /\ update' = [update EXCEPT ![s] = [MovedTo(s, "heads") EXCEPT !.seen = {PaperRow(truth)}]]
    /\ StoresStay
ReadHeads(s) ==
    /\ AtPhase(s, "heads")
    /\ update' = [update EXCEPT ![s] =
         [MovedTo(s, "bindings") EXCEPT !.seen = @ \cup {HeadRow(truth.head)}]]
    /\ StoresStay
(* _source_bindings reads the operational stores again, for their digests.   *)
ReadBindings(s) ==
    /\ AtPhase(s, "bindings")
    /\ update' = [update EXCEPT ![s] =
         [MovedTo(s, IF update[s].op = "rebuild" THEN "swap" ELSE "open")
            EXCEPT !.digest = truth.head]]
    /\ StoresStay

(* os.replace: connections to the file it replaces cannot write any more.    *)
(* Nothing removes a journal that lies beside it.                            *)
Swap(s) ==
    /\ AtPhase(s, "swap")
    /\ database' = [rows |-> update[s].seen, mark |-> update[s].seen, digest |-> update[s].digest,
                    schema |-> "current", damaged |-> FALSE]
    /\ update' = [t \in Session |-> IF t = s \/ AtPhase(t, "change") THEN NoUpdate ELSE update[t]]
    /\ UNCHANGED <<truth, hot, accidents>>

\* The keys whose digest or whose tags differ, from the rows as they are now.
RowsOf(rows, k) == {r \in rows : r.key = k}
ChangedByDigest(rows, seen) ==  \* Mutation: facets are not compared.
    {k \in 0..MaxEdits : {r.digest : r \in RowsOf(rows, k)} # {r.digest : r \in RowsOf(seen, k)}}
ChangedKeys(rows, seen) == {k \in 0..MaxEdits : RowsOf(rows, k) # RowsOf(seen, k)}
OpenUpdate(s) ==
    /\ AtPhase(s, "open") /\ ProjectionReady
    /\ update' = [update EXCEPT ![s] =
         [MovedTo(s, "change") EXCEPT !.changed = ChangedKeys(database.rows, update[s].seen)]]
    /\ StoresStay

Replaced(rows, w) == {r \in rows : r.key \notin w.changed} \cup {r \in w.seen : r.key \in w.changed}
(* One sqlite transaction; _require_snapshot_counts rolls it back when rows  *)
(* or facets are not those of the snapshot.  The first connection to write   *)
(* rolls back the journal of a killed one.                                   *)
CommitUpdate(s) ==
    /\ AtPhase(s, "change") /\ Agree(Replaced(database.rows, update[s]), update[s].seen)
    /\ database' = [database EXCEPT !.rows = Replaced(@, update[s]), !.mark = update[s].seen,
                                    !.digest = update[s].digest]
    /\ hot' = FALSE
    /\ update' = [update EXCEPT ![s] = NoUpdate]
    /\ UNCHANGED <<truth, accidents>>

(* bind_operational_projection, also after an update: the operational heads  *)
(* are called current when the stores have the digests of the projection.    *)
HeadsAreCurrent == ProjectionReady /\ database.digest = truth.head

(* Any check that does not hold ends the call.                               *)
UpdateRefused(s) ==
    \/ AtPhase(s, "open") /\ ~ProjectionReady
    \/ AtPhase(s, "change") /\ ~Agree(Replaced(database.rows, update[s]), update[s].seen)
FailUpdate(s) == UpdateRefused(s) /\ update' = [update EXCEPT ![s] = NoUpdate] /\ StoresStay

\* A session is killed; within its transaction it leaves the journal behind.
KillSession(s) ==
    /\ ~NotUpdating(s) /\ accidents < MaxFaults /\ accidents' = accidents + 1
    /\ hot' \in {hot} \cup (IF AtPhase(s, "change") THEN {TRUE} ELSE {})
    /\ update' = [update EXCEPT ![s] = NoUpdate] /\ UNCHANGED <<truth, database>>
\* The file is damaged, or the user discards the whole projection.
Damage ==
    /\ database # Nothing /\ accidents < MaxFaults /\ accidents' = accidents + 1
    /\ database' = [database EXCEPT !.damaged = TRUE] /\ UNCHANGED <<truth, hot, update>>
Discard ==
    /\ database # Nothing /\ accidents < MaxFaults /\ accidents' = accidents + 1
    /\ database' = Nothing /\ hot' = FALSE
    /\ update' = [t \in Session |-> IF AtPhase(t, "change") THEN NoUpdate ELSE update[t]]
    /\ UNCHANGED truth

CatalogInit ==
    /\ truth = [paper |-> 1, tagged |-> FALSE, head |-> 1]
    /\ \/ database = Nothing
       \/ database = [rows |-> {}, mark |-> {}, digest |-> 0, schema |-> "older", damaged |-> FALSE]
    /\ hot = FALSE /\ accidents = 0
    /\ update = [s \in Session |-> NoUpdate]
UpdateStep(s) ==
    \/ StartUpdate(s) \/ ReadPapers(s) \/ ReadHeads(s) \/ ReadBindings(s)
    \/ Swap(s) \/ OpenUpdate(s) \/ CommitUpdate(s) \/ FailUpdate(s)
CatalogNext ==
    \/ WriteStores \/ Damage \/ Discard
    \/ \E s \in Session :
        UpdateStep(s) \/ StartRebuild(s) \/ KillSession(s)
(* A session refreshes the projection again and again: after every promotion *)
(* of its own (the application calls update then).                           *)
CatalogFairness == \A s \in Session : WF_catalogVars(UpdateStep(s))
CatalogSpec == CatalogInit /\ [][CatalogNext]_catalogVars /\ CatalogFairness

-----------------------------------------------------------------------------
(* However updates overlap, none leaves a projection that the next inspection *)
(* takes for corrupt: the facets of its rows are those of its watermark.     *)
UpdatesKeepItReadable ==
    database # Nothing => Agree(database.rows, database.mark)

(* When the writers have stopped, updates bring every row and the watermark  *)
(* to the canonical records, whatever overlapped before, unless a journal    *)
(* was left beside the file or the file was damaged.                         *)
Converged == database # Nothing /\ database.rows = Projection(truth)
             /\ database.mark = Projection(truth)
CatalogConverges == <>[](Converged \/ hot \/ (database # Nothing /\ database.damaged))

(* docs/p3a-pipeline-job-kernel-closure-manifest.md:43 says that the "Catalog *)
(* indexes only the current Job head": operational heads called current are. *)
CurrentHeadsAreIndexed == HeadsAreCurrent => RowsOf(database.rows, truth.head) # {}
==============================================================================
