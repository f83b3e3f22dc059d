---------------------------- MODULE SourceAssets ----------------------------
(* The source assets of a paper (services/source_asset.py, source_assets.py, *)
(* source_resolution.py): receipts for files, one chain for each asset.  A   *)
(* file is registered where it lies, associated with the paper, observed     *)
(* when the user asks what has become of it, and found again elsewhere.  The *)
(* receipts of all assets share one store, its compare-and-swap token is     *)
(* taken after the read, and files come and go while calls run and die.      *)
(* SourceIntake has the path of a copied file up to its association.         *)
EXTENDS CommitLog
CONSTANTS
    Keeper,       \* calls that may run at once, each under a job of its own
    MaxReceipts,  \* bound: receipts ever made
    MaxTouches    \* bound: changes to the files
ASSUME AssetAssumption == MaxReceipts \in Nat \ {0} /\ MaxTouches \in Nat

Where == {"here", "there"}
Bytes == {"own", "other"}        \* the bytes the paper was registered with, or others
Reason == {"reference_registered", "paper_associated", "same_digest_relink",
           "changed_bytes_observed", "source_available", "source_missing"}

VARIABLES
    file,      \* what lies at each place
    filed,     \* the store: receipts in the order they were appended
    noted,     \* receipts that a success event names
    left,      \* receipts whose journal was left open
    drawn,     \* receipts made so far
    keeping,   \* per caller: Nothing, or the receipt it is about to append
    touches,   \* changes to the files so far
    accidents  \* deaths and failures so far
assetVars == <<file, filed, noted, left, drawn, keeping, touches, accidents>>

\* An asset has the number of its first receipt.
Numbered(s, i) == [s EXCEPT !.id = i, !.asset = IF @ = 0 THEN i ELSE @]
Receipt == [id : 1..MaxReceipts, asset : 1..MaxReceipts, job : Keeper \cup {"intake"},
            paper : BOOLEAN, ref : Where, bytes : Bytes, status : {"active", "change_candidate"},
            found : {"available", "missing"}, reason : Reason]
\* What a call has read, and the receipt it is about to append to it.
Plan == [base : Seq(Receipt),
         next : [id : {0}, asset : 0..MaxReceipts, job : Keeper, paper : BOOLEAN, ref : Where,
                 bytes : Bytes, status : {"active", "change_candidate"},
                 found : {"available", "missing"}, reason : Reason]]
ASSUME NothingIsNoPlan == Nothing \notin Plan
AssetTypeOK ==
    /\ file \in [Where -> Bytes \cup {"none"}]
    /\ filed \in Seq(Receipt)
    /\ noted \subseteq 1..drawn /\ left \subseteq 1..drawn /\ drawn \in 0..MaxReceipts
    /\ keeping \in [Keeper -> {Nothing} \cup Plan]
    /\ touches \in 0..MaxTouches /\ accidents \in 0..MaxFaults

\* An intake has registered what lies here, for the paper or for none yet.
AssetInit ==
    /\ \E paper \in BOOLEAN, bytes \in Bytes :
        /\ paper => bytes = "own"
        /\ file = [place \in Where |-> IF place = "here" THEN bytes ELSE "none"]
        /\ filed = <<[id |-> 1, asset |-> 1, job |-> "intake", paper |-> paper, ref |-> "here",
                      bytes |-> bytes, status |-> "active", found |-> "available",
                      reason |-> "reference_registered"]>>
    /\ noted = {1} /\ left = {} /\ drawn = 1
    /\ keeping = [k \in Keeper |-> Nothing] /\ touches = 0 /\ accidents = 0

-----------------------------------------------------------------------------
(* Chains: the places of an asset's receipts in the store, and those before  *)
(* the n-th receipt.  Its active manifestation is the last of them that is   *)
(* not of changed bytes.                                                     *)
Assets(store) == {store[n].asset : n \in 1..Len(store)}
Ids(store) == {store[n].id : n \in 1..Len(store)}
Chain(store, a) == {n \in 1..Len(store) : store[n].asset = a}
Earlier(store, n) == {m \in Chain(store, store[n].asset) : m < n}
Last(places) == CHOOSE n \in places : \A m \in places : m <= n
HeadOf(store, a) == store[Last(Chain(store, a))]
ActiveBytes(store, places) == store[Last({n \in places : store[n].status = "active"})].bytes

\* _transition_diagnostics: may t be the successor of s?
SameObservation(s, t) ==
    <<s.ref, s.bytes, s.status, s.found>> = <<t.ref, t.bytes, t.status, t.found>>
Succeeds(s, t, active) ==
    /\ t.reason # "reference_registered"
    /\ IF t.reason = "paper_associated"
       THEN ~s.paper /\ t.paper /\ s.status = "active" /\ s.found = "available" /\ SameObservation(s, t)
       ELSE t.paper = s.paper
    /\ t.reason = "same_digest_relink" => t.ref # s.ref
    /\ t.reason \in {"changed_bytes_observed", "source_available", "source_missing"} => t.ref = s.ref
    /\ t.reason = "changed_bytes_observed" <=> t.status = "change_candidate"
    /\ t.reason # "paper_associated" => (t.bytes # active <=> t.status = "change_candidate")
    /\ t.found = "missing" <=> t.reason = "source_missing"
(* source_asset_chain_diagnostics: chains of successors, and one asset of a  *)
(* paper at most.                                                            *)
ReceiptStands(store, n) ==
    LET before == Earlier(store, n)
    IN  IF before = {}
        THEN /\ store[n].id = store[n].asset /\ store[n].reason = "reference_registered"
             /\ store[n].status = "active" /\ store[n].found = "available"
        ELSE Succeeds(store[Last(before)], store[n], ActiveBytes(store, before))
OneAssetOfPaper(store) ==
    \A a, b \in Assets(store) : HeadOf(store, a).paper /\ HeadOf(store, b).paper => a = b
ChainsStand(store) ==
    /\ \A n \in 1..Len(store) : ReceiptStands(store, n)
    /\ OneAssetOfPaper(store)

-----------------------------------------------------------------------------
(* A call reads the store, looks at the file and decides what to append.     *)
(* What it has seen there must still be so when the store is replaced; a     *)
(* missing file is not looked for again.                                     *)
Still == UNCHANGED <<file, filed, noted, left, drawn, touches, accidents>>
Plans(k, next) ==
    /\ drawn < MaxReceipts
    /\ ChainsStand(Append(filed, Numbered(next, drawn + 1)))
    /\ keeping' = [keeping EXCEPT ![k] = [base |-> filed, next |-> next]]
    /\ Still

(* A file is registered for the paper or for none yet.  The same call again  *)
(* finds its receipt; a file of the paper is not registered twice, and an    *)
(* unassociated asset is its own job's.                                      *)
Registered(k, place, paper) ==
    \/ \E n \in 1..Len(filed) :
        /\ Earlier(filed, n) = {}
        /\ filed[n].job = k /\ filed[n].ref = place /\ filed[n].paper = paper
    \/ \E a \in Assets(filed) :
        LET h == HeadOf(filed, a)
        IN  /\ h.paper = paper /\ h.ref = place /\ h.bytes = file[place]
            /\ h.found = "available" /\ h.status = "active"
RegisterManifestation(k, place, paper) ==
    /\ keeping[k] = Nothing /\ file[place] # "none" /\ ~Registered(k, place, paper)
    /\ paper => file[place] = "own"
    /\ Plans(k, [id |-> 0, asset |-> 0, job |-> k, paper |-> paper, ref |-> place,
                 bytes |-> file[place], status |-> "active", found |-> "available",
                 reason |-> "reference_registered"])

Successor(k, a, reason) ==
    [HeadOf(filed, a) EXCEPT !.id = 0, !.job = k, !.reason = reason]
AssociateAnyBytes(k, a) ==  \* Mutation: the bytes are not compared with the paper's.
    LET h == HeadOf(filed, a)
    IN  /\ keeping[k] = Nothing /\ ~h.paper /\ file[h.ref] = h.bytes
        /\ h.status = "active" /\ h.found = "available"
        /\ Plans(k, [Successor(k, a, "paper_associated") EXCEPT !.paper = TRUE])
Associate(k, a) ==
    LET h == HeadOf(filed, a)
    IN  /\ keeping[k] = Nothing /\ ~h.paper /\ h.bytes = "own"
        /\ file[h.ref] = h.bytes /\ h.status = "active" /\ h.found = "available"
        /\ Plans(k, [Successor(k, a, "paper_associated") EXCEPT !.paper = TRUE])

(* The active bytes are found at another place.  A change candidate that is  *)
(* found again where it lay is left as it is.                                *)
Relink(k, a, place) ==
    LET h == HeadOf(filed, a)
    IN  /\ keeping[k] = Nothing /\ file[place] = ActiveBytes(filed, Chain(filed, a))
        /\ ~(h.ref = place /\ h.found = "available")
        /\ Plans(k, [Successor(k, a, "same_digest_relink") EXCEPT
                       !.ref = place, !.bytes = file[place], !.status = "active",
                       !.found = "available"])

ObserveMissing(k, a) ==
    LET h == HeadOf(filed, a)
    IN  /\ keeping[k] = Nothing /\ file[h.ref] = "none" /\ h.found = "available"
        /\ Plans(k, [Successor(k, a, "source_missing") EXCEPT
                       !.bytes = ActiveBytes(filed, Chain(filed, a)), !.status = "active",
                       !.found = "missing"])
ObserveFile(k, a) ==
    LET h == HeadOf(filed, a)
        changed == file[h.ref] # ActiveBytes(filed, Chain(filed, a))
    IN  /\ keeping[k] = Nothing /\ file[h.ref] # "none"
        /\ ~(h.bytes = file[h.ref] /\ h.found = "available")
        /\ Plans(k, [Successor(k, a, IF changed THEN "changed_bytes_observed" ELSE "source_available")
                     EXCEPT !.bytes = file[h.ref], !.found = "available",
                            !.status = IF changed THEN "change_candidate" ELSE "active"])
Observe(k, a) == ObserveMissing(k, a) \/ ObserveFile(k, a)

(* _append: what was read and the new receipt replace the store.  A receipt  *)
(* that an event names is not dropped; one that none names yet may be.       *)
NewStore(k) == Append(keeping[k].base, Numbered(keeping[k].next, drawn + 1))
SeenStill(k) ==
    LET s == keeping[k].next IN s.found = "missing" \/ file[s.ref] = s.bytes
CommitReceipt(k) ==
    /\ keeping[k] # Nothing /\ drawn < MaxReceipts /\ drawn' = drawn + 1
    /\ SeenStill(k) /\ noted \subseteq Ids(NewStore(k))
    /\ filed' = NewStore(k)
    /\ \E event \in Outcomes(accidents) :
        /\ noted' = IF event = "recorded" THEN noted \cup {drawn'} ELSE noted
        /\ left' = IF event = "open" THEN left \cup {drawn'} ELSE left
        /\ accidents' = accidents + Cost(event)
    /\ keeping' = [keeping EXCEPT ![k] = Nothing]
    /\ UNCHANGED <<file, touches>>
\* The token may also have been taken before another call's commit.
RefuseReceipt(k) ==
    /\ keeping[k] # Nothing
    /\ ~SeenStill(k) \/ filed # keeping[k].base \/ drawn = MaxReceipts
    /\ keeping' = [keeping EXCEPT ![k] = Nothing] /\ Still
DieKeeping(k) ==
    /\ keeping[k] # Nothing /\ accidents < MaxFaults /\ accidents' = accidents + 1
    /\ keeping' = [keeping EXCEPT ![k] = Nothing]
    /\ UNCHANGED <<file, filed, noted, left, drawn, touches>>
\* Recovery names what the store still is as the commit left it.
RecoverReceipts ==
    /\ left # {} /\ left' = {}
    /\ noted' = noted \cup {i \in left : filed[Len(filed)].id = i}
    /\ UNCHANGED <<file, filed, drawn, keeping, touches, accidents>>
Touch ==
    /\ touches < MaxTouches /\ touches' = touches + 1
    /\ \E place \in Where, bytes \in Bytes \cup {"none"} :
        /\ file[place] # bytes /\ (place = "there" => bytes # "other")
        /\ file' = [file EXCEPT ![place] = bytes]
    /\ UNCHANGED <<filed, noted, left, drawn, keeping, accidents>>

AssetNext ==
    \/ \E k \in Keeper :
        \/ \E place \in Where, paper \in BOOLEAN : RegisterManifestation(k, place, paper)
        \/ \E a \in Assets(filed) :
            \/ Associate(k, a) \/ Observe(k, a)
            \/ \E place \in Where : Relink(k, a, place)
        \/ CommitReceipt(k) \/ RefuseReceipt(k) \/ DieKeeping(k)
    \/ RecoverReceipts \/ Touch
AssetSpec == AssetInit /\ [][AssetNext]_assetVars

-----------------------------------------------------------------------------
(* source_asset_projection, and observe_paper_source: the paper's asset      *)
(* decides, or the file it was registered with when it has none.             *)
Currentness(a) ==
    LET h == HeadOf(filed, a)
    IN  IF h.found # "available" THEN "unavailable"
        ELSE IF h.status = "change_candidate" THEN "stale_source" ELSE "current"
Explicit == {a \in Assets(filed) : HeadOf(filed, a).paper}
PaperSourceIsCurrent ==
    IF Explicit = {} THEN file["here"] = "own"
    ELSE \E a \in Explicit :
        Currentness(a) = "current" /\ file[HeadOf(filed, a).ref] = HeadOf(filed, a).bytes

(* _source_diagnostics and _source_event_diagnostics report receipts without *)
(* an event, and sources that are not, or not said to be, as receipted.      *)
UnreceiptedStates == Ids(filed) \ noted
AlteredAssets == {a \in Assets(filed) :
    Currentness(a) # "current" \/ file[HeadOf(filed, a).ref] # HeadOf(filed, a).bytes}
SourcesAreClean == UnreceiptedStates = {} /\ AlteredAssets = {} /\ PaperSourceIsCurrent
(* Calls that overlap on files nobody touches, and of which none dies, leave *)
(* nothing to report; and an altered source is not one they have altered.    *)
UndisturbedSourcesAreClean ==
    /\ touches = 0 /\ accidents = 0 /\ filed[1].bytes = "own" => SourcesAreClean
    /\ touches = 0 => AlteredAssets = {}

(* What events name stands, in chains of which no two claim the paper; and a *)
(* paper source that is called current has the bytes the paper was           *)
(* registered with, wherever its file has been moved and whatever it was     *)
(* overwritten with in between.                                              *)
SourcesStand ==
    /\ noted \subseteq Ids(filed) /\ ChainsStand(filed)
    /\ PaperSourceIsCurrent =>
        IF Explicit = {} THEN file["here"] = "own"
        ELSE \E a \in Explicit : file[HeadOf(filed, a).ref] = "own"
=============================================================================
