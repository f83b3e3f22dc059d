--------------------------- MODULE AtomicPromotion ---------------------------
(***************************************************************************)
(* What a client of the transaction kernel is promised                      *)
(* (docs/decisions/0006-atomic-promotion-and-recovery.md): a transaction    *)
(* replaces its store at most once, between being opened and being decided; *)
(* it is decided at most once, a success exactly when it replaced the       *)
(* store; one that cannot be decided is parked, and stays parked.  There    *)
(* are no files, phases, locks, crashes or recoveries here.                 *)
(***************************************************************************)
CONSTANTS
    Transaction,  \* transactions, each with a content of its own
    Store,        \* canonical stores
    Outside,      \* contents that arrive from elsewhere
    Nothing       \* the content of a store that does not exist

VARIABLES
    content,      \* what each store holds
    verdict,      \* what is known of each transaction
    placed,       \* transactions that replaced their store
    spent         \* outside contents already used

avars == <<content, verdict, placed, spent>>

Verdict == {"none", "open", "success", "failure", "parked"}

AInit ==
    /\ content = [s \in Store |-> Nothing]
    /\ verdict = [x \in Transaction |-> "none"]
    /\ placed = {}
    /\ spent = {}

OpenIt(x) ==
    /\ verdict[x] = "none"
    /\ verdict' = [verdict EXCEPT ![x] = "open"]
    /\ UNCHANGED <<content, placed, spent>>

Place(x, s) ==
    /\ verdict[x] = "open"
    /\ x \notin placed
    /\ content' = [content EXCEPT ![s] = x]
    /\ placed' = placed \cup {x}
    /\ UNCHANGED <<verdict, spent>>

Succeed(x) ==
    /\ verdict[x] = "open"
    /\ x \in placed
    /\ verdict' = [verdict EXCEPT ![x] = "success"]
    /\ UNCHANGED <<content, placed, spent>>

(* A transaction that was never opened can fail as well: record_failure.    *)
Fail(x) ==
    /\ verdict[x] \in {"none", "open"}
    /\ x \notin placed
    /\ verdict' = [verdict EXCEPT ![x] = "failure"]
    /\ UNCHANGED <<content, placed, spent>>

Park(x) ==
    /\ verdict[x] = "open"
    /\ verdict' = [verdict EXCEPT ![x] = "parked"]
    /\ UNCHANGED <<content, placed, spent>>

Overwrite(s, o) ==
    /\ o \notin spent
    /\ content' = [content EXCEPT ![s] = o]
    /\ spent' = spent \cup {o}
    /\ UNCHANGED <<verdict, placed>>

ANext ==
    \/ \E x \in Transaction : OpenIt(x) \/ Succeed(x) \/ Fail(x) \/ Park(x)
    \/ \E x \in Transaction, s \in Store : Place(x, s)
    \/ \E s \in Store, o \in Outside : Overwrite(s, o)

ASpec == AInit /\ [][ANext]_avars
=============================================================================
