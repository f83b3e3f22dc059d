--------------------------- MODULE GuardianReview ---------------------------
(* Guardian's reports, and what the user says of their findings (guardian.py, *)
(* services/guardian_disposition.py, guardian_dispositions.py).  A check      *)
(* writes down the problems it has found.  The user disposes of a finding,    *)
(* and may say something else of it later: the dispositions of a finding form *)
(* one line, in which a terminal one is the last.  A caller names the         *)
(* disposition it has seen; the store's token is taken after the read.        *)
(* Calls overlap, die, and are repeated as they were.                         *)
EXTENDS CommitLog
CONSTANTS
    Judge,           \* callers: each has one thing to say and repeats it
    MaxReports,      \* bound: reports
    MaxDispositions  \* bound: dispositions ever made
ASSUME ReviewAssumption == MaxReports \in Nat \ {0} /\ MaxDispositions \in Nat \ {0}

Problem == {"error", "warning"}     \* one problem of each severity
Status == {"acknowledged", "accepted_risk", "remediation_planned", "false_positive",
           "resolved", "superseded"}
TerminalStatus == {"resolved", "false_positive", "superseded"}
InitialStatus == {"acknowledged", "accepted_risk", "remediation_planned", "false_positive"}
Transitions ==
    [acknowledged |-> {"accepted_risk", "remediation_planned", "resolved", "false_positive", "superseded"},
     accepted_risk |-> {"remediation_planned", "resolved", "superseded"},
     remediation_planned |-> {"accepted_risk", "resolved", "false_positive", "superseded"}]

VARIABLES
    present,       \* the problems of the workspace now
    reports,       \* the findings of each report, in order
    checking,      \* Nothing, or the findings of the check under way
    dispositions,  \* the store: dispositions in the order they were appended
    settled,       \* dispositions a success event names
    unnamed,     \* dispositions whose journal was left open
    disposed,      \* dispositions made so far
    judging,       \* per caller: what it has to say, and where its call is
    losses         \* deaths and failures so far
reviewVars ==
    <<present, reports, checking, dispositions, settled, unnamed, disposed, judging, losses>>

Finding == (1..MaxReports) \X Problem
Disposition == [id : 1..MaxDispositions, finding : Finding, status : Status,
                previous : 0..MaxDispositions, by : Judge \cup {"earlier"}]
Judgement == [finding : Finding, status : Status, seen : 0..MaxDispositions,
              at : {"asks", "appends", "answered"}, base : Seq(Disposition)]
\* Who has something to say has not nothing to say, nor said it earlier.
ASSUME NothingIsNoJudgement == Nothing \notin Judgement /\ "earlier" \notin Judge
ReviewTypeOK ==
    /\ present \subseteq Problem /\ reports \in Seq(SUBSET Problem)
    /\ checking = Nothing \/ checking \subseteq Problem
    /\ dispositions \in Seq(Disposition)
    /\ settled \subseteq 1..disposed /\ unnamed \subseteq 1..disposed
    /\ disposed \in 0..MaxDispositions /\ losses \in 0..MaxFaults
    /\ judging \in [Judge -> {Nothing} \cup Judgement]

-----------------------------------------------------------------------------
(* check: the problems are collected, and the report is appended to those    *)
(* there are; here the token is taken before the read, so none is dropped.   *)
CheckWorkspace ==
    /\ checking = Nothing /\ Len(reports) < MaxReports
    /\ checking' = present
    /\ UNCHANGED <<present, reports, dispositions, settled, unnamed, disposed, judging, losses>>
WriteReport ==
    /\ checking # Nothing
    /\ reports' = Append(reports, checking) /\ checking' = Nothing
    /\ UNCHANGED <<present, dispositions, settled, unnamed, disposed, judging, losses>>
\* status_for_findings
ReportStatus(r) ==
    IF "error" \in reports[r] THEN "failure"
    ELSE IF "warning" \in reports[r] THEN "warning" ELSE "success"
\* The workspace is repaired, or breaks.
ChangeWorkspace ==
    /\ \E p \in SUBSET Problem : p # present /\ present' = p
    /\ Len(reports) < MaxReports
    /\ UNCHANGED <<reports, checking, dispositions, settled, unnamed, disposed, judging, losses>>

-----------------------------------------------------------------------------
(* current_guardian_dispositions: the disposition of a finding that no other *)
(* one names as its previous.                                                *)
Of(store, f) == {d \in {store[n] : n \in 1..Len(store)} : d.finding = f}
Roots(store, f) == {d \in Of(store, f) : d.previous = 0}
Followers(store, d) == {e \in Of(store, d.finding) : e.previous = d.id}
Heads(store, f) == {d \in Of(store, f) : Followers(store, d) = {}}
HeadId(store, f) == IF Of(store, f) = {} THEN 0 ELSE (CHOOSE d \in Heads(store, f) : TRUE).id

(* guardian_disposition_diagnostics: each finding has one root, each         *)
(* disposition at most one successor, which its status admits.               *)
LinesStand(store) ==
    \A f \in {store[n].finding : n \in 1..Len(store)} :
        /\ Cardinality(Roots(store, f)) = 1 /\ Cardinality(Heads(store, f)) = 1
        /\ \A d \in Of(store, f) :
            /\ d.previous = 0 => d.status \in InitialStatus
            /\ \A e \in Followers(store, d) :
                /\ Followers(store, d) = {e}
                /\ d.status \notin TerminalStatus /\ e.status \in Transitions[d.status]

(* A caller sees a report and the head of one of its findings, and makes up  *)
(* its mind; it sticks to that when it repeats its call.                     *)
SeeFinding(k) ==
    /\ judging[k] = Nothing
    /\ \E r \in 1..Len(reports) : \E p \in reports[r], status \in Status :
        judging' = [judging EXCEPT ![k] =
            [finding |-> <<r, p>>, status |-> status, seen |-> HeadId(dispositions, <<r, p>>),
             at |-> "asks", base |-> <<>>]]
    /\ UNCHANGED <<present, reports, checking, dispositions, settled, unnamed, disposed, losses>>

Rest == UNCHANGED <<present, reports, checking, dispositions, settled, unnamed, disposed, losses>>
Answer(k) == judging' = [judging EXCEPT ![k].at = "answered", ![k].base = <<>>]
Admits(f, status) ==
    IF Of(dispositions, f) = {} THEN status \in InitialStatus
    ELSE LET h == CHOOSE d \in Heads(dispositions, f) : TRUE
         IN  h.status \notin TerminalStatus /\ status \in Transitions[h.status]
(* record, up to the token: the head is the one the caller has seen, and     *)
(* admits what it says.  It answers at once when the head is what it says,   *)
(* or is refused.                                                            *)
RecordDisposition(k) ==
    LET w == judging[k]
        head == HeadId(dispositions, w.finding)
    IN  /\ w # Nothing /\ w.at = "asks"
        /\ IF head = w.seen /\ Admits(w.finding, w.status)
           THEN judging' = [judging EXCEPT ![k].at = "appends", ![k].base = dispositions]
           ELSE Answer(k)
        /\ Rest
\* What was read and the new disposition replace the store.
Word(k) == [id |-> disposed + 1, finding |-> judging[k].finding,
            status |-> judging[k].status, previous |-> judging[k].seen, by |-> k]
DecidedByMerging(k) ==  \* Mutation: the store as it is now is extended instead.
    Append(dispositions, Word(k))
Decided(k) == Append(judging[k].base, Word(k))
DropsUnnamed(k) == settled \subseteq {judging[k].base[n].id : n \in 1..Len(judging[k].base)}
CommitDisposition(k) ==
    /\ judging[k] # Nothing /\ judging[k].at = "appends" /\ disposed < MaxDispositions
    /\ DropsUnnamed(k)
    /\ dispositions' = Decided(k) /\ disposed' = disposed + 1
    /\ \E event \in Outcomes(losses) \ {"parked"} :
        /\ settled' = IF event = "recorded" THEN settled \cup {disposed'} ELSE settled
        /\ unnamed' = IF event = "open" THEN unnamed \cup {disposed'} ELSE unnamed
        /\ losses' = losses + Cost(event)
        /\ IF event = "recorded" THEN Answer(k)
           ELSE judging' = [judging EXCEPT ![k].at = "asks", ![k].base = <<>>]
    /\ UNCHANGED <<present, reports, checking>>
\* Another call's commit is in the way.
RefuseDisposition(k) ==
    /\ judging[k] # Nothing /\ judging[k].at = "appends" /\ dispositions # judging[k].base
    /\ Answer(k) /\ Rest
\* A call that died is repeated.
DieJudging(k) ==
    /\ judging[k] # Nothing /\ judging[k].at = "appends"
    /\ losses < MaxFaults /\ losses' = losses + 1
    /\ judging' = [judging EXCEPT ![k].at = "asks", ![k].base = <<>>]
    /\ UNCHANGED <<present, reports, checking, dispositions, settled, unnamed, disposed>>
RecoverDispositions ==
    /\ unnamed # {} /\ unnamed' = {}
    /\ settled' = settled \cup {i \in unnamed : dispositions[Len(dispositions)].id = i}
    /\ UNCHANGED <<present, reports, checking, dispositions, disposed, judging, losses>>

\* Nothing was checked yet, or something was and the user knows of a finding.
ReviewInit ==
    /\ present \in SUBSET Problem /\ checking = Nothing /\ unnamed = {}
    /\ \/ reports = <<>> /\ dispositions = <<>> /\ settled = {} /\ disposed = 0
       \/ \E status \in InitialStatus :
            /\ reports = <<Problem>> /\ settled = {1} /\ disposed = 1
            /\ dispositions = <<[id |-> 1, finding |-> <<1, "error">>, status |-> status,
                                 previous |-> 0, by |-> "earlier"]>>
    /\ judging = [k \in Judge |-> Nothing] /\ losses = 0
ReviewNext ==
    \/ CheckWorkspace \/ WriteReport \/ ChangeWorkspace
    \/ \E k \in Judge :
        \/ SeeFinding(k) \/ RecordDisposition(k) \/ CommitDisposition(k) \/ RefuseDisposition(k)
        \/ DieJudging(k)
    \/ RecoverDispositions
ReviewSpec == ReviewInit /\ [][ReviewNext]_reviewVars

-----------------------------------------------------------------------------
(* However calls overlap, die and are repeated: each finding keeps one line  *)
(* of dispositions, of which a terminal one is the last; what an event names *)
(* stands; and no caller's word is in the line twice.                        *)
DispositionsStand ==
    /\ LinesStand(dispositions)
    /\ settled \subseteq {dispositions[n].id : n \in 1..Len(dispositions)}
    /\ \A m, n \in 1..Len(dispositions) : dispositions[m].by = dispositions[n].by => m = n
=============================================================================
