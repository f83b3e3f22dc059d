-------------------------- MODULE TrustedParseProofs --------------------------
(* Proofs about TrustedParse, for any number of calls, receipts, states,     *)
(* deaths and edits.  Receipts and states are only ever appended, so what a  *)
(* call has read stays true of them; a run is correlated only with the       *)
(* authority it was promoted under, so the receipts a state names belong     *)
(* together; and a profile is accepted only while the pages are those the    *)
(* job was reconciled with, so an accepted profile stays backed.  A second   *)
(* invariant follows the job that makes no detour to its sound end.          *)
EXTENDS TrustedParse, SourceProofs

Approval == [at : Phase, seen : Nat, authority : 0..MaxRecords, profile : 0..MaxRecords,
             routed : BOOLEAN]
AuthorityReceipt == [decision : {"active", "revoked"}, expired : BOOLEAN, event : Outcome]
RunReceipt == [authority : 0..MaxRecords, timely : BOOLEAN, event : Outcome]
PageProfile ==
    [run : 1..MaxRecords, basis : 0..MaxRecords, decision : {"none", "accept", "remediate"}]
Uncertain == verdict = "uncertain"
TrustsOf(s) == {a \in 1..MaxRecords : <<"trust", a>> \in s.outputs}
RunsOf(s) == {n \in 1..MaxRecords : <<"run", n>> \in s.outputs}
Accepted == \E p \in 1..Len(profiles) : profiles[p].decision = "accept"
(* The run of a profile is one that the job was reconciled with.             *)
Backed(p) == \E k \in Reconciled : <<"run", profiles[p].run>> \in history[k].outputs

(* A state names recorded receipts, of one authority at most, and only these *)
(* two of the run it is reconciled with; and it is completed as the verdict  *)
(* and the user allow it.                                                    *)
StateStands(s) ==
    /\ TrustsOf(s) \subseteq Authorities /\ RunsOf(s) \subseteq JobRuns
    /\ \A a, b \in TrustsOf(s) : a = b
    /\ s.node \in {"execution", "reconcile"} => TrustsOf(s) # {}
    /\ s.node = "reconcile" => \E a \in Authorities, n \in JobRuns :
        /\ \A x \in s.outputs : x[1] # "profile" => x \in ReceiptsOf(a, n)
        /\ ReceiptsOf(a, n) \subseteq s.outputs
        /\ runs[n].authority = a /\ runs[n].timely
    /\ s.status = "completed" => (Uncertain => Accepted)
(* A call knows the authority it acts under and the state it was found in,   *)
(* then the run that stands, then a profile of it, and the user's word when  *)
(* the pages need one.                                                       *)
ApprovalStands(w) ==
    /\ w.seen <= Len(history)
    /\ w.at \in {"commit", "current"} =>
        w.seen # 0 /\ history[w.seen].node \in Trusted
    /\ w.at = "commit" => TrustsOf(history[w.seen]) = {}
    /\ w.at = "current" =>
        w.authority \in Authorities /\ TrustsOf(history[w.seen]) \subseteq {w.authority}
    /\ w.at \in {"correlate", "promote"} =>
        w.authority # 0 /\ <<"trust", w.authority>> \in Tip.outputs
    /\ w.at \in {"trunk", "assess"} => runs # <<>>
    /\ w.at \in {"gate", "route", "complete", "accept", "remediate", "continue"} =>
        w.profile \in 1..Len(profiles)
    /\ w.at \in {"route", "complete"} => (Uncertain => Accepted)
    /\ w.at \in {"accept", "remediate"} => Backed(w.profile)
    /\ w.at = "continue" => profiles[w.profile].decision = "accept"
HistoryStands ==
    /\ history \in Seq(JobState) /\ history # <<>>
    /\ \A k \in 1..Len(history) :
        StateStands(history[k]) /\ history[k].outputs \subseteq Tip.outputs
ReceiptsAreBound ==
    /\ Len(trust) <= MaxRecords /\ Len(runs) <= MaxRecords /\ Len(profiles) <= MaxRecords
    /\ \A p \in 1..Len(profiles) : profiles[p].decision = "accept" => Backed(p)
ApprovalsStand ==
    \A c \in Approver :
        \/ approval[c] = Resting
        \/ approval[c] \in Approval /\ ApprovalStands(approval[c])
RecordsTyped ==
    /\ trust \in Seq(AuthorityReceipt) /\ runs \in Seq(RunReceipt) /\ profiles \in Seq(PageProfile)
GivenTyped ==
    /\ route \in {"decided", "undecided"} /\ verdict \in {"yes", "uncertain"}
    /\ source \in {"registered", "edited"} /\ slips \in 0..MaxFaults
    /\ approval \in [Approver -> {Resting} \cup Approval]
TrustedInv == GivenTyped /\ RecordsTyped /\ HistoryStands /\ ReceiptsAreBound /\ ApprovalsStand

(* A job that waits for its authority names nothing yet.                     *)
LEMMA TrustedInvInit == TrustedInit => TrustedInv
<1> SUFFICES ASSUME TrustedInit
             PROVE  TrustedInv
  OBVIOUS
<1> DEFINE s == [status |-> "waiting_user", node |-> "authority", outputs |-> {}]
<1>1. s \in JobState /\ s.outputs = {} /\ s.node = "authority" /\ s.status = "waiting_user"
  BY DEF JobState, Waiting, Trusted
<1> HIDE DEF s
<1>2. history = <<s>>
  BY DEF TrustedInit, s
<1>3. history \in Seq(JobState) /\ Len(history) = 1 /\ history[1] = s
  BY <1>1, <1>2
<1>4. StateStands(s)
  BY <1>1 DEF StateStands, TrustsOf, RunsOf
<1>5. HistoryStands
  <2>1. Tip = s /\ history # <<>> /\ \A k \in 1..Len(history) : history[k] = s
    BY <1>3 DEF Tip
  <2> QED  BY <1>3, <1>4, <2>1 DEF HistoryStands
<1>6. GivenTyped /\ ApprovalsStand
  <2>1. slips \in 0..MaxFaults
    BY FaultAssumption DEF TrustedInit
  <2>2. approval = [c \in Approver |-> Resting]
    BY DEF TrustedInit
  <2>3. approval \in [Approver -> {Resting} \cup Approval] /\ ApprovalsStand
    BY <2>2 DEF ApprovalsStand
  <2> QED  BY <2>1, <2>3 DEF TrustedInit, GivenTyped
<1>7. RecordsTyped /\ ReceiptsAreBound
  BY TrustedAssumption DEF TrustedInit, RecordsTyped, ReceiptsAreBound
<1> QED  BY <1>5, <1>6, <1>7 DEF TrustedInv

(* What the invariant says is what the types of the component say.           *)
LEMMA TrustedTypes == TrustedInv => TrustedTypeOK
<1> SUFFICES ASSUME TrustedInv
             PROVE  TrustedTypeOK
  OBVIOUS
<1>1. ASSUME NEW c \in Approver, approval[c] # Resting
      PROVE  approval[c] \in [at : Phase, seen : 0..Len(history), authority : 0..MaxRecords,
                              profile : 0..MaxRecords, routed : BOOLEAN]
  <2>1. approval[c] \in Approval /\ approval[c].seen <= Len(history)
    BY <1>1 DEF TrustedInv, ApprovalsStand, ApprovalStands
  <2>2. approval[c].seen \in 0..Len(history)
    BY <2>1 DEF Approval, TrustedInv, HistoryStands
  <2> QED  BY <2>1, <2>2 DEF Approval
<1> QED  BY <1>1 DEF TrustedInv, GivenTyped, RecordsTyped, HistoryStands, TrustedTypeOK,
                     AuthorityReceipt, RunReceipt, PageProfile

(* What a reconciled and a completed state say is what the run checks.       *)
LEMMA ParsesAreBoundBy == TrustedInv => ReconcileBindsReceipts /\ AcceptanceIsBound
<1> SUFFICES ASSUME TrustedInv
             PROVE  ReconcileBindsReceipts /\ AcceptanceIsBound
  OBVIOUS
<1>1. ReconcileBindsReceipts
  BY DEF TrustedInv, HistoryStands, StateStands, ReconcileBindsReceipts, Reconciled
<1>2. AcceptanceIsBound
  <2> SUFFICES ASSUME Tip.status = "completed", verdict = "uncertain"
               PROVE  \E p \in 1..Len(profiles), k \in Reconciled :
                        /\ profiles[p].decision = "accept"
                        /\ <<"run", profiles[p].run>> \in history[k].outputs
    BY DEF AcceptanceIsBound
  <2>1. Len(history) \in 1..Len(history)
    BY DEF TrustedInv, HistoryStands
  <2>2. StateStands(Tip)
    BY <2>1 DEF TrustedInv, HistoryStands, Tip
  <2>3. PICK p \in 1..Len(profiles) : profiles[p].decision = "accept"
    BY <2>2 DEF StateStands, Uncertain, Accepted
  <2> QED  BY <2>3 DEF TrustedInv, ReceiptsAreBound, Backed
<1> QED  BY <1>1, <1>2

-----------------------------------------------------------------------------
(* Receipts and profiles are never lost, and the history is appended to.     *)
ReceiptsGrow ==
    /\ Authorities \subseteq Authorities' /\ JobRuns \subseteq JobRuns' /\ verdict' = verdict
    /\ Len(runs) <= Len(runs') /\ Len(profiles) <= Len(profiles')
    /\ \A n \in 1..Len(runs) :
        runs'[n].authority = runs[n].authority /\ runs'[n].timely = runs[n].timely
    /\ \A p \in 1..Len(profiles) : profiles'[p] = profiles[p]
HistoryGrows ==
    /\ Len(history) <= Len(history') /\ Tip.outputs \subseteq Tip'.outputs
    /\ \A k \in 1..Len(history) : history'[k] = history[k]
StoresMove ==
    RecordsTyped' /\ HistoryStands' /\ ReceiptsAreBound' /\ ReceiptsGrow /\ HistoryGrows

(* An accepted profile stays, and the assessment finds what it found.        *)
LEMMA AcceptedStays ==
    ASSUME TrustedInv, RecordsTyped', ReceiptsGrow
    PROVE  (Accepted => Accepted') /\ Uncertain' = Uncertain
<1>1. Len(profiles) \in Nat /\ Len(profiles') \in Nat
  BY DEF TrustedInv, RecordsTyped
<1>2. ASSUME Accepted
      PROVE  Accepted'
  <2>1. PICK p \in 1..Len(profiles) : profiles[p].decision = "accept"
    BY <1>2 DEF Accepted
  <2>2. p \in 1..Len(profiles') /\ profiles'[p] = profiles[p]
    BY <1>1 DEF ReceiptsGrow
  <2> QED  BY <2>1, <2>2 DEF Accepted
<1> QED  BY <1>2 DEF ReceiptsGrow, Uncertain

(* What a state says of the receipts outlasts every receipt that is added.   *)
LEMMA StandingStates ==
    ASSUME TrustedInv, RecordsTyped', ReceiptsGrow, NEW s \in JobState, StateStands(s)
    PROVE  StateStands(s)'
<1>1. /\ TrustsOf(s) \subseteq Authorities' /\ RunsOf(s) \subseteq JobRuns'
      /\ \A a, b \in TrustsOf(s) : a = b
      /\ s.node \in {"execution", "reconcile"} => TrustsOf(s) # {}
  BY DEF StateStands, ReceiptsGrow
<1>2. ASSUME s.node = "reconcile"
      PROVE  \E a \in Authorities', n \in JobRuns' :
                /\ \A x \in s.outputs : x[1] # "profile" => x \in ReceiptsOf(a, n)
                /\ ReceiptsOf(a, n) \subseteq s.outputs
                /\ runs'[n].authority = a /\ runs'[n].timely
  <2>1. PICK a \in Authorities, n \in JobRuns :
                /\ \A x \in s.outputs : x[1] # "profile" => x \in ReceiptsOf(a, n)
                /\ ReceiptsOf(a, n) \subseteq s.outputs
                /\ runs[n].authority = a /\ runs[n].timely
    BY <1>2 DEF StateStands
  <2>2. n \in 1..Len(runs)
    BY DEF JobRuns, Recorded
  <2>3. runs'[n].authority = a /\ runs'[n].timely /\ a \in Authorities' /\ n \in JobRuns'
    BY <2>1, <2>2 DEF ReceiptsGrow
  <2> QED  BY <2>1, <2>3
<1>3. s.status = "completed" => (Uncertain' => Accepted')
  BY AcceptedStays DEF StateStands
<1> QED  BY <1>1, <1>2, <1>3 DEF StateStands, TrustsOf, RunsOf, ReceiptsOf

(* An accepted profile stays backed by the state that names its run.         *)
LEMMA StandingWords ==
    ASSUME TrustedInv, RecordsTyped', history' \in Seq(JobState), ReceiptsGrow, HistoryGrows,
           NEW p \in 1..Len(profiles), Backed(p)
    PROVE  Backed(p)'
<1>1. PICK k \in Reconciled : <<"run", profiles[p].run>> \in history[k].outputs
  BY DEF Backed
<1>2. k \in Reconciled' /\ history'[k] = history[k] /\ profiles'[p] = profiles[p]
  BY DEF Reconciled, TrustedInv, HistoryStands, ReceiptsGrow, HistoryGrows
<1> QED  BY <1>1, <1>2 DEF Backed

(* What a call has read stays so, whatever others add.                       *)
LEMMA StandingApprovals ==
    ASSUME TrustedInv, RecordsTyped', history' \in Seq(JobState), ReceiptsGrow, HistoryGrows,
           NEW w \in Approval, ApprovalStands(w)
    PROVE  ApprovalStands(w)'
<1> USE DEF TrustedInv, RecordsTyped, HistoryStands
<1>1. /\ w.seen <= Len(history') /\ w.seen \in Nat
      /\ w.seen # 0 => history'[w.seen] = history[w.seen]
  BY DEF ApprovalStands, Approval, HistoryGrows
<1>2. w.at \in {"correlate", "promote"} =>
        w.authority # 0 /\ <<"trust", w.authority>> \in Tip'.outputs
  BY DEF ApprovalStands, HistoryGrows
<1>3. w.at \in {"trunk", "assess"} => runs' # <<>>
  BY DEF ApprovalStands, ReceiptsGrow
<1>4. w.at \in {"gate", "route", "complete", "accept", "remediate", "continue"} =>
        w.profile \in 1..Len(profiles')
  BY DEF ApprovalStands, ReceiptsGrow
<1>5. w.at \in {"route", "complete"} => (Uncertain' => Accepted')
  BY AcceptedStays DEF ApprovalStands
<1>6. w.at \in {"accept", "remediate"} => Backed(w.profile)'
  <2> SUFFICES ASSUME w.at \in {"accept", "remediate"}
               PROVE  Backed(w.profile)'
    OBVIOUS
  <2>1. w.profile \in 1..Len(profiles) /\ Backed(w.profile)
    BY DEF ApprovalStands
  <2> QED  BY <2>1, StandingWords
<1>7. w.at = "continue" => profiles'[w.profile].decision = "accept"
  BY DEF ApprovalStands, ReceiptsGrow
<1>8. w.at = "current" => w.authority \in Authorities'
  BY DEF ApprovalStands, ReceiptsGrow
<1> QED  BY <1>1, <1>2, <1>3, <1>4, <1>5, <1>6, <1>7, <1>8 DEF ApprovalStands, TrustsOf

(* Only receipts or profiles are added.                                      *)
LEMMA ReceiptsMove ==
    ASSUME TrustedInv, RecordsTyped', ReceiptsGrow, history' = history,
           Len(trust') <= MaxRecords, Len(runs') <= MaxRecords, Len(profiles') <= MaxRecords,
           \A p \in 1..Len(profiles') :
              p \in 1..Len(profiles) \/ (profiles'[p].decision = "accept" => Backed(p)')
    PROVE  StoresMove
<1>1. HistoryGrows /\ history' \in Seq(JobState)
  BY DEF HistoryGrows, TrustedInv, HistoryStands, Tip
<1>2. HistoryStands'
  <2>1. \A k \in 1..Len(history) : history[k] \in JobState /\ StateStands(history[k])
    BY DEF TrustedInv, HistoryStands
  <2>2. ASSUME NEW k \in 1..Len(history')
        PROVE  StateStands(history[k])'
    <3>1. PICK s \in JobState : s = history[k]
      BY <2>1
    <3>2. StateStands(s)'
      BY <2>1, <3>1, StandingStates
    <3> QED  BY <3>1, <3>2
  <2> QED  BY <2>2, <1>1 DEF TrustedInv, HistoryStands, Tip
<1>3. ReceiptsAreBound'
  BY <1>1, StandingWords DEF ReceiptsAreBound, TrustedInv, ReceiptsGrow
<1> QED  BY <1>1, <1>2, <1>3 DEF StoresMove

(* Only a state is appended.                                                 *)
AppendedState(s) ==
    /\ history' \in Seq(JobState) /\ Len(history') = Len(history) + 1
    /\ history'[Len(history')] = s
    /\ \A k \in 1..Len(history) : history'[k] = history[k]

(* A state that is appended is the last, and the others stay.                *)
LEMMA AppendedStates ==
    ASSUME history \in Seq(JobState), NEW s \in JobState, history' = Append(history, s)
    PROVE  AppendedState(s)
BY DEF AppendedState

(* A state that stands and drops no output may be appended.                  *)
LEMMA HistoryMoves ==
    ASSUME TrustedInv, NEW s \in JobState, AppendedState(s), StateStands(s),
           Tip.outputs \subseteq s.outputs, UNCHANGED receipts, verdict' = verdict
    PROVE  StoresMove
<1>1. /\ history \in Seq(JobState) /\ Len(history) \in Nat /\ Tip' = s
      /\ Len(history') = Len(history) + 1
      /\ \A k \in 1..Len(history) : history'[k] = history[k]
  BY DEF AppendedState, TrustedInv, HistoryStands, Tip
<1>2. HistoryGrows
  BY <1>1 DEF HistoryGrows
<1>3. ReceiptsGrow /\ RecordsTyped'
  BY DEF ReceiptsGrow, RecordsTyped, receipts, TrustedInv, Authorities, JobRuns, Recorded
<1>4. \A k \in 1..Len(history') : k \in 1..Len(history) \/ k = Len(history')
  BY <1>1
<1>5. ASSUME NEW k \in 1..Len(history')
      PROVE  history'[k] \in JobState /\ StateStands(history'[k])
             /\ history'[k].outputs \subseteq s.outputs
  BY <1>1, <1>4 DEF TrustedInv, HistoryStands, AppendedState
<1>6. HistoryStands'
  <2>1. ASSUME NEW k \in 1..Len(history')
        PROVE  StateStands(history[k])'
    <3>1. PICK t \in JobState : t = history'[k]
      BY <1>5
    <3>2. StateStands(t)'
      BY <1>3, <1>5, <3>1, StandingStates
    <3> QED  BY <3>1, <3>2
  <2> QED  BY <1>1, <1>5, <2>1 DEF HistoryStands, AppendedState
<1>7. ReceiptsAreBound'
  BY <1>2, <1>3, StandingWords DEF ReceiptsAreBound, TrustedInv, receipts, AppendedState
<1> QED  BY <1>2, <1>3, <1>6, <1>7 DEF StoresMove

(* The receipts, the profiles and the history grow as they may, and the      *)
(* invariant holds of them again.                                            *)
TrustedMove == StoresMove /\ TrustedInv'

(* One call moves, and the others stay where they are.                       *)
LEMMA ApprovalMoves ==
    ASSUME TrustedInv, StoresMove, UNCHANGED route, source' \in {"registered", "edited"},
           slips' \in 0..MaxFaults, NEW c \in Approver, NEW w \in {Resting} \cup Approval,
           approval' = [approval EXCEPT ![c] = w], w # Resting => ApprovalStands(w)'
    PROVE  TrustedMove
<1>1. GivenTyped'
  BY DEF GivenTyped, TrustedInv, StoresMove, ReceiptsGrow
<1>2. ASSUME NEW d \in Approver, approval'[d] # Resting
      PROVE  approval'[d] \in Approval /\ ApprovalStands(approval[d])'
  <2>1. CASE d = c
    BY <1>2, <2>1 DEF TrustedInv, GivenTyped
  <2>2. CASE d # c
    <3>1. approval'[d] = approval[d] /\ approval[d] \in Approval /\ ApprovalStands(approval[d])
      BY <1>2, <2>2 DEF TrustedInv, ApprovalsStand
    <3>2. PICK v \in Approval : v = approval[d]
      BY <3>1
    <3>3. ApprovalStands(v)'
      BY <3>1, <3>2, StandingApprovals DEF StoresMove, HistoryStands
    <3> QED  BY <3>1, <3>2, <3>3
  <2> QED  BY <2>1, <2>2
<1>3. ApprovalsStand'
  BY <1>2 DEF ApprovalsStand
<1> QED  BY <1>1, <1>3 DEF TrustedMove, TrustedInv, StoresMove

(* No call moves.                                                            *)
LEMMA ApprovalsStay ==
    ASSUME TrustedInv, StoresMove, UNCHANGED <<route, approval>>,
           source' \in {"registered", "edited"}, slips' \in 0..MaxFaults
    PROVE  TrustedMove
<1>1. GivenTyped'
  BY DEF GivenTyped, TrustedInv, StoresMove, ReceiptsGrow
<1>2. ASSUME NEW d \in Approver, approval'[d] # Resting
      PROVE  approval'[d] \in Approval /\ ApprovalStands(approval[d])'
  <2>1. approval'[d] = approval[d] /\ approval[d] \in Approval /\ ApprovalStands(approval[d])
    BY <1>2 DEF TrustedInv, ApprovalsStand
  <2>2. PICK v \in Approval : v = approval[d]
    BY <2>1
  <2>3. ApprovalStands(v)'
    BY <2>1, <2>2, StandingApprovals DEF StoresMove, HistoryStands
  <2> QED  BY <2>1, <2>2, <2>3
<1>3. ApprovalsStand'
  BY <1>2 DEF ApprovalsStand
<1> QED  BY <1>1, <1>3 DEF TrustedMove, TrustedInv, StoresMove

-----------------------------------------------------------------------------
Entry == {"trust", "run", "profile"} \X (1..MaxRecords)
(* What a transition may add: no run, and an authority that is recorded and  *)
(* the only one.                                                             *)
MayAdd(n, added) ==
    /\ \A x \in added : x[1] # "run"
    /\ \A a \in 1..MaxRecords : <<"trust", a>> \in added =>
        a \in Authorities /\ TrustsOf(history[n]) \subseteq {a}
    /\ \A a, b \in 1..MaxRecords :
        <<"trust", a>> \in added /\ <<"trust", b>> \in added => a = b
MayEnter(status, node, added) ==
    /\ node # "reconcile"
    /\ node = "execution" => \E a \in 1..MaxRecords : <<"trust", a>> \in added
    /\ status = "completed" => (Uncertain => Accepted)
JobStatus == {"running", "recovering"} \cup Waiting \cup Final
JobNode == Trusted \cup Failed \cup TrunkNode

(* A successor that adds what it may add stands as its predecessor does.     *)
LEMMA NamedStates ==
    ASSUME TrustedInv, NEW status \in JobStatus, NEW node \in JobNode,
           NEW added \in SUBSET Entry, NEW s \in JobState, StateStands(s),
           MayEnter(status, node, added),
           \A x \in added : x[1] # "run",
           \A a \in 1..MaxRecords : <<"trust", a>> \in added =>
                a \in Authorities /\ TrustsOf(s) \subseteq {a},
           \A a, b \in 1..MaxRecords :
                <<"trust", a>> \in added /\ <<"trust", b>> \in added => a = b
    PROVE  /\ State(status, node, s.outputs \cup added) \in JobState
           /\ StateStands(State(status, node, s.outputs \cup added))
<1> DEFINE t == State(status, node, s.outputs \cup added)
<1>1. t.status = status /\ t.node = node /\ t.outputs = s.outputs \cup added /\ t \in JobState
  BY DEF State, JobState, Entry, JobStatus, JobNode
<1> HIDE DEF t
<1>2. TrustsOf(t) \subseteq Authorities /\ \A a, b \in TrustsOf(t) : a = b
  BY <1>1 DEF TrustsOf, StateStands
<1>3. RunsOf(t) \subseteq JobRuns
  <2> SUFFICES ASSUME NEW n \in RunsOf(t)
               PROVE  n \in RunsOf(s)
    BY DEF StateStands
  <2>1. <<"run", n>> \notin added
    OBVIOUS
  <2> QED  BY <1>1, <2>1 DEF RunsOf
<1>4. t.node \in {"execution", "reconcile"} => TrustsOf(t) # {}
  BY <1>1 DEF MayEnter, TrustsOf
<1> QED  BY <1>1, <1>2, <1>3, <1>4 DEF StateStands, MayEnter, t

Moved(a, phase, n) == [a EXCEPT !.at = phase, !.seen = n]

(* A call that has moved the job has read its new state.                     *)
LEMMA MovedApproval ==
    ASSUME NEW a \in {Resting} \cup Approval, NEW phase \in Phase, NEW n \in Nat
    PROVE  /\ Moved(a, phase, n) \in Approval
           /\ Moved(a, phase, n).at = phase /\ Moved(a, phase, n).seen = n
           /\ Moved(a, phase, n).authority = a.authority
           /\ Moved(a, phase, n).profile = a.profile
<1>1. 0 \in 0..MaxRecords
  BY TrustedAssumption
<1>2. CASE a = Resting
  BY <1>1, <1>2 DEF Approval, Resting, Moved
<1>3. CASE a \in Approval
  BY <1>3 DEF Approval, Moved
<1> QED  BY <1>2, <1>3

(* The job moves as the call asks, by a new state or by one that another     *)
(* call has already appended for it.                                         *)
LEMMA JobMoves ==
    ASSUME TrustedInv, NEW c \in Approver, NEW n \in Nat,
           NEW status \in JobStatus, NEW node \in JobNode,
           NEW added \in SUBSET Entry, NEW phase \in Phase \cup {"idle"},
           Transition(c, n, status, node, added, phase),
           MayAdd(n, added), MayEnter(status, node, added)
    PROVE  /\ StoresMove /\ UNCHANGED <<route, source, slips, profiles, runs, trust, verdict>>
           /\ added \subseteq Tip'.outputs
           /\ \E w \in {Resting} \cup Approval :
                /\ approval' = [approval EXCEPT ![c] = w]
                /\ phase = "idle" => w = Resting
                /\ phase # "idle" =>
                    /\ w \in Approval /\ w.at = phase /\ w.seen = Len(history')
                    /\ w.authority = approval[c].authority /\ w.profile = approval[c].profile
<1> DEFINE t == State(status, node, history[n].outputs \cup added)
<1>1. /\ \/ /\ n = Len(history) /\ history' = Append(history, t)
         \/ /\ n + 1 = Len(history) /\ t = history[n + 1] /\ UNCHANGED history
      /\ approval' = [approval EXCEPT ![c] =
             IF phase = "idle" THEN Resting ELSE [@ EXCEPT !.at = phase, !.seen = n + 1]]
      /\ UNCHANGED <<given, receipts, slips>>
  BY DEF Transition
<1>2. history \in Seq(JobState) /\ Len(history) \in Nat /\ Len(history) # 0
      /\ Len(history) \in 1..Len(history)
  BY DEF TrustedInv, HistoryStands
<1>3. t.outputs = history[n].outputs \cup added
  BY DEF State
<1>4. StoresMove /\ n + 1 = Len(history') /\ added \subseteq Tip'.outputs
  <2>1. CASE n = Len(history) /\ history' = Append(history, t)
    <3>1. history[n] \in JobState /\ StateStands(history[n]) /\ history[n] = Tip
      BY <1>2, <2>1 DEF TrustedInv, HistoryStands, Tip
    <3>2. t \in JobState /\ StateStands(t)
      BY <3>1, NamedStates DEF MayAdd
    <3> HIDE DEF t
    <3>3. AppendedState(t)
      BY <1>2, <2>1, <3>2, AppendedStates
    <3>4. StoresMove
      BY <1>1, <1>3, <3>1, <3>2, <3>3, HistoryMoves DEF given
    <3> QED  BY <1>3, <2>1, <3>3, <3>4 DEF AppendedState, Tip
  <2>2. CASE n + 1 = Len(history) /\ t = history[n + 1] /\ UNCHANGED history
    <3>1. ReceiptsGrow /\ RecordsTyped'
      BY <1>1 DEF ReceiptsGrow, RecordsTyped, receipts, given, TrustedInv, Authorities, JobRuns,
                  Recorded
    <3>2. StoresMove
      <4>1. /\ Len(trust') <= MaxRecords /\ Len(runs') <= MaxRecords
            /\ Len(profiles') <= MaxRecords
            /\ \A p \in 1..Len(profiles') : p \in 1..Len(profiles)
        BY <1>1 DEF receipts, TrustedInv, ReceiptsAreBound
      <4> QED  BY <2>2, <3>1, <4>1, ReceiptsMove
    <3> QED  BY <1>3, <2>2, <3>2 DEF Tip
  <2> QED  BY <1>1, <2>1, <2>2
<1> DEFINE w == Moved(approval[c], phase, n + 1)
<1>5. phase # "idle" =>
        /\ w \in Approval /\ w.at = phase /\ w.seen = n + 1
        /\ w.authority = approval[c].authority /\ w.profile = approval[c].profile
  <2> SUFFICES ASSUME phase \in Phase
               PROVE  /\ w \in Approval /\ w.at = phase /\ w.seen = n + 1
                      /\ w.authority = approval[c].authority /\ w.profile = approval[c].profile
    OBVIOUS
  <2>1. n + 1 \in Nat /\ approval[c] \in {Resting} \cup Approval
    BY DEF TrustedInv, GivenTyped
  <2> QED  BY <2>1, MovedApproval
<1>6. approval' = [approval EXCEPT ![c] = IF phase = "idle" THEN Resting ELSE w]
  BY <1>1 DEF TrustedInv, GivenTyped, Moved
<1> HIDE DEF w
<1>7. \E v \in {Resting} \cup Approval :
                /\ approval' = [approval EXCEPT ![c] = v]
                /\ phase = "idle" => v = Resting
                /\ phase # "idle" =>
                    /\ v \in Approval /\ v.at = phase /\ v.seen = Len(history')
                    /\ v.authority = approval[c].authority /\ v.profile = approval[c].profile
  BY <1>4, <1>5, <1>6
<1> QED  BY <1>1, <1>4, <1>7 DEF given, receipts

-----------------------------------------------------------------------------
(* Nothing but the call itself moves.                                        *)
LEMMA ReadsKeep ==
    ASSUME TrustedInv, UNCHANGED <<verdict, history, trust, runs, profiles>>
    PROVE  StoresMove
<1>1. ReceiptsGrow /\ RecordsTyped'
  BY DEF ReceiptsGrow, RecordsTyped, TrustedInv, Authorities, JobRuns, Recorded
<1>2. /\ Len(trust') <= MaxRecords /\ Len(runs') <= MaxRecords /\ Len(profiles') <= MaxRecords
      /\ \A p \in 1..Len(profiles') : p \in 1..Len(profiles)
  BY DEF TrustedInv, ReceiptsAreBound
<1> QED  BY <1>1, <1>2, ReceiptsMove

(* A call that only reads leaves the rest as it is.                          *)
LEMMA ReadsMove ==
    ASSUME TrustedInv, Reads, NEW c \in Approver, NEW w \in {Resting} \cup Approval,
           approval' = [approval EXCEPT ![c] = w], w # Resting => ApprovalStands(w)
    PROVE  TrustedMove
<1>1. StoresMove /\ UNCHANGED <<route, source, slips>>
  BY ReadsKeep DEF Reads
<1>2. w # Resting => ApprovalStands(w)'
  BY <1>1, StandingApprovals DEF StoresMove, HistoryStands
<1>3. source' \in {"registered", "edited"} /\ slips' \in 0..MaxFaults
  BY <1>1 DEF TrustedInv, GivenTyped
<1> QED  BY <1>1, <1>2, <1>3, ApprovalMoves

(* The call enters another phase, and may have learned something.            *)
EntersUnder(c, phase, a) == approval' = [approval EXCEPT ![c].at = phase, ![c].authority = a]
EntersWith(c, phase, p) == approval' = [approval EXCEPT ![c].at = phase, ![c].profile = p]
EntersAt(c, phase, n) == approval' = [approval EXCEPT ![c].at = phase, ![c].seen = n]

(* The phase is another.                                                     *)
LEMMA Entered ==
    ASSUME TrustedInv, NEW c \in Approver, approval[c] \in Approval, NEW phase \in Phase,
           Enters(c, phase)
    PROVE  \E w \in Approval :
             /\ approval' = [approval EXCEPT ![c] = w]
             /\ w.at = phase /\ w.seen = approval[c].seen
             /\ w.authority = approval[c].authority /\ w.profile = approval[c].profile
<1> PICK b \in Approval : b = approval[c]
  OBVIOUS
<1> DEFINE w == [b EXCEPT !.at = phase]
<1>1. w \in Approval /\ w.at = phase /\ w.seen = b.seen
             /\ w.authority = b.authority /\ w.profile = b.profile
  BY DEF Approval
<1>2. approval' = [approval EXCEPT ![c] = w]
  BY DEF TrustedInv, GivenTyped, Enters
<1> QED  BY <1>1, <1>2

(* The phase and the authority are others.                                   *)
LEMMA EnteredUnder ==
    ASSUME TrustedInv, NEW c \in Approver, approval[c] \in Approval,
           NEW phase \in Phase, NEW a \in 0..MaxRecords,
           EntersUnder(c, phase, a)
    PROVE  \E w \in Approval :
             /\ approval' = [approval EXCEPT ![c] = w]
             /\ w.at = phase /\ w.seen = approval[c].seen
             /\ w.authority = a /\ w.profile = approval[c].profile
<1> PICK b \in Approval : b = approval[c]
  OBVIOUS
<1> DEFINE w == [b EXCEPT !.at = phase, !.authority = a]
<1>1. w \in Approval /\ w.at = phase /\ w.seen = b.seen
             /\ w.authority = a /\ w.profile = b.profile
  BY DEF Approval
<1>2. approval' = [approval EXCEPT ![c] = w]
  BY DEF TrustedInv, GivenTyped, EntersUnder
<1> QED  BY <1>1, <1>2

(* The phase and the profile are others.                                     *)
LEMMA EnteredWith ==
    ASSUME TrustedInv, NEW c \in Approver, approval[c] \in Approval,
           NEW phase \in Phase, NEW p \in 0..MaxRecords,
           EntersWith(c, phase, p)
    PROVE  \E w \in Approval :
             /\ approval' = [approval EXCEPT ![c] = w]
             /\ w.at = phase /\ w.seen = approval[c].seen
             /\ w.authority = approval[c].authority /\ w.profile = p
<1> PICK b \in Approval : b = approval[c]
  OBVIOUS
<1> DEFINE w == [b EXCEPT !.at = phase, !.profile = p]
<1>1. w \in Approval /\ w.at = phase /\ w.seen = b.seen
             /\ w.authority = b.authority /\ w.profile = p
  BY DEF Approval
<1>2. approval' = [approval EXCEPT ![c] = w]
  BY DEF TrustedInv, GivenTyped, EntersWith
<1> QED  BY <1>1, <1>2

(* The phase and the state it goes on from are others.                       *)
LEMMA EnteredAt ==
    ASSUME TrustedInv, NEW c \in Approver, approval[c] \in Approval,
           NEW phase \in Phase, NEW n \in Nat,
           EntersAt(c, phase, n)
    PROVE  \E w \in Approval :
             /\ approval' = [approval EXCEPT ![c] = w]
             /\ w.at = phase /\ w.seen = n
             /\ w.authority = approval[c].authority /\ w.profile = approval[c].profile
<1> PICK b \in Approval : b = approval[c]
  OBVIOUS
<1> DEFINE w == [b EXCEPT !.at = phase, !.seen = n]
<1>1. w \in Approval /\ w.at = phase /\ w.seen = n
             /\ w.authority = b.authority /\ w.profile = b.profile
  BY DEF Approval
<1>2. approval' = [approval EXCEPT ![c] = w]
  BY DEF TrustedInv, GivenTyped, EntersAt
<1> QED  BY <1>1, <1>2

(* The job has a last state, which stands, as do the calls on their way.     *)
LEMMA Tips ==
    ASSUME TrustedInv
    PROVE  /\ Len(history) \in Nat /\ Len(history) # 0 /\ Len(history) \in 1..Len(history)
           /\ Tip \in JobState /\ StateStands(Tip)
           /\ \A c \in Approver : approval[c] # Resting =>
                approval[c] \in Approval /\ ApprovalStands(approval[c])
           /\ \A c \in Approver : approval[c].at \in Phase =>
                approval[c] \in Approval /\ ApprovalStands(approval[c])
<1>1. Len(history) \in Nat /\ Len(history) # 0 /\ Len(history) \in 1..Len(history)
  BY DEF TrustedInv, HistoryStands
<1>2. Tip \in JobState /\ StateStands(Tip)
  BY <1>1 DEF TrustedInv, HistoryStands, Tip
<1>3. \A c \in Approver : approval[c] # Resting =>
                approval[c] \in Approval /\ ApprovalStands(approval[c])
  BY DEF TrustedInv, ApprovalsStand
<1>4. Resting.at \notin Phase
  BY DEF Resting, Phase
<1> QED  BY <1>1, <1>2, <1>3, <1>4

(* A call takes up the one recorded authority, or none.                      *)
LEMMA PrepareKeeps ==
    ASSUME TrustedInv, NEW c \in Approver, Prepare(c) \/ RunWorker(c)
    PROVE  TrustedMove
<1>1. CASE Prepare(c)
  <2>1. PICK a \in 0..Len(trust) :
        /\ IF a = 0 THEN Authorities = {} /\ JobRuns = {}
           ELSE Authorities = {a} /\ (JobRuns = {} \/ Correlated(a) # {})
        /\ approval' = [approval EXCEPT ![c] =
             [Resting EXCEPT !.at = IF a = 0 THEN "commit" ELSE "current",
                             !.seen = Len(history), !.authority = a]]
    BY <1>1 DEF Prepare
  <2> DEFINE w == [Resting EXCEPT !.at = IF a = 0 THEN "commit" ELSE "current",
                             !.seen = Len(history), !.authority = a]
  <2>2. a \in 0..MaxRecords
    BY TrustedAssumption DEF TrustedInv, ReceiptsAreBound, RecordsTyped
  <2>3. /\ w \in Approval /\ w.at = IF a = 0 THEN "commit" ELSE "current"
        /\ w.seen = Len(history) /\ w.authority = a
    <3>1. (IF a = 0 THEN "commit" ELSE "current") \in Phase /\ Len(history) \in Nat
          /\ 0 \in 0..MaxRecords
      BY Tips, TrustedAssumption DEF Phase
    <3> QED  BY <2>2, <3>1 DEF Resting, Approval
  <2>4. approval' = [approval EXCEPT ![c] = w]
    BY <2>1
  <2> HIDE DEF w
  <2>5. Tip.node \in Trusted /\ TrustsOf(Tip) \subseteq Authorities
    BY <1>1, Tips DEF Prepare, StateStands
  <2>6. ApprovalStands(w)
    BY <2>1, <2>3, <2>5, Tips DEF ApprovalStands, Tip
  <2> QED  BY <1>1, <2>3, <2>4, <2>6, ReadsMove DEF Prepare
<1>2. CASE RunWorker(c)
  <2>1. approval[c] \in Approval /\ ApprovalStands(approval[c]) /\ approval[c].at = "correlate"
    BY <1>2, Tips DEF RunWorker, Phase
  <2>2. PICK w \in Approval :
             /\ approval' = [approval EXCEPT ![c] = w]
             /\ w.at = "promote" /\ w.seen = approval[c].seen
             /\ w.authority = approval[c].authority /\ w.profile = approval[c].profile
    <3>1. "promote" \in Phase
      BY DEF Phase
    <3>2. Enters(c, "promote")
      BY <1>2 DEF RunWorker
    <3> QED  BY <2>1, <3>1, <3>2, Entered
  <2>3. ApprovalStands(w)
    BY <2>1, <2>2 DEF ApprovalStands
  <2> QED  BY <1>2, <2>2, <2>3, ReadsMove DEF RunWorker
<1> QED  BY <1>1, <1>2

-----------------------------------------------------------------------------
(* An authority is committed by a call that has found none.                  *)
LEMMA CommitAuthorityKeeps ==
    ASSUME TrustedInv, NEW c \in Approver, CommitAuthority(c)
    PROVE  TrustedMove
<1>1. /\ approval[c].at = "commit" /\ Len(trust) < MaxRecords
      /\ UNCHANGED <<given, history, runs, profiles>>
  BY DEF CommitAuthority
<1>2. approval[c] \in Approval /\ ApprovalStands(approval[c])
  <2>1. "commit" \in Phase
    BY DEF Phase
  <2> QED  BY <1>1, <2>1, Tips
<1>3. PICK event \in Outcomes(slips) \ {"parked"} :
        /\ trust' = Append(trust, [decision |-> "active", expired |-> FALSE, event |-> event])
        /\ slips' = slips + Cost(event)
        /\ IF event = "recorded"
           THEN approval' = [approval EXCEPT ![c].at = "current", ![c].authority = Len(trust')]
           ELSE Leaves(c)
  BY DEF CommitAuthority
<1>4. slips' \in 0..MaxFaults
  BY <1>3, FaultAssumption DEF Outcomes, Cost, TrustedInv, GivenTyped
<1> DEFINE r == [decision |-> "active", expired |-> FALSE, event |-> event]
<1>5. r \in AuthorityReceipt /\ r.event = event
  BY <1>3 DEF AuthorityReceipt, Outcomes, Outcome
<1>6. trust \in Seq(AuthorityReceipt) /\ Len(trust) \in Nat
  BY DEF TrustedInv, RecordsTyped
<1>7. trust' \in Seq(AuthorityReceipt) /\ Grown(trust, trust', r)
  BY <1>3, <1>5, <1>6, Appending
<1>8. /\ Authorities \subseteq Authorities' /\ Len(trust') \in 1..MaxRecords
      /\ event = "recorded" => Len(trust') \in Authorities'
  <2>1. /\ Len(trust') = Len(trust) + 1
        /\ Len(trust') \in 1..Len(trust') /\ Len(trust') \in 1..MaxRecords
    BY <1>1, <1>6, <1>7, TrustedAssumption DEF Grown
  <2>2. \A k \in 1..Len(trust) : k \in 1..Len(trust') /\ trust'[k] = trust[k]
    BY <1>6, <1>7, <2>1 DEF Grown
  <2>3. event = "recorded" => trust'[Len(trust')].event = "recorded"
    BY <1>5, <1>7 DEF Grown
  <2> QED  BY <2>1, <2>2, <2>3 DEF Authorities, Recorded
<1>9. StoresMove
  <2>1. ReceiptsGrow /\ RecordsTyped'
    BY <1>1, <1>7, <1>8 DEF ReceiptsGrow, RecordsTyped, given, TrustedInv, JobRuns, Recorded
  <2>2. /\ Len(trust') <= MaxRecords /\ Len(runs') <= MaxRecords /\ Len(profiles') <= MaxRecords
        /\ \A p \in 1..Len(profiles') : p \in 1..Len(profiles)
    BY <1>1, <1>8, TrustedAssumption DEF TrustedInv, ReceiptsAreBound
  <2> QED  BY <1>1, <2>1, <2>2, ReceiptsMove
<1>10. route' = route /\ source' \in {"registered", "edited"}
  BY <1>1 DEF given, TrustedInv, GivenTyped
<1>11. CASE event = "recorded"
  <2>1. EntersUnder(c, "current", Len(trust')) /\ "current" \in Phase
    BY <1>3, <1>11 DEF EntersUnder, Phase
  <2>2. PICK n \in 0..MaxRecords : n = Len(trust')
    BY <1>8
  <2>3. PICK w \in Approval :
             /\ approval' = [approval EXCEPT ![c] = w]
             /\ w.at = "current" /\ w.seen = approval[c].seen
             /\ w.authority = n /\ w.profile = approval[c].profile
    BY <1>2, <2>1, <2>2, EnteredUnder
  <2>4. w.authority \in Authorities' /\ w.seen = approval[c].seen /\ w.seen # 0
        /\ w.seen <= Len(history) /\ history[w.seen].node \in Trusted
        /\ TrustsOf(history[w.seen]) = {}
    BY <1>1, <1>2, <1>8, <1>11, <2>2, <2>3 DEF ApprovalStands
  <2>5. ApprovalStands(w)'
    BY <1>1, <2>3, <2>4 DEF ApprovalStands, TrustsOf
  <2> QED  BY <1>4, <1>9, <1>10, <2>3, <2>5, ApprovalMoves
<1>12. CASE event # "recorded"
  BY <1>3, <1>4, <1>9, <1>10, <1>12, ApprovalMoves DEF Leaves
<1> QED  BY <1>11, <1>12

(* The job is set running under the authority the call has committed or      *)
(* found, the only one its states name.                                      *)
LEMMA ExecuteKeeps ==
    ASSUME TrustedInv, NEW c \in Approver, Execute(c)
    PROVE  TrustedMove
<1> DEFINE a == approval[c].authority
           n == approval[c].seen
<1>1. approval[c].at = "current"
  BY DEF Execute
<1>2. approval[c] \in Approval /\ ApprovalStands(approval[c])
  <2>1. "current" \in Phase
    BY DEF Phase
  <2> QED  BY <1>1, <2>1, Tips
<1>3. /\ n \in Nat /\ n # 0 /\ n <= Len(history) /\ a \in Authorities
      /\ TrustsOf(history[n]) \subseteq {a} /\ history[n].node \in Trusted
  BY <1>1, <1>2 DEF ApprovalStands, Approval
<1>4. a \in 1..MaxRecords
  <2>1. a \in 1..Len(trust) /\ Len(trust) \in Nat /\ Len(trust) <= MaxRecords
    BY <1>3 DEF Authorities, Recorded, TrustedInv, ReceiptsAreBound, RecordsTyped
  <2> QED  BY <2>1, TrustedAssumption
<1>5. n \in 1..Len(history)
  BY <1>3, Tips
<1>6. CASE history[n].node = "authority"
  <2> DEFINE added == {<<"trust", a>>}
  <2>1. Transition(c, n, "running", "execution", added, "correlate")
    BY <1>6 DEF Execute
  <2>2. added \in SUBSET Entry /\ "running" \in JobStatus /\ "execution" \in JobNode
        /\ "correlate" \in Phase
    BY <1>4 DEF Entry, JobStatus, JobNode, Trusted, Phase
  <2>3. MayAdd(n, added)
    BY <1>3 DEF MayAdd
  <2>4. MayEnter("running", "execution", added)
    BY <1>4 DEF MayEnter
  <2>5. <<"trust", a>> \in added /\ "correlate" # "idle"
    OBVIOUS
  <2> HIDE DEF added
  <2>6. /\ StoresMove /\ UNCHANGED <<route, source, slips, profiles, runs, trust, verdict>>
        /\ added \subseteq Tip'.outputs
        /\ \E w \in {Resting} \cup Approval :
                /\ approval' = [approval EXCEPT ![c] = w]
                /\ w \in Approval /\ w.at = "correlate" /\ w.seen = Len(history')
                /\ w.authority = a /\ w.profile = approval[c].profile
    BY <1>2, <1>3, <2>1, <2>2, <2>3, <2>4, <2>5, JobMoves
  <2>7. PICK w \in Approval :
                /\ approval' = [approval EXCEPT ![c] = w]
                /\ w.at = "correlate" /\ w.seen = Len(history')
                /\ w.authority = a
    BY <2>6
  <2>8. ApprovalStands(w)'
    <3>1. w.authority # 0 /\ <<"trust", w.authority>> \in Tip'.outputs /\ w.seen <= Len(history')
      BY <1>4, <2>5, <2>6, <2>7 DEF StoresMove, HistoryStands
    <3> QED  BY <2>7, <3>1 DEF ApprovalStands
  <2>9. source' \in {"registered", "edited"} /\ slips' \in 0..MaxFaults
    BY <2>6 DEF TrustedInv, GivenTyped
  <2> QED  BY <2>6, <2>7, <2>8, <2>9, ApprovalMoves
<1>7. CASE history[n].node # "authority"
  <2>1. Enters(c, "correlate") /\ Reads /\ "correlate" \in Phase
    BY <1>7 DEF Execute, Phase
  <2>2. PICK w \in Approval :
             /\ approval' = [approval EXCEPT ![c] = w]
             /\ w.at = "correlate" /\ w.seen = n
             /\ w.authority = a /\ w.profile = approval[c].profile
    BY <1>2, <2>1, Entered
  <2>3. TrustsOf(history[n]) # {} /\ history[n].outputs \subseteq Tip.outputs
    BY <1>3, <1>5, <1>7 DEF TrustedInv, HistoryStands, StateStands, Trusted
  <2>4. <<"trust", a>> \in Tip.outputs
    BY <1>3, <2>3 DEF TrustsOf
  <2>5. ApprovalStands(w)
    BY <1>3, <1>4, <2>2, <2>4 DEF ApprovalStands
  <2> QED  BY <2>1, <2>2, <2>5, ReadsMove
<1> QED  BY <1>6, <1>7

(* A run is added, and those there were stay.                                *)
LEMMA RunsAppend ==
    ASSUME TrustedInv, NEW r \in RunReceipt, runs' \in Seq(RunReceipt), Grown(runs, runs', r),
           Len(runs) < MaxRecords, UNCHANGED <<verdict, history, trust, profiles>>
    PROVE  StoresMove
<1>1. Len(runs) \in Nat /\ Len(runs') = Len(runs) + 1 /\ Len(runs') <= MaxRecords
  BY TrustedAssumption DEF TrustedInv, RecordsTyped, Grown
<1>2. \A n \in 1..Len(runs) : n \in 1..Len(runs') /\ runs'[n] = runs[n]
  BY <1>1 DEF Grown
<1>3. ReceiptsGrow /\ RecordsTyped'
  BY <1>1, <1>2 DEF ReceiptsGrow, RecordsTyped, TrustedInv, JobRuns, Authorities, Recorded
<1>4. /\ Len(trust') <= MaxRecords /\ Len(profiles') <= MaxRecords
      /\ \A p \in 1..Len(profiles') : p \in 1..Len(profiles)
  BY DEF TrustedInv, ReceiptsAreBound
<1> QED  BY <1>1, <1>3, <1>4, ReceiptsMove

(* The pages are promoted under the authority of the call.                   *)
LEMMA PromoteKeeps ==
    ASSUME TrustedInv, NEW c \in Approver, Promote(c)
    PROVE  TrustedMove
<1> DEFINE a == approval[c].authority
<1>1. /\ approval[c].at = "promote" /\ Len(runs) < MaxRecords
      /\ UNCHANGED <<given, history, trust, profiles>>
  BY DEF Promote
<1>2. approval[c] \in Approval /\ ApprovalStands(approval[c])
  <2>1. "promote" \in Phase
    BY DEF Phase
  <2> QED  BY <1>1, <2>1, Tips
<1>3. PICK event \in Outcomes(slips) :
        /\ runs' = Append(runs, [authority |-> a, timely |-> ~trust[a].expired, event |-> event])
        /\ slips' = slips + Cost(event)
        /\ IF event = "recorded" THEN Enters(c, "correlate") ELSE Leaves(c)
  BY DEF Promote
<1>4. slips' \in 0..MaxFaults
  BY <1>3, FaultAssumption DEF Outcomes, Cost, TrustedInv, GivenTyped
<1> DEFINE r == [authority |-> a, timely |-> ~trust[a].expired, event |-> event]
<1>5. r \in RunReceipt
  BY <1>2, <1>3 DEF RunReceipt, Outcomes, Outcome, Approval
<1> HIDE DEF r
<1>6. runs' \in Seq(RunReceipt) /\ Grown(runs, runs', r)
  BY <1>3, <1>5, Appending DEF TrustedInv, RecordsTyped, r
<1>7. StoresMove
  BY <1>1, <1>5, <1>6, RunsAppend DEF given
<1>8. route' = route /\ source' \in {"registered", "edited"} /\ UNCHANGED history
  BY <1>1 DEF given, TrustedInv, GivenTyped
<1>9. CASE event = "recorded"
  <2>1. Enters(c, "correlate") /\ "correlate" \in Phase
    BY <1>3, <1>9 DEF Phase
  <2>2. PICK w \in Approval :
             /\ approval' = [approval EXCEPT ![c] = w]
             /\ w.at = "correlate" /\ w.seen = approval[c].seen
             /\ w.authority = a /\ w.profile = approval[c].profile
    BY <1>2, <2>1, Entered
  <2>3. ApprovalStands(w)
    BY <1>1, <1>2, <2>2 DEF ApprovalStands
  <2>4. ApprovalStands(w)'
    BY <1>7, <2>3, StandingApprovals DEF StoresMove, HistoryStands
  <2> QED  BY <1>4, <1>7, <1>8, <2>2, <2>4, ApprovalMoves
<1>10. CASE event # "recorded"
  BY <1>3, <1>4, <1>7, <1>8, <1>10, ApprovalMoves DEF Leaves
<1> QED  BY <1>9, <1>10

(* The state that names the one run of the job names its authority too: a    *)
(* run is correlated only with the authority it was promoted under.          *)
LEMMA ReconciledStates ==
    ASSUME TrustedInv, NEW a \in 1..MaxRecords, <<"trust", a>> \in Tip.outputs,
           NEW n \in Correlated(a)
    PROVE  LET t == State("running", "reconcile", Tip.outputs \cup ReceiptsOf(a, n))
           IN  t \in JobState /\ StateStands(t)
<1> DEFINE t == State("running", "reconcile", Tip.outputs \cup ReceiptsOf(a, n))
<1>1. /\ n \in JobRuns /\ JobRuns = {n} /\ runs[n].authority = a /\ runs[n].timely
      /\ n \in 1..MaxRecords
  <2>1. n \in JobRuns /\ JobRuns = {n} /\ runs[n].authority = a /\ runs[n].timely
    BY DEF Correlated
  <2>2. n \in 1..Len(runs) /\ Len(runs) \in Nat /\ Len(runs) <= MaxRecords
    BY <2>1 DEF JobRuns, Recorded, TrustedInv, RecordsTyped, ReceiptsAreBound
  <2> QED  BY <2>1, <2>2, TrustedAssumption
<1>2. ReceiptsOf(a, n) = {<<"trust", a>>, <<"run", n>>} /\ ReceiptsOf(a, n) \subseteq Entry
  BY <1>1 DEF ReceiptsOf, Entry
<1>3. /\ t.status = "running" /\ t.node = "reconcile"
      /\ t.outputs = Tip.outputs \cup ReceiptsOf(a, n) /\ Tip.outputs \in SUBSET Entry
  BY Tips DEF State, JobState, Entry
<1>4. t \in JobState
  <2>1. Tip.outputs \cup ReceiptsOf(a, n) \in SUBSET Entry
    BY <1>2, <1>3
  <2> QED  BY <2>1 DEF State, JobState, Entry, Trusted
<1> HIDE DEF t
<1>5. TrustsOf(Tip) = {a} /\ a \in Authorities
  BY Tips DEF StateStands, TrustsOf
<1>6. TrustsOf(t) = {a}
  BY <1>2, <1>3, <1>5 DEF TrustsOf
<1>7. RunsOf(t) = {n}
  <2>1. RunsOf(Tip) \subseteq {n}
    BY <1>1, Tips DEF StateStands
  <2> QED  BY <1>1, <1>2, <1>3, <2>1 DEF RunsOf
<1>8. ASSUME NEW x \in t.outputs, x[1] # "profile"
      PROVE  x \in ReceiptsOf(a, n)
  <2>1. x \in Entry
    BY <1>2, <1>3
  <2>2. PICK m \in 1..MaxRecords : x = <<"trust", m>> \/ x = <<"run", m>>
    BY <1>8, <2>1 DEF Entry
  <2>3. x = <<"trust", m>> => m = a
    BY <1>6, <2>2 DEF TrustsOf
  <2>4. x = <<"run", m>> => m = n
    BY <1>7, <2>2 DEF RunsOf
  <2> QED  BY <1>2, <2>2, <2>3, <2>4
<1>9. StateStands(t)
  BY <1>1, <1>3, <1>5, <1>6, <1>7, <1>8 DEF StateStands
<1> QED  BY <1>4, <1>9 DEF t

(* A job in execution is reconciled; any other stays as it is.               *)
LEMMA ReconcileKeeps ==
    ASSUME TrustedInv, NEW c \in Approver, Reconcile(c)
    PROVE  TrustedMove
<1> DEFINE a == approval[c].authority
<1>1. /\ approval[c].at = "correlate" /\ UNCHANGED <<given, receipts, slips>>
      /\ approval' = [approval EXCEPT ![c] =
             [Resting EXCEPT !.at = "trunk", !.routed = route = "decided"]]
  BY DEF Reconcile
<1>2. approval[c] \in Approval /\ ApprovalStands(approval[c])
  <2>1. "correlate" \in Phase
    BY DEF Phase
  <2> QED  BY <1>1, <2>1, Tips
<1>3. a \in 1..MaxRecords /\ <<"trust", a>> \in Tip.outputs
  BY <1>1, <1>2, TrustedAssumption DEF ApprovalStands, Approval
<1>4. PICK n \in Correlated(a) :
        LET t == State("running", "reconcile", Tip.outputs \cup ReceiptsOf(a, n))
        IN  IF Tip.node = "execution"
            THEN Follows(Tip, t) /\ history' = Append(history, t)
            ELSE UNCHANGED history
  BY DEF Reconcile
<1> DEFINE t == State("running", "reconcile", Tip.outputs \cup ReceiptsOf(a, n))
<1>5. StoresMove
  <2>1. CASE Tip.node = "execution"
    <3>1. t \in JobState /\ StateStands(t) /\ Tip.outputs \subseteq t.outputs
      BY <1>3, ReconciledStates DEF State
    <3>2. history' = Append(history, t)
      BY <1>4, <2>1
    <3> HIDE DEF t
    <3>3. AppendedState(t)
      BY <3>1, <3>2, AppendedStates DEF TrustedInv, HistoryStands
    <3> QED  BY <1>1, <3>1, <3>3, HistoryMoves DEF given
  <2>2. CASE Tip.node # "execution"
    BY <1>1, <1>4, <2>2, ReadsKeep DEF given, receipts
  <2> QED  BY <2>1, <2>2
<1>6. n \in 1..Len(runs) /\ runs' = runs
  BY <1>1 DEF Correlated, JobRuns, Recorded, receipts
<1> DEFINE w == [Resting EXCEPT !.at = "trunk", !.routed = route = "decided"]
<1>7. w \in Approval /\ w.at = "trunk" /\ w.seen = 0
  <2>1. "trunk" \in Phase /\ 0 \in 0..MaxRecords /\ (route = "decided") \in BOOLEAN
    BY TrustedAssumption DEF Phase
  <2> QED  BY <2>1 DEF Approval, Resting
<1> PICK v \in Approval : v = w
  BY <1>7
<1>8. runs' # <<>>
  BY <1>6 DEF TrustedInv, RecordsTyped
<1>9. ApprovalStands(v)'
  BY <1>5, <1>7, <1>8 DEF ApprovalStands, StoresMove, HistoryStands
<1>10. route' = route /\ source' \in {"registered", "edited"} /\ slips' \in 0..MaxFaults
  BY <1>1 DEF given, TrustedInv, GivenTyped
<1>11. approval' = [approval EXCEPT ![c] = v]
  BY <1>1
<1> QED  BY <1>5, <1>7, <1>9, <1>10, <1>11, ApprovalMoves

-----------------------------------------------------------------------------
(* A profile is of the pages as they are; an accepted one is of pages that   *)
(* the job was reconciled with.                                              *)
LEMMA ProfileAppends ==
    ASSUME TrustedInv, NEW basis \in 0..MaxRecords,
           NEW decision \in {"none", "accept", "remediate"},
           AddProfile(basis, decision), runs # <<>>,
           decision = "accept" =>
              \E k \in Reconciled : <<"run", Len(runs)>> \in history[k].outputs,
           UNCHANGED <<verdict, history, trust, runs>>
    PROVE  /\ StoresMove /\ Len(profiles') \in 1..MaxRecords
           /\ profiles'[Len(profiles')].decision = decision
<1> DEFINE r == [run |-> Len(runs), basis |-> basis, decision |-> decision]
<1>1. Len(runs) \in 1..MaxRecords
  BY TrustedAssumption DEF TrustedInv, RecordsTyped, ReceiptsAreBound
<1>2. r \in PageProfile /\ r.run = Len(runs) /\ r.decision = decision
  BY <1>1 DEF PageProfile
<1> HIDE DEF r
<1>3. profiles' \in Seq(PageProfile) /\ Grown(profiles, profiles', r) /\ Len(profiles) < MaxRecords
  BY <1>2, Appending DEF TrustedInv, RecordsTyped, AddProfile, r
<1>4. /\ Len(profiles) \in Nat /\ Len(profiles') = Len(profiles) + 1
      /\ Len(profiles') \in 1..MaxRecords
  BY <1>3, TrustedAssumption DEF TrustedInv, RecordsTyped, Grown
<1>5. \A p \in 1..Len(profiles) : profiles'[p] = profiles[p]
  BY <1>3 DEF Grown
<1>6. ReceiptsGrow /\ RecordsTyped'
  BY <1>3, <1>4, <1>5 DEF ReceiptsGrow, RecordsTyped, TrustedInv, JobRuns, Authorities, Recorded
<1>7. \A p \in 1..Len(profiles') : p \in 1..Len(profiles) \/ p = Len(profiles')
  BY <1>4
<1>8. decision = "accept" => Backed(Len(profiles))'
  <2> SUFFICES ASSUME decision = "accept"
               PROVE  Backed(Len(profiles))'
    OBVIOUS
  <2>1. PICK k \in Reconciled : <<"run", Len(runs)>> \in history[k].outputs
    OBVIOUS
  <2>2. profiles'[Len(profiles')].run = Len(runs) /\ k \in Reconciled' /\ history'[k] = history[k]
    BY <1>2, <1>3 DEF Grown, Reconciled
  <2> QED  BY <2>1, <2>2 DEF Backed
<1>9. profiles'[Len(profiles')].decision = decision
  BY <1>2, <1>3 DEF Grown
<1>10. ASSUME NEW p \in 1..Len(profiles'), p \notin 1..Len(profiles),
              profiles'[p].decision = "accept"
       PROVE  Backed(p)'
  <2>1. p = Len(profiles') /\ decision = "accept"
    BY <1>7, <1>9, <1>10
  <2> QED  BY <1>8, <2>1
<1>11. Len(trust') <= MaxRecords /\ Len(runs') <= MaxRecords
  BY DEF TrustedInv, ReceiptsAreBound
<1> QED  BY <1>4, <1>6, <1>9, <1>10, <1>11, ReceiptsMove

(* The profile of a gate is there, and the last of its kind.                 *)
LEMMA Selecting ==
    ASSUME TrustedInv, Selected # 0
    PROVE  Selected \in 1..Len(profiles) /\ Current(Selected)
           /\ \A p \in 1..Len(profiles) : Current(p) => p <= Selected
<1> DEFINE fresh == {p \in 1..Len(profiles) : Current(p)}
<1>1. fresh # {} /\ Selected = CHOOSE p \in fresh : \A q \in fresh : q <= p
  BY DEF Selected
<1>2. Len(profiles) \in Nat
  BY DEF TrustedInv, RecordsTyped
<1>3. fresh \in SUBSET (1..Len(profiles))
  OBVIOUS
<1>4. \E p \in fresh : \A q \in fresh : q <= p
  <2> HIDE DEF fresh
  <2> QED  BY <1>1, <1>2, <1>3, LastExists
<1>5. Selected \in fresh /\ \A q \in fresh : q <= Selected
  <2> HIDE DEF fresh
  <2> QED  BY <1>1, <1>4
<1> QED  BY <1>5

(* A gate lets an uncertain source pass only by an accepted profile.         *)
LEMMA Allowing ==
    ASSUME TrustedInv, NEW p \in 1..Len(profiles), Allowed(p)
    PROVE  Uncertain => Accepted
<1>1. profiles[p].decision \in {"none", "accept", "remediate"}
  <2>1. profiles[p] \in PageProfile
    BY DEF TrustedInv, RecordsTyped
  <2> QED  BY <2>1 DEF PageProfile
<1> QED  BY <1>1 DEF Allowed, Uncertain, Accepted

(* A call on its way has read something that stands.                         *)
LEMMA InPhase ==
    ASSUME TrustedInv, NEW c \in Approver,
           approval[c].at \in {"commit", "current", "correlate", "promote", "trunk", "assess",
                "gate", "route", "complete", "source_changed", "parse_failed", "accept",
                "remediate", "continue"}
    PROVE  approval[c] \in Approval /\ ApprovalStands(approval[c])
<1>1. approval[c].at \in Phase
  BY DEF Phase
<1> QED  BY <1>1, Tips

(* A call rests, or starts on something it has found.                        *)
LEMMA Leaving ==
    ASSUME TrustedInv, NEW c \in Approver, Leaves(c), Reads
    PROVE  TrustedMove
BY ReadsMove DEF Leaves

(* A call that starts on what it has found is typed.                         *)
LEMMA Started ==
    ASSUME NEW phase \in Phase, NEW p \in 0..MaxRecords, NEW routed \in BOOLEAN
    PROVE  LET w == [Resting EXCEPT !.at = phase, !.profile = p]
               v == [Resting EXCEPT !.at = phase, !.routed = routed]
           IN  /\ w \in Approval /\ w.at = phase /\ w.profile = p /\ w.seen = 0
               /\ v \in Approval /\ v.at = phase /\ v.seen = 0
<1>1. 0 \in 0..MaxRecords
  BY TrustedAssumption
<1> QED  BY <1>1 DEF Resting, Approval

(* A call that finds the trunk or a route moves nothing.                     *)
LEMMA TrunkReadsKeep ==
    ASSUME TrustedInv, NEW c \in Approver, ReplayTrunk(c) \/ TakeRoute(c) \/ ChooseRoute(c)
    PROVE  TrustedMove
<1>1. CASE ReplayTrunk(c)
  BY <1>1, Leaving DEF ReplayTrunk
<1>2. CASE TakeRoute(c)
  <2>1. approval[c] \in Approval /\ ApprovalStands(approval[c])
    BY <1>2, InPhase DEF TakeRoute
  <2>2. PICK p \in NamedProfiles(Tip) :
        /\ Routable(p)
        /\ approval' = [approval EXCEPT ![c].at = "route", ![c].seen = Len(history),
                                        ![c].profile = p]
    BY <1>2 DEF TakeRoute
  <2>3. p \in 1..Len(profiles) /\ (Uncertain => Accepted) /\ p \in 0..MaxRecords
    <3>1. p \in 1..Len(profiles) /\ Allowed(p)
      BY <2>2 DEF NamedProfiles, Routable
    <3> QED  BY <3>1, Allowing, TrustedAssumption DEF TrustedInv, RecordsTyped, ReceiptsAreBound
  <2> PICK b \in Approval : b = approval[c]
    BY <2>1
  <2> DEFINE w == [b EXCEPT !.at = "route", !.seen = Len(history), !.profile = p]
  <2>4. w \in Approval /\ w.at = "route" /\ w.seen = Len(history) /\ w.profile = p
    <3>1. "route" \in Phase /\ Len(history) \in Nat
      BY Tips DEF Phase
    <3> QED  BY <2>3, <3>1 DEF Approval
  <2>5. approval' = [approval EXCEPT ![c] = w]
    BY <2>2 DEF TrustedInv, GivenTyped
  <2> HIDE DEF w
  <2>6. ApprovalStands(w)
    BY <2>3, <2>4, Tips DEF ApprovalStands
  <2> QED  BY <1>2, <2>4, <2>5, <2>6, ReadsMove DEF TakeRoute
<1>3. CASE ChooseRoute(c)
  <2> DEFINE w == [Resting EXCEPT !.at = "trunk", !.routed = TRUE]
  <2>1. w \in Approval /\ w.at = "trunk" /\ w.seen = 0
    <3>1. "trunk" \in Phase /\ 0 \in 0..MaxRecords
      BY TrustedAssumption DEF Phase
    <3> QED  BY <3>1 DEF Resting, Approval
  <2> HIDE DEF w
  <2>2. runs # <<>>
    BY <1>3 DEF ChooseRoute, JobRuns, Recorded
  <2>3. ApprovalStands(w)
    BY <2>1, <2>2, Tips DEF ApprovalStands
  <2> QED  BY <1>3, <2>1, <2>3, ReadsMove DEF ChooseRoute, w
<1> QED  BY <1>1, <1>2, <1>3

(* A transition that names no more than a profile.                           *)
LEMMA ProfileTransitions ==
    ASSUME TrustedInv, NEW c \in Approver, NEW n \in Nat, NEW status \in JobStatus,
           NEW node \in JobNode \ {"reconcile", "execution"},
           NEW added \in SUBSET ({"profile"} \X (1..MaxRecords)), NEW phase \in Phase \cup {"idle"},
           Transition(c, n, status, node, added, phase),
           status = "completed" => (Uncertain => Accepted),
           \/ phase \in {"idle", "source_changed", "parse_failed"}
           \/ phase = "assess" /\ runs # <<>>
           \/ phase \in {"route", "complete"} /\ approval[c].profile \in 1..Len(profiles)
              /\ (Uncertain => Accepted)
    PROVE  TrustedMove
<1>1. added \in SUBSET Entry /\ MayAdd(n, added) /\ MayEnter(status, node, added)
  BY DEF Entry, MayAdd, MayEnter
<1>2. /\ StoresMove /\ UNCHANGED <<route, source, slips, profiles, runs, trust, verdict>>
      /\ \E w \in {Resting} \cup Approval :
                /\ approval' = [approval EXCEPT ![c] = w]
                /\ phase = "idle" => w = Resting
                /\ phase # "idle" =>
                    /\ w \in Approval /\ w.at = phase /\ w.seen = Len(history')
                    /\ w.authority = approval[c].authority /\ w.profile = approval[c].profile
  BY <1>1, JobMoves
<1>3. PICK w \in {Resting} \cup Approval :
                /\ approval' = [approval EXCEPT ![c] = w]
                /\ phase = "idle" => w = Resting
                /\ phase # "idle" =>
                    /\ w \in Approval /\ w.at = phase /\ w.seen = Len(history')
                    /\ w.authority = approval[c].authority /\ w.profile = approval[c].profile
  BY <1>2
<1>4. ASSUME w # Resting
      PROVE  ApprovalStands(w)'
  <2>1. /\ phase # "idle" /\ w.at = phase /\ w.seen = Len(history') /\ Len(history') \in Nat
        /\ w.profile = approval[c].profile
    BY <1>2, <1>3, <1>4 DEF StoresMove, HistoryStands
  <2>2. (Uncertain => Accepted) => (Uncertain' => Accepted')
    BY <1>2 DEF Uncertain, Accepted
  <2> QED  BY <1>2, <2>1, <2>2 DEF ApprovalStands
<1>5. source' \in {"registered", "edited"} /\ slips' \in 0..MaxFaults
  BY <1>2 DEF TrustedInv, GivenTyped
<1> QED  BY <1>2, <1>3, <1>4, <1>5, ApprovalMoves

(* The trunk names profiles only, and completes the job of an uncertain      *)
(* source only by an accepted one.                                           *)
LEMMA TrunkStepsKeep ==
    ASSUME TrustedInv, NEW c \in Approver,
           EnterTrunk(c) \/ AwaitSource(c) \/ Gate(c) \/ CompleteRoute(c) \/ FinishRoute(c)
    PROVE  TrustedMove
<1> DEFINE named == {<<"profile", approval[c].profile>>}
<1>1. /\ {} \in SUBSET ({"profile"} \X (1..MaxRecords))
      /\ {"running", "waiting_source", "waiting_user", "completed"} \subseteq JobStatus
      /\ {"source_check", "semantic_route", "source_adequacy", "semantic_gate"}
            \subseteq JobNode \ {"reconcile", "execution"}
      /\ {"assess", "route", "complete", "idle"} \subseteq Phase \cup {"idle"}
  BY DEF JobStatus, JobNode, Waiting, Final, TrunkNode, Phase
<1>2. ASSUME approval[c] \in Approval, approval[c].profile \in 1..Len(profiles)
      PROVE  named \in SUBSET ({"profile"} \X (1..MaxRecords)) /\ approval[c].seen \in Nat
  BY <1>2, TrustedAssumption DEF TrustedInv, RecordsTyped, ReceiptsAreBound, Approval
<1>3. CASE EnterTrunk(c)
  <2>1. /\ approval[c] \in Approval /\ ApprovalStands(approval[c])
        /\ approval[c].at = "trunk" /\ runs # <<>>
    BY <1>3, InPhase DEF EnterTrunk, ApprovalStands
  <2>2. CASE Tip.status = "running"
    <3>1. EntersAt(c, "assess", Len(history)) /\ Reads /\ "assess" \in Phase
      BY <1>3, <2>2 DEF EnterTrunk, EntersAt, Phase
    <3>2. PICK w \in Approval :
             /\ approval' = [approval EXCEPT ![c] = w]
             /\ w.at = "assess" /\ w.seen = Len(history)
             /\ w.authority = approval[c].authority /\ w.profile = approval[c].profile
      BY <2>1, <3>1, Tips, EnteredAt
    <3>3. ApprovalStands(w)
      BY <2>1, <3>2, Tips DEF ApprovalStands
    <3> QED  BY <3>1, <3>2, <3>3, ReadsMove
  <2>3. CASE Tip.status # "running"
    <3>1. Transition(c, Len(history), "running", "source_check", {}, "assess")
      BY <1>3, <2>3 DEF EnterTrunk
    <3> QED  BY <1>1, <2>1, <3>1, Tips, ProfileTransitions
  <2> QED  BY <2>2, <2>3
<1>4. CASE AwaitSource(c)
  <2>1. approval[c] \in Approval /\ approval[c].seen \in Nat
    BY <1>4, InPhase DEF AwaitSource, Approval
  <2>2. Transition(c, approval[c].seen, "waiting_source", "source_check", {}, "idle")
    BY <1>4 DEF AwaitSource
  <2> QED  BY <1>1, <2>1, <2>2, ProfileTransitions
<1>5. CASE Gate(c)
  <2>1. /\ approval[c] \in Approval /\ approval[c].profile \in 1..Len(profiles)
    BY <1>5, InPhase DEF Gate, ApprovalStands
  <2>2. CASE Selected # 0 /\ Allowed(Selected)
    <3>1. Uncertain => Accepted
      BY <2>2, Selecting, Allowing
    <3>2. PICK phase \in {"route", "idle"} :
            Transition(c, approval[c].seen, "waiting_user", "semantic_route", named, phase)
      BY <1>5, <2>2 DEF Gate
    <3> HIDE DEF named
    <3> QED  BY <1>1, <1>2, <2>1, <3>1, <3>2, ProfileTransitions
  <2>3. CASE ~(Selected # 0 /\ Allowed(Selected))
    <3>1. PICK status \in {"waiting_user", "waiting_source"} :
            Transition(c, approval[c].seen, status, "source_adequacy", named, "idle")
      BY <1>5, <2>3 DEF Gate
    <3> HIDE DEF named
    <3> QED  BY <1>1, <1>2, <2>1, <3>1, ProfileTransitions
  <2> QED  BY <2>2, <2>3
<1>6. CASE CompleteRoute(c)
  <2>1. /\ approval[c] \in Approval /\ approval[c].profile \in 1..Len(profiles)
        /\ (Uncertain => Accepted)
    BY <1>6, InPhase DEF CompleteRoute, ApprovalStands
  <2>2. Transition(c, approval[c].seen, "running", "semantic_gate", named, "complete")
    BY <1>6 DEF CompleteRoute
  <2> HIDE DEF named
  <2> QED  BY <1>1, <1>2, <2>1, <2>2, ProfileTransitions
<1>7. CASE FinishRoute(c)
  <2>1. /\ approval[c] \in Approval /\ approval[c].profile \in 1..Len(profiles)
        /\ (Uncertain => Accepted)
    BY <1>7, InPhase DEF FinishRoute, ApprovalStands
  <2>2. Transition(c, approval[c].seen, "completed", "semantic_gate", named, "idle")
    BY <1>7 DEF FinishRoute
  <2> HIDE DEF named
  <2> QED  BY <1>1, <1>2, <2>1, <2>2, ProfileTransitions
<1> QED  BY <1>3, <1>4, <1>5, <1>6, <1>7

(* A failed call leaves its job where it says and names no receipt.          *)
LEMMA FailuresKeep ==
    ASSUME TrustedInv, NEW c \in Approver, FailApproval(c)
    PROVE  TrustedMove
<1>1. approval[c].seen \in Nat
  <2>1. approval[c] \in {Resting} \cup Approval
    BY DEF TrustedInv, GivenTyped
  <2> QED  BY <2>1 DEF Approval, Resting
<1>2. /\ {} \in SUBSET ({"profile"} \X (1..MaxRecords))
      /\ {"running", "waiting_source", "waiting_user"} \subseteq JobStatus
      /\ {"authority", "failure_routing", "source_changed", "parse_failed"}
            \subseteq JobNode \ {"reconcile", "execution"}
      /\ {"source_changed", "parse_failed", "idle"} \subseteq Phase \cup {"idle"}
  BY DEF JobStatus, JobNode, Waiting, Failed, Trusted, Phase
<1>3. PICK n \in Nat, status \in {"running", "waiting_source", "waiting_user"},
           node \in {"authority", "failure_routing", "source_changed", "parse_failed"},
           phase \in {"source_changed", "parse_failed", "idle"} :
        Transition(c, n, status, node, {}, phase)
  BY <1>1, Tips DEF FailApproval, RouteFailure
<1>4. status # "completed"
  OBVIOUS
<1> QED  BY <1>1, <1>2, <1>3, <1>4, ProfileTransitions

(* An assessment adds a machine profile or takes the newest one up.          *)
LEMMA AssessKeeps ==
    ASSUME TrustedInv, NEW c \in Approver, Assess(c)
    PROVE  TrustedMove
<1>1. /\ approval[c].at = "assess" /\ UNCHANGED <<given, history, trust, runs, slips>>
  BY DEF Assess
<1>2. /\ approval[c] \in Approval /\ ApprovalStands(approval[c]) /\ runs # <<>>
      /\ approval[c].seen <= Len(history) /\ "gate" \in Phase
  BY <1>1, InPhase DEF ApprovalStands, Phase
<1>3. PICK p \in 1..MaxRecords :
        EntersWith(c, "gate", p) /\ p \in 1..Len(profiles') /\ StoresMove
  <2>1. CASE Selected # 0 /\ UNCHANGED profiles
             /\ approval' = [approval EXCEPT ![c].at = "gate", ![c].profile = Selected]
    <3>1. Selected \in 1..Len(profiles) /\ Selected \in 1..MaxRecords
      BY <2>1, Selecting, TrustedAssumption DEF TrustedInv, RecordsTyped, ReceiptsAreBound
    <3>2. EntersWith(c, "gate", Selected)
      BY <2>1 DEF EntersWith
    <3>3. StoresMove
      BY <1>1, <2>1, ReadsKeep DEF given
    <3> QED  BY <2>1, <3>1, <3>2, <3>3
  <2>2. CASE AddProfile(0, "none")
             /\ approval' = [approval EXCEPT ![c].at = "gate", ![c].profile = Len(profiles')]
    <3>1. 0 \in 0..MaxRecords /\ UNCHANGED <<verdict, history, trust, runs>>
      BY <1>1, TrustedAssumption DEF given
    <3>2. StoresMove /\ Len(profiles') \in 1..MaxRecords
      BY <1>2, <2>2, <3>1, ProfileAppends
    <3>3. EntersWith(c, "gate", Len(profiles'))
      BY <2>2 DEF EntersWith
    <3> QED  BY <3>2, <3>3
  <2> QED  BY <2>1, <2>2 DEF Assess
<1>4. p \in 0..MaxRecords
  OBVIOUS
<1>5. PICK w \in Approval :
             /\ approval' = [approval EXCEPT ![c] = w]
             /\ w.at = "gate" /\ w.seen = approval[c].seen
             /\ w.authority = approval[c].authority /\ w.profile = p
  BY <1>2, <1>3, <1>4, EnteredWith
<1>6. ApprovalStands(w)'
  BY <1>1, <1>2, <1>3, <1>5 DEF ApprovalStands
<1>7. route' = route /\ source' \in {"registered", "edited"} /\ slips' \in 0..MaxFaults
  BY <1>1 DEF given, TrustedInv, GivenTyped
<1> QED  BY <1>3, <1>5, <1>6, <1>7, ApprovalMoves

-----------------------------------------------------------------------------
(* A decision is on a profile there is; an accepted one may be continued.    *)
LEMMA DecideKeeps ==
    ASSUME TrustedInv, NEW c \in Approver, Decide(c) \/ ReplayDecision(c)
    PROVE  TrustedMove
<1>1. CASE Decide(c)
  <2>0. PICK n \in Origins : \E b \in NamedProfiles(history[n]), word \in {"accept", "remediate"} :
        /\ Binds(n, b)
        /\ approval' = [approval EXCEPT ![c] = [Resting EXCEPT !.at = word, !.profile = b]]
    BY <1>1 DEF Decide
  <2>1. PICK b \in NamedProfiles(history[n]), word \in {"accept", "remediate"} :
        /\ Binds(n, b)
        /\ approval' = [approval EXCEPT ![c] = [Resting EXCEPT !.at = word, !.profile = b]]
    BY <2>0
  <2>2. b \in 1..Len(profiles) /\ b \in 0..MaxRecords
    BY TrustedAssumption DEF NamedProfiles, TrustedInv, RecordsTyped, ReceiptsAreBound
  <2>3. Backed(b)
    <3>1. PICK a \in Authorities : BoundOnce(ReceiptsOf(a, profiles[b].run))
      BY <2>1 DEF Binds, Lineage
    <3> QED  BY <3>1 DEF BoundOnce, ReceiptsOf, Backed
  <2> DEFINE w == [Resting EXCEPT !.at = word, !.profile = b]
  <2>4. w \in Approval /\ w.at = word /\ w.profile = b /\ w.seen = 0
    <3>1. word \in Phase
      BY DEF Phase
    <3> QED  BY <2>2, <3>1, Started
  <2>5. approval' = [approval EXCEPT ![c] = w]
    BY <2>1
  <2> HIDE DEF w
  <2>6. ApprovalStands(w)
    BY <2>2, <2>3, <2>4, Tips DEF ApprovalStands
  <2> QED  BY <1>1, <2>4, <2>5, <2>6, ReadsMove DEF Decide
<1>2. CASE ReplayDecision(c)
  <2>1. PICK p \in 1..Len(profiles) :
        /\ profiles[p].decision = "accept"
        /\ approval' = [approval EXCEPT ![c] = [Resting EXCEPT !.at = "continue", !.profile = p]]
    BY <1>2 DEF ReplayDecision, Decisions
  <2>2. p \in 0..MaxRecords
    BY TrustedAssumption DEF TrustedInv, RecordsTyped, ReceiptsAreBound
  <2> DEFINE w == [Resting EXCEPT !.at = "continue", !.profile = p]
  <2>3. w \in Approval /\ w.at = "continue" /\ w.profile = p /\ w.seen = 0
    <3>1. "continue" \in Phase
      BY DEF Phase
    <3> QED  BY <2>2, <3>1, Started
  <2>4. approval' = [approval EXCEPT ![c] = w]
    BY <2>1
  <2> HIDE DEF w
  <2>5. ApprovalStands(w)
    BY <2>1, <2>3, Tips DEF ApprovalStands
  <2> QED  BY <1>2, <2>3, <2>4, <2>5, ReadsMove DEF ReplayDecision
<1> QED  BY <1>1, <1>2

(* The word of the user is bound to the pages the job was reconciled with:   *)
(* the lineage was the same when the decision was prepared.                  *)
LEMMA RecordDecisionKeeps ==
    ASSUME TrustedInv, NEW c \in Approver, RecordDecision(c)
    PROVE  TrustedMove
<1> DEFINE b == approval[c].profile
<1>1. /\ approval[c].at \in {"accept", "remediate"} /\ Current(b)
      /\ UNCHANGED <<given, history, trust, runs, slips>>
  BY DEF RecordDecision
<1> PICK word \in {"accept", "remediate"} : word = approval[c].at
  BY <1>1
<1>2. /\ approval[c] \in Approval /\ ApprovalStands(approval[c])
      /\ b \in 1..Len(profiles) /\ Backed(b) /\ approval[c].seen <= Len(history)
      /\ "continue" \in Phase
  BY <1>1, InPhase DEF ApprovalStands, Phase
<1>3. b \in 0..MaxRecords /\ runs # <<>> /\ profiles[b].run = Len(runs)
  <2>1. profiles[b] \in PageProfile /\ Len(profiles) <= MaxRecords
    BY <1>2 DEF TrustedInv, RecordsTyped, ReceiptsAreBound
  <2>2. profiles[b].run = Len(runs) /\ profiles[b].run # 0
    BY <1>1, <2>1 DEF Current, PageProfile
  <2>3. runs # <<>>
    BY <2>2 DEF TrustedInv, RecordsTyped
  <2> QED  BY <1>2, <2>1, <2>2, <2>3, TrustedAssumption DEF TrustedInv, RecordsTyped
<1>4. PICK p \in 1..MaxRecords :
        /\ p \in 1..Len(profiles') /\ StoresMove /\ profiles'[p].decision = word
        /\ IF word = "remediate" THEN Leaves(c) ELSE EntersWith(c, "continue", p)
  <2>1. CASE \E p \in Decisions(b) :
                /\ profiles[p].decision = word
                /\ IF word = "remediate" THEN Leaves(c)
                   ELSE approval' = [approval EXCEPT ![c].at = "continue", ![c].profile = p]
                /\ UNCHANGED profiles
    <3>1. PICK p \in Decisions(b) :
                /\ profiles[p].decision = word
                /\ IF word = "remediate" THEN Leaves(c) ELSE EntersWith(c, "continue", p)
                /\ UNCHANGED profiles
      BY <2>1 DEF EntersWith
    <3>2. p \in 1..Len(profiles) /\ p \in 1..MaxRecords
      BY TrustedAssumption DEF Decisions, TrustedInv, RecordsTyped, ReceiptsAreBound
    <3>3. StoresMove
      BY <1>1, <3>1, ReadsKeep DEF given
    <3> QED  BY <3>1, <3>2, <3>3
  <2>2. CASE /\ AddProfile(b, word)
             /\ IF word = "remediate" THEN Leaves(c)
                ELSE approval' = [approval EXCEPT ![c].at = "continue",
                                                  ![c].profile = Len(profiles')]
    <3>1. UNCHANGED <<verdict, history, trust, runs>>
      BY <1>1 DEF given
    <3>2. \E k \in Reconciled : <<"run", Len(runs)>> \in history[k].outputs
      BY <1>2, <1>3 DEF Backed
    <3>3. /\ StoresMove /\ Len(profiles') \in 1..MaxRecords
          /\ profiles'[Len(profiles')].decision = word
      <4>1. word \in {"none", "accept", "remediate"} /\ AddProfile(b, word)
        BY <2>2
      <4> HIDE DEF b
      <4> QED  BY <1>3, <3>1, <3>2, <4>1, ProfileAppends
    <3>4. word # "remediate" => EntersWith(c, "continue", Len(profiles'))
      BY <2>2 DEF EntersWith
    <3> QED  BY <2>2, <3>3, <3>4
  <2> QED  BY <2>1, <2>2 DEF RecordDecision
<1>5. route' = route /\ source' \in {"registered", "edited"} /\ slips' \in 0..MaxFaults
  BY <1>1 DEF given, TrustedInv, GivenTyped
<1>6. CASE word = "remediate"
  BY <1>4, <1>5, <1>6, ApprovalMoves DEF Leaves
<1>7. CASE word # "remediate"
  <2>1. p \in 0..MaxRecords /\ EntersWith(c, "continue", p)
    BY <1>4, <1>7
  <2>2. PICK w \in Approval :
             /\ approval' = [approval EXCEPT ![c] = w]
             /\ w.at = "continue" /\ w.seen = approval[c].seen
             /\ w.authority = approval[c].authority /\ w.profile = p
    BY <1>2, <2>1, EnteredWith
  <2>3. ApprovalStands(w)'
    BY <1>1, <1>2, <1>4, <1>7, <2>2 DEF ApprovalStands
  <2> QED  BY <1>4, <1>5, <2>2, <2>3, ApprovalMoves
<1> QED  BY <1>6, <1>7

(* An accepted decision goes on from the state it was found at.              *)
LEMMA ContinueDecisionKeeps ==
    ASSUME TrustedInv, NEW c \in Approver, ContinueDecision(c)
    PROVE  TrustedMove
<1>1. approval[c].at = "continue" /\ Reads
  BY DEF ContinueDecision
<1>2. /\ approval[c] \in Approval /\ approval[c].profile \in 1..Len(profiles)
      /\ profiles[approval[c].profile].decision = "accept"
  BY <1>1, InPhase DEF ApprovalStands
<1>3. Accepted
  BY <1>2 DEF Accepted
<1>4. \/ Leaves(c)
      \/ \E n \in 1..Len(history), phase \in {"route", "complete"} : EntersAt(c, phase, n)
  <2>1. PICK n \in Origins :
         CASE n = Len(history) ->
                      approval' = [approval EXCEPT ![c].at = "route", ![c].seen = n]
           [] n + 1 = Len(history) ->
                      approval' = [approval EXCEPT ![c].at = "complete", ![c].seen = n + 1]
           [] OTHER -> Leaves(c)
    BY DEF ContinueDecision
  <2>2. n \in 1..Len(history) /\ Len(history) \in Nat
    BY Tips DEF Origins
  <2>3. CASE n = Len(history)
    BY <2>1, <2>2, <2>3 DEF EntersAt
  <2>4. CASE n # Len(history) /\ n + 1 = Len(history)
    <3>1. EntersAt(c, "complete", n + 1) /\ n + 1 \in 1..Len(history)
      BY <2>1, <2>2, <2>4 DEF EntersAt
    <3> QED  BY <3>1
  <2>5. CASE n # Len(history) /\ n + 1 # Len(history)
    BY <2>1, <2>5
  <2> QED  BY <2>3, <2>4, <2>5
<1>5. ASSUME NEW n \in 1..Len(history), NEW phase \in {"route", "complete"}, EntersAt(c, phase, n)
      PROVE  TrustedMove
  <2>1. phase \in Phase /\ n \in Nat /\ n <= Len(history)
    BY Tips DEF Phase
  <2>2. PICK w \in Approval :
             /\ approval' = [approval EXCEPT ![c] = w]
             /\ w.at = phase /\ w.seen = n
             /\ w.authority = approval[c].authority /\ w.profile = approval[c].profile
    BY <1>2, <1>5, <2>1, EnteredAt
  <2>3. ApprovalStands(w)
    BY <1>2, <1>3, <2>1, <2>2 DEF ApprovalStands
  <2> QED  BY <1>1, <2>2, <2>3, ReadsMove
<1> QED  BY <1>1, <1>4, <1>5, Leaving

-----------------------------------------------------------------------------
(* A call that is refused or dies leaves what it has committed.              *)
LEMMA EndingsKeep ==
    ASSUME TrustedInv, NEW c \in Approver, RefuseApproval(c) \/ KillApproval(c)
    PROVE  TrustedMove
<1>1. CASE RefuseApproval(c)
  BY <1>1, Leaving DEF RefuseApproval
<1>2. CASE KillApproval(c)
  <2>1. StoresMove /\ UNCHANGED <<route, source>>
    BY <1>2, ReadsKeep DEF KillApproval, given, receipts
  <2>2. source' \in {"registered", "edited"} /\ slips' \in 0..MaxFaults
    BY <1>2, <2>1, FaultAssumption DEF KillApproval, Slip, TrustedInv, GivenTyped
  <2> QED  BY <1>2, <2>1, <2>2, ApprovalMoves DEF KillApproval, Leaves
<1> QED  BY <1>1, <1>2

(* The authorities are marked; none that is recorded is lost.                *)
LEMMA TrustMarked ==
    ASSUME TrustedInv, trust' \in Seq(AuthorityReceipt), Len(trust') = Len(trust),
           \A n \in 1..Len(trust) : trust[n].event = "recorded" => trust'[n].event = "recorded",
           UNCHANGED <<verdict, history, runs, profiles>>
    PROVE  StoresMove
<1>1. Authorities \subseteq Authorities'
  BY DEF Authorities, Recorded
<1>2. ReceiptsGrow /\ RecordsTyped'
  BY <1>1 DEF ReceiptsGrow, RecordsTyped, TrustedInv, JobRuns, Recorded
<1>3. /\ Len(trust') <= MaxRecords /\ Len(runs') <= MaxRecords /\ Len(profiles') <= MaxRecords
      /\ \A p \in 1..Len(profiles') : p \in 1..Len(profiles)
  BY DEF TrustedInv, ReceiptsAreBound
<1> QED  BY <1>2, <1>3, ReceiptsMove

(* Revoked or expired, a recorded authority stays recorded.                  *)
LEMMA AuthoritiesKeep ==
    ASSUME TrustedInv, NEW a \in 1..MaxRecords, Revoke(a) \/ Expire(a)
    PROVE  TrustedMove
<1>1. trust \in Seq(AuthorityReceipt) /\ Len(trust) \in Nat
  BY DEF TrustedInv, RecordsTyped
<1>2. CASE Revoke(a)
  <2> DEFINE r(n) == [trust[n] EXCEPT !.decision = IF n = a THEN "revoked" ELSE @,
                                      !.event = IF @ = "open" THEN "parked" ELSE @]
  <2>1. trust' = [n \in 1..Len(trust) |-> r(n)]
    BY <1>2 DEF Revoke
  <2>2. ASSUME NEW n \in 1..Len(trust)
        PROVE  r(n) \in AuthorityReceipt /\ (trust[n].event = "recorded" => r(n).event = "recorded")
    <3> PICK t \in AuthorityReceipt : t = trust[n]
      BY <1>1
    <3> DEFINE d == IF n = a THEN "revoked" ELSE t.decision
               e == IF t.event = "open" THEN "parked" ELSE t.event
    <3>1. d \in {"active", "revoked"} /\ e \in Outcome /\ (t.event = "recorded" => e = "recorded")
      BY DEF AuthorityReceipt, Outcome
    <3> HIDE DEF d, e
    <3>2. /\ [t EXCEPT !.decision = d, !.event = e] \in AuthorityReceipt
          /\ [t EXCEPT !.decision = d, !.event = e].event = e
      BY <3>1 DEF AuthorityReceipt
    <3>3. r(n) = [t EXCEPT !.decision = d, !.event = e]
      BY DEF d, e, AuthorityReceipt
    <3> QED  BY <3>1, <3>2, <3>3
  <2> HIDE DEF r
  <2>3. trust' \in [1..Len(trust) -> AuthorityReceipt]
    BY <2>1, <2>2
  <2>4. trust' \in Seq(AuthorityReceipt) /\ Len(trust') = Len(trust)
    BY <1>1, <2>3
  <2>5. \A n \in 1..Len(trust) : trust[n].event = "recorded" => trust'[n].event = "recorded"
    BY <2>1, <2>2
  <2>6. StoresMove /\ UNCHANGED <<route, source, approval>>
    BY <1>2, <2>4, <2>5, TrustMarked DEF Revoke, given
  <2>7. slips \in 0..MaxFaults /\ slips < MaxFaults /\ slips' = slips + 1
    BY <1>2 DEF Revoke, Slip, TrustedInv, GivenTyped
  <2>8. slips' \in 0..MaxFaults
    BY <2>7, FaultAssumption
  <2>9. source' \in {"registered", "edited"}
    BY <2>6 DEF TrustedInv, GivenTyped
  <2> QED  BY <2>6, <2>8, <2>9, ApprovalsStay
<1>3. CASE Expire(a)
  <2>1. a \in 1..Len(trust) /\ trust[a] \in AuthorityReceipt
        /\ trust' = [trust EXCEPT ![a].expired = TRUE]
    BY <1>1, <1>3 DEF Expire
  <2> PICK t \in AuthorityReceipt : t = trust[a]
    BY <2>1
  <2> DEFINE r == [t EXCEPT !.expired = TRUE]
  <2>2. r \in AuthorityReceipt
    BY DEF AuthorityReceipt
  <2>3. r.event = t.event
    BY DEF AuthorityReceipt
  <2>4. trust' = [trust EXCEPT ![a] = r]
    BY <1>1, <2>1
  <2> HIDE DEF r
  <2>a. trust \in [1..Len(trust) -> AuthorityReceipt]
    BY <1>1
  <2>b. trust' \in [1..Len(trust) -> AuthorityReceipt]
    BY <2>2, <2>4, <2>a
  <2>5. trust' \in Seq(AuthorityReceipt) /\ Len(trust') = Len(trust)
    BY <1>1, <2>b
  <2>6. \A n \in 1..Len(trust) : trust[n].event = "recorded" => trust'[n].event = "recorded"
    BY <1>1, <2>1, <2>3, <2>4
  <2>7. StoresMove /\ UNCHANGED <<route, source, approval, slips>>
    BY <1>3, <2>5, <2>6, TrustMarked DEF Expire, given
  <2>8. source' \in {"registered", "edited"} /\ slips' \in 0..MaxFaults
    BY <2>7 DEF TrustedInv, GivenTyped
  <2> QED  BY <2>7, <2>8, ApprovalsStay
<1> QED  BY <1>2, <1>3

(* An edited source, and a parse outside the job, leave the job as it is.    *)
LEMMA SourceKeeps ==
    ASSUME TrustedInv, EditSource \/ RestoreSource \/ ParseDirectly
    PROVE  TrustedMove
<1>1. CASE EditSource \/ RestoreSource
  <2>1. UNCHANGED <<route, approval, verdict, history, trust, runs, profiles>>
    BY <1>1 DEF EditSource, RestoreSource, receipts
  <2>2. source' \in {"registered", "edited"} /\ slips' \in 0..MaxFaults
    BY <1>1, FaultAssumption DEF EditSource, RestoreSource, Slip, TrustedInv, GivenTyped
  <2> QED  BY <2>1, <2>2, ReadsKeep, ApprovalsStay
<1>2. CASE ParseDirectly
  <2> DEFINE r == [authority |-> 0, timely |-> TRUE, event |-> "recorded"]
  <2>1. r \in RunReceipt
    BY TrustedAssumption DEF RunReceipt, Outcome
  <2>2. runs' = Append(runs, r) /\ Len(runs) < MaxRecords
        /\ UNCHANGED <<route, source, approval, verdict, history, trust, profiles>>
    BY <1>2 DEF ParseDirectly, given
  <2> HIDE DEF r
  <2>3. runs' \in Seq(RunReceipt) /\ Grown(runs, runs', r)
    BY <2>1, <2>2, Appending DEF TrustedInv, RecordsTyped
  <2>4. StoresMove
    BY <2>1, <2>2, <2>3, RunsAppend
  <2>5. source' \in {"registered", "edited"} /\ slips' \in 0..MaxFaults
    BY <1>2, <2>2, FaultAssumption DEF ParseDirectly, Slip, TrustedInv, GivenTyped
  <2> QED  BY <2>2, <2>4, <2>5, ApprovalsStay
<1> QED  BY <1>1, <1>2

(* A cancelled or recovering job keeps its outputs.                          *)
LEMMA JobsKeep ==
    ASSUME TrustedInv, CancelTrusted \/ RecoverTrusted
    PROVE  TrustedMove
<1>1. PICK status \in {"cancelled", "recovering"} :
        history' = Append(history, State(status, Tip.node, Tip.outputs))
  BY DEF CancelTrusted, RecoverTrusted
<1> DEFINE t == State(status, Tip.node, Tip.outputs)
<1>2. /\ t \in JobState /\ t.status = status /\ t.node = Tip.node /\ t.outputs = Tip.outputs
  BY Tips DEF State, JobState, Final
<1> HIDE DEF t
<1>3. StateStands(t)
  BY <1>2, Tips DEF StateStands, TrustsOf, RunsOf
<1>4. AppendedState(t)
  BY <1>1, <1>2, AppendedStates DEF TrustedInv, HistoryStands, t
<1>5. UNCHANGED <<route, source, verdict, receipts, approval>>
  BY DEF CancelTrusted, RecoverTrusted, given, receipts
<1>6. StoresMove
  BY <1>2, <1>3, <1>4, <1>5, HistoryMoves
<1>7. source' \in {"registered", "edited"} /\ slips' \in 0..MaxFaults
  BY <1>5, FaultAssumption DEF CancelTrusted, RecoverTrusted, Slip, TrustedInv, GivenTyped
<1> QED  BY <1>5, <1>6, <1>7, ApprovalsStay

(* Recovery resolves the open commits and changes nothing else of a store.   *)
WithEvent(r, e) == [r EXCEPT !.event = e]
Keeps(S) == \A r \in S, e \in Outcome : WithEvent(r, e) \in S

(* Only the event of an open commit is another.                              *)
LEMMA ResolvedLogs ==
    ASSUME NEW S, NEW log \in Seq(S), Keeps(S)
    PROVE  /\ Resolved(log) \in Seq(S) /\ Len(Resolved(log)) = Len(log)
           /\ \A n \in 1..Len(log) :
                \/ Resolved(log)[n] = log[n]
                \/ log[n].event = "open"
                   /\ \E e \in Outcome : Resolved(log)[n] = WithEvent(log[n], e)
<1>1. ASSUME NEW n \in 1..Len(log)
      PROVE  /\ \/ Resolved(log)[n] = log[n]
                \/ log[n].event = "open"
                   /\ \E e \in Outcome : Resolved(log)[n] = WithEvent(log[n], e)
             /\ Resolved(log)[n] \in S
  <2> DEFINE e == IF n = Len(log) THEN "recorded" ELSE "parked"
  <2>1. Resolved(log)[n] = IF log[n].event # "open" THEN log[n] ELSE WithEvent(log[n], e)
    BY DEF Resolved, WithEvent
  <2>2. e \in Outcome
    BY DEF Outcome
  <2> HIDE DEF e
  <2>3. log[n] \in S
    OBVIOUS
  <2>4. WithEvent(log[n], e) \in S
    BY <2>2, <2>3 DEF Keeps
  <2> QED  BY <2>1, <2>2, <2>3, <2>4
<1>2. Resolved(log) \in [1..Len(log) -> S] /\ Len(log) \in Nat
  <2>1. Resolved(log) = [n \in 1..Len(log) |-> Resolved(log)[n]]
    BY DEF Resolved
  <2> HIDE DEF Resolved
  <2> QED  BY <1>1, <2>1
<1>3. Resolved(log) \in Seq(S) /\ Len(Resolved(log)) = Len(log)
  <2> HIDE DEF Resolved
  <2> QED  BY <1>2
<1> QED  BY <1>1, <1>3

(* Recovery settles open commits and takes no recorded one back.             *)
LEMMA RecoverCommitsKeeps == ASSUME TrustedInv, RecoverCommits PROVE TrustedMove
<1>1. trust \in Seq(AuthorityReceipt) /\ runs \in Seq(RunReceipt)
      /\ trust' = Resolved(trust) /\ runs' = Resolved(runs)
      /\ UNCHANGED <<route, source, verdict, history, profiles, approval, slips>>
  BY DEF RecoverCommits, TrustedInv, RecordsTyped, given
<1>2. Keeps(AuthorityReceipt)
  BY DEF AuthorityReceipt, Keeps, WithEvent
<1>3. Keeps(RunReceipt)
  BY DEF RunReceipt, Keeps, WithEvent
<1>4. ASSUME NEW r \in RunReceipt, NEW e \in Outcome
      PROVE  WithEvent(r, e).authority = r.authority /\ WithEvent(r, e).timely = r.timely
  BY DEF RunReceipt, WithEvent
<1>5. /\ trust' \in Seq(AuthorityReceipt) /\ Len(trust') = Len(trust)
      /\ \A n \in 1..Len(trust) : trust[n].event = "recorded" => trust'[n] = trust[n]
  <2>1. /\ Resolved(trust) \in Seq(AuthorityReceipt) /\ Len(Resolved(trust)) = Len(trust)
        /\ \A n \in 1..Len(trust) : Resolved(trust)[n] = trust[n] \/ trust[n].event = "open"
    BY <1>1, <1>2, ResolvedLogs
  <2> QED  BY <1>1, <2>1
<1>6. /\ runs' \in Seq(RunReceipt) /\ Len(runs') = Len(runs)
      /\ \A n \in 1..Len(runs) : runs[n].event = "recorded" => runs'[n] = runs[n]
      /\ \A n \in 1..Len(runs) :
            runs'[n] = runs[n] \/ \E e \in Outcome : runs'[n] = WithEvent(runs[n], e)
  <2>1. /\ Resolved(runs) \in Seq(RunReceipt) /\ Len(Resolved(runs)) = Len(runs)
        /\ \A n \in 1..Len(runs) :
             \/ Resolved(runs)[n] = runs[n]
             \/ runs[n].event = "open"
                /\ \E e \in Outcome : Resolved(runs)[n] = WithEvent(runs[n], e)
    BY <1>1, <1>3, ResolvedLogs
  <2> QED  BY <1>1, <2>1
<1>7. ASSUME NEW n \in 1..Len(runs)
      PROVE  runs'[n].authority = runs[n].authority /\ runs'[n].timely = runs[n].timely
  <2> PICK r \in RunReceipt : r = runs[n]
    BY <1>1
  <2>1. runs'[n] = r \/ \E e \in Outcome : runs'[n] = WithEvent(r, e)
    BY <1>6
  <2> QED  BY <1>4, <2>1
<1>9. Authorities \subseteq Authorities' /\ JobRuns \subseteq JobRuns'
  BY <1>5, <1>6 DEF Authorities, JobRuns, Recorded
<1>10. ReceiptsGrow /\ RecordsTyped'
  BY <1>1, <1>5, <1>6, <1>7, <1>9 DEF ReceiptsGrow, RecordsTyped, TrustedInv
<1>11. /\ Len(trust') <= MaxRecords /\ Len(runs') <= MaxRecords /\ Len(profiles') <= MaxRecords
       /\ \A p \in 1..Len(profiles') : p \in 1..Len(profiles)
  BY <1>1, <1>5, <1>6 DEF TrustedInv, ReceiptsAreBound
<1>12. StoresMove
  BY <1>1, <1>10, <1>11, ReceiptsMove
<1>13. source' \in {"registered", "edited"} /\ slips' \in 0..MaxFaults
  BY <1>1 DEF TrustedInv, GivenTyped
<1> QED  BY <1>1, <1>12, <1>13, ApprovalsStay

(* Every step moves the stores as it may, and keeps the invariant.           *)
LEMMA TrustedMoves == ASSUME TrustedInv, [TrustedNext]_trustedVars PROVE TrustedMove
<1>1. CASE UNCHANGED trustedVars
  <2>1. StoresMove /\ UNCHANGED <<route, source, approval, slips>>
    BY <1>1, ReadsKeep DEF trustedVars
  <2>2. source' \in {"registered", "edited"} /\ slips' \in 0..MaxFaults
    BY <2>1 DEF TrustedInv, GivenTyped
  <2> QED  BY <2>1, <2>2, ApprovalsStay
<1>2. ASSUME NEW c \in Approver, ApprovalStep(c)
      PROVE  TrustedMove
  BY <1>2, CommitAuthorityKeeps, ExecuteKeeps, PrepareKeeps, PromoteKeeps, ReconcileKeeps,
     TrunkReadsKeep, TrunkStepsKeep, AssessKeeps, RecordDecisionKeeps, ContinueDecisionKeeps
  DEF ApprovalStep
<1>3. ASSUME NEW c \in Approver,
             \/ Prepare(c) \/ ChooseRoute(c) \/ Decide(c) \/ ReplayDecision(c)
             \/ FailApproval(c) \/ RefuseApproval(c) \/ KillApproval(c)
      PROVE  TrustedMove
  BY <1>3, PrepareKeeps, TrunkReadsKeep, DecideKeeps, FailuresKeep, EndingsKeep
<1> QED  BY <1>1, <1>2, <1>3, AuthoritiesKeep, SourceKeeps, JobsKeep, RecoverCommitsKeeps
         DEF TrustedNext

(* In every state a trusted job is in, its states and its calls name         *)
(* recorded receipts that belong together                                    *)
(* (trusted_parse_intake_application.py).                                    *)
THEOREM TrustedInvariant == TrustedSpec => []TrustedInv
<1>1. ASSUME TrustedInv, [TrustedNext]_trustedVars
      PROVE  TrustedInv'
  BY <1>1, TrustedMoves DEF TrustedMove
<1> QED  BY <1>1, TrustedInvInit, PTL DEF TrustedSpec

(* A reconciled job names one authority and one run in its interval, and a   *)
(* job on an uncertain source is completed only after the user accepted the  *)
(* pages it was reconciled with, for any number of calls, receipts, states   *)
(* and faults (trusted_parse_intake_application.py,                          *)
(* intake_source_adequacy_resolution_application.py).                        *)
THEOREM ParsesStayBound == TrustedSpec => [](ReconcileBindsReceipts /\ AcceptanceIsBound)
BY TrustedInvariant, ParsesAreBoundBy, PTL

(* Type correctness of a trusted parse, for every value of the constants.    *)
THEOREM TrustedTypesHold == TrustedSpec => []TrustedTypeOK
BY TrustedInvariant, TrustedTypes, PTL

-----------------------------------------------------------------------------
(* A job that has made no detour and has but one run went its way: through   *)
(* the reconciliation, and from there with one machine profile of the pages  *)
(* as they are, which every state from the gate on names.                    *)
Straight == NoDetour /\ \A n \in JobRuns : n = Len(runs)
WentThrough == NoDetour => Reconciled # {}
Kept == Straight => <<"profile", 1>> \in Tip.outputs
Routed == {"source_adequacy", "semantic_route", "semantic_gate"}
StateGoes(s) ==
    /\ s.node \in TrunkNode => WentThrough
    /\ s.node \in Routed => Kept
    /\ s.status = "completed" => s.node = "semantic_gate"
ProfileGoes(p) ==
    /\ WentThrough
    /\ Straight => profiles[p].run = Len(runs)
    /\ profiles[p].decision = "none" /\ Straight => p = 1
    /\ profiles[p].decision # "none" => Kept
CallGoes(w) ==
    /\ w.at \in {"correlate", "promote"} => Len(history) > 1
    /\ w.at \in {"trunk", "assess", "gate", "route", "complete", "accept", "remediate",
                 "continue"} => WentThrough
    /\ w.at \in {"route", "complete", "accept", "remediate", "continue"} => Kept
    /\ w.at = "gate" /\ Straight => w.profile = 1 \/ Kept
StraightInv ==
    /\ history[1].node = "authority"
    /\ \A k \in 1..Len(history) : StateGoes(history[k])
    /\ \A p \in 1..Len(profiles) : ProfileGoes(p)
    /\ \A c \in Approver : CallGoes(approval[c])

(* A job that waits for its authority has gone nowhere.                      *)
LEMMA StraightInvInit == TrustedInit => StraightInv
<1> SUFFICES ASSUME TrustedInit
             PROVE  StraightInv
  OBVIOUS
<1> DEFINE s == [status |-> "waiting_user", node |-> "authority", outputs |-> {}]
<1>1. s.node = "authority" /\ s.status = "waiting_user"
  OBVIOUS
<1> HIDE DEF s
<1>2. history = <<s>> /\ profiles = <<>> /\ approval = [c \in Approver |-> Resting]
  BY DEF TrustedInit, s
<1>3. Len(history) = 1 /\ history[1] = s /\ \A k \in 1..Len(history) : history[k] = s
  BY <1>2
<1>4. StateGoes(s)
  BY <1>1 DEF StateGoes, TrunkNode, Routed
<1>5. CallGoes(Resting)
  BY DEF CallGoes, Resting
<1> QED  BY <1>1, <1>2, <1>3, <1>4, <1>5 DEF StraightInv

(* A detour is never undone, and what is reconciled or named stays so.       *)
LEMMA WaysStay ==
    ASSUME TrustedInv, TrustedMove
    PROVE  /\ (NoDetour' => NoDetour) /\ (Straight' => Straight)
           /\ WentThrough => WentThrough'
           /\ Kept => Kept'
<1>1. /\ Len(history) \in Nat /\ Len(history') \in Nat /\ Len(history) <= Len(history')
      /\ \A k \in 1..Len(history) : k \in 1..Len(history') /\ history'[k] = history[k]
      /\ Tip.outputs \subseteq Tip'.outputs
  BY DEF TrustedMove, StoresMove, TrustedInv, HistoryStands, HistoryGrows
<1>2. NoDetour' => NoDetour
  BY <1>1 DEF NoDetour
<1>3. Straight' => Straight
  <2> SUFFICES ASSUME Straight', NEW n \in JobRuns
               PROVE  n = Len(runs)
    BY <1>2 DEF Straight
  <2>1. n \in JobRuns' /\ n \in 1..Len(runs) /\ Len(runs) <= Len(runs')
    BY DEF TrustedMove, StoresMove, ReceiptsGrow, JobRuns, Recorded
  <2>2. n = Len(runs')
    BY <2>1 DEF Straight
  <2>3. Len(runs) \in Nat
    BY DEF TrustedInv, RecordsTyped
  <2> QED  BY <2>1, <2>2, <2>3
<1>4. Reconciled \subseteq Reconciled'
  BY <1>1 DEF Reconciled
<1>5. WentThrough => WentThrough'
  BY <1>2, <1>4 DEF WentThrough
<1> QED  BY <1>1, <1>2, <1>3, <1>5 DEF Kept

(* What holds of a state stays so.                                           *)
LEMMA StatesGoOn ==
    ASSUME TrustedInv, TrustedMove, NEW s, StateGoes(s)
    PROVE  StateGoes(s)'
BY WaysStay DEF StateGoes

(* A profile goes on as it was while no run is added.                        *)
LEMMA ProfilesGoOn ==
    ASSUME TrustedInv, TrustedMove, StraightInv, NEW p \in 1..Len(profiles),
           Len(runs') = Len(runs)
    PROVE  ProfileGoes(p)'
<1>1. profiles'[p] = profiles[p]
  BY DEF TrustedMove, StoresMove, ReceiptsGrow
<1>2. ProfileGoes(p)
  BY DEF StraightInv
<1> QED  BY <1>1, <1>2, WaysStay DEF ProfileGoes

(* What holds of a call stays so.                                            *)
LEMMA CallsGoOn ==
    ASSUME TrustedInv, TrustedMove, NEW w, CallGoes(w)
    PROVE  CallGoes(w)'
<1>1. Len(history) > 1 => Len(history') > 1
  BY DEF TrustedMove, StoresMove, HistoryGrows, TrustedInv, HistoryStands
<1> QED  BY <1>1, WaysStay DEF CallGoes

(* A run that is added once the job was reconciled is the second of the job. *)
LEMMA SecondRuns ==
    ASSUME TrustedInv, TrustedMove, WentThrough, Len(runs') = Len(runs) + 1
    PROVE  ~Straight'
<1> SUFFICES ASSUME Straight'
             PROVE  FALSE
  OBVIOUS
<1>1. PICK k \in Reconciled : TRUE
  BY WaysStay DEF WentThrough, Straight
<1>2. k \in 1..Len(history) /\ history[k].node = "reconcile" /\ StateStands(history[k])
  BY DEF Reconciled, TrustedInv, HistoryStands
<1>3. PICK n \in JobRuns : TRUE
  BY <1>2 DEF StateStands
<1>4. n \in JobRuns' /\ n \in 1..Len(runs) /\ Len(runs) \in Nat
  BY DEF TrustedMove, StoresMove, ReceiptsGrow, JobRuns, Recorded, TrustedInv, RecordsTyped
<1>5. n = Len(runs')
  BY <1>4 DEF Straight
<1> QED  BY <1>4, <1>5

(* What is added goes the way of the rest.                                   *)
LEMMA StraightMoves ==
    ASSUME TrustedInv, TrustedMove, StraightInv,
           Len(runs') = Len(runs) \/ Len(runs') = Len(runs) + 1,
           \A k \in 1..Len(history') : k \in 1..Len(history) \/ StateGoes(history[k])',
           \A p \in 1..Len(profiles') : p \in 1..Len(profiles) \/ ProfileGoes(p)',
           \A d \in Approver : approval'[d] = approval[d] \/ CallGoes(approval[d])'
    PROVE  StraightInv'
<1>1. /\ \A k \in 1..Len(history) : history'[k] = history[k]
      /\ Len(history) \in Nat /\ Len(history) # 0
      /\ \A p \in 1..Len(profiles) : profiles'[p] = profiles[p]
  BY Tips DEF TrustedMove, StoresMove, HistoryGrows, ReceiptsGrow
<1>2. history'[1].node = "authority"
  BY <1>1 DEF StraightInv
<1>3. ASSUME NEW k \in 1..Len(history')
      PROVE  StateGoes(history[k])'
  <2>1. CASE k \in 1..Len(history)
    <3>1. history'[k] = history[k] /\ StateGoes(history[k])
      BY <1>1, <2>1 DEF StraightInv
    <3>2. PICK s : s = history[k]
      OBVIOUS
    <3>3. StateGoes(s)'
      BY <3>1, <3>2, StatesGoOn
    <3> QED  BY <3>1, <3>2, <3>3
  <2> QED  BY <2>1
<1>4. ASSUME NEW p \in 1..Len(profiles')
      PROVE  ProfileGoes(p)'
  <2>1. CASE p \in 1..Len(profiles) /\ Len(runs') = Len(runs)
    BY <2>1, ProfilesGoOn
  <2>2. CASE p \in 1..Len(profiles) /\ Len(runs') = Len(runs) + 1
    <3>1. ProfileGoes(p) /\ profiles'[p] = profiles[p]
      BY <1>1, <2>2 DEF StraightInv
    <3>2. ~Straight'
      BY <2>2, <3>1, SecondRuns DEF ProfileGoes
    <3> QED  BY <3>1, <3>2, WaysStay DEF ProfileGoes
  <2> QED  BY <2>1, <2>2
<1>5. ASSUME NEW d \in Approver
      PROVE  CallGoes(approval[d])'
  <2>1. CASE approval'[d] = approval[d]
    <3>1. CallGoes(approval[d])
      BY DEF StraightInv
    <3>2. PICK w : w = approval[d]
      OBVIOUS
    <3>3. CallGoes(w)'
      BY <3>1, <3>2, CallsGoOn
    <3> QED  BY <2>1, <3>2, <3>3
  <2> QED  BY <2>1
<1> QED  BY <1>2, <1>3, <1>4, <1>5 DEF StraightInv

(* The head of the history, and what is said of the calls on their way.      *)
LEMMA TipGoes ==
    ASSUME TrustedInv, StraightInv
    PROVE  /\ Tip = history[Len(history)] /\ Len(history) \in Nat /\ Len(history) # 0
           /\ Len(history) \in 1..Len(history) /\ StateGoes(Tip)
           /\ \A c \in Approver : CallGoes(approval[c])
BY Tips DEF Tip, StraightInv

(* Nothing but the call itself moves, and where it goes is on its way.       *)
LEMMA CallsGo ==
    ASSUME TrustedInv, TrustedMove, StraightInv,
           UNCHANGED history, Len(profiles') = Len(profiles), Len(runs') = Len(runs),
           NEW c \in Approver,
           \A d \in Approver \ {c} : approval'[d] = approval[d],
           CallGoes(approval'[c])
    PROVE  StraightInv'
<1>1. PICK w : w = approval'[c]
  OBVIOUS
<1>2. CallGoes(w)'
  BY <1>1, CallsGoOn
<1>3. \A d \in Approver : approval'[d] = approval[d] \/ CallGoes(approval[d])'
  BY <1>1, <1>2
<1>4. /\ \A k \in 1..Len(history') : k \in 1..Len(history)
      /\ \A p \in 1..Len(profiles') : p \in 1..Len(profiles)
  OBVIOUS
<1> QED  BY <1>3, <1>4, StraightMoves

(* The job moves to a state on its way, with the call that moves it.         *)
LEMMA JobsGo ==
    ASSUME TrustedInv, TrustedMove, StraightInv, NEW c \in Approver, NEW n \in Nat,
           NEW status, NEW node, NEW added, NEW phase,
           Transition(c, n, status, node, added, phase),
           node \in TrunkNode => WentThrough,
           node \in Routed => Kept',
           status = "completed" => node = "semantic_gate",
           \/ phase \in {"idle", "source_changed", "parse_failed"}
           \/ phase = "correlate" /\ n # 0
           \/ phase = "assess" /\ WentThrough
           \/ phase \in {"route", "complete"} /\ WentThrough /\ Kept'
    PROVE  StraightInv'
<1> PICK t : t = State(status, node, history[n].outputs \cup added)
  OBVIOUS
<1>1. /\ \/ /\ n = Len(history) /\ history' = Append(history, t)
         \/ /\ n + 1 = Len(history) /\ t = history[n + 1] /\ UNCHANGED history
      /\ approval' = [approval EXCEPT ![c] =
             IF phase = "idle" THEN Resting ELSE [@ EXCEPT !.at = phase, !.seen = n + 1]]
      /\ UNCHANGED <<given, receipts, slips>>
  BY DEF Transition
<1>2. t.status = status /\ t.node = node
  BY DEF State
<1>3. /\ WentThrough => WentThrough'
      /\ history \in Seq(JobState) /\ history' \in Seq(JobState)
  BY WaysStay DEF TrustedInv, HistoryStands, TrustedMove
<1>4. StateGoes(t)'
  BY <1>2, <1>3 DEF StateGoes
<1>5. \A k \in 1..Len(history') : k \in 1..Len(history) \/ history'[k] = t
  BY <1>1, <1>3
<1>6. \A k \in 1..Len(history') : k \in 1..Len(history) \/ StateGoes(history[k])'
  <2> SUFFICES ASSUME NEW k \in 1..Len(history'), history'[k] = t
               PROVE  StateGoes(history[k])'
    BY <1>5
  <2> QED  BY <1>4 DEF StateGoes
<1>7. Len(history') = n + 1
  BY <1>1, <1>3
<1>8. CallGoes(approval[c])'
  <2>1. approval'[c].at = phase
    <3>1. approval[c] \in {Resting} \cup Approval
      BY DEF TrustedInv, GivenTyped
    <3> QED  BY <1>1, <3>1 DEF TrustedInv, GivenTyped, Resting, Approval
  <2>2. phase = "correlate" => Len(history') > 1
    BY <1>7
  <2> QED  BY <1>3, <2>1, <2>2 DEF CallGoes
<1>9. \A d \in Approver : approval'[d] = approval[d] \/ CallGoes(approval[d])'
  BY <1>1, <1>8 DEF TrustedInv, GivenTyped
<1> QED  BY <1>1, <1>6, <1>9, StraightMoves DEF receipts

(* What a transition adds is named by the head, whoever appended it.         *)
LEMMA TipsName ==
    ASSUME TrustedInv, NEW c \in Approver, NEW n \in Nat,
           NEW status, NEW node, NEW added, NEW phase,
           Transition(c, n, status, node, added, phase)
    PROVE  added \subseteq Tip'.outputs
<1> DEFINE t == State(status, node, history[n].outputs \cup added)
<1>1. \/ /\ n = Len(history) /\ history' = Append(history, t)
      \/ /\ n + 1 = Len(history) /\ t = history[n + 1] /\ UNCHANGED history
  BY DEF Transition
<1>2. added \subseteq t.outputs
  BY DEF State
<1> HIDE DEF t
<1>3. Tip' = t
  BY <1>1 DEF Tip, TrustedInv, HistoryStands
<1> QED  BY <1>2, <1>3

-----------------------------------------------------------------------------
(* A call that is prepared, leaves or dies goes nowhere.                     *)
LEMMA EndsGo ==
    ASSUME TrustedInv, TrustedMove, StraightInv, NEW c \in Approver,
           \/ Prepare(c) \/ ReplayTrunk(c) \/ RefuseApproval(c) \/ KillApproval(c)
    PROVE  StraightInv'
<1>1. UNCHANGED <<history, profiles, runs>>
  BY DEF Prepare, ReplayTrunk, RefuseApproval, KillApproval, Reads, receipts
<1>2. approval'[c].at \in {"commit", "current", "idle"}
      /\ \A d \in Approver \ {c} : approval'[d] = approval[d]
  <2>1. CASE Prepare(c)
    <3>1. PICK a \in 0..Len(trust) :
        approval' = [approval EXCEPT ![c] =
             [Resting EXCEPT !.at = IF a = 0 THEN "commit" ELSE "current",
                             !.seen = Len(history), !.authority = a]]
      BY <2>1 DEF Prepare
    <3> QED  BY <3>1 DEF TrustedInv, GivenTyped, Resting
  <2>2. CASE Leaves(c)
    BY <2>2 DEF Leaves, TrustedInv, GivenTyped, Resting
  <2> QED  BY <2>1, <2>2 DEF ReplayTrunk, RefuseApproval, KillApproval
<1>3. CallGoes(approval'[c])
  BY <1>2 DEF CallGoes
<1> QED  BY <1>1, <1>2, <1>3, CallsGo

(* Until it reconciles, a call goes on from a job that waited no more.       *)
LEMMA ExecutionsGo ==
    ASSUME TrustedInv, TrustedMove, StraightInv, NEW c \in Approver,
           CommitAuthority(c) \/ Execute(c) \/ RunWorker(c)
    PROVE  StraightInv'
<1>1. CASE CommitAuthority(c)
  <2>1. UNCHANGED <<history, profiles, runs>>
    BY <1>1 DEF CommitAuthority
  <2>2. \/ approval' = [approval EXCEPT ![c].at = "current", ![c].authority = Len(trust')]
        \/ Leaves(c)
    BY <1>1 DEF CommitAuthority
  <2>3. approval'[c].at \in {"current", "idle"}
        /\ \A d \in Approver \ {c} : approval'[d] = approval[d]
    <3>1. CASE approval' = [approval EXCEPT ![c].at = "current", ![c].authority = Len(trust')]
      <4>1. EntersUnder(c, "current", Len(trust'))
        BY <3>1 DEF EntersUnder
      <4>2. approval[c] \in Approval
        BY <1>1, InPhase DEF CommitAuthority
      <4> QED  BY <3>1, <4>2 DEF TrustedInv, GivenTyped, Approval
    <3>2. CASE Leaves(c)
      BY <3>2 DEF Leaves, TrustedInv, GivenTyped, Resting
    <3> QED  BY <2>2, <3>1, <3>2
  <2>4. CallGoes(approval'[c])
    BY <2>3 DEF CallGoes
  <2> QED  BY <2>1, <2>3, <2>4, CallsGo
<1>2. CASE Execute(c)
  <2>1. /\ approval[c] \in Approval /\ approval[c].seen \in Nat /\ approval[c].seen # 0
        /\ approval[c].seen <= Len(history)
    BY <1>2, InPhase DEF Execute, ApprovalStands, Approval
  <2>2. CASE history[approval[c].seen].node = "authority"
    <3>1. Transition(c, approval[c].seen, "running", "execution",
                     {<<"trust", approval[c].authority>>}, "correlate")
      BY <1>2, <2>2 DEF Execute
    <3>2. "execution" \notin TrunkNode /\ "execution" \notin Routed
      BY DEF TrunkNode, Routed
    <3> QED  BY <2>1, <3>1, <3>2, JobsGo
  <2>3. CASE history[approval[c].seen].node # "authority"
    <3>1. Enters(c, "correlate") /\ Reads
      BY <1>2, <2>3 DEF Execute
    <3>2. approval'[c].at = "correlate" /\ \A d \in Approver \ {c} : approval'[d] = approval[d]
      BY <2>1, <3>1 DEF Enters, TrustedInv, GivenTyped, Approval
    <3>3. Len(history) > 1
      BY <2>1, <2>3, Tips DEF StraightInv
    <3>4. CallGoes(approval'[c])
      BY <3>2, <3>3 DEF CallGoes
    <3> QED  BY <3>1, <3>2, <3>4, CallsGo DEF Reads
  <2> QED  BY <2>2, <2>3
<1>3. CASE RunWorker(c)
  <2>1. approval[c] \in Approval /\ Enters(c, "promote") /\ Reads /\ approval[c].at = "correlate"
    BY <1>3, InPhase DEF RunWorker
  <2>2. approval'[c].at = "promote" /\ \A d \in Approver \ {c} : approval'[d] = approval[d]
    BY <2>1 DEF Enters, TrustedInv, GivenTyped, Approval
  <2>3. Len(history) > 1
    BY <2>1, TipGoes DEF CallGoes
  <2>4. CallGoes(approval'[c])
    BY <2>2, <2>3 DEF CallGoes
  <2> QED  BY <2>1, <2>2, <2>4, CallsGo DEF Reads
<1> QED  BY <1>1, <1>2, <1>3

(* A second run of the job is no way of its own.                             *)
LEMMA RunsGo ==
    ASSUME TrustedInv, TrustedMove, StraightInv,
           ParseDirectly \/ \E c \in Approver : Promote(c)
    PROVE  StraightInv'
<1>0. runs \in Seq(RunReceipt) /\ \E r : runs' = Append(runs, r)
  BY DEF ParseDirectly, Promote, TrustedInv, RecordsTyped
<1>1. Len(runs') = Len(runs) + 1 /\ UNCHANGED <<history, profiles>>
  BY <1>0 DEF ParseDirectly, Promote
<1>2. \A d \in Approver : approval'[d] = approval[d] \/ CallGoes(approval[d])'
  <2>1. CASE ParseDirectly
    BY <2>1 DEF ParseDirectly
  <2>2. ASSUME NEW c \in Approver, Promote(c)
        PROVE  \A d \in Approver : approval'[d] = approval[d] \/ CallGoes(approval[d])'
    <3>1. approval[c] \in Approval /\ approval[c].at = "promote"
          /\ (Enters(c, "correlate") \/ Leaves(c))
      BY <2>2, InPhase DEF Promote
    <3>2. Len(history') > 1
      BY <1>1, <3>1, TipGoes DEF CallGoes
    <3>3. approval'[c].at \in {"correlate", "idle"}
          /\ \A d \in Approver \ {c} : approval'[d] = approval[d]
      BY <3>1 DEF Enters, Leaves, Resting, TrustedInv, GivenTyped, Approval
    <3>4. CallGoes(approval[c])'
      BY <3>2, <3>3 DEF CallGoes
    <3> QED  BY <3>3, <3>4
  <2> QED  BY <2>1, <2>2
<1>3. /\ \A k \in 1..Len(history') : k \in 1..Len(history)
      /\ \A p \in 1..Len(profiles') : p \in 1..Len(profiles)
  BY <1>1
<1> QED  BY <1>1, <1>2, <1>3, StraightMoves

(* The trunk is entered from a job that was reconciled, or went on from it.  *)
LEMMA ReconcileGoes ==
    ASSUME TrustedInv, TrustedMove, StraightInv, NEW c \in Approver, Reconcile(c)
    PROVE  StraightInv'
<1>1. /\ approval[c].at = "correlate" /\ UNCHANGED <<profiles, runs>>
      /\ approval' = [approval EXCEPT ![c] =
             [Resting EXCEPT !.at = "trunk", !.routed = route = "decided"]]
  BY DEF Reconcile, receipts
<1>2. PICK n \in Correlated(approval[c].authority) :
            LET t == State("running", "reconcile",
                           Tip.outputs \cup ReceiptsOf(approval[c].authority, n))
            IN  IF Tip.node = "execution"
                THEN Follows(Tip, t) /\ history' = Append(history, t)
                ELSE UNCHANGED history
  BY DEF Reconcile
<1> PICK t : t = State("running", "reconcile",
                       Tip.outputs \cup ReceiptsOf(approval[c].authority, n))
  OBVIOUS
<1>3. /\ t.node = "reconcile" /\ t.status = "running"
      /\ IF Tip.node = "execution" THEN history' = Append(history, t) ELSE UNCHANGED history
  BY <1>2 DEF State
<1>4. Len(history) > 1 /\ history \in Seq(JobState) /\ StateGoes(Tip) /\ Tip = history[Len(history)]
      /\ Tip \in JobState
  BY <1>1, TipGoes, Tips DEF CallGoes, TrustedInv, HistoryStands
<1>5. WentThrough'
  <2>1. CASE Tip.node = "execution"
    <3>1. Len(history') \in 1..Len(history') /\ history'[Len(history')] = t
      BY <1>3, <1>4, <2>1
    <3> QED  BY <1>3, <3>1 DEF WentThrough, Reconciled
  <2>2. CASE Tip.node # "execution"
    <3>1. CASE Tip.node \in Failed \cup {"authority"}
      <4>1. ~NoDetour
        BY <1>4, <3>1 DEF NoDetour
      <4> QED  BY <4>1, WaysStay DEF WentThrough
    <3>2. CASE Tip.node = "reconcile"
      <4>1. Len(history) \in Reconciled
        BY <1>4, <3>2 DEF Reconciled
      <4> QED  BY <4>1, WaysStay DEF WentThrough
    <3>3. CASE Tip.node \in TrunkNode
      BY <1>4, <3>3, WaysStay DEF StateGoes
    <3> QED  BY <1>4, <2>2, <3>1, <3>2, <3>3 DEF JobState, Trusted
  <2> QED  BY <2>1, <2>2
<1>6. StateGoes(t)'
  BY <1>3 DEF StateGoes, TrunkNode, Routed
<1>7. \A k \in 1..Len(history') : k \in 1..Len(history) \/ StateGoes(history[k])'
  <2> SUFFICES ASSUME NEW k \in 1..Len(history'), k \notin 1..Len(history)
               PROVE  StateGoes(history[k])'
    OBVIOUS
  <2>1. history'[k] = t
    BY <1>3, <1>4
  <2> QED  BY <1>6, <2>1 DEF StateGoes
<1>8. approval'[c].at = "trunk" /\ \A d \in Approver \ {c} : approval'[d] = approval[d]
  BY <1>1 DEF TrustedInv, GivenTyped, Resting
<1>9. CallGoes(approval[c])'
  BY <1>5, <1>8 DEF CallGoes
<1> QED  BY <1>1, <1>7, <1>8, <1>9, StraightMoves

-----------------------------------------------------------------------------
(* The trunk and the route are found, and taken on from where the job is.    *)
LEMMA RoutesGo ==
    ASSUME TrustedInv, TrustedMove, StraightInv, NEW c \in Approver,
           TakeRoute(c) \/ ChooseRoute(c)
    PROVE  StraightInv'
<1>1. WentThrough /\ Kept
  <2>1. Tip.node = "semantic_route"
    BY DEF TakeRoute, ChooseRoute, AtRoute
  <2> QED  BY <2>1, TipGoes DEF StateGoes, TrunkNode, Routed
<1>2. approval'[c].at \in {"route", "trunk"}
      /\ \A d \in Approver \ {c} : approval'[d] = approval[d]
  <2>1. CASE TakeRoute(c)
    <3>1. approval[c] \in Approval
      BY <2>1, InPhase DEF TakeRoute
    <3>2. PICK p \in NamedProfiles(Tip) :
        approval' = [approval EXCEPT ![c].at = "route", ![c].seen = Len(history), ![c].profile = p]
      BY <2>1 DEF TakeRoute
    <3> QED  BY <3>1, <3>2 DEF TrustedInv, GivenTyped, Approval
  <2>2. CASE ChooseRoute(c)
    <3>1. approval' = [approval EXCEPT ![c] = [Resting EXCEPT !.at = "trunk", !.routed = TRUE]]
      BY <2>2 DEF ChooseRoute
    <3> QED  BY <3>1 DEF TrustedInv, GivenTyped, Resting
  <2> QED  BY <2>1, <2>2
<1>3. CallGoes(approval'[c])
  BY <1>1, <1>2 DEF CallGoes
<1>4. UNCHANGED <<history, profiles, runs>>
  BY DEF TakeRoute, ChooseRoute, Reads
<1> QED  BY <1>2, <1>3, <1>4, CallsGo

(* The trunk goes on from where it is; its gate names the machine's profile. *)
LEMMA TrunkGoes ==
    ASSUME TrustedInv, TrustedMove, StraightInv, NEW c \in Approver,
           EnterTrunk(c) \/ AwaitSource(c) \/ Gate(c) \/ CompleteRoute(c) \/ FinishRoute(c)
    PROVE  StraightInv'
<1>1. /\ approval[c] \in Approval /\ approval[c].seen \in Nat /\ WentThrough
      /\ CallGoes(approval[c])
  <2>1. approval[c].at \in {"trunk", "assess", "gate", "route", "complete"}
    BY DEF EnterTrunk, AwaitSource, Gate, CompleteRoute, FinishRoute
  <2> QED  BY <2>1, InPhase, TipGoes DEF CallGoes, Approval
<1>2. "source_check" \notin Routed
  BY DEF Routed
<1>3. CASE EnterTrunk(c)
  <2>1. CASE Reads /\ approval' = [approval EXCEPT ![c].at = "assess", ![c].seen = Len(history)]
    <3>1. approval'[c].at = "assess" /\ \A d \in Approver \ {c} : approval'[d] = approval[d]
      BY <1>1, <2>1 DEF TrustedInv, GivenTyped, Approval
    <3>2. CallGoes(approval'[c])
      BY <1>1, <3>1 DEF CallGoes
    <3> QED  BY <2>1, <3>1, <3>2, CallsGo DEF Reads
  <2>2. CASE Transition(c, Len(history), "running", "source_check", {}, "assess")
    BY <1>1, <1>2, <2>2, JobsGo, TipGoes
  <2> QED  BY <1>3, <2>1, <2>2 DEF EnterTrunk
<1>4. CASE AwaitSource(c)
  BY <1>1, <1>2, <1>4, JobsGo DEF AwaitSource
<1>5. CASE Gate(c)
  <2> DEFINE named == {<<"profile", approval[c].profile>>}
  <2>1. PICK status \in {"waiting_user", "waiting_source"},
             node \in {"semantic_route", "source_adequacy"}, phase \in {"route", "idle"} :
          Transition(c, approval[c].seen, status, node, named, phase)
    BY <1>5 DEF Gate
  <2>2. Kept'
    <3>1. named \subseteq Tip'.outputs
      BY <1>1, <2>1, TipsName
    <3>2. Straight' => approval[c].profile = 1 \/ Kept
      BY <1>1, <1>5, WaysStay DEF Gate, CallGoes
    <3> QED  BY <3>1, <3>2, WaysStay DEF Kept
  <2> HIDE DEF named
  <2> QED  BY <1>1, <2>1, <2>2, JobsGo
<1>6. CASE CompleteRoute(c) \/ FinishRoute(c)
  <2>1. Kept'
    BY <1>1, <1>6, WaysStay DEF CompleteRoute, FinishRoute, CallGoes
  <2> DEFINE named == {<<"profile", approval[c].profile>>}
  <2>2. \/ Transition(c, approval[c].seen, "running", "semantic_gate", named, "complete")
        \/ Transition(c, approval[c].seen, "completed", "semantic_gate", named, "idle")
    BY <1>6 DEF CompleteRoute, FinishRoute
  <2> HIDE DEF named
  <2> QED  BY <1>1, <2>1, <2>2, JobsGo
<1> QED  BY <1>3, <1>4, <1>5, <1>6

(* A failed call leaves its job beside the way.                              *)
LEMMA FailuresGo ==
    ASSUME TrustedInv, TrustedMove, StraightInv, NEW c \in Approver, FailApproval(c)
    PROVE  StraightInv'
<1>1. approval[c].seen \in Nat /\ Len(history) \in Nat
  <2>1. approval[c] \in {Resting} \cup Approval
    BY DEF TrustedInv, GivenTyped
  <2> QED  BY <2>1, Tips DEF Approval, Resting
<1>2. PICK n \in Nat, status \in {"running", "waiting_user", "waiting_source"},
           node \in Failed \cup {"authority"},
           phase \in {"idle", "source_changed", "parse_failed"} :
        Transition(c, n, status, node, {}, phase)
  BY <1>1 DEF FailApproval, RouteFailure, Failed
<1>3. node \notin TrunkNode /\ node \notin Routed
  BY DEF Failed, TrunkNode, Routed
<1> QED  BY <1>2, <1>3, JobsGo

(* A profile that is added is of the pages as they are.                      *)
LEMMA AddedProfiles ==
    ASSUME TrustedInv, NEW basis, NEW decision, AddProfile(basis, decision)
    PROVE  /\ Len(profiles') = Len(profiles) + 1 /\ Len(profiles) \in Nat
           /\ profiles'[Len(profiles')].run = Len(runs)
           /\ profiles'[Len(profiles')].decision = decision
           /\ \A p \in 1..Len(profiles') : p \in 1..Len(profiles) \/ p = Len(profiles')
<1> PICK r : r = [run |-> Len(runs), basis |-> basis, decision |-> decision]
  OBVIOUS
<1>1. profiles' = Append(profiles, r) /\ r.run = Len(runs) /\ r.decision = decision
  BY DEF AddProfile
<1>2. profiles \in Seq(PageProfile)
  BY DEF TrustedInv, RecordsTyped
<1> QED  BY <1>1, <1>2

(* A profile of the pages as they are is found by the next gate.             *)
LEMMA CurrentIsSelected ==
    ASSUME TrustedInv, NEW p \in 1..Len(profiles), Current(p)
    PROVE  Selected # 0
<1> DEFINE fresh == {q \in 1..Len(profiles) : Current(q)}
<1>1. Len(profiles) \in Nat
  BY DEF TrustedInv, RecordsTyped
<1>2. fresh # {} /\ fresh \in SUBSET (1..Len(profiles))
  OBVIOUS
<1>3. Selected = CHOOSE m \in fresh : \A q \in fresh : q <= m
  BY <1>2 DEF Selected
<1>4. (CHOOSE m \in fresh : \A q \in fresh : q <= m) \in fresh
  <2> HIDE DEF fresh
  <2>1. \E m \in fresh : \A q \in fresh : q <= m
    BY <1>1, <1>2, LastExists
  <2> QED  BY <2>1
<1>5. Selected \in 1..Len(profiles)
  BY <1>3, <1>4
<1> QED  BY <1>1, <1>5

(* The pages are assessed once, unless they or the source have changed.      *)
LEMMA AssessGoes ==
    ASSUME TrustedInv, TrustedMove, StraightInv, NEW c \in Approver, Assess(c)
    PROVE  StraightInv'
<1>1. /\ approval[c] \in Approval /\ approval[c].at = "assess" /\ source = "registered"
      /\ UNCHANGED <<history, runs>> /\ WentThrough
  <2>1. approval[c].at = "assess"
    BY DEF Assess
  <2> QED  BY <2>1, InPhase, TipGoes DEF Assess, CallGoes
<1>2. PICK p :
        /\ approval' = [approval EXCEPT ![c].at = "gate", ![c].profile = p]
        /\ \/ Selected # 0 /\ UNCHANGED profiles /\ p = Selected
           \/ Selected = 0 /\ AddProfile(0, "none") /\ p = Len(profiles')
  BY DEF Assess
<1>3. /\ approval'[c].at = "gate" /\ approval'[c].profile = p
      /\ \A d \in Approver \ {c} : approval'[d] = approval[d]
  BY <1>1, <1>2 DEF TrustedInv, GivenTyped, Approval
<1>4. CASE Selected # 0
  <2>1. UNCHANGED profiles /\ p \in 1..Len(profiles) /\ ProfileGoes(p)
    BY <1>2, <1>4, Selecting DEF StraightInv
  <2>2. Straight => p = 1 \/ Kept
    BY <2>1 DEF ProfileGoes
  <2>3. CallGoes(approval'[c])
    BY <1>1, <1>3, <2>2 DEF CallGoes
  <2> QED  BY <1>1, <1>3, <2>1, <2>3, CallsGo
<1>5. CASE Selected = 0
  <2>1. AddProfile(0, "none") /\ p = Len(profiles')
    BY <1>2, <1>5
  <2>2. /\ Len(profiles') = Len(profiles) + 1 /\ Len(profiles) \in Nat
        /\ profiles'[Len(profiles')].run = Len(runs)
        /\ profiles'[Len(profiles')].decision = "none"
        /\ \A q \in 1..Len(profiles') : q \in 1..Len(profiles) \/ q = Len(profiles')
    BY <2>1, AddedProfiles
  <2>3. Straight => profiles = <<>>
    <3> SUFFICES ASSUME Straight, profiles # <<>>
                 PROVE  FALSE
      OBVIOUS
    <3>1. 1 \in 1..Len(profiles)
      BY DEF TrustedInv, RecordsTyped
    <3>2. Current(1)
      BY <1>1, <3>1 DEF StraightInv, ProfileGoes, Current
    <3>3. Selected # 0
      BY <3>1, <3>2, CurrentIsSelected
    <3> QED  BY <1>5, <3>3
  <2>4. Straight' => Len(profiles') = 1
    BY <2>2, <2>3, WaysStay
  <2>5. \A q \in 1..Len(profiles') : q \in 1..Len(profiles) \/ ProfileGoes(q)'
    <3>1. ProfileGoes(Len(profiles))'
      BY <1>1, <2>2, <2>4, WaysStay DEF ProfileGoes
    <3> QED  BY <2>2, <3>1
  <2>6. CallGoes(approval[c])'
    BY <1>1, <1>3, <2>1, <2>4, WaysStay DEF CallGoes
  <2> QED  BY <1>1, <1>3, <2>5, <2>6, StraightMoves
<1> QED  BY <1>4, <1>5

-----------------------------------------------------------------------------
(* A job that waits for the user's word names its machine profile.           *)
LEMMA OriginsGo ==
    ASSUME TrustedInv, StraightInv, NEW n \in Origins
    PROVE  WentThrough /\ Kept
<1>1. StateGoes(history[n]) /\ history[n].node = "source_adequacy"
  BY DEF Origins, StraightInv
<1> QED  BY <1>1 DEF StateGoes, TrunkNode, Routed

(* The user's word is taken, and gone on from, on the way of the job.        *)
LEMMA DecisionsGo ==
    ASSUME TrustedInv, TrustedMove, StraightInv, NEW c \in Approver,
           Decide(c) \/ ReplayDecision(c) \/ ContinueDecision(c)
    PROVE  StraightInv'
<1>1. UNCHANGED <<history, profiles, runs>>
  BY DEF Decide, ReplayDecision, ContinueDecision, Reads
<1>2. WentThrough /\ Kept
  BY OriginsGo DEF Decide, ReplayDecision, ContinueDecision
<1>3. approval'[c].at \in {"accept", "remediate", "continue", "route", "complete", "idle"}
      /\ \A d \in Approver \ {c} : approval'[d] = approval[d]
  <2>1. CASE Decide(c)
    <3>1. PICK n \in Origins :
        \E b \in NamedProfiles(history[n]), word \in {"accept", "remediate"} :
        approval' = [approval EXCEPT ![c] = [Resting EXCEPT !.at = word, !.profile = b]]
      BY <2>1 DEF Decide
    <3>2. PICK b \in NamedProfiles(history[n]), word \in {"accept", "remediate"} :
        approval' = [approval EXCEPT ![c] = [Resting EXCEPT !.at = word, !.profile = b]]
      BY <3>1
    <3> QED  BY <3>2 DEF TrustedInv, GivenTyped, Resting
  <2>2. CASE ReplayDecision(c)
    <3>1. PICK b :
        approval' = [approval EXCEPT ![c] = [Resting EXCEPT !.at = "continue", !.profile = b]]
      BY <2>2 DEF ReplayDecision
    <3> QED  BY <3>1 DEF TrustedInv, GivenTyped, Resting
  <2>3. CASE ContinueDecision(c)
    <3>1. approval[c] \in Approval
      BY <2>3, InPhase DEF ContinueDecision
    <3>2. \E n : \/ approval' = [approval EXCEPT ![c].at = "route", ![c].seen = n]
                 \/ approval' = [approval EXCEPT ![c].at = "complete", ![c].seen = n + 1]
                 \/ Leaves(c)
      BY <2>3 DEF ContinueDecision
    <3> QED  BY <3>1, <3>2 DEF Leaves, TrustedInv, GivenTyped, Approval, Resting
  <2> QED  BY <2>1, <2>2, <2>3
<1>4. CallGoes(approval'[c])
  BY <1>2, <1>3 DEF CallGoes
<1> QED  BY <1>1, <1>3, <1>4, CallsGo

(* The profile of the user's word is of the pages as they are.               *)
LEMMA WordsGo ==
    ASSUME TrustedInv, TrustedMove, StraightInv, NEW c \in Approver, RecordDecision(c)
    PROVE  StraightInv'
<1>1. /\ approval[c] \in Approval /\ approval[c].at \in {"accept", "remediate"}
      /\ UNCHANGED <<history, runs>> /\ WentThrough /\ Kept
  <2>1. approval[c].at \in {"accept", "remediate"}
    BY DEF RecordDecision
  <2> QED  BY <2>1, InPhase, TipGoes DEF RecordDecision, CallGoes
<1>2. PICK p :
        \/ Leaves(c)
        \/ approval' = [approval EXCEPT ![c].at = "continue", ![c].profile = p]
  BY DEF RecordDecision
<1>3. approval'[c].at \in {"continue", "idle"}
      /\ \A d \in Approver \ {c} : approval'[d] = approval[d]
  BY <1>1, <1>2 DEF Leaves, TrustedInv, GivenTyped, Approval, Resting
<1>4. CASE UNCHANGED profiles
  <2>1. CallGoes(approval'[c])
    BY <1>1, <1>3 DEF CallGoes
  <2> QED  BY <1>1, <1>3, <1>4, <2>1, CallsGo
<1>5. CASE AddProfile(approval[c].profile, approval[c].at)
  <2>1. /\ Len(profiles') = Len(profiles) + 1
        /\ profiles'[Len(profiles')].run = Len(runs)
        /\ profiles'[Len(profiles')].decision = approval[c].at
        /\ \A q \in 1..Len(profiles') : q \in 1..Len(profiles) \/ q = Len(profiles')
    BY <1>5, AddedProfiles
  <2>2. ProfileGoes(Len(profiles))'
    BY <1>1, <2>1, WaysStay DEF ProfileGoes
  <2>3. CallGoes(approval[c])'
    BY <1>1, <1>3, WaysStay DEF CallGoes
  <2>4. /\ \A q \in 1..Len(profiles') : q \in 1..Len(profiles) \/ ProfileGoes(q)'
        /\ \A k \in 1..Len(history') : k \in 1..Len(history)
    BY <1>1, <2>1, <2>2
  <2> QED  BY <1>1, <1>3, <2>3, <2>4, StraightMoves
<1> QED  BY <1>4, <1>5 DEF RecordDecision

(* What the user, the clock, the source and the recovery do is beside the    *)
(* way, and a job that is cancelled or recovers stays at its node.           *)
LEMMA OthersGo ==
    ASSUME TrustedInv, TrustedMove, StraightInv,
           \/ \E a \in 1..MaxRecords : Revoke(a) \/ Expire(a)
           \/ EditSource \/ RestoreSource \/ CancelTrusted \/ RecoverTrusted \/ RecoverCommits
           \/ UNCHANGED trustedVars
    PROVE  StraightInv'
<1>1. UNCHANGED <<approval, profiles>> /\ Len(runs') = Len(runs)
  <2>1. CASE RecoverCommits
    <3>1. runs' = Resolved(runs) /\ UNCHANGED <<approval, profiles>>
      BY <2>1 DEF RecoverCommits
    <3>2. Keeps(RunReceipt)
      BY DEF RunReceipt, Keeps, WithEvent
    <3> QED  BY <3>1, <3>2, ResolvedLogs DEF TrustedInv, RecordsTyped
  <2>2. CASE ~RecoverCommits
    BY <2>2 DEF Revoke, Expire, EditSource, RestoreSource, CancelTrusted, RecoverTrusted,
                trustedVars, receipts
  <2> QED  BY <2>1, <2>2
<1>2. \A k \in 1..Len(history') : k \in 1..Len(history) \/ StateGoes(history[k])'
  <2>1. CASE CancelTrusted \/ RecoverTrusted
    <3>1. PICK status \in {"cancelled", "recovering"} :
            history' = Append(history, State(status, Tip.node, Tip.outputs))
      BY <2>1 DEF CancelTrusted, RecoverTrusted
    <3> PICK t : t = State(status, Tip.node, Tip.outputs)
      OBVIOUS
    <3>2. t.node = Tip.node /\ t.status # "completed" /\ StateGoes(t)
      BY TipGoes DEF State, StateGoes
    <3>3. StateGoes(t)'
      BY <3>2, StatesGoOn
    <3>4. \A k \in 1..Len(history') : k \in 1..Len(history) \/ history'[k] = t
      BY <3>1 DEF TrustedInv, HistoryStands
    <3> SUFFICES ASSUME NEW k \in 1..Len(history'), history'[k] = t
                 PROVE  StateGoes(history[k])'
      BY <3>4
    <3> QED  BY <3>3 DEF StateGoes
  <2>2. CASE ~(CancelTrusted \/ RecoverTrusted)
    <3>1. UNCHANGED history
      BY <2>2 DEF Revoke, Expire, EditSource, RestoreSource, RecoverCommits, trustedVars
    <3> QED  BY <3>1
  <2> QED  BY <2>1, <2>2
<1>3. \A p \in 1..Len(profiles') : p \in 1..Len(profiles)
  BY <1>1
<1> QED  BY <1>1, <1>2, <1>3, StraightMoves

(* Every step keeps both invariants.                                         *)
LEMMA StraightInvNext ==
    ASSUME TrustedInv, StraightInv, [TrustedNext]_trustedVars
    PROVE  TrustedInv' /\ StraightInv'
<1>1. TrustedMove
  BY TrustedMoves
<1>2. ASSUME NEW c \in Approver, ApprovalStep(c)
      PROVE  StraightInv'
  BY <1>1, <1>2, EndsGo, ExecutionsGo, RunsGo, ReconcileGoes, RoutesGo, TrunkGoes, AssessGoes,
     WordsGo, DecisionsGo
  DEF ApprovalStep
<1>3. ASSUME NEW c \in Approver,
             \/ Prepare(c) \/ ChooseRoute(c) \/ Decide(c) \/ ReplayDecision(c)
             \/ FailApproval(c) \/ RefuseApproval(c) \/ KillApproval(c)
      PROVE  StraightInv'
  BY <1>1, <1>3, EndsGo, RoutesGo, DecisionsGo, FailuresGo
<1> QED  BY <1>1, <1>2, <1>3, RunsGo, OthersGo DEF TrustedNext, TrustedMove

(* A job that was completed without a detour, on one authority and one run,  *)
(* names what Guardian looks for.                                            *)
LEMMA StraightPromise == ASSUME TrustedInv, StraightInv PROVE ParseIsSound
<1> SUFFICES ASSUME Tip.status = "completed", NoDetour, ~Stuck
             PROVE  ProvenanceIsSound /\ AssessmentIsSound
  BY DEF ParseIsSound
<1>1. /\ source = "registered" /\ ~(Cardinality(Authorities) > 1)
      /\ \A n \in JobRuns : n = Len(runs)
  BY DEF Stuck, TrustedInv, GivenTyped
<1>2. Straight /\ Reconciled # {} /\ <<"profile", 1>> \in Tip.outputs
  <2>1. Straight
    BY <1>1 DEF Straight
  <2>2. WentThrough /\ Kept
    <3>1. Tip.node = "semantic_gate"
      BY TipGoes DEF StateGoes
    <3> QED  BY <3>1, TipGoes DEF StateGoes, TrunkNode, Routed
  <2> QED  BY <2>1, <2>2 DEF WentThrough, Kept
<1>3. ASSUME NEW n \in JobRuns
      PROVE  RunIsSound(n)
  <2>1. PICK k \in 1..Len(history) : history[k].node = "reconcile"
    BY <1>2 DEF Reconciled
  <2>2. PICK a \in Authorities, m \in JobRuns :
        /\ ReceiptsOf(a, m) \subseteq history[k].outputs
        /\ runs[m].authority = a /\ runs[m].timely
    BY <2>1 DEF TrustedInv, HistoryStands, StateStands
  <2>3. history[k].outputs \subseteq Tip.outputs
    BY DEF TrustedInv, HistoryStands
  <2>4. m = n /\ n = Len(runs)
    BY <1>1
  <2> QED  BY <2>2, <2>3, <2>4 DEF RunIsSound
<1>4. Cardinality(Authorities) <= 1
  <2>1. Cardinality(Authorities) \in Nat
    <3>1. Len(trust) \in Nat /\ Authorities \subseteq 1..Len(trust)
      BY DEF TrustedInv, RecordsTyped, Authorities, Recorded
    <3>2. IsFiniteSet(1..Len(trust))
      BY <3>1, FS_Interval
    <3>3. IsFiniteSet(Authorities)
      BY <3>1, <3>2, FS_Subset
    <3> QED  BY <3>3, FS_CardinalityType
  <2> QED  BY <1>1, <2>1
<1>5. ASSUME NEW p \in 1..Len(profiles)
      PROVE  Current(p) /\ (profiles[p].decision = "none" => p \in NamedProfiles(Tip))
  <2>1. ProfileGoes(p)
    BY DEF StraightInv
  <2> QED  BY <1>1, <1>2, <2>1 DEF ProfileGoes, Current, NamedProfiles
<1> QED  BY <1>3, <1>4, <1>5 DEF ProvenanceIsSound, AssessmentIsSound

(* A trusted parse that goes straight to its end leaves nothing for Guardian *)
(* to report, however many calls it took and wherever they died              *)
(* (trusted_parse_intake_application.py, deterministic_trunk.py).            *)
THEOREM ParsesEndSound == TrustedSpec => []ParseIsSound
<1>1. TrustedInit => TrustedInv /\ StraightInv
  BY TrustedInvInit, StraightInvInit
<1>2. ASSUME TrustedInv /\ StraightInv, [TrustedNext]_trustedVars
      PROVE  (TrustedInv /\ StraightInv)'
  BY <1>2, StraightInvNext
<1>3. TrustedInv /\ StraightInv => ParseIsSound
  BY StraightPromise
<1> QED  BY <1>1, <1>2, <1>3, PTL DEF TrustedSpec
===============================================================================
