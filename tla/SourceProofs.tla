----------------------------- MODULE SourceProofs -----------------------------
(* Proofs about SourceIntake and SourceAssets, for any number of calls,      *)
(* receipts, faults and changes of the files.  An intake leaves for the      *)
(* trunk with one recorded paper and a recorded association of it, because   *)
(* nothing is committed after a recorded association and a job's states only *)
(* add to what they name.  The receipts of the source assets form chains,    *)
(* because what a call has planned to append fits what it has read, whatever *)
(* numbers are drawn before it commits; and a paper's asset never becomes    *)
(* current with other bytes than the paper's, because only bytes that are    *)
(* those of the last active receipt make an active one.                      *)
EXTENDS SourceIntake, SourceAssets, FiniteSetTheorems, TLAPS

(* A set of positions has a last one.                                        *)
LEMMA LastExists ==
    ASSUME NEW n \in Nat, NEW S \in SUBSET (1..n), S # {}
    PROVE  \E x \in S : \A y \in S : y <= x
<1> DEFINE I == 1..n
           T == {x..n : x \in S}
<1>1. T \subseteq FiniteSubsetsOf(I) /\ T # {}
  <2>1. IsFiniteSet(I)
    BY FS_Interval
  <2>2. \A x \in S : x..n \subseteq I
    OBVIOUS
  <2>3. FiniteSubsetsOf(I) = SUBSET I
    BY <2>1, FS_FiniteSubsetsOfFinite
  <2>4. T # {}
    OBVIOUS
  <2>5. \A t \in T : t \in SUBSET I
    BY <2>2
  <2> HIDE DEF T, I
  <2> QED  BY <2>3, <2>4, <2>5
<1> HIDE DEF I, T
<1>2. PICK t \in T : \A u \in T : ~(<<u, t>> \in StrictSubsetOrdering(I))
  BY <1>1, WFMin, FS_StrictSubsetOrderingWellFounded
<1>3. PICK x \in S : t = x..n
  BY DEF T
<1>4. ASSUME NEW y \in S, y > x
      PROVE  FALSE
  <2>1. x \in 1..n /\ y \in 1..n
    OBVIOUS
  <2>2. y..n \subseteq x..n /\ x \in x..n /\ x \notin y..n /\ y..n \subseteq I /\ x..n \subseteq I
    BY <1>4, <2>1 DEF I
  <2>3. <<y..n, x..n>> \in StrictSubsetOrdering(I)
    BY <2>2 DEF StrictSubsetOrdering
  <2> QED  BY <1>2, <1>3, <2>3 DEF T
<1>5. \A y \in S : y \in Int /\ x \in Int
  OBVIOUS
<1> QED  BY <1>4, <1>5

(* A log with one more entry.                                                *)
Grown(log, longer, r) ==
    /\ Len(longer) = Len(log) + 1 /\ longer[Len(longer)] = r
    /\ \A n \in 1..Len(log) : longer[n] = log[n]

(* An entry that is appended is the last, and the others stay.               *)
LEMMA Appending ==
    ASSUME NEW S, NEW log \in Seq(S), NEW r \in S
    PROVE  Append(log, r) \in Seq(S) /\ Grown(log, Append(log, r), r)
BY DEF Grown

-----------------------------------------------------------------------------
Work == [at : Place, seen : Job, asset : 0..MaxCommits, paper : 0..MaxCommits]
PapersOf(s) == {q \in 1..MaxCommits : Ref("paper", q) \in s.outputs}
(* What left the intake names one recorded paper and a recorded association. *)
LeavingIsAssociated(s) ==
    \E p \in PaperReceipts :
        /\ PapersOf(s) = {p}
        /\ \E n \in AssociationReceipts : assets[n].paper = p /\ Ref("asset", n) \in s.outputs
(* A state of the job, now the head or when a call has read it.              *)
JobStands(s) ==
    /\ s.retries <= mishaps /\ PapersOf(s) \subseteq PaperReceipts
    /\ s.status = "running" => s.node \in IntakeNode
    /\ s.node \in {"deterministic_trunk", Authority} => LeavingIsAssociated(s)
(* A call knows a receipt from the registry on, and a recorded paper from    *)
(* the association on, the only one that the state it has read names.        *)
WorkStands(w) ==
    /\ JobStands(w.seen) /\ w.asset <= Latest
    /\ w.at \in {"registry", "paper", "add", "source_association", "associate", "associating",
                 "deterministic_trunk"} => w.asset # 0
    /\ w.at = "add" => PapersOf(w.seen) = {}
    /\ w.at \in {"source_association", "associate", "associating", "deterministic_trunk"} =>
        w.paper \in PaperReceipts /\ PapersOf(w.seen) \subseteq {w.paper}
    /\ w.at \in {"associate", "associating", "deterministic_trunk"} =>
        w.seen.status \in {"cancelled", "waiting_user"} \/ w.paper \in PapersOf(w.seen)
    /\ w.at = "associating" => assets[w.asset].paper = 0 /\ papers[w.paper].bytes = "whole"
    /\ w.at = "deterministic_trunk" =>
        AssociationReceipts # {} /\ assets[w.asset].paper = w.paper
(* Receipts have their root; an association is of a recorded paper of the    *)
(* source's own bytes; and nothing is committed after one that is recorded.  *)
ReceiptsStand ==
    /\ Len(assets) <= MaxCommits /\ Len(papers) <= MaxCommits
    /\ \A n \in 1..Latest :
        /\ assets[n].root \in 1..Latest /\ assets[assets[n].root].paper = 0
        /\ assets[n].paper # 0 =>
            /\ inbox # "none" /\ assets[n].paper \in 1..Len(papers)
            /\ papers[assets[n].paper] = [bytes |-> "whole", event |-> "recorded"]
    /\ \A n \in AssociationReceipts : n = Latest
CallsStand ==
    /\ job # Nothing => JobStands(job)
    /\ \A c \in Caller : call[c].at \in Place => WorkStands(call[c])
CopyStands == inbox # "none" => part # "whole"
IntakeInv == IntakeTypeOK /\ ReceiptsStand /\ CallsStand /\ CopyStands

(* An intake starts with no job, no receipt and no paper.                    *)
LEMMA IntakeInvInit == ASSUME IntakeInit PROVE IntakeInv
  BY FaultAssumption, IntakeAssumption
  DEF IntakeInit, IntakeInv, IntakeTypeOK, ReceiptsStand, CallsStand, CopyStands,
     Idle, Place, Latest, AssociationReceipts, Recorded

-----------------------------------------------------------------------------
AssetReceipt == [root : 1..MaxCommits, paper : 0..MaxCommits, event : Outcome]
PaperReceipt == [bytes : {"whole", "edited"}, event : Outcome]
StoresGrow ==
    /\ Latest <= Latest' /\ Len(papers) <= Len(papers') /\ mishaps <= mishaps'
    /\ mishaps' \in 0..MaxFaults
    /\ \A n \in 1..Latest : assets'[n].root = assets[n].root /\ assets'[n].paper = assets[n].paper
    /\ \A p \in 1..Len(papers) : papers'[p].bytes = papers[p].bytes
    /\ PaperReceipts \subseteq PaperReceipts' /\ AssociationReceipts \subseteq AssociationReceipts'
(* What the stores are to hold after a step.                                 *)
StoresStand ==
    /\ assets' \in Seq(AssetReceipt) /\ papers' \in Seq(PaperReceipt)
    /\ ReceiptsStand' /\ StoresGrow

(* What a state of the job names outlasts every receipt that is added.       *)
LEMMA StandingJobs ==
    ASSUME IntakeInv, StoresGrow, NEW s \in Job, JobStands(s) PROVE JobStands(s)'
<1>1. LeavingIsAssociated(s) => LeavingIsAssociated(s)'
  BY DEF LeavingIsAssociated, StoresGrow, PapersOf, AssociationReceipts, Latest, Recorded
<1>2. s.retries <= mishaps'
  BY FaultAssumption DEF IntakeInv, IntakeTypeOK, JobStands, StoresGrow, Job
<1> QED  BY <1>1, <1>2 DEF JobStands, StoresGrow, PapersOf

(* What a call knows stays so, whatever others add.                          *)
LEMMA StandingWork ==
    ASSUME IntakeInv, StoresGrow, NEW w \in Work, WorkStands(w) PROVE WorkStands(w)'
<1> USE DEF IntakeInv, IntakeTypeOK, StoresGrow
<1>1. JobStands(w.seen)' /\ w.asset <= Latest'
  BY StandingJobs DEF Work, WorkStands, Latest
<1>2. w.at = "associating" => assets'[w.asset].paper = 0 /\ papers'[w.paper].bytes = "whole"
  BY DEF WorkStands, Work, PaperReceipts, Recorded
<1>3. w.at = "deterministic_trunk" => AssociationReceipts' # {} /\ assets'[w.asset].paper = w.paper
  BY DEF WorkStands, Work
<1> QED  BY <1>1, <1>2, <1>3 DEF WorkStands, PapersOf

(* Nothing is added.                                                         *)
LEMMA StoresUnchanged ==
    ASSUME IntakeInv, UNCHANGED <<assets, papers>>, mishaps' \in 0..MaxFaults, mishaps <= mishaps',
           inbox # "none" => inbox' # "none"
    PROVE  StoresStand
  BY DEF IntakeInv, IntakeTypeOK, StoresStand, StoresGrow, ReceiptsStand, Latest, PaperReceipts,
     AssociationReceipts, Recorded, AssetReceipt, PaperReceipt

(* A step of one call.                                                       *)
LEMMA CallMoves ==
    ASSUME IntakeInv, StoresStand, NEW c \in Caller, NEW w,
           w = Idle \/ (w \in Work /\ WorkStands(w)'),
           call' = [call EXCEPT ![c] = w],
           job' \in {Nothing} \cup Job, job' # Nothing => JobStands(job)',
           UNCHANGED <<mode, policy>>, part' \in {"none", "torn", "whole", "linked"},
           holders' \subseteq Caller, inbox' \in {"none", "whole", "edited"}, CopyStands'
    PROVE  IntakeInv'
<1>1. call' \in [Caller -> {Idle} \cup Work]
  BY DEF IntakeInv, IntakeTypeOK, Work
<1>2. IntakeTypeOK'
  BY <1>1 DEF IntakeInv, IntakeTypeOK, StoresStand, StoresGrow, Work, AssetReceipt, PaperReceipt
<1>3. ASSUME NEW d \in Caller, call'[d].at \in Place PROVE WorkStands(call[d])'
  <2>1. CASE d = c
    BY <1>3, <2>1 DEF IntakeInv, IntakeTypeOK, Idle, Place
  <2>2. CASE d # c
    <3>1. call'[d] = call[d] /\ call[d] \in Work
      BY <1>3, <2>2 DEF IntakeInv, IntakeTypeOK, Idle, Place, Work
    <3> QED  BY <1>3, <3>1, StandingWork DEF IntakeInv, CallsStand, StoresStand
  <2> QED  BY <2>1, <2>2
<1> QED  BY <1>2, <1>3 DEF IntakeInv, CallsStand, StoresStand

(* A call whose stores have not changed ends, or goes on as w.               *)
LEMMA CallGoesOn ==
    ASSUME IntakeInv, NEW c \in Caller, NEW w, w = Idle \/ (w \in Work /\ WorkStands(w)),
           call' = [call EXCEPT ![c] = w],
           job' \in {Nothing} \cup Job, job' # Nothing => JobStands(job'),
           UNCHANGED <<mode, policy, assets, papers>>, mishaps' \in 0..MaxFaults,
           mishaps' = mishaps \/ mishaps <= mishaps', part' \in {"none", "torn", "whole", "linked"},
           holders' \subseteq Caller, inbox' \in {"none", "whole", "edited"},
           inbox # "none" => inbox' # "none", CopyStands'
    PROVE  IntakeInv'
<1>0. mishaps <= mishaps'
  BY FaultAssumption DEF IntakeInv, IntakeTypeOK
<1>1. StoresStand
  BY <1>0, StoresUnchanged
<1>2. w = Idle \/ (w \in Work /\ WorkStands(w)')
  BY <1>1, StandingWork DEF StoresStand
<1>3. job' # Nothing => JobStands(job)'
  BY <1>1, StandingJobs DEF StoresStand
<1> QED  BY <1>1, <1>2, <1>3, CallMoves DEF IntakeInv, IntakeTypeOK

Early == {"source", "register", "receipt", "publish", "unlink", "continue"}

(* A call goes on to a place where what it knows is what is asked of it.     *)
LEMMA GoingOn ==
    ASSUME IntakeInv, NEW c \in Caller, call[c].at \in Place, NEW place \in Place, Goes(c, place),
           place \in Early \/ WorkStands([call[c] EXCEPT !.at = place]),
           UNCHANGED <<mode, policy, job, assets, papers, mishaps>>,
           part' \in {"none", "torn", "whole", "linked"}, holders' \subseteq Caller,
           inbox' \in {"none", "whole", "edited"}, CopyStands', inbox # "none" => inbox' # "none"
    PROVE  IntakeInv'
<1> DEFINE w == [call[c] EXCEPT !.at = place]
<1>1. call[c] \in Work /\ WorkStands(call[c])
  BY DEF IntakeInv, IntakeTypeOK, CallsStand, Idle, Place, Work
<1>2. w \in Work /\ w.at = place /\ w.seen = call[c].seen /\ w.asset = call[c].asset
  BY <1>1 DEF Work
<1>3. call' = [call EXCEPT ![c] = w]
  BY DEF Goes, IntakeInv, IntakeTypeOK
<1> HIDE DEF w
<1>4. WorkStands(w)
  <2>1. CASE place \in Early
    BY <1>1, <1>2, <2>1 DEF WorkStands, Early
  <2>2. CASE place \notin Early
    BY <2>2 DEF w
  <2> QED  BY <2>1, <2>2
<1> QED  BY <1>2, <1>3, <1>4, CallGoesOn DEF IntakeInv, IntakeTypeOK, CallsStand

(* The copy and the selection of the source.                                 *)
LEMMA SourceSteps ==
    ASSUME IntakeInv, NEW c \in Caller,
           \/ SourceStands(c) \/ StageCopy(c) \/ ResumeCopy(c) \/ SelectCandidate(c)
           \/ LookUpReceipt(c) \/ LinkCopy(c) \/ UnlinkPart(c)
    PROVE  IntakeInv'
<1>1. call[c].at \in Place /\ UNCHANGED <<mode, policy, job, assets, papers, mishaps>>
  BY DEF SourceStands, StageCopy, ResumeCopy, SelectCandidate, LookUpReceipt, LinkCopy, UnlinkPart,
     At, Place
<1>2. /\ part' \in {"none", "torn", "whole", "linked"} /\ holders' \subseteq Caller
      /\ inbox' \in {"none", "whole", "edited"} /\ CopyStands'
      /\ inbox # "none" => inbox' # "none"
  BY DEF SourceStands, StageCopy, ResumeCopy, SelectCandidate, LookUpReceipt, LinkCopy, UnlinkPart,
     IntakeInv, IntakeTypeOK, CopyStands
<1>3. CASE \E place \in Early : Goes(c, place)
  BY <1>1, <1>2, <1>3, GoingOn DEF Early, Place
<1>4. CASE UnlinkPart(c) /\ call[c].asset # 0
  <2> DEFINE w == [call[c] EXCEPT !.at = "registry"]
  <2>1. call[c] \in Work /\ WorkStands(call[c])
    BY <1>1 DEF IntakeInv, IntakeTypeOK, CallsStand, Idle, Place, Work
  <2>2. w.at = "registry" /\ w.seen = call[c].seen /\ w.asset = call[c].asset
    BY <2>1 DEF Work
  <2>3. WorkStands(w)
    <3> HIDE DEF w
    <3> QED  BY <1>4, <2>1, <2>2 DEF WorkStands
  <2> QED  BY <1>1, <1>2, <1>4, <2>3, GoingOn DEF UnlinkPart, Place
<1> QED  BY <1>3, <1>4 DEF SourceStands, StageCopy, ResumeCopy, SelectCandidate, LookUpReceipt,
         LinkCopy, UnlinkPart, Early, AfterReceipt

(* A call starts with the head of the job.                                   *)
LEMMA StartSteps ==
    ASSUME IntakeInv, NEW c \in Caller,
           StartJob(c) \/ ReplayJob(c) \/ ResumeEmpty(c) \/ Resume(c)
    PROVE  IntakeInv'
<1>1. UNCHANGED <<mode, policy, part, inbox, assets, papers, mishaps>> /\ call[c] = Idle
  BY DEF StartJob, ReplayJob, ResumeEmpty, Resume
<1>2. StoresStand /\ CopyStands' /\ IntakeTypeOK
  BY <1>1, StoresUnchanged DEF IntakeInv, IntakeTypeOK, CopyStands
<1>3. CASE StartJob(c) \/ ReplayJob(c)
  <2> DEFINE w == [at |-> "source", seen |-> job', asset |-> 0, paper |-> 0]
  <2>1. job' \in Job /\ JobStands(job')
    <3>1. CASE StartJob(c)
      <4>1. job' = [status |-> "created", node |-> "source_intake", outputs |-> {}, retries |-> 0]
        BY <3>1 DEF StartJob
      <4> QED  BY <1>2, <4>1, FaultAssumption
               DEF Job, IntakeNode, Rank, JobStands, PapersOf, IntakeTypeOK, Authority
    <3>2. CASE ReplayJob(c)
      BY <1>2, <3>2 DEF ReplayJob, Live, IntakeTypeOK, IntakeInv, CallsStand
    <3> QED  BY <1>3, <3>1, <3>2
  <2>2. call' = [call EXCEPT ![c] = w] /\ holders' = holders
    BY <1>3 DEF StartJob, ReplayJob, Idle
  <2>3. w \in Work /\ w.at = "source" /\ w.seen = job' /\ w.asset = 0
    BY <2>1, IntakeAssumption DEF Work, Place
  <2> HIDE DEF w
  <2>4. WorkStands(w)
    BY <1>2, <2>1, <2>3 DEF WorkStands, IntakeTypeOK, Latest
  <2> QED  BY <1>1, <1>2, <2>1, <2>2, <2>3, <2>4, CallGoesOn DEF IntakeTypeOK
<1>4. CASE ResumeEmpty(c)
  <2>1. job \in Job /\ JobStands(job) /\ job.status = "created"
    BY <1>2, <1>4 DEF ResumeEmpty, Live, IntakeTypeOK, IntakeInv, CallsStand
  <2>2. job' \in Job /\ JobStands(job')
    <3> DEFINE s == [job EXCEPT !.status = "waiting_user"]
    <3>1. s \in Job /\ s.status = "waiting_user" /\ s.node = job.node /\ s.outputs = job.outputs
          /\ s.retries = job.retries
      BY <2>1 DEF Job
    <3>2. job' = s
      BY <1>4 DEF ResumeEmpty
    <3> HIDE DEF s
    <3> QED  BY <2>1, <3>1, <3>2 DEF JobStands, PapersOf, LeavingIsAssociated
  <2>3. call' = [call EXCEPT ![c] = Idle] /\ holders' = holders
    BY <1>1, <1>2, <1>4 DEF ResumeEmpty, IntakeTypeOK
  <2> QED  BY <1>1, <1>2, <2>2, <2>3, CallGoesOn DEF IntakeTypeOK
<1>5. CASE Resume(c)
  <2>1. PICK place \in {"registry", "publish"} :
            call' = [call EXCEPT ![c] =
                      [at |-> place, seen |-> job, asset |-> Latest, paper |-> 0]]
    BY <1>5 DEF Resume
  <2> DEFINE w == [at |-> place, seen |-> job, asset |-> Latest, paper |-> 0]
  <2>2. Latest \in 1..MaxCommits /\ UNCHANGED job /\ job \in Job /\ JobStands(job)
    BY <1>2, <1>5 DEF Resume, Receipted, Live, IntakeInv, IntakeTypeOK, ReceiptsStand, Latest,
       CallsStand
  <2>3. w \in Work /\ w.at = place /\ w.seen = job /\ w.asset = Latest
    BY <2>2, IntakeAssumption DEF Work, Place
  <2>4. call' = [call EXCEPT ![c] = w] /\ holders' \subseteq Caller
    BY <1>2, <1>5, <2>1 DEF Resume, IntakeTypeOK
  <2> HIDE DEF w
  <2>5. WorkStands(w)
    BY <2>2, <2>3 DEF WorkStands
  <2> QED  BY <1>1, <1>2, <2>2, <2>3, <2>4, <2>5, CallGoesOn DEF IntakeTypeOK
<1> QED  BY <1>3, <1>4, <1>5

(* A call is refused, fails or dies.                                         *)
LEMMA EndingSteps ==
    ASSUME IntakeInv, NEW c \in Caller, Refuse(c) \/ FailCall(c) \/ KillCall(c)
    PROVE  IntakeInv'
<1>1. /\ UNCHANGED <<mode, policy, job, inbox, assets, papers>>
      /\ call' = [call EXCEPT ![c] = Idle]
      /\ mishaps' \in {mishaps, mishaps + 1} /\ mishaps' \in 0..MaxFaults /\ mishaps <= mishaps'
  BY FaultAssumption
  DEF Refuse, FailCall, KillCall, Ending, Mishap, IntakeInv, IntakeTypeOK
<1>2. part' \in {part, "none", "torn"} /\ holders' \subseteq Caller
  BY DEF Refuse, FailCall, KillCall, DropsOwnPart, IntakeInv, IntakeTypeOK
<1>3. CopyStands' /\ part' \in {"none", "torn", "whole", "linked"}
  BY <1>1, <1>2 DEF IntakeInv, IntakeTypeOK, CopyStands
<1> QED  BY <1>1, <1>2, <1>3, CallGoesOn DEF IntakeInv, IntakeTypeOK, CallsStand

(* A call that is past its receipt finds the paper and its association, or   *)
(* what is missing of them.                                                  *)
LEMMA ContinueSteps ==
    ASSUME IntakeInv, NEW c \in Caller,
           \/ Continue(c) \/ ReusePaper(c) \/ NeedsPaper(c)
           \/ FindAssociation(c) \/ CheckAssociation(c)
    PROVE  IntakeInv'
<1> DEFINE old == call[c]
<1>1. /\ UNCHANGED <<mode, policy, job, part, holders, inbox, assets, papers, mishaps>>
      /\ old.at \in {"continue", "paper", "associate"}
  BY DEF Continue, ReusePaper, NeedsPaper, FindAssociation, CheckAssociation, At
<1>2. old \in Work /\ WorkStands(old)
  BY <1>1 DEF IntakeInv, IntakeTypeOK, CallsStand, Idle, Place, Work
<1>3. CASE Continue(c)
  <2> DEFINE w == [old EXCEPT !.at = "registry", !.asset = Latest]
  <2>1. Latest \in 1..MaxCommits /\ Latest \in 0..MaxCommits /\ Latest # 0
    BY <1>3 DEF Continue, Receipted, IntakeInv, IntakeTypeOK, ReceiptsStand, Latest
  <2>2. w \in Work /\ w.at = "registry" /\ w.seen = old.seen /\ w.asset = Latest
    BY <1>2, <2>1 DEF Work, Place
  <2>3. call' = [call EXCEPT ![c] = w]
    BY <1>3 DEF Continue
  <2> HIDE DEF w
  <2>4. WorkStands(w)
    BY <1>2, <2>1, <2>2 DEF WorkStands
  <2> QED  BY <1>1, <2>2, <2>3, <2>4, CallGoesOn DEF IntakeInv, IntakeTypeOK, CallsStand, CopyStands
<1>4. ASSUME NEW p \in PaperReceipts, PaperReceipts = {p}, At(c, "paper"),
             call' = [call EXCEPT ![c].at = "source_association", ![c].paper = p]
      PROVE  IntakeInv'
  <2> DEFINE w == [old EXCEPT !.at = "source_association", !.paper = p]
  <2>1. p \in 0..MaxCommits
    BY IntakeAssumption DEF PaperReceipts, Recorded, IntakeInv, IntakeTypeOK, ReceiptsStand
  <2>2. w \in Work /\ w.at = "source_association" /\ w.seen = old.seen /\ w.asset = old.asset
        /\ w.paper = p
    BY <1>2, <2>1 DEF Work, Place
  <2>3. call' = [call EXCEPT ![c] = w]
    BY <1>4
  <2> HIDE DEF w
  <2>4. WorkStands(w)
    BY <1>2, <1>4, <2>2 DEF WorkStands, JobStands, At
  <2> QED  BY <1>1, <2>2, <2>3, <2>4, CallGoesOn DEF IntakeInv, IntakeTypeOK, CallsStand, CopyStands
<1>5. CASE NeedsPaper(c) \/ FindAssociation(c) \/ CheckAssociation(c)
  <2>1. PICK place \in {"add", "deterministic_trunk", "associating"} :
            /\ Goes(c, place)
            /\ place = "add" => NeedsPaper(c)
            /\ place = "deterministic_trunk" => FindAssociation(c)
            /\ place = "associating" => CheckAssociation(c)
    BY <1>5 DEF NeedsPaper, FindAssociation, CheckAssociation
  <2> DEFINE w == [old EXCEPT !.at = place]
  <2>2. w \in Work /\ w.at = place /\ w.seen = old.seen /\ w.asset = old.asset
        /\ w.paper = old.paper
    BY <1>2 DEF Work, Place
  <2>3. call' = [call EXCEPT ![c] = w]
    BY <2>1 DEF Goes
  <2> HIDE DEF w
  <2>4. CASE place = "add"
    <3>1. WorkStands(w)
      BY <1>2, <2>1, <2>2, <2>4 DEF WorkStands, NeedsPaper, JobStands, At
    <3> QED  BY <1>1, <2>2, <2>3, <3>1, CallGoesOn
             DEF IntakeInv, IntakeTypeOK, CallsStand, CopyStands
  <2>5. CASE place = "deterministic_trunk"
    <3>1. AssociationReceipts # {}
      <4>1. Cardinality(AssociationReceipts) = 1
        BY <2>1, <2>5 DEF FindAssociation
      <4> QED  BY <4>1, FS_EmptySet
    <3>2. WorkStands(w)
      BY <1>2, <2>1, <2>2, <2>5, <3>1 DEF WorkStands, FindAssociation, At
    <3> QED  BY <1>1, <2>2, <2>3, <3>2, CallGoesOn
             DEF IntakeInv, IntakeTypeOK, CallsStand, CopyStands
  <2>6. CASE place = "associating"
    <3>1. WorkStands(w)
      BY <1>2, <2>1, <2>2, <2>6 DEF WorkStands, CheckAssociation, At
    <3> QED  BY <1>1, <2>2, <2>3, <3>1, CallGoesOn
             DEF IntakeInv, IntakeTypeOK, CallsStand, CopyStands
  <2> QED  BY <2>4, <2>5, <2>6
<1> QED  BY <1>3, <1>4, <1>5 DEF Continue, ReusePaper, NeedsPaper, FindAssociation,
         CheckAssociation

(* What a job may still name of the store is the last receipt or its root:   *)
(* the association that a call leaves with is the recorded one.              *)
LEMMA LeavingStands ==
    ASSUME IntakeInv, NEW w \in Work, WorkStands(w), w.at = "deterministic_trunk",
           NEW u \in Job, PapersOf(u) = {w.paper}, Ref("asset", w.asset) \in u.outputs,
           Named(u) \subseteq Content
    PROVE  LeavingIsAssociated(u)
<1>1. w.asset \in 1..Latest /\ assets[w.asset].paper = w.paper /\ w.paper \in PaperReceipts
      /\ AssociationReceipts # {} /\ w.paper # 0 /\ Latest # 0
  BY DEF WorkStands, Work, PaperReceipts, Recorded, IntakeInv, IntakeTypeOK, Latest
<1>2. w.asset \in {assets[Latest].root, Latest}
  BY <1>1 DEF Named, Content
<1>3. assets[assets[Latest].root].paper = 0
  BY <1>1 DEF IntakeInv, ReceiptsStand, Latest, IntakeTypeOK
<1>4. w.asset \in AssociationReceipts
  BY <1>1, <1>2, <1>3 DEF IntakeInv, ReceiptsStand
<1> QED  BY <1>1, <1>4 DEF LeavingIsAssociated

(* A call's state of the job, when it is the head or has become it, is moved *)
(* to t; or nothing of the job is moved.                                     *)
LEMMA ProgressSteps ==
    ASSUME IntakeInv, NEW c \in Caller, NEW node \in IntakeNode \ {"source_intake"},
           Progress(c, node)
    PROVE  IntakeInv'
<1> DEFINE old == call[c]  s == old.seen  t == Running(s, node, Results(c, node))
           next == Following[node]
<1>0. /\ UNCHANGED <<mode, policy, part, holders, inbox, assets, papers, mishaps>>
      /\ old.at = node /\ old.at \in Place
      /\ node \in {"registry", "source_association", "deterministic_trunk"}
  BY DEF Progress, At, Place, IntakeNode, Rank
<1>1. old \in Work /\ WorkStands(old)
  BY <1>0 DEF IntakeInv, IntakeTypeOK, CallsStand, Idle, Place, Work
<1>2. s \in Job /\ JobStands(s) /\ old.paper \in 0..MaxCommits
      /\ (node = "source_association" => old.paper \in PaperReceipts /\ old.paper \in 1..MaxCommits)
  BY <1>0, <1>1, IntakeAssumption
  DEF WorkStands, Work, PaperReceipts, Recorded, IntakeInv, ReceiptsStand, IntakeTypeOK
<1>3. t \in Job /\ t.status = "running" /\ t.node = node /\ t.retries = s.retries
      /\ t.outputs = s.outputs \cup Results(c, node)
  <2>1. Results(c, node) \subseteq Refs
    BY <1>0, <1>1, <1>2 DEF Results, Work, WorkStands, Ref, Refs
  <2> QED  BY <1>0, <1>2, <2>1 DEF Running, Job
<1>4. PapersOf(t) = IF node = "source_association" THEN PapersOf(s) \cup {old.paper}
                    ELSE PapersOf(s)
  <2>1. \A q \in 1..MaxCommits :
          Ref("paper", q) \in Results(c, node) <=> node = "source_association" /\ q = old.paper
    BY <1>0 DEF Results, Ref
  <2>2. \A q \in 1..MaxCommits : Ref("paper", q) \in t.outputs
            <=> Ref("paper", q) \in s.outputs \/ Ref("paper", q) \in Results(c, node)
    BY <1>3
  <2> HIDE DEF t
  <2> QED  BY <1>2, <2>1, <2>2 DEF PapersOf
<1> HIDE DEF t
(* What has left names a paper, the call's own.                              *)
<1>5. Skips(s, node, Results(c, node)) =>
        \/ s.status \in {"cancelled", "waiting_user"}
        \/ s.status = "running" /\ Rank[s.node] > Rank[node] /\ s.node \in IntakeNode
        \/ s.status = "running" /\ s.node = node /\ Results(c, node) \subseteq s.outputs
  BY <1>2 DEF Skips, Ends, JobStands
<1>6. CASE Skips(s, node, Results(c, node)) /\ Progressed(c, node, s) /\ UNCHANGED job
  <2>1. CASE node = "deterministic_trunk"
    <3>1. call' = [call EXCEPT ![c] = Idle]
      BY <1>6, <2>1 DEF Progressed, Following
    <3> QED  BY <1>0, <1>6, <3>1, CallGoesOn DEF IntakeInv, IntakeTypeOK, CallsStand, CopyStands
  <2>2. CASE node # "deterministic_trunk"
    <3> DEFINE w == [old EXCEPT !.at = Following[node], !.seen = s]
    <3>1. Following[node] = (IF node = "registry" THEN "paper" ELSE "associate")
      BY <1>0, <2>2 DEF Following
    <3>2. call' = [call EXCEPT ![c] = w]
      BY <1>6, <3>1 DEF Progressed
    <3>3. w \in Work /\ w.at = Following[node] /\ w.seen = s /\ w.asset = old.asset
          /\ w.paper = old.paper
      BY <1>1, <1>2, <3>1 DEF Work, Place
    <3>4. node = "source_association" =>
            s.status \in {"cancelled", "waiting_user"} \/ old.paper \in PapersOf(s)
      <4>1. CASE /\ s.status = "running" /\ Rank[s.node] > Rank["source_association"]
                 /\ s.node \in IntakeNode
                 /\ node = "source_association"
        <5>1. s.node = "deterministic_trunk"
          BY <4>1 DEF IntakeNode, Rank
        <5> QED  BY <1>0, <1>1, <1>2, <4>1, <5>1 DEF JobStands, LeavingIsAssociated, WorkStands
      <4>2. CASE Results(c, node) \subseteq s.outputs /\ node = "source_association"
        BY <1>2, <4>2 DEF Results, PapersOf
      <4> QED  BY <1>5, <1>6, <4>1, <4>2
    <3> HIDE DEF w
    <3>5. WorkStands(w)
      BY <1>0, <1>1, <1>2, <2>2, <3>1, <3>3, <3>4 DEF WorkStands
    <3> QED  BY <1>0, <1>6, <3>2, <3>3, <3>5, CallGoesOn
             DEF IntakeInv, IntakeTypeOK, CallsStand, CopyStands
  <2> QED  BY <2>1, <2>2
<1>7. CASE /\ ~Skips(s, node, Results(c, node))
           /\ (job = s /\ Advances(s, t) /\ Named(t) \subseteq Content) \/ job = t
           /\ job' = t /\ Progressed(c, node, t)
  <2>1. JobStands(t)
    <3>1. CASE job = t
      BY <1>3, <3>1, NothingIsNoJob DEF IntakeInv, CallsStand
    <3>2. CASE job = s /\ Named(t) \subseteq Content
      <4>1. t.retries <= mishaps /\ PapersOf(t) \subseteq PaperReceipts
        BY <1>2, <1>3, <1>4 DEF JobStands
      <4>2. node = "deterministic_trunk" => LeavingIsAssociated(t)
        <5>1. SUFFICES ASSUME node = "deterministic_trunk" PROVE LeavingIsAssociated(t)
          OBVIOUS
        <5>2. s.status \notin {"cancelled", "waiting_user"}
          BY <1>7 DEF Skips, Ends
        <5>3. PapersOf(t) = {old.paper} /\ Ref("asset", old.asset) \in t.outputs
          BY <1>0, <1>1, <1>3, <1>4, <5>1, <5>2 DEF WorkStands, Results
        <5> QED  BY <1>0, <1>1, <1>3, <3>2, <5>1, <5>3, LeavingStands
      <4> QED  BY <1>0, <1>3, <4>1, <4>2 DEF JobStands, IntakeNode, Rank, Authority
    <3> QED  BY <1>7, <3>1, <3>2
  <2>2. CASE node = "deterministic_trunk"
    <3>1. call' = [call EXCEPT ![c] = Idle]
      BY <1>7, <2>2 DEF Progressed, Following
    <3> QED  BY <1>0, <1>3, <1>7, <2>1, <3>1, CallGoesOn DEF IntakeInv, IntakeTypeOK, CopyStands
  <2>3. CASE node # "deterministic_trunk"
    <3> DEFINE w == [old EXCEPT !.at = Following[node], !.seen = t]
    <3>1. Following[node] = (IF node = "registry" THEN "paper" ELSE "associate")
      BY <1>0, <2>3 DEF Following
    <3>2. call' = [call EXCEPT ![c] = w]
      BY <1>7, <3>1 DEF Progressed
    <3>3. w \in Work /\ w.at = Following[node] /\ w.seen = t /\ w.asset = old.asset
          /\ w.paper = old.paper
      BY <1>1, <1>3, <3>1 DEF Work, Place
    <3> HIDE DEF w
    <3>4. WorkStands(w)
      BY <1>0, <1>1, <1>2, <1>4, <2>1, <2>3, <3>1, <3>3 DEF WorkStands
    <3> QED  BY <1>0, <1>3, <1>7, <2>1, <3>2, <3>3, <3>4, CallGoesOn
             DEF IntakeInv, IntakeTypeOK, CopyStands
  <2> QED  BY <2>2, <2>3
<1> QED  BY <1>6, <1>7 DEF Progress, t

(* The job waits for an authority with the paper and the association the     *)
(* call found.                                                               *)
LEMMA AwaitSteps == ASSUME IntakeInv, NEW c \in Caller, AwaitAuthority(c) PROVE IntakeInv'
<1> DEFINE old == call[c]  s == old.seen
           t == [s EXCEPT !.status = "waiting_user", !.node = Authority,
                          !.outputs = @ \cup {Ref("asset", old.asset)}]
<1>0. /\ UNCHANGED <<mode, policy, part, holders, inbox, assets, papers, mishaps>>
      /\ old.at = "deterministic_trunk" /\ job' = t /\ call' = [call EXCEPT ![c] = Idle]
      /\ \/ /\ job = s /\ s.status \in {"created", "running", "recovering"}
            /\ Named(t) \subseteq Content
         \/ job = t
  BY DEF AwaitAuthority, At, Ending
<1>1. old \in Work /\ WorkStands(old)
  BY <1>0 DEF IntakeInv, IntakeTypeOK, CallsStand, Idle, Place, Work
<1>2. s \in Job /\ JobStands(s) /\ old.asset \in 1..MaxCommits
  BY <1>0, <1>1 DEF WorkStands, Work
<1>3. t \in Job /\ t.status = "waiting_user" /\ t.node = Authority /\ t.retries = s.retries
      /\ t.outputs = s.outputs \cup {Ref("asset", old.asset)}
  <2>1. Ref("asset", old.asset) \in Refs
    BY <1>2 DEF Refs, Ref
  <2> QED  BY <1>2, <2>1 DEF Job
<1>4. PapersOf(t) = PapersOf(s)
  BY <1>3 DEF PapersOf, Ref
<1> HIDE DEF t
<1>5. JobStands(t)
  <2>1. CASE job = t
    BY <1>3, <2>1, NothingIsNoJob DEF IntakeInv, CallsStand
  <2>2. CASE s.status \in {"created", "running", "recovering"} /\ Named(t) \subseteq Content
    <3>1. PapersOf(t) = {old.paper}
      BY <1>0, <1>1, <1>4, <2>2 DEF WorkStands
    <3>2. LeavingIsAssociated(t)
      BY <1>0, <1>1, <1>3, <2>2, <3>1, LeavingStands
    <3> QED  BY <1>2, <1>3, <1>4, <3>2 DEF JobStands
  <2> QED  BY <1>0, <2>1, <2>2
<1> QED  BY <1>0, <1>3, <1>5, CallGoesOn DEF IntakeInv, IntakeTypeOK, CopyStands

-----------------------------------------------------------------------------
(* What the store is with one more receipt.                                  *)
Appended(r) ==
    /\ assets' \in Seq(AssetReceipt) /\ Latest' = Latest + 1 /\ Latest' \in 1..MaxCommits
    /\ \A n \in 1..Latest : assets'[n] = assets[n]
    /\ assets'[Latest + 1] = r /\ Latest \in Nat
    /\ Recorded(assets) \subseteq Recorded(assets)' /\ PaperReceipts' = PaperReceipts
    /\ \A n \in Recorded(assets)' \ Recorded(assets) : n = Latest + 1

(* A receipt is appended to the assets.                                      *)
LEMMA AppendedReceipt ==
    ASSUME IntakeInv, NEW r \in AssetReceipt, assets' = Append(assets, r), Latest < MaxCommits,
           UNCHANGED papers
    PROVE  Appended(r)
  BY IntakeAssumption
  DEF IntakeInv, IntakeTypeOK, AssetReceipt, Latest, Recorded, PaperReceipts, ReceiptsStand,
      Appended

(* The new receipt starts an asset, or associates one with a recorded paper  *)
(* as long as no association is recorded.                                    *)
LEMMA AppendingStands ==
    ASSUME IntakeInv, NEW r \in AssetReceipt, Appended(r),
           UNCHANGED <<papers, inbox>>, mishaps' \in 0..MaxFaults, mishaps <= mishaps',
           AssociationReceipts = {},
           \/ r.root = Latest + 1 /\ r.paper = 0
           \/ /\ r.root \in 1..Latest /\ assets[r.root].paper = 0
              /\ r.paper \in 1..Len(papers) /\ inbox # "none"
              /\ papers[r.paper] = [bytes |-> "whole", event |-> "recorded"]
    PROVE  StoresStand /\ Latest' = Latest + 1 /\ assets'[Latest + 1] = r
<1>1. Appended(r) /\ Latest' = Latest + 1 /\ Latest \in Nat /\ assets'[Latest + 1] = r
      /\ \A n \in 1..Latest : assets'[n] = assets[n]
  BY DEF Appended
<1>2. \A n \in AssociationReceipts' : n = Latest'
  <2>1. SUFFICES ASSUME NEW n \in AssociationReceipts', n # Latest + 1 PROVE FALSE
    BY <1>1
  <2>2. n \in Recorded(assets) /\ n \in 1..Latest /\ assets'[n].paper # 0
    BY <1>1, <2>1 DEF AssociationReceipts, Recorded, Latest, Appended
  <2> QED  BY <1>1, <2>2 DEF AssociationReceipts
<1>3. ASSUME NEW n \in 1..Latest'
      PROVE  /\ assets'[n].root \in 1..Latest' /\ assets'[assets'[n].root].paper = 0
             /\ assets'[n].paper # 0 =>
                 /\ inbox' # "none" /\ assets'[n].paper \in 1..Len(papers')
                 /\ papers'[assets'[n].paper] = [bytes |-> "whole", event |-> "recorded"]
  <2>1. CASE n \in 1..Latest
    <3>1. assets[n].root \in 1..Latest /\ assets'[n] = assets[n]
          /\ assets'[assets[n].root] = assets[assets[n].root]
      BY <1>1, <2>1 DEF IntakeInv, ReceiptsStand
    <3> QED  BY <1>1, <2>1, <3>1 DEF IntakeInv, ReceiptsStand
  <2>2. CASE n = Latest + 1
    <3>1. assets'[n] = r /\ UNCHANGED <<papers, inbox>>
      BY <1>1, <2>2
    <3>2. r.root \in 1..Latest' /\ assets'[r.root].paper = 0
      <4>1. CASE r.root = Latest + 1 /\ r.paper = 0
        BY <1>1, <4>1
      <4>2. CASE r.root \in 1..Latest /\ assets[r.root].paper = 0
        BY <1>1, <4>2
      <4> QED  BY <4>1, <4>2
    <3> QED  BY <3>1, <3>2
  <2>3. n \in 1..Latest \/ n = Latest + 1
    BY <1>1
  <2> QED  BY <2>1, <2>2, <2>3
<1>4. ReceiptsStand'
  BY <1>1, <1>2, <1>3 DEF IntakeInv, ReceiptsStand, Latest, Appended
<1>5. /\ papers' \in Seq(PaperReceipt)
      /\ \A p \in 1..Len(papers) : papers'[p].bytes = papers[p].bytes
      /\ Len(papers) <= Len(papers')
  BY DEF IntakeInv, IntakeTypeOK, PaperReceipt
<1>6. /\ Latest <= Latest' /\ AssociationReceipts \subseteq AssociationReceipts'
      /\ \A n \in 1..Latest : assets'[n].root = assets[n].root /\ assets'[n].paper = assets[n].paper
  BY <1>1
<1>7. StoresGrow
  BY <1>1, <1>5, <1>6 DEF StoresGrow, Appended
<1> QED  BY <1>1, <1>4, <1>5, <1>7 DEF StoresStand, Appended

(* An event that may be recorded, and what it costs.                         *)
LEMMA EventCosts ==
    ASSUME IntakeInv, NEW event \in Outcomes(mishaps), mishaps' = mishaps + Cost(event)
    PROVE  event \in Outcome /\ mishaps' \in 0..MaxFaults /\ mishaps <= mishaps'
  BY FaultAssumption DEF Outcomes, Outcome, Cost, IntakeInv, IntakeTypeOK

(* A receipt of the copy starts an asset.                                    *)
LEMMA WriteReceiptStep == ASSUME IntakeInv, NEW c \in Caller, WriteReceipt(c) PROVE IntakeInv'
<1>1. PICK event \in Outcomes(mishaps) :
        /\ assets' = Append(assets, [root |-> Latest + 1, paper |-> 0, event |-> event])
        /\ mishaps' = mishaps + Cost(event)
        /\ IF event = "recorded" THEN Goes(c, AfterReceipt) /\ UNCHANGED <<part, holders>>
           ELSE /\ Ending(c)
                /\ \/ UNCHANGED <<part, holders>>
                   \/ mode = "upload" /\ part' = "none" /\ holders' = {}
  BY DEF WriteReceipt
<1>2. /\ Recorded(assets) = {} /\ Latest < MaxCommits
      /\ UNCHANGED <<mode, policy, job, inbox, papers>> /\ call[c].at = "receipt"
  BY DEF WriteReceipt, Droppable, At
<1>3. event \in Outcome /\ mishaps' \in 0..MaxFaults /\ mishaps <= mishaps'
  BY <1>1, EventCosts
<1>4. StoresStand
  <2> DEFINE r == [root |-> Latest + 1, paper |-> 0, event |-> event]
  <2>1. r \in AssetReceipt /\ r.root = Latest + 1 /\ r.paper = 0
    BY <1>2, <1>3, IntakeAssumption DEF AssetReceipt, IntakeInv, IntakeTypeOK, Latest
  <2>2. AssociationReceipts = {}
    BY <1>2 DEF AssociationReceipts
  <2> QED  BY <1>1, <1>2, <1>3, <2>1, <2>2, AppendedReceipt, AppendingStands
<1>5. PICK w : /\ call' = [call EXCEPT ![c] = w]
               /\ w = Idle \/ w = [call[c] EXCEPT !.at = AfterReceipt]
  BY <1>1 DEF Goes, Ending
<1>6. w = Idle \/ (w \in Work /\ WorkStands(w))
  <2>1. call[c] \in Work /\ WorkStands(call[c])
    BY <1>2 DEF IntakeInv, IntakeTypeOK, CallsStand, Idle, Place, Work
  <2>2. CASE w = [call[c] EXCEPT !.at = AfterReceipt]
    <3>1. w \in Work /\ w.at \in {"publish", "continue"} /\ w.seen = call[c].seen
          /\ w.asset = call[c].asset
      BY <2>1, <2>2 DEF Work, Place, AfterReceipt
    <3> QED  BY <2>1, <3>1 DEF WorkStands
  <2> QED  BY <1>5, <2>2
<1>7. w = Idle \/ (w \in Work /\ WorkStands(w)')
  BY <1>4, <1>6, StandingWork DEF StoresStand
<1>8. job' # Nothing => JobStands(job)'
  BY <1>2, <1>4, StandingJobs DEF StoresStand, IntakeInv, IntakeTypeOK, CallsStand
<1>9. /\ part' \in {"none", "torn", "whole", "linked"} /\ holders' \subseteq Caller /\ CopyStands'
  BY <1>1, <1>2 DEF IntakeInv, IntakeTypeOK, CopyStands
<1> QED  BY <1>2, <1>4, <1>5, <1>7, <1>8, <1>9, CallMoves DEF IntakeInv, IntakeTypeOK

(* The association names the paper the call has recorded or found.           *)
LEMMA WriteAssociationStep ==
    ASSUME IntakeInv, NEW c \in Caller, WriteAssociation(c) PROVE IntakeInv'
<1> DEFINE old == call[c]
<1>1. PICK event \in Outcomes(mishaps) :
        /\ assets' = Append(assets, [root |-> assets[old.asset].root, paper |-> old.paper,
                                     event |-> event])
        /\ mishaps' = mishaps + Cost(event)
        /\ IF event = "recorded"
           THEN call' = [call EXCEPT ![c].at = "deterministic_trunk", ![c].asset = Latest + 1]
           ELSE Ending(c)
  BY DEF WriteAssociation
<1>2. /\ Recorded(assets) \subseteq {old.asset} /\ Latest < MaxCommits /\ inbox = "whole"
      /\ UNCHANGED <<mode, policy, job, part, holders, inbox, papers>> /\ old.at = "associating"
  BY DEF WriteAssociation, Droppable, At, InboxMatches
<1>3. event \in Outcome /\ mishaps' \in 0..MaxFaults /\ mishaps <= mishaps'
  BY <1>1, EventCosts
<1>4. old \in Work /\ WorkStands(old)
  BY <1>2 DEF IntakeInv, IntakeTypeOK, CallsStand, Idle, Place, Work
<1>5. /\ old.asset \in 1..Latest /\ assets[old.asset].paper = 0
      /\ old.paper \in 1..Len(papers) /\ old.paper \in 1..MaxCommits
      /\ papers[old.paper].bytes = "whole" /\ papers[old.paper].event = "recorded"
      /\ papers[old.paper] \in PaperReceipt
  <2>1. /\ old.asset \in 1..Latest /\ assets[old.asset].paper = 0 /\ old.paper \in PaperReceipts
        /\ papers[old.paper].bytes = "whole"
    BY <1>2, <1>4 DEF WorkStands, Work, IntakeInv, IntakeTypeOK, Latest
  <2>2. papers \in Seq(PaperReceipt) /\ Len(papers) <= MaxCommits
    BY DEF IntakeInv, IntakeTypeOK, ReceiptsStand, PaperReceipt
  <2> QED  BY <2>1, <2>2, IntakeAssumption DEF PaperReceipts, Recorded
<1>6. papers[old.paper] = [bytes |-> "whole", event |-> "recorded"]
  BY <1>5 DEF PaperReceipt
<1>7. PICK r : r = [root |-> assets[old.asset].root, paper |-> old.paper, event |-> event]
  OBVIOUS
<1>8. /\ r \in AssetReceipt /\ r.root \in 1..Latest /\ assets[r.root].paper = 0
      /\ r.paper = old.paper /\ r.event = event
  <2>1. /\ assets[old.asset].root \in 1..Latest
        /\ assets[assets[old.asset].root].paper = 0
    BY <1>5 DEF IntakeInv, ReceiptsStand
  <2>2. Latest \in 0..MaxCommits
    BY DEF IntakeInv, IntakeTypeOK, ReceiptsStand, Latest
  <2> QED  BY <1>3, <1>5, <1>7, <2>1, <2>2, IntakeAssumption DEF AssetReceipt
<1>9. StoresStand /\ Latest' = Latest + 1 /\ assets'[Latest + 1] = r
  <2>1. AssociationReceipts = {}
    BY <1>2, <1>5 DEF AssociationReceipts
  <2> QED  BY <1>1, <1>2, <1>3, <1>5, <1>6, <1>7, <1>8, <2>1, AppendedReceipt, AppendingStands
<1>10. PICK w : /\ call' = [call EXCEPT ![c] = w]
                /\ \/ w = Idle
                   \/ /\ event = "recorded"
                      /\ w = [old EXCEPT !.at = "deterministic_trunk", !.asset = Latest + 1]
  BY <1>1 DEF Ending
<1>11. w = Idle \/ (w \in Work /\ WorkStands(w)')
  <2>1. SUFFICES ASSUME event = "recorded",
                        w = [old EXCEPT !.at = "deterministic_trunk", !.asset = Latest + 1]
                 PROVE  w \in Work /\ WorkStands(w)'
    BY <1>10
  <2>2. w \in Work /\ w.at = "deterministic_trunk" /\ w.asset = Latest + 1 /\ w.seen = old.seen
        /\ w.paper = old.paper /\ w.seen \in Job
    <3>1. Latest + 1 \in 0..MaxCommits
      BY <1>2, IntakeAssumption DEF Latest, IntakeInv, IntakeTypeOK
    <3> QED  BY <1>4, <2>1, <3>1 DEF Work, Place
  <2>3. JobStands(w.seen)'
    BY <1>4, <1>9, <2>2, StandingJobs DEF WorkStands, StoresStand
  <2>4. /\ old.paper \in PaperReceipts' /\ PapersOf(old.seen) \subseteq {old.paper}
        /\ old.seen.status \in {"cancelled", "waiting_user"} \/ old.paper \in PapersOf(old.seen)
    BY <1>2, <1>4, <1>9 DEF WorkStands, StoresStand, StoresGrow
  <2>5. Latest + 1 \in AssociationReceipts'
    BY <1>5, <1>8, <1>9, <2>1 DEF AssociationReceipts, Recorded, Latest, IntakeInv, IntakeTypeOK
  <2>6. w.asset <= Latest' /\ w.asset # 0 /\ assets'[w.asset].paper = w.paper
    BY <1>8, <1>9, <2>2 DEF Latest, IntakeInv, IntakeTypeOK
  <2> QED  BY <2>2, <2>3, <2>4, <2>5, <2>6 DEF WorkStands, PapersOf
<1>12. job' # Nothing => JobStands(job)'
  BY <1>2, <1>9, StandingJobs DEF StoresStand, IntakeInv, IntakeTypeOK, CallsStand
<1> QED  BY <1>2, <1>9, <1>10, <1>11, <1>12, CallMoves DEF IntakeInv, IntakeTypeOK, CopyStands

PaperAppended(r) ==
    /\ papers' \in Seq(PaperReceipt) /\ Len(papers') = Len(papers) + 1 /\ Len(papers') <= MaxCommits
    /\ Len(papers) \in Nat
    /\ \A p \in 1..Len(papers) : papers'[p] = papers[p]
    /\ papers'[Len(papers) + 1] = r
    /\ PaperReceipts \subseteq PaperReceipts'
    /\ r.event = "recorded" => Len(papers) + 1 \in PaperReceipts'

(* A paper is appended to the registry.                                      *)
LEMMA AppendedPaper ==
    ASSUME IntakeInv, NEW r \in PaperReceipt, papers' = Append(papers, r), Len(papers) < MaxCommits
    PROVE  PaperAppended(r)
  BY IntakeAssumption
  DEF IntakeInv, IntakeTypeOK, PaperReceipt, PaperReceipts, Recorded, PaperAppended

(* A new paper leaves every receipt as it is.                                *)
LEMMA PaperAppendedStands ==
    ASSUME IntakeInv, NEW r, PaperAppended(r), UNCHANGED <<assets, inbox>>,
           mishaps' \in 0..MaxFaults, mishaps <= mishaps'
    PROVE  StoresStand
<1>1. /\ AssociationReceipts' = AssociationReceipts /\ Latest' = Latest
      /\ assets' \in Seq(AssetReceipt) /\ Latest \in Nat
  BY DEF AssociationReceipts, Recorded, Latest, IntakeInv, IntakeTypeOK, AssetReceipt
<1>2. ReceiptsStand'
  <2>1. ASSUME NEW n \in 1..Latest, assets[n].paper # 0
        PROVE  /\ assets[n].paper \in 1..Len(papers')
               /\ papers'[assets[n].paper] = papers[assets[n].paper]
    BY <2>1 DEF IntakeInv, ReceiptsStand, PaperAppended
  <2> QED  BY <1>1, <2>1 DEF IntakeInv, ReceiptsStand, PaperAppended
<1>3. StoresGrow
  BY <1>1 DEF StoresGrow, PaperAppended
<1> QED  BY <1>1, <1>2, <1>3 DEF StoresStand, PaperAppended

(* A paper is added with the bytes the call has found.                       *)
LEMMA AddPaperStep == ASSUME IntakeInv, NEW c \in Caller, AddPaper(c) PROVE IntakeInv'
<1> DEFINE old == call[c]
<1>1. PICK event \in Outcomes(mishaps) :
        /\ papers' = Append(papers, [bytes |-> inbox, event |-> event])
        /\ mishaps' = mishaps + Cost(event)
        /\ IF event = "recorded"
           THEN call' = [call EXCEPT ![c].at = "source_association", ![c].paper = Len(papers')]
           ELSE Ending(c)
  BY DEF AddPaper
<1>2. /\ Len(papers) < MaxCommits /\ inbox # "none" /\ old.at = "add"
      /\ UNCHANGED <<mode, policy, job, part, holders, inbox, assets>>
  BY DEF AddPaper, At
<1>3. event \in Outcome /\ mishaps' \in 0..MaxFaults /\ mishaps <= mishaps'
  BY <1>1, EventCosts
<1>4. PICK r : r = [bytes |-> inbox, event |-> event]
  OBVIOUS
<1>5. r \in PaperReceipt /\ r.event = event
  BY <1>2, <1>3, <1>4 DEF PaperReceipt, IntakeInv, IntakeTypeOK
<1>6. PaperAppended(r)
  BY <1>1, <1>2, <1>4, <1>5, AppendedPaper
<1>7. StoresStand
  BY <1>2, <1>3, <1>6, PaperAppendedStands
<1>8. old \in Work /\ WorkStands(old)
  BY <1>2 DEF IntakeInv, IntakeTypeOK, CallsStand, Idle, Place, Work
<1>9. PICK w : /\ call' = [call EXCEPT ![c] = w]
               /\ \/ w = Idle
                  \/ /\ event = "recorded"
                     /\ w = [old EXCEPT !.at = "source_association", !.paper = Len(papers')]
  BY <1>1 DEF Ending
<1>10. w = Idle \/ (w \in Work /\ WorkStands(w)')
  <2>1. SUFFICES ASSUME event = "recorded",
                        w = [old EXCEPT !.at = "source_association", !.paper = Len(papers')]
                 PROVE  w \in Work /\ WorkStands(w)'
    BY <1>9
  <2>2. Len(papers') \in 0..MaxCommits /\ Len(papers') \in PaperReceipts'
    BY <1>5, <1>6, <2>1, IntakeAssumption DEF PaperAppended
  <2>3. w \in Work /\ w.at = "source_association" /\ w.asset = old.asset /\ w.seen = old.seen
        /\ w.paper = Len(papers') /\ w.seen \in Job
    BY <1>8, <2>1, <2>2 DEF Work, Place
  <2>4. JobStands(w.seen)'
    BY <1>7, <1>8, <2>3, StandingJobs DEF WorkStands, StoresStand
  <2>5. PapersOf(w.seen) = {} /\ w.asset <= Latest' /\ w.asset # 0
    BY <1>2, <1>8, <2>3 DEF WorkStands, Latest
  <2> QED  BY <2>2, <2>3, <2>4, <2>5 DEF WorkStands, PapersOf
<1>11. job' # Nothing => JobStands(job)'
  BY <1>2, <1>7, StandingJobs DEF StoresStand, IntakeInv, IntakeTypeOK, CallsStand
<1> QED  BY <1>2, <1>7, <1>9, <1>10, <1>11, CallMoves DEF IntakeInv, IntakeTypeOK, CopyStands

-----------------------------------------------------------------------------
(* A step that moves no call.                                                *)
LEMMA WorkspaceMoves ==
    ASSUME IntakeInv, StoresStand, job' \in {Nothing} \cup Job, job' # Nothing => JobStands(job)',
           UNCHANGED <<mode, policy, call, part, holders>>,
           inbox' \in {"none", "whole", "edited"}, inbox' # "none" => inbox # "none"
    PROVE  IntakeInv'
<1>1. IntakeTypeOK'
  BY DEF IntakeInv, IntakeTypeOK, StoresStand, StoresGrow, AssetReceipt, PaperReceipt
<1>2. ASSUME NEW d \in Caller, call[d].at \in Place PROVE WorkStands(call[d])'
  <2>1. call[d] \in Work /\ WorkStands(call[d]) /\ call'[d] = call[d]
    BY <1>2 DEF IntakeInv, IntakeTypeOK, CallsStand, Idle, Place, Work
  <2> QED  BY <2>1, StandingWork DEF StoresStand
<1>3. CallsStand'
  BY <1>2 DEF CallsStand
<1> QED  BY <1>1, <1>3 DEF IntakeInv, StoresStand, CopyStands

(* Recovery resolves the open commits and changes nothing else of a store.   *)
LEMMA ResolvedAssets ==
    ASSUME NEW log \in Seq(AssetReceipt)
    PROVE  /\ Resolved(log) \in Seq(AssetReceipt) /\ Len(Resolved(log)) = Len(log)
           /\ \A n \in 1..Len(log) :
                /\ Resolved(log)[n].root = log[n].root /\ Resolved(log)[n].paper = log[n].paper
                /\ log[n].event = "recorded" => Resolved(log)[n].event = "recorded"
                /\ Resolved(log)[n].event = "recorded" /\ log[n].event # "recorded" => n = Len(log)
<1>1. ASSUME NEW n \in 1..Len(log)
      PROVE  /\ Resolved(log)[n] \in AssetReceipt
             /\ Resolved(log)[n].root = log[n].root /\ Resolved(log)[n].paper = log[n].paper
             /\ log[n].event = "recorded" => Resolved(log)[n].event = "recorded"
             /\ Resolved(log)[n].event = "recorded" /\ log[n].event # "recorded" => n = Len(log)
  <2> DEFINE e == IF n = Len(log) THEN "recorded" ELSE "parked"
  <2>2. log[n] \in AssetReceipt /\ Resolved(log)[n] = IF log[n].event # "open" THEN log[n]
                                                      ELSE [log[n] EXCEPT !.event = e]
    BY DEF Resolved
  <2>3. CASE log[n].event # "open"
    BY <2>2, <2>3
  <2>4. CASE log[n].event = "open"
    <3>1. Resolved(log)[n] = [log[n] EXCEPT !.event = e] /\ e \in Outcome
      BY <2>2, <2>4 DEF Outcome
    <3> QED  BY <2>2, <2>4, <3>1 DEF AssetReceipt
  <2> QED  BY <2>3, <2>4
<1>2. Resolved(log) \in [1..Len(log) -> AssetReceipt] /\ Len(log) \in Nat
  BY <1>1 DEF Resolved
<1> HIDE DEF Resolved
<1>3. Resolved(log) \in Seq(AssetReceipt) /\ Len(Resolved(log)) = Len(log)
  BY <1>2
<1> QED  BY <1>1, <1>3

(* So does it with the papers.                                               *)
LEMMA ResolvedPapers ==
    ASSUME NEW log \in Seq(PaperReceipt)
    PROVE  /\ Resolved(log) \in Seq(PaperReceipt) /\ Len(Resolved(log)) = Len(log)
           /\ \A n \in 1..Len(log) :
                /\ Resolved(log)[n].bytes = log[n].bytes
                /\ log[n].event = "recorded" => Resolved(log)[n] = log[n]
<1>1. ASSUME NEW n \in 1..Len(log)
      PROVE  /\ Resolved(log)[n] \in PaperReceipt
             /\ Resolved(log)[n].bytes = log[n].bytes
             /\ log[n].event = "recorded" => Resolved(log)[n] = log[n]
  <2> DEFINE e == IF n = Len(log) THEN "recorded" ELSE "parked"
  <2>2. log[n] \in PaperReceipt /\ Resolved(log)[n] = IF log[n].event # "open" THEN log[n]
                                                      ELSE [log[n] EXCEPT !.event = e]
    BY DEF Resolved
  <2>3. CASE log[n].event # "open"
    BY <2>2, <2>3
  <2>4. CASE log[n].event = "open"
    <3>1. Resolved(log)[n] = [log[n] EXCEPT !.event = e] /\ e \in Outcome
      BY <2>2, <2>4 DEF Outcome
    <3> QED  BY <2>2, <2>4, <3>1 DEF PaperReceipt
  <2> QED  BY <2>3, <2>4
<1>2. Resolved(log) \in [1..Len(log) -> PaperReceipt] /\ Len(log) \in Nat
  BY <1>1 DEF Resolved
<1>3. Resolved(log) \in Seq(PaperReceipt) /\ Len(Resolved(log)) = Len(log)
  BY <1>2
<1> QED  BY <1>1, <1>3

(* The inbox, the job and the open commits move without a call.              *)
LEMMA WorkspaceSteps ==
    ASSUME IntakeInv,
           EditInbox \/ RestoreInbox \/ CancelJob \/ RecoverJob \/ RecoverTransactions
    PROVE  IntakeInv'
<1>1. CASE EditInbox \/ RestoreInbox
  <2>1. /\ UNCHANGED <<mode, policy, job, part, holders, call, assets, papers>>
        /\ mishaps' \in 0..MaxFaults /\ mishaps <= mishaps'
        /\ inbox' \in {"whole", "edited"} /\ inbox # "none"
    BY <1>1, FaultAssumption DEF EditInbox, RestoreInbox, Mishap, IntakeInv, IntakeTypeOK
  <2> QED  BY <2>1, StoresUnchanged, StandingJobs, WorkspaceMoves
           DEF StoresStand, IntakeInv, IntakeTypeOK, CallsStand
<1>2. CASE CancelJob \/ RecoverJob
  <2>1. /\ UNCHANGED <<mode, policy, part, holders, inbox, call, assets, papers>>
        /\ mishaps' \in 0..MaxFaults /\ mishaps <= mishaps'
        /\ job \in Job /\ JobStands(job)
    BY <1>2, FaultAssumption
    DEF CancelJob, RecoverJob, Mishap, Live, IntakeInv, IntakeTypeOK, CallsStand
  <2>2. /\ job' \in Job /\ job'.status \in {"cancelled", "recovering"} /\ job'.node = job.node
        /\ job'.outputs = job.outputs /\ job'.retries <= mishaps'
    <3>1. CASE CancelJob
      BY <2>1, <3>1, FaultAssumption DEF CancelJob, Job, JobStands
    <3>2. CASE RecoverJob
      <4>1. /\ mishaps < MaxFaults /\ mishaps' = mishaps + 1 /\ mishaps \in Nat
            /\ job.retries \in 0..MaxFaults /\ job.retries <= mishaps
        BY <2>1, <3>2, FaultAssumption
        DEF RecoverJob, Mishap, Job, JobStands, IntakeInv, IntakeTypeOK
      <4>2. job.retries + 1 \in 0..MaxFaults /\ job.retries + 1 <= mishaps'
        BY <4>1, FaultAssumption
      <4> QED  BY <2>1, <3>2, <4>2 DEF RecoverJob, Job
    <3> QED  BY <1>2, <3>1, <3>2
  <2>3. StoresStand
    BY <2>1, StoresUnchanged
  <2>4. JobStands(job)'
    <3>1. LeavingIsAssociated(job) => LeavingIsAssociated(job')
      BY <2>2 DEF LeavingIsAssociated, PapersOf
    <3>2. \/ /\ LeavingIsAssociated(job)' /\ PapersOf(job)' \subseteq PaperReceipts'
             /\ (job'.status = "running" => job'.node \in IntakeNode)
          \/ job'.node \notin {"deterministic_trunk", Authority}
      BY <2>1, <2>2, <2>3, <3>1
      DEF JobStands, LeavingIsAssociated, StoresStand, StoresGrow, PapersOf, AssociationReceipts,
          Recorded, Latest
    <3> QED  BY <2>1, <2>2, <2>3, <3>2 DEF JobStands, PapersOf, StoresStand, StoresGrow
  <2> QED  BY <2>1, <2>2, <2>3, <2>4, WorkspaceMoves DEF IntakeInv, IntakeTypeOK
<1>3. CASE RecoverTransactions
  <2>1. /\ UNCHANGED <<mode, policy, job, part, holders, inbox, call, mishaps>>
        /\ mishaps \in 0..MaxFaults
        /\ assets' = Resolved(assets) /\ papers' = Resolved(papers)
    BY <1>3 DEF RecoverTransactions, IntakeInv, IntakeTypeOK
  <2>2. assets \in Seq(AssetReceipt) /\ papers \in Seq(PaperReceipt)
    BY DEF IntakeInv, IntakeTypeOK, AssetReceipt, PaperReceipt
  <2>3. /\ assets' \in Seq(AssetReceipt) /\ Latest' = Latest /\ Latest \in Nat
        /\ \A n \in 1..Latest :
             assets'[n].root = assets[n].root /\ assets'[n].paper = assets[n].paper
        /\ AssociationReceipts \subseteq AssociationReceipts'
        /\ \A n \in AssociationReceipts' : n \in AssociationReceipts \/ n = Latest
    <3> HIDE DEF Resolved
    <3> QED  BY <2>1, <2>2, ResolvedAssets DEF Latest, AssociationReceipts, Recorded
  <2>4. /\ papers' \in Seq(PaperReceipt) /\ Len(papers') = Len(papers) /\ Len(papers) \in Nat
        /\ \A p \in 1..Len(papers) : papers'[p].bytes = papers[p].bytes
        /\ \A p \in 1..Len(papers) : papers[p].event = "recorded" => papers'[p] = papers[p]
        /\ PaperReceipts \subseteq PaperReceipts'
    BY <2>1, <2>2, ResolvedPapers DEF PaperReceipts, Recorded
  <2>5. ReceiptsStand'
    <3>1. ASSUME NEW n \in 1..Latest, assets[n].paper # 0
          PROVE  /\ assets[n].paper \in 1..Len(papers)
                 /\ papers'[assets[n].paper] = papers[assets[n].paper]
      BY <3>1, <2>4 DEF IntakeInv, ReceiptsStand
    <3>2. \A n \in AssociationReceipts' : n = Latest'
      BY <2>3 DEF IntakeInv, ReceiptsStand
    <3>3. Len(assets') = Latest' /\ inbox' = inbox
      BY <2>1 DEF Latest
    <3>4. Len(assets') <= MaxCommits /\ Len(papers') <= MaxCommits
      BY <2>3, <2>4, <3>3 DEF ReceiptsStand, IntakeInv, Latest
    <3>5. ASSUME NEW n \in 1..Latest
          PROVE  /\ assets'[n].root \in 1..Latest /\ assets'[assets'[n].root].paper = 0
                 /\ assets'[n].paper # 0 =>
                      /\ inbox # "none" /\ assets'[n].paper \in 1..Len(papers)
                      /\ papers'[assets'[n].paper] = [bytes |-> "whole", event |-> "recorded"]
      <4>1. /\ assets[n].root \in 1..Latest /\ assets[assets[n].root].paper = 0
            /\ assets[n].paper # 0 =>
                 /\ inbox # "none" /\ assets[n].paper \in 1..Len(papers)
                 /\ papers[assets[n].paper] = [bytes |-> "whole", event |-> "recorded"]
        BY DEF ReceiptsStand, IntakeInv
      <4> QED  BY <2>3, <3>1, <4>1
    <3> QED  BY <2>3, <2>4, <3>2, <3>3, <3>4, <3>5 DEF ReceiptsStand
  <2>6. StoresStand
    BY <2>1, <2>3, <2>4, <2>5, FaultAssumption DEF StoresStand, StoresGrow
  <2> QED  BY <2>1, <2>6, StandingJobs, WorkspaceMoves
           DEF StoresStand, IntakeInv, IntakeTypeOK, CallsStand
<1> QED  BY <1>1, <1>2, <1>3

(* Every step keeps the invariant.                                           *)
LEMMA IntakeInvNext == ASSUME IntakeInv, [IntakeNext]_intakeVars PROVE IntakeInv'
<1>1. CASE UNCHANGED intakeVars
  <2>1. /\ UNCHANGED <<mode, policy, job, part, holders, inbox, call, assets, papers>>
        /\ mishaps' \in 0..MaxFaults /\ mishaps <= mishaps'
    BY <1>1, FaultAssumption DEF intakeVars, IntakeInv, IntakeTypeOK
  <2> QED  BY <2>1, StoresUnchanged, StandingJobs, WorkspaceMoves
           DEF StoresStand, IntakeInv, IntakeTypeOK, CallsStand
<1>2. ASSUME NEW c \in Caller, IntakeStep(c) PROVE IntakeInv'
  BY <1>2, SourceSteps, ContinueSteps, ProgressSteps, AwaitSteps, WriteReceiptStep,
     WriteAssociationStep, AddPaperStep DEF IntakeStep
<1> QED  BY <1>1, <1>2, StartSteps, EndingSteps, WorkspaceSteps DEF IntakeNext

(* In every state of an intake, receipts have their roots, associations are  *)
(* of recorded papers of the source's own bytes, and jobs and calls name     *)
(* receipts that stand (services/deterministic_intake_application.py,        *)
(* local_source_intake.py).                                                  *)
THEOREM IntakeInvariant == IntakeSpec => []IntakeInv
  BY IntakeInvInit, IntakeInvNext, PTL DEF IntakeSpec

(* What the runs check of an intake follows from its invariant.              *)
LEMMA IntakePromise == IntakeInv => TrunkIsAssociated /\ FinishedIntakeIsClean
<1> SUFFICES ASSUME IntakeInv PROVE TrunkIsAssociated /\ FinishedIntakeIsClean
  OBVIOUS
<1>1. TrunkIsAssociated
  <2>1. Left(job) => \E p \in PaperReceipts :
          /\ \A q \in 1..Len(papers) : Ref("paper", q) \in job.outputs <=> q = p
          /\ \E n \in AssociationReceipts : assets[n].paper = p /\ Ref("asset", n) \in job.outputs
    <3>1. Len(papers) <= MaxCommits /\ Len(papers) \in Nat
      BY DEF IntakeInv, IntakeTypeOK, ReceiptsStand
    <3> QED  BY <3>1, IntakeAssumption
             DEF Left, IntakeInv, CallsStand, JobStands, LeavingIsAssociated, PapersOf
  <2> QED  BY <2>1 DEF TrunkIsAssociated, IntakeInv, ReceiptsStand
<1>2. FinishedIntakeIsClean
  <2>1. SUFFICES ASSUME Left(job), ~DeadEnd, ~UnsettledJournals, \A c \in Caller : call[c] = Idle
                 PROVE  IntakeIsClean
    BY DEF FinishedIntakeIsClean
  <2>2. PICK n \in AssociationReceipts : assets[n].paper # 0
    BY <2>1 DEF Left, IntakeInv, CallsStand, JobStands, LeavingIsAssociated, AssociationReceipts
  <2>3. Latest # 0 /\ Latest \in 1..Latest /\ inbox = "whole"
    BY <2>1, <2>2 DEF AssociationReceipts, Recorded, Latest, DeadEnd, IntakeInv, IntakeTypeOK,
       ReceiptsStand
  <2>4. part = "none"
    BY <2>1, <2>3 DEF DeadEnd, At, Idle, IntakeInv, IntakeTypeOK, CopyStands
  <2>5. UnnamedReceipts = {}
    BY <2>1, <2>3 DEF UnnamedReceipts, Content, UnsettledJournals, IntakeInv, ReceiptsStand, Latest
  <2>6. ~AlteredSources
    BY <2>1, <2>3, <2>4 DEF AlteredSources, Observed, DeadEnd, MatchesReceipts, PaperReceipts,
       UnsettledJournals
  <2> QED  BY <2>1, <2>3, <2>4, <2>5, <2>6 DEF IntakeIsClean, StrayFiles
<1> QED  BY <1>1, <1>2

(* An intake job never leaves for the trunk, or waits for an authority,      *)
(* without naming exactly one recorded paper and a recorded association of   *)
(* it; and one whose calls are over and that met no dead end leaves nothing  *)
(* for Guardian to report, for any number of calls, commits and faults       *)
(* (services/deterministic_intake_application.py, local_source_intake.py).   *)
THEOREM IntakesLeaveAssociated == IntakeSpec => [](TrunkIsAssociated /\ FinishedIntakeIsClean)
BY IntakeInvariant, IntakePromise, PTL

-----------------------------------------------------------------------------
(* A paper's asset: its active manifestation has the paper's bytes, at every *)
(* receipt from the association on.                                          *)
UpTo(store, n) == {m \in Chain(store, store[n].asset) : m <= n}
OwnBytes(store) ==
    \A n \in 1..Len(store) : store[n].paper => ActiveBytes(store, UpTo(store, n)) = "own"
IdsTo(store, d) == \A n \in 1..Len(store) : store[n].id <= d /\ store[n].asset <= d
ChainedStore(store, d) ==
    store # <<>> /\ IdsTo(store, d) /\ ChainsStand(store) /\ OwnBytes(store)

(* What a call is about to append starts an asset or succeeds the head of one. *)
Starts(next) ==
    /\ next.reason = "reference_registered"
    /\ next.status = "active" /\ next.found = "available"
    /\ next.paper => next.bytes = "own"
Continues(base, next) ==
    /\ next.asset \in Assets(base)
    /\ Succeeds(HeadOf(base, next.asset), next, ActiveBytes(base, Chain(base, next.asset)))
    /\ next.paper => IF next.status = "active" THEN next.bytes = "own"
                     ELSE ActiveBytes(base, Chain(base, next.asset)) = "own"
DraftStands(base, next) ==
    /\ IF next.asset = 0 THEN Starts(next) ELSE Continues(base, next)
    /\ next.paper => \A b \in Assets(base) : HeadOf(base, b).paper => b = next.asset

StoresTyped ==
    /\ file \in [Where -> Bytes \cup {"none"}]
    /\ filed \in Seq(Receipt)
    /\ noted \subseteq 1..drawn /\ left \subseteq 1..drawn /\ drawn \in 1..MaxReceipts
    /\ keeping \in [Keeper -> {Nothing} \cup Plan]
    /\ touches \in 0..MaxTouches /\ accidents \in 0..MaxFaults
PlansStand ==
    \A k \in Keeper : keeping[k] # Nothing =>
        ChainedStore(keeping[k].base, drawn) /\ DraftStands(keeping[k].base, keeping[k].next)
AssetInv ==
    StoresTyped /\ ChainedStore(filed, drawn) /\ noted \subseteq Ids(filed) /\ PlansStand

(* What the invariant says of types is what the component says.              *)
LEMMA AssetTypes == AssetInv => AssetTypeOK
BY AssetAssumption DEF AssetInv, StoresTyped, AssetTypeOK

(* The last of some places is one of them.                                   *)
LEMMA LastPlace ==
    ASSUME NEW n \in Nat, NEW S \in SUBSET (1..n), S # {}
    PROVE  Last(S) \in S /\ \A m \in S : m <= Last(S)
BY LastExists DEF Last

(* A place after which there is no other is the last.                        *)
LEMMA LastIs ==
    ASSUME NEW n \in Nat, NEW S \in SUBSET (1..n), NEW x \in S, \A m \in S : m <= x
    PROVE  Last(S) = x
<1>1. Last(S) \in S /\ x <= Last(S)
  BY LastPlace
<1>2. x \in 1..n /\ Last(S) \in 1..n /\ Last(S) <= x
  <2> HIDE DEF Last
  <2> QED  BY <1>1
<1> QED  BY <1>1, <1>2

(* An asset of the store has a head.                                         *)
LEMMA HeadExists ==
    ASSUME NEW store \in Seq(Receipt), NEW a \in Assets(store)
    PROVE  /\ Chain(store, a) \in SUBSET (1..Len(store)) /\ Chain(store, a) # {}
           /\ Last(Chain(store, a)) \in Chain(store, a)
           /\ HeadOf(store, a) \in Receipt /\ HeadOf(store, a).asset = a
<1>1. Len(store) \in Nat /\ Chain(store, a) \in SUBSET (1..Len(store)) /\ Chain(store, a) # {}
  BY DEF Assets, Chain
<1>2. Last(Chain(store, a)) \in Chain(store, a)
  BY <1>1, LastPlace
<1>3. HeadOf(store, a) \in Receipt /\ HeadOf(store, a).asset = a
  BY <1>2 DEF HeadOf, Chain
<1> QED  BY <1>1, <1>2, <1>3

(* A set of places has a first one.                                          *)
LEMMA FirstExists ==
    ASSUME NEW n \in Nat, NEW S \in SUBSET (1..n), S # {}
    PROVE  \E x \in S : \A y \in S : x <= y
<1> DEFINE T == {n + 1 - x : x \in S}
<1>1. T \in SUBSET (1..n) /\ T # {}
  <2>1. ASSUME NEW x \in S
        PROVE  n + 1 - x \in 1..n
    <3>1. x \in 1..n
      OBVIOUS
    <3> QED  BY <3>1
  <2> QED  BY <2>1
<1> HIDE DEF T
<1>2. PICK t \in T : \A u \in T : u <= t
  BY <1>1, LastExists
<1>3. PICK x \in S : t = n + 1 - x
  BY <1>2 DEF T
<1>4. ASSUME NEW y \in S
      PROVE  x <= y
  <2>1. n + 1 - y \in T
    BY DEF T
  <2>2. n + 1 - y <= n + 1 - x
    BY <1>2, <1>3, <2>1
  <2>3. x \in Int /\ y \in Int
    OBVIOUS
  <2> QED  BY <2>2, <2>3
<1> QED  BY <1>4

(* The receipts of an asset up to some place hold an active one: the first.  *)
LEMMA ActiveIs ==
    ASSUME NEW store \in Seq(Receipt), NEW a, NEW S \in SUBSET Chain(store, a), S # {},
           \A n \in S : ReceiptStands(store, n),
           \A x \in S : \A y \in Chain(store, a) : y < x => y \in S
    PROVE  /\ {n \in S : store[n].status = "active"} # {}
           /\ Last({n \in S : store[n].status = "active"}) \in 1..Len(store)
           /\ ActiveBytes(store, S) \in Bytes
<1> DEFINE A == {n \in S : store[n].status = "active"}
<1>1. S \in SUBSET (1..Len(store)) /\ Len(store) \in Nat
  BY DEF Chain
<1>2. PICK x \in S : \A y \in S : x <= y
  BY <1>1, FirstExists
<1>3. Earlier(store, x) = {}
  <2>1. store[x].asset = a
    BY DEF Chain
  <2>2. ASSUME NEW y \in Chain(store, a), y < x
        PROVE  FALSE
    <3>1. y \in S /\ x <= y
      BY <1>2, <2>2
    <3>2. x \in Int /\ y \in Int
      BY <1>1, <3>1
    <3> QED  BY <2>2, <3>1, <3>2
  <2> QED  BY <2>1, <2>2 DEF Earlier
<1>4. x \in A
  BY <1>1, <1>3 DEF ReceiptStands
<1>5. Last(A) \in A
  BY <1>1, <1>4, LastPlace
<1>6. Last(A) \in 1..Len(store) /\ store[Last(A)] \in Receipt
  <2>1. Last(A) \in S
    BY <1>5
  <2>2. \A n \in 1..Len(store) : store[n] \in Receipt
    OBVIOUS
  <2>3. Last(A) \in 1..Len(store)
    BY <1>1, <2>1
  <2> QED  BY <2>2, <2>3
<1> QED  BY <1>4, <1>6 DEF ActiveBytes, Receipt

-----------------------------------------------------------------------------
(* One receipt is appended: the chains of the other assets stay.             *)
LEMMA Places ==
    ASSUME NEW base \in Seq(Receipt), NEW r \in Receipt, NEW new \in Seq(Receipt),
           Grown(base, new, r)
    PROVE  /\ Len(base) \in Nat /\ Len(new) = Len(base) + 1 /\ new[Len(new)] = r
           /\ \A n \in 1..Len(base) : new[n] = base[n]
           /\ \A n \in 1..Len(new) : n = Len(new) \/ n \in 1..Len(base)
BY DEF Grown

(* The chain of its asset is longer by the new receipt; every other chain,   *)
(* and what was before every other receipt, is the same.                     *)
LEMMA ChainsGrow ==
    ASSUME NEW base \in Seq(Receipt), NEW r \in Receipt, NEW new \in Seq(Receipt),
           Grown(base, new, r)
    PROVE  /\ \A a : Chain(new, a) = IF a = r.asset THEN Chain(base, a) \cup {Len(new)}
                                     ELSE Chain(base, a)
           /\ \A n \in 1..Len(base) :
                Earlier(new, n) = Earlier(base, n) /\ UpTo(new, n) = UpTo(base, n)
           /\ Earlier(new, Len(new)) = Chain(base, r.asset)
           /\ UpTo(new, Len(new)) = Chain(new, r.asset)
           /\ Assets(new) = Assets(base) \cup {r.asset}
<1>1. \A a : Chain(new, a) = IF a = r.asset THEN Chain(base, a) \cup {Len(new)}
                            ELSE Chain(base, a)
  BY Places DEF Chain
<1>2. ASSUME NEW n \in 1..Len(base)
      PROVE  Earlier(new, n) = Earlier(base, n) /\ UpTo(new, n) = UpTo(base, n)
  <2>1. new[n].asset = base[n].asset /\ ~(Len(new) < n) /\ ~(Len(new) <= n)
    BY Places
  <2> QED  BY <1>1, <2>1 DEF Earlier, UpTo
<1>3. /\ Earlier(new, Len(new)) = Chain(base, r.asset)
      /\ UpTo(new, Len(new)) = Chain(new, r.asset)
  <2>1. \A m \in Chain(base, r.asset) : m \in 1..Len(base) /\ m < Len(new) /\ m <= Len(new)
    BY Places DEF Chain
  <2>2. ~(Len(new) < Len(new)) /\ Len(new) <= Len(new) /\ new[Len(new)].asset = r.asset
    BY Places
  <2> QED  BY <1>1, <2>1, <2>2 DEF Earlier, UpTo
<1>4. Assets(new) = Assets(base) \cup {r.asset}
  <2>1. Len(new) \in 1..Len(new) /\ \A n \in 1..Len(base) : n \in 1..Len(new)
    BY Places
  <2> QED  BY <2>1, Places DEF Assets
<1> QED  BY <1>1, <1>2, <1>3, <1>4

(* The new receipt is the head of its asset; other heads stay.               *)
LEMMA HeadsGrow ==
    ASSUME NEW base \in Seq(Receipt), NEW r \in Receipt, NEW new \in Seq(Receipt),
           Grown(base, new, r)
    PROVE  /\ HeadOf(new, r.asset) = r
           /\ \A a \in Assets(base) \ {r.asset} : HeadOf(new, a) = HeadOf(base, a)
<1>1. HeadOf(new, r.asset) = r
  <2>1. Len(new) \in Chain(new, r.asset) /\ Chain(new, r.asset) \in SUBSET (1..Len(new))
    <3>1. Len(new) \in 1..Len(new)
      BY Places
    <3> QED  BY <3>1, Places DEF Chain
  <2>2. Len(new) \in Nat /\ \A m \in Chain(new, r.asset) : m <= Len(new)
    BY <2>1
  <2>3. Last(Chain(new, r.asset)) = Len(new)
    BY <2>1, <2>2, LastIs
  <2> QED  BY <2>3, Places DEF HeadOf
<1>2. ASSUME NEW a \in Assets(base), a # r.asset
      PROVE  HeadOf(new, a) = HeadOf(base, a)
  <2>1. Chain(new, a) = Chain(base, a)
    BY <1>2, ChainsGrow
  <2>2. Last(Chain(base, a)) \in 1..Len(base)
    BY HeadExists DEF Chain
  <2> QED  BY <2>1, <2>2, Places DEF HeadOf
<1> QED  BY <1>1, <1>2

(* The active manifestation of receipts there were stays the same.           *)
LEMMA ActiveStays ==
    ASSUME NEW base \in Seq(Receipt), NEW r \in Receipt, NEW new \in Seq(Receipt),
           Grown(base, new, r), NEW a, NEW S \in SUBSET Chain(base, a), S # {},
           \A n \in S : ReceiptStands(base, n),
           \A x \in S : \A y \in Chain(base, a) : y < x => y \in S
    PROVE  ActiveBytes(new, S) = ActiveBytes(base, S)
<1> DEFINE A == {n \in S : base[n].status = "active"}
<1>1. Last(A) \in 1..Len(base)
  BY ActiveIs
<1>2. \A n \in S : n \in 1..Len(base)
  BY DEF Chain
<1>3. {n \in S : new[n].status = "active"} = A
  BY <1>2, Places
<1>4. new[Last(A)] = base[Last(A)]
  <2> HIDE DEF A
  <2> QED  BY <1>1, Places
<1> QED  BY <1>3, <1>4 DEF ActiveBytes

(* What stands of a store still does when a receipt is appended to it.       *)
LEMMA ReceiptsStay ==
    ASSUME NEW base \in Seq(Receipt), NEW r \in Receipt, NEW new \in Seq(Receipt),
           Grown(base, new, r), \A n \in 1..Len(base) : ReceiptStands(base, n)
    PROVE  /\ \A n \in 1..Len(base) :
                /\ ReceiptStands(new, n)
                /\ ActiveBytes(new, UpTo(new, n)) = ActiveBytes(base, UpTo(base, n))
           /\ r.asset \in Assets(base) =>
                (ReceiptStands(new, Len(new)) <=>
                    Succeeds(HeadOf(base, r.asset), r, ActiveBytes(base, Chain(base, r.asset))))
           /\ r.asset \notin Assets(base) =>
                (ReceiptStands(new, Len(new)) <=>
                    /\ r.id = r.asset /\ r.reason = "reference_registered"
                    /\ r.status = "active" /\ r.found = "available")
<1>1. ASSUME NEW n \in 1..Len(base)
      PROVE  /\ ReceiptStands(new, n)
             /\ ActiveBytes(new, UpTo(new, n)) = ActiveBytes(base, UpTo(base, n))
  <2> DEFINE a == base[n].asset
  <2>1. /\ Earlier(new, n) = Earlier(base, n) /\ UpTo(new, n) = UpTo(base, n)
        /\ new[n] = base[n]
    BY Places, ChainsGrow
  <2>2. Chain(base, a) \in SUBSET (1..Len(base)) /\ n \in Chain(base, a)
    BY DEF Chain
  <2>3. ActiveBytes(new, UpTo(base, n)) = ActiveBytes(base, UpTo(base, n))
    <3>1. UpTo(base, n) \in SUBSET Chain(base, a) /\ n \in UpTo(base, n)
      BY <2>2 DEF UpTo
    <3>2. ASSUME NEW x \in UpTo(base, n), NEW y \in Chain(base, a), y < x
          PROVE  y \in UpTo(base, n)
      <4>1. x \in 1..Len(base) /\ y \in 1..Len(base) /\ x <= n
        BY <2>2 DEF UpTo
      <4>2. y <= n
        BY <3>2, <4>1
      <4> QED  BY <4>2 DEF UpTo
    <3>3. \A m \in UpTo(base, n) : ReceiptStands(base, m)
      BY <2>2, <3>1
    <3> QED  BY <3>1, <3>2, <3>3, ActiveStays
  <2>4. CASE Earlier(base, n) = {}
    BY <2>1, <2>3, <2>4 DEF ReceiptStands
  <2>5. CASE Earlier(base, n) # {}
    <3>1. Earlier(base, n) \in SUBSET Chain(base, a) /\ Earlier(base, n) \in SUBSET (1..Len(base))
      BY <2>2 DEF Earlier
    <3>2. ASSUME NEW x \in Earlier(base, n), NEW y \in Chain(base, a), y < x
          PROVE  y \in Earlier(base, n)
      <4>1. x \in 1..Len(base) /\ y \in 1..Len(base) /\ x < n
        BY <2>2 DEF Earlier
      <4>2. y < n
        BY <3>2, <4>1
      <4> QED  BY <4>2 DEF Earlier
    <3>3. \A m \in Earlier(base, n) : ReceiptStands(base, m)
      BY <3>1
    <3>4. ActiveBytes(new, Earlier(base, n)) = ActiveBytes(base, Earlier(base, n))
      BY <2>5, <3>1, <3>2, <3>3, ActiveStays
    <3>5. Last(Earlier(base, n)) \in 1..Len(base)
      <4>1. Last(Earlier(base, n)) \in Earlier(base, n)
        BY <2>5, <3>1, LastPlace, Places
      <4> QED  BY <3>1, <4>1
    <3>6. new[Last(Earlier(base, n))] = base[Last(Earlier(base, n))]
      BY <3>5, Places
    <3>7. ReceiptStands(base, n)
      OBVIOUS
    <3> QED  BY <2>1, <2>3, <2>5, <3>4, <3>6, <3>7 DEF ReceiptStands
  <2> QED  BY <2>4, <2>5
<1>2. Earlier(new, Len(new)) = Chain(base, r.asset) /\ new[Len(new)] = r
  BY Places, ChainsGrow
<1>3. ASSUME r.asset \in Assets(base)
      PROVE  ReceiptStands(new, Len(new)) <=>
                Succeeds(HeadOf(base, r.asset), r, ActiveBytes(base, Chain(base, r.asset)))
  <2>1. /\ Chain(base, r.asset) \in SUBSET (1..Len(base)) /\ Chain(base, r.asset) # {}
        /\ Last(Chain(base, r.asset)) \in 1..Len(base)
    BY <1>3, HeadExists DEF Chain
  <2>2. ActiveBytes(new, Chain(base, r.asset)) = ActiveBytes(base, Chain(base, r.asset))
    BY <2>1, ActiveStays
  <2>3. new[Last(Chain(base, r.asset))] = HeadOf(base, r.asset)
    BY <2>1, Places DEF HeadOf
  <2>4. Last(Chain(base, r.asset)) = Last(Earlier(new, Len(new)))
    BY <1>2
  <2> QED  BY <1>2, <2>1, <2>2, <2>3 DEF ReceiptStands
<1>4. ASSUME r.asset \notin Assets(base)
      PROVE  ReceiptStands(new, Len(new)) <=>
                /\ r.id = r.asset /\ r.reason = "reference_registered"
                /\ r.status = "active" /\ r.found = "available"
  <2>1. Chain(base, r.asset) = {}
    BY <1>4 DEF Assets, Chain
  <2> QED  BY <1>2, <1>4, <2>1 DEF ReceiptStands
<1> QED  BY <1>1, <1>3, <1>4

-----------------------------------------------------------------------------
Draft == [id : {0}, asset : 0..MaxReceipts, job : Keeper, paper : BOOLEAN, ref : Where,
          bytes : Bytes, status : {"active", "change_candidate"},
          found : {"available", "missing"}, reason : Reason]

(* Only the number of a receipt, and of its asset if it is the first, are new. *)
LEMMA NumberedReceipt ==
    ASSUME NEW next \in Draft, NEW i \in 1..MaxReceipts
    PROVE  LET r == Numbered(next, i)
           IN  /\ r \in Receipt /\ r.id = i
               /\ r.asset = IF next.asset = 0 THEN i ELSE next.asset
               /\ r.paper = next.paper /\ r.ref = next.ref /\ r.bytes = next.bytes
               /\ r.status = next.status /\ r.found = next.found /\ r.reason = next.reason
<1> DEFINE a == IF next.asset = 0 THEN i ELSE next.asset
           r == [next EXCEPT !.id = i, !.asset = a]
<1>1. a \in 1..MaxReceipts
  BY AssetAssumption DEF Draft
<1> HIDE DEF a
<1>2. r \in Receipt
  BY <1>1 DEF Draft, Receipt
<1>3. /\ r.id = i /\ r.asset = a
      /\ r.paper = next.paper /\ r.ref = next.ref /\ r.bytes = next.bytes
      /\ r.status = next.status /\ r.found = next.found /\ r.reason = next.reason
  BY DEF Draft
<1>4. Numbered(next, i) = r
  BY DEF Numbered, Draft, a
<1> QED  BY <1>2, <1>3, <1>4 DEF a

(* Whether a receipt may succeed another does not depend on numbers.         *)
LEMMA SucceedsAlike ==
    ASSUME NEW s, NEW t, NEW u, NEW active,
           t.paper = u.paper, t.ref = u.ref, t.bytes = u.bytes, t.status = u.status,
           t.found = u.found, t.reason = u.reason
    PROVE  Succeeds(s, t, active) <=> Succeeds(s, u, active)
BY DEF Succeeds, SameObservation

(* A store stays as it should be when a draft is numbered and appended that  *)
(* stands with regard to it.                                                 *)
LEMMA AppendStands ==
    ASSUME NEW base \in Seq(Receipt), NEW d \in Nat, ChainedStore(base, d),
           NEW next \in Draft, DraftStands(base, next),
           NEW i \in 1..MaxReceipts, i > d,
           NEW new \in Seq(Receipt), Grown(base, new, Numbered(next, i))
    PROVE  ChainedStore(new, i)
<1> DEFINE r == Numbered(next, i)
<1>1. /\ r \in Receipt /\ r.id = i
      /\ r.asset = IF next.asset = 0 THEN i ELSE next.asset
      /\ r.paper = next.paper /\ r.ref = next.ref /\ r.bytes = next.bytes
      /\ r.status = next.status /\ r.found = next.found /\ r.reason = next.reason
  BY NumberedReceipt
<1>2. Grown(base, new, r) /\ \A n \in 1..Len(base) : ReceiptStands(base, n)
  BY DEF ChainedStore, ChainsStand
<1> HIDE DEF r
<1>3. ASSUME NEW a \in Assets(base)
      PROVE  a \in 1..MaxReceipts /\ a <= d
  <2> PICK n \in 1..Len(base) : a = base[n].asset
    BY DEF Assets
  <2>1. base[n] \in Receipt
    OBVIOUS
  <2> QED  BY <2>1 DEF ChainedStore, IdsTo, Receipt
<1>4. next.asset = 0 => r.asset \notin Assets(base)
  <2>1. i \notin Assets(base)
    BY <1>3
  <2> QED  BY <1>1, <2>1
<1>5. /\ Len(base) \in Nat /\ Len(new) = Len(base) + 1 /\ new[Len(new)] = r
      /\ \A n \in 1..Len(base) : new[n] = base[n]
      /\ \A n \in 1..Len(new) : n = Len(new) \/ n \in 1..Len(base)
  BY <1>1, <1>2, Places
<1>6. new # <<>> /\ Len(new) \in 1..Len(new)
  BY <1>5
<1>7. IdsTo(new, i)
  <2>1. r.id <= i /\ r.asset <= i
    <3>1. CASE next.asset = 0
      BY <1>1, <3>1
    <3>2. CASE next.asset # 0
      <4>1. next.asset \in Assets(base)
        BY <3>2 DEF DraftStands, Continues
      <4> QED  BY <1>1, <1>3, <3>2, <4>1
    <3> QED  BY <3>1, <3>2
  <2>2. ASSUME NEW n \in 1..Len(base)
        PROVE  base[n].id <= i /\ base[n].asset <= i
    <3> PICK s \in Receipt : s = base[n]
      OBVIOUS
    <3>1. s.id <= d /\ s.asset <= d
      BY DEF ChainedStore, IdsTo
    <3>2. s.id \in Int /\ s.asset \in Int
      BY DEF Receipt
    <3> QED  BY <3>1, <3>2
  <2> QED  BY <1>5, <2>1, <2>2 DEF IdsTo
<1>8. ReceiptStands(new, Len(new))
  <2>1. CASE next.asset = 0
    <3>1. r.id = r.asset /\ r.reason = "reference_registered"
          /\ r.status = "active" /\ r.found = "available"
      BY <1>1, <2>1 DEF DraftStands, Starts
    <3> QED  BY <1>1, <1>2, <1>4, <2>1, <3>1, ReceiptsStay
  <2>2. CASE next.asset # 0
    <3>1. /\ next.asset \in Assets(base) /\ r.asset = next.asset
          /\ Succeeds(HeadOf(base, next.asset), next, ActiveBytes(base, Chain(base, next.asset)))
      BY <1>1, <2>2 DEF DraftStands, Continues
    <3>2. Succeeds(HeadOf(base, r.asset), r, ActiveBytes(base, Chain(base, r.asset)))
      BY <1>1, <3>1, SucceedsAlike
    <3> QED  BY <1>1, <1>2, <3>1, <3>2, ReceiptsStay
  <2> QED  BY <2>1, <2>2
<1>9. \A n \in 1..Len(new) : ReceiptStands(new, n)
  <2>1. \A n \in 1..Len(base) : ReceiptStands(new, n)
    BY <1>1, <1>2, ReceiptsStay
  <2> QED  BY <1>5, <1>8, <2>1
<1>10. OneAssetOfPaper(new)
  <2>1. ASSUME NEW a \in Assets(new), NEW b \in Assets(new),
               HeadOf(new, a).paper, HeadOf(new, b).paper, a # b
        PROVE  FALSE
    <3>1. /\ HeadOf(new, r.asset) = r
          /\ \A e \in Assets(base) \ {r.asset} : HeadOf(new, e) = HeadOf(base, e)
          /\ Assets(new) = Assets(base) \cup {r.asset}
      BY <1>1, <1>2, HeadsGrow, ChainsGrow
    <3>2. ASSUME r.paper, NEW e \in Assets(base), e # r.asset, HeadOf(base, e).paper
          PROVE  FALSE
      <4>1. e = next.asset
        BY <1>1, <3>2 DEF DraftStands
      <4>2. e # 0
        BY <1>3
      <4> QED  BY <1>1, <3>2, <4>1, <4>2
    <3>3. CASE a = r.asset
      BY <2>1, <3>1, <3>2, <3>3
    <3>4. CASE b = r.asset
      BY <2>1, <3>1, <3>2, <3>4
    <3>5. CASE a # r.asset /\ b # r.asset
      <4>1. a \in Assets(base) /\ b \in Assets(base)
            /\ HeadOf(base, a).paper /\ HeadOf(base, b).paper
        BY <2>1, <3>1, <3>5
      <4> QED  BY <2>1, <4>1 DEF ChainedStore, ChainsStand, OneAssetOfPaper
    <3> QED  BY <3>3, <3>4, <3>5
  <2> QED  BY <2>1 DEF OneAssetOfPaper
<1>11. OwnBytes(new)
  <2>1. ASSUME NEW n \in 1..Len(base), new[n].paper
        PROVE  ActiveBytes(new, UpTo(new, n)) = "own"
    <3>1. ActiveBytes(new, UpTo(new, n)) = ActiveBytes(base, UpTo(base, n))
      BY <1>1, <1>2, ReceiptsStay
    <3>2. base[n].paper
      BY <1>5, <2>1
    <3> QED  BY <3>1, <3>2 DEF ChainedStore, OwnBytes
  <2>2. ASSUME r.paper
        PROVE  ActiveBytes(new, UpTo(new, Len(new))) = "own"
    <3> DEFINE C == Chain(base, r.asset)
    <3>1. /\ UpTo(new, Len(new)) = C \cup {Len(new)}
          /\ C \in SUBSET (1..Len(base))
      <4>1. UpTo(new, Len(new)) = Chain(new, r.asset) /\ Chain(new, r.asset) = C \cup {Len(new)}
        BY <1>1, <1>2, ChainsGrow
      <4> QED  BY <4>1 DEF Chain
    <3>2. CASE r.status = "active"
      <4> DEFINE A == {n \in UpTo(new, Len(new)) : new[n].status = "active"}
      <4>1. A \in SUBSET (1..Len(new)) /\ Len(new) \in A /\ \A n \in A : n <= Len(new)
        BY <1>5, <1>6, <3>1, <3>2
      <4>2. Last(A) = Len(new)
        <5>1. Len(new) \in Nat
          BY <1>5
        <5> HIDE DEF A
        <5> QED  BY <4>1, <5>1, LastIs
      <4>3. ActiveBytes(new, UpTo(new, Len(new))) = r.bytes
        BY <1>5, <4>2 DEF ActiveBytes
      <4>4. r.bytes = "own"
        BY <1>1, <2>2, <3>2 DEF DraftStands, Starts, Continues
      <4> QED  BY <4>3, <4>4
    <3>3. CASE r.status # "active"
      <4>1. /\ next.asset # 0 /\ next.asset \in Assets(base) /\ r.asset = next.asset
            /\ ActiveBytes(base, Chain(base, next.asset)) = "own"
        BY <1>1, <2>2, <3>3 DEF DraftStands, Starts, Continues
      <4>2. C # {} /\ C \in SUBSET (1..Len(base))
        BY <4>1, HeadExists
      <4>3. ActiveBytes(new, C) = ActiveBytes(base, C)
        BY <1>1, <1>2, <4>2, ActiveStays
      <4>4. {n \in UpTo(new, Len(new)) : new[n].status = "active"}
              = {n \in C : new[n].status = "active"}
        BY <1>5, <3>1, <3>3
      <4>5. ActiveBytes(new, UpTo(new, Len(new))) = ActiveBytes(new, C)
        BY <4>4 DEF ActiveBytes
      <4> QED  BY <4>1, <4>3, <4>5
    <3> QED  BY <3>2, <3>3
  <2> QED  BY <1>5, <2>1, <2>2 DEF OwnBytes
<1> QED  BY <1>6, <1>7, <1>9, <1>10, <1>11 DEF ChainedStore, ChainsStand

(* A draft that a store would stand with stands with regard to it.           *)
LEMMA DraftStandsBy ==
    ASSUME NEW base \in Seq(Receipt), NEW d \in Nat, ChainedStore(base, d),
           NEW next \in Draft, NEW i \in 1..MaxReceipts, i > d,
           NEW new \in Seq(Receipt), Grown(base, new, Numbered(next, i)), ChainsStand(new),
           next.asset = 0 => (next.paper => next.bytes = "own"),
           next.asset # 0 =>
              /\ next.asset \in Assets(base)
              /\ next.paper => IF next.status = "active" THEN next.bytes = "own"
                               ELSE ActiveBytes(base, Chain(base, next.asset)) = "own"
    PROVE  DraftStands(base, next)
<1> DEFINE r == Numbered(next, i)
<1>1. /\ r \in Receipt /\ r.id = i
      /\ r.asset = IF next.asset = 0 THEN i ELSE next.asset
      /\ r.paper = next.paper /\ r.ref = next.ref /\ r.bytes = next.bytes
      /\ r.status = next.status /\ r.found = next.found /\ r.reason = next.reason
  BY NumberedReceipt
<1>2. Grown(base, new, r) /\ \A n \in 1..Len(base) : ReceiptStands(base, n)
  BY DEF ChainedStore, ChainsStand
<1> HIDE DEF r
<1>3. ASSUME NEW a \in Assets(base)
      PROVE  a # i /\ a # 0
  <2> PICK n \in 1..Len(base) : a = base[n].asset
    BY DEF Assets
  <2>1. base[n] \in Receipt
    OBVIOUS
  <2>2. a \in 1..MaxReceipts
    BY <2>1 DEF Receipt
  <2>3. a <= d
    BY DEF ChainedStore, IdsTo
  <2> QED  BY <2>2, <2>3
<1>4. ReceiptStands(new, Len(new))
  BY <1>1, <1>2, Places DEF ChainsStand
<1>5. ASSUME next.asset = 0
      PROVE  Starts(next)
  <2>1. r.asset \notin Assets(base)
    BY <1>1, <1>3, <1>5
  <2>2. r.reason = "reference_registered" /\ r.status = "active" /\ r.found = "available"
    BY <1>1, <1>2, <1>4, <2>1, ReceiptsStay
  <2> QED  BY <1>1, <1>5, <2>2 DEF Starts
<1>6. ASSUME next.asset # 0
      PROVE  Continues(base, next)
  <2>1. r.asset = next.asset /\ r.asset \in Assets(base)
    BY <1>1, <1>6
  <2>2. Succeeds(HeadOf(base, r.asset), r, ActiveBytes(base, Chain(base, r.asset)))
    BY <1>1, <1>2, <1>4, <2>1, ReceiptsStay
  <2>3. Succeeds(HeadOf(base, next.asset), next, ActiveBytes(base, Chain(base, next.asset)))
    BY <1>1, <2>1, <2>2, SucceedsAlike
  <2> QED  BY <1>6, <2>3 DEF Continues
<1>7. ASSUME next.paper, NEW b \in Assets(base), HeadOf(base, b).paper, b # next.asset
      PROVE  FALSE
  <2>1. b # r.asset /\ r.paper
    BY <1>1, <1>3, <1>7
  <2>2. /\ HeadOf(new, r.asset) = r /\ HeadOf(new, b) = HeadOf(base, b)
        /\ r.asset \in Assets(new) /\ b \in Assets(new)
    BY <1>1, <1>2, <2>1, HeadsGrow, ChainsGrow
  <2> QED  BY <1>7, <2>1, <2>2 DEF ChainsStand, OneAssetOfPaper
<1> QED  BY <1>5, <1>6, <1>7 DEF DraftStands

(* A plan is not the lack of one.                                            *)
LEMMA PlanTyped ==
    ASSUME NEW base \in Seq(Receipt), NEW next \in Draft
    PROVE  /\ [base |-> base, next |-> next] \in Plan /\ [base |-> base, next |-> next] # Nothing
BY NothingIsNoPlan DEF Plan, Draft

(* A call may plan to append what the store as it is would stand with.       *)
LEMMA PlansKeep ==
    ASSUME AssetInv, NEW k \in Keeper, NEW next \in Draft, Plans(k, next),
           next.asset = 0 => (next.paper => next.bytes = "own"),
           next.asset # 0 =>
              /\ next.asset \in Assets(filed)
              /\ next.paper => IF next.status = "active" THEN next.bytes = "own"
                               ELSE ActiveBytes(filed, Chain(filed, next.asset)) = "own"
    PROVE  AssetInv'
<1> DEFINE i == drawn + 1
           new == Append(filed, Numbered(next, i))
           p == [base |-> filed, next |-> next]
<1>1. /\ filed \in Seq(Receipt) /\ drawn \in Nat /\ i \in 1..MaxReceipts /\ i > drawn
      /\ ChainedStore(filed, drawn)
  BY AssetAssumption DEF AssetInv, StoresTyped, Plans
<1>2. Numbered(next, i) \in Receipt
  BY <1>1, NumberedReceipt
<1>3. new \in Seq(Receipt) /\ Grown(filed, new, Numbered(next, i))
  BY <1>1, <1>2, Appending
<1>4. ChainsStand(new) /\ keeping' = [keeping EXCEPT ![k] = p] /\ Still
  BY DEF Plans
<1>5. p \in Plan /\ p # Nothing /\ p.base = filed /\ p.next = next
  BY <1>1, PlanTyped
<1> HIDE DEF new, i, p
<1>6. DraftStands(filed, next)
  BY <1>1, <1>3, <1>4, DraftStandsBy
<1>7. UNCHANGED <<file, filed, noted, left, drawn, touches, accidents>>
  BY <1>4 DEF Still
<1>8. StoresTyped'
  BY <1>4, <1>5, <1>7 DEF AssetInv, StoresTyped
<1>9. PlansStand'
  <2>1. ASSUME NEW l \in Keeper, keeping'[l] # Nothing
        PROVE  /\ ChainedStore(keeping'[l].base, drawn)
               /\ DraftStands(keeping'[l].base, keeping'[l].next)
    <3>1. CASE l = k
      <4>1. keeping'[l] = p
        BY <1>4, <3>1 DEF AssetInv, StoresTyped
      <4> QED  BY <1>1, <1>5, <1>6, <4>1
    <3>2. CASE l # k
      <4>1. keeping'[l] = keeping[l]
        BY <1>4, <3>2 DEF AssetInv, StoresTyped
      <4> QED  BY <2>1, <4>1 DEF AssetInv, PlansStand
    <3> QED  BY <3>1, <3>2
  <2> QED  BY <1>7, <2>1 DEF PlansStand
<1>10. ChainedStore(filed, drawn)' /\ (noted \subseteq Ids(filed))'
  <2>1. ChainedStore(filed', drawn') /\ noted' \subseteq Ids(filed')
    BY <1>1, <1>7 DEF AssetInv
  <2> QED  BY <2>1
<1> QED  BY <1>8, <1>9, <1>10 DEF AssetInv

(* The active bytes of a paper's asset are the paper's, and so are those of  *)
(* an active head.                                                           *)
LEMMA ChainHas ==
    ASSUME AssetInv, NEW a \in Assets(filed)
    PROVE  /\ HeadOf(filed, a) \in Receipt /\ HeadOf(filed, a).asset = a
           /\ a \in 1..MaxReceipts
           /\ ActiveBytes(filed, Chain(filed, a)) \in Bytes
           /\ HeadOf(filed, a).paper => ActiveBytes(filed, Chain(filed, a)) = "own"
           /\ HeadOf(filed, a).paper /\ HeadOf(filed, a).status = "active" =>
                HeadOf(filed, a).bytes = "own"
<1> DEFINE C == Chain(filed, a)
           x == Last(C)
<1>1. /\ filed \in Seq(Receipt) /\ OwnBytes(filed)
      /\ \A n \in 1..Len(filed) : ReceiptStands(filed, n)
  BY DEF AssetInv, StoresTyped, ChainedStore, ChainsStand
<1>2. /\ C \in SUBSET (1..Len(filed)) /\ C # {} /\ x \in C /\ HeadOf(filed, a) = filed[x]
      /\ HeadOf(filed, a) \in Receipt /\ HeadOf(filed, a).asset = a
  BY <1>1, HeadExists DEF HeadOf
<1>3. \A m \in C : m <= x
  <2>1. Len(filed) \in Nat
    BY <1>1
  <2> QED  BY <1>2, <2>1, LastPlace
<1>4. a \in 1..MaxReceipts
  BY <1>2 DEF Receipt
<1>5. ActiveBytes(filed, C) \in Bytes
  BY <1>1, <1>2, ActiveIs
<1>6. UpTo(filed, x) = C
  BY <1>2, <1>3 DEF UpTo
<1>7. HeadOf(filed, a).paper => ActiveBytes(filed, C) = "own"
  <2> HIDE DEF x, C
  <2> QED  BY <1>1, <1>2, <1>6 DEF OwnBytes
<1>8. ASSUME HeadOf(filed, a).paper, HeadOf(filed, a).status = "active"
      PROVE  HeadOf(filed, a).bytes = "own"
  <2> DEFINE A == {n \in C : filed[n].status = "active"}
  <2>1. x \in A /\ A \in SUBSET (1..Len(filed)) /\ \A m \in A : m <= x
    BY <1>2, <1>3, <1>8
  <2>2. Last(A) = x
    <3>1. Len(filed) \in Nat
      BY <1>1
    <3> HIDE DEF A, x
    <3> QED  BY <2>1, <3>1, LastIs
  <2>3. ActiveBytes(filed, C) = filed[x].bytes
    BY <2>2 DEF ActiveBytes
  <2> QED  BY <1>2, <1>7, <1>8, <2>3
<1> QED  BY <1>2, <1>4, <1>5, <1>7, <1>8

-----------------------------------------------------------------------------
(* A file is registered for a paper only with the paper's bytes.             *)
LEMMA RegisterKeeps ==
    ASSUME AssetInv, NEW k \in Keeper, NEW place \in Where, NEW paper \in BOOLEAN,
           RegisterManifestation(k, place, paper)
    PROVE  AssetInv'
<1> DEFINE next == [id |-> 0, asset |-> 0, job |-> k, paper |-> paper, ref |-> place,
                    bytes |-> file[place], status |-> "active", found |-> "available",
                    reason |-> "reference_registered"]
<1>1. file[place] \in Bytes
  BY DEF AssetInv, StoresTyped, RegisterManifestation
<1>2. next \in Draft
  BY <1>1, AssetAssumption DEF Draft, Reason
<1>3. next.asset = 0 /\ (next.paper => next.bytes = "own")
  BY DEF RegisterManifestation
<1>4. Plans(k, next)
  BY DEF RegisterManifestation
<1> HIDE DEF next
<1> QED  BY <1>2, <1>3, <1>4, PlansKeep

(* A successor of the head of an asset, with what the call has found.        *)
Next(h, k, reason, paper, ref, bytes, status, found) ==
    [h EXCEPT !.id = 0, !.job = k, !.reason = reason, !.paper = paper, !.ref = ref,
              !.bytes = bytes, !.status = status, !.found = found]

(* A successor has what it is given, and the asset of its predecessor.       *)
LEMMA NextDraft ==
    ASSUME NEW h \in Receipt, NEW k \in Keeper, NEW reason \in Reason, NEW paper \in BOOLEAN,
           NEW ref \in Where, NEW bytes \in Bytes, NEW status \in {"active", "change_candidate"},
           NEW found \in {"available", "missing"}
    PROVE  LET next == Next(h, k, reason, paper, ref, bytes, status, found)
           IN  /\ next \in Draft /\ next.asset = h.asset /\ next.paper = paper
               /\ next.status = status /\ next.bytes = bytes /\ h.asset # 0
<1>1. h.asset \in 0..MaxReceipts /\ h.asset # 0
  BY DEF Receipt
<1>2. Next(h, k, reason, paper, ref, bytes, status, found) \in Draft
  BY <1>1 DEF Next, Receipt, Draft
<1>3. LET next == Next(h, k, reason, paper, ref, bytes, status, found)
      IN  /\ next.asset = h.asset /\ next.paper = paper
          /\ next.status = status /\ next.bytes = bytes
  BY DEF Next, Receipt
<1> QED  BY <1>1, <1>2, <1>3

(* A call plans a successor of the head; of a paper's asset, one with the    *)
(* paper's bytes or none that is active.                                     *)
LEMMA SuccessorKeeps ==
    ASSUME AssetInv, NEW a \in Assets(filed), NEW k \in Keeper, NEW reason \in Reason,
           NEW paper \in BOOLEAN, NEW ref \in Where, NEW bytes \in Bytes,
           NEW status \in {"active", "change_candidate"}, NEW found \in {"available", "missing"},
           Plans(k, Next(HeadOf(filed, a), k, reason, paper, ref, bytes, status, found)),
           paper => IF status = "active" THEN bytes = "own"
                    ELSE ActiveBytes(filed, Chain(filed, a)) = "own"
    PROVE  AssetInv'
<1> DEFINE next == Next(HeadOf(filed, a), k, reason, paper, ref, bytes, status, found)
<1>1. /\ next \in Draft /\ next.asset = a /\ next.paper = paper
      /\ next.status = status /\ next.bytes = bytes /\ a # 0
  BY ChainHas, NextDraft
<1>2. Plans(k, next)
  OBVIOUS
<1> HIDE DEF next
<1> QED  BY <1>1, <1>2, PlansKeep

(* An asset is associated with its own bytes, the paper's.                   *)
LEMMA AssociateKeeps ==
    ASSUME AssetInv, NEW k \in Keeper, NEW a \in Assets(filed), Associate(k, a)
    PROVE  AssetInv'
<1> PICK h \in Receipt : h = HeadOf(filed, a)
  BY ChainHas
<1>1. [Successor(k, a, "paper_associated") EXCEPT !.paper = TRUE]
        = Next(h, k, "paper_associated", TRUE, h.ref, h.bytes, h.status, h.found)
  BY DEF Successor, Next, Receipt
<1>2. Plans(k, Next(h, k, "paper_associated", TRUE, h.ref, h.bytes, h.status, h.found))
      /\ h.bytes = "own" /\ h.status = "active"
  BY <1>1 DEF Associate
<1>3. /\ h.ref \in Where /\ h.bytes \in Bytes /\ h.status \in {"active", "change_candidate"}
      /\ h.found \in {"available", "missing"} /\ "paper_associated" \in Reason
  BY DEF Receipt, Reason
<1> QED  BY <1>2, <1>3, SuccessorKeeps

(* A relinked asset has the bytes of its active manifestation.               *)
LEMMA RelinkKeeps ==
    ASSUME AssetInv, NEW k \in Keeper, NEW a \in Assets(filed), NEW place \in Where,
           Relink(k, a, place)
    PROVE  AssetInv'
<1> PICK h \in Receipt : h = HeadOf(filed, a)
  BY ChainHas
<1> PICK b \in Bytes : b = ActiveBytes(filed, Chain(filed, a))
  BY ChainHas
<1>1. [Successor(k, a, "same_digest_relink") EXCEPT
         !.ref = place, !.bytes = file[place], !.status = "active", !.found = "available"]
        = Next(h, k, "same_digest_relink", h.paper, place, b, "active", "available")
  BY DEF Successor, Next, Receipt, Relink
<1>2. Plans(k, Next(h, k, "same_digest_relink", h.paper, place, b, "active", "available"))
  BY <1>1 DEF Relink
<1>3. h.paper \in BOOLEAN /\ "same_digest_relink" \in Reason /\ (h.paper => b = "own")
  BY ChainHas DEF Receipt, Reason
<1> QED  BY <1>2, <1>3, SuccessorKeeps

(* An observation of other bytes than the active ones is a candidate.        *)
LEMMA ObserveKeeps ==
    ASSUME AssetInv, NEW k \in Keeper, NEW a \in Assets(filed), Observe(k, a)
    PROVE  AssetInv'
<1> PICK h \in Receipt : h = HeadOf(filed, a)
  BY ChainHas
<1> PICK b \in Bytes : b = ActiveBytes(filed, Chain(filed, a))
  BY ChainHas
<1>1. /\ h.paper \in BOOLEAN /\ h.ref \in Where /\ (h.paper => b = "own")
      /\ {"source_missing", "source_available", "changed_bytes_observed"} \subseteq Reason
  BY ChainHas DEF Receipt, Reason
<1>2. CASE ObserveMissing(k, a)
  <2>1. [Successor(k, a, "source_missing") EXCEPT
           !.bytes = ActiveBytes(filed, Chain(filed, a)), !.status = "active", !.found = "missing"]
          = Next(h, k, "source_missing", h.paper, h.ref, b, "active", "missing")
    BY DEF Successor, Next, Receipt
  <2>2. Plans(k, Next(h, k, "source_missing", h.paper, h.ref, b, "active", "missing"))
    BY <1>2, <2>1 DEF ObserveMissing
  <2> QED  BY <1>1, <2>2, SuccessorKeeps
<1>3. CASE ObserveFile(k, a)
  <2> PICK f \in Bytes : f = file[h.ref]
    BY <1>1, <1>3 DEF ObserveFile, AssetInv, StoresTyped
  <2> PICK changed \in BOOLEAN : changed <=> f # b
    OBVIOUS
  <2> DEFINE reason == IF changed THEN "changed_bytes_observed" ELSE "source_available"
             status == IF changed THEN "change_candidate" ELSE "active"
  <2>1. [Successor(k, a, reason) EXCEPT
           !.bytes = f, !.found = "available", !.status = status]
          = Next(h, k, reason, h.paper, h.ref, f, status, "available")
    BY DEF Successor, Next, Receipt
  <2>2. Plans(k, [Successor(k, a, reason) EXCEPT
                    !.bytes = f, !.found = "available", !.status = status])
    BY <1>3 DEF ObserveFile
  <2>3. /\ reason \in Reason /\ status \in {"active", "change_candidate"}
        /\ h.paper => IF status = "active" THEN f = "own"
                      ELSE ActiveBytes(filed, Chain(filed, a)) = "own"
    BY <1>1
  <2> HIDE DEF reason, status
  <2>4. Plans(k, Next(h, k, reason, h.paper, h.ref, f, status, "available"))
    BY <2>1, <2>2
  <2> QED  BY <1>1, <2>3, <2>4, SuccessorKeeps
<1> QED  BY <1>2, <1>3 DEF Observe

(* A plan is numbered and replaces the store. Others may have committed      *)
(* since it was made: no receipt that an event names is dropped, and the     *)
(* numbers drawn meanwhile are below its own.                                *)
LEMMA CommitReceiptKeeps ==
    ASSUME AssetInv, NEW k \in Keeper, CommitReceipt(k)
    PROVE  AssetInv'
<1> PICK p \in Plan : p = keeping[k]
  BY DEF AssetInv, StoresTyped, CommitReceipt
<1> DEFINE i == drawn + 1
           new == Append(p.base, Numbered(p.next, i))
<1>1. /\ p.base \in Seq(Receipt) /\ p.next \in Draft /\ drawn \in Nat /\ i \in 1..MaxReceipts
      /\ i > drawn /\ drawn' = i
  BY AssetAssumption DEF AssetInv, StoresTyped, CommitReceipt, Plan, Draft
<1>2. ChainedStore(p.base, drawn) /\ DraftStands(p.base, p.next)
  BY DEF AssetInv, PlansStand, CommitReceipt
<1>3. Numbered(p.next, i) \in Receipt /\ Numbered(p.next, i).id = i
  BY <1>1, NumberedReceipt
<1>4. new \in Seq(Receipt) /\ Grown(p.base, new, Numbered(p.next, i))
  BY <1>1, <1>3, Appending
<1>5. filed' = new /\ noted \subseteq Ids(new)
  BY DEF CommitReceipt, NewStore
<1> HIDE DEF new
<1>6. ChainedStore(new, i)
  BY <1>1, <1>2, <1>4, AppendStands
<1>7. i \in Ids(new)
  <2>1. Len(new) \in 1..Len(new) /\ new[Len(new)] = Numbered(p.next, i)
    BY <1>1, <1>3, <1>4, Places
  <2> QED  BY <1>3, <2>1 DEF Ids
<1>8. noted' \subseteq Ids(new) /\ noted' \subseteq 1..i /\ left' \subseteq 1..i
  <2>1. noted' \subseteq noted \cup {i} /\ left' \subseteq left \cup {i}
    BY <1>1 DEF CommitReceipt
  <2>2. noted \subseteq 1..i /\ left \subseteq 1..i /\ i \in 1..i
    BY <1>1 DEF AssetInv, StoresTyped
  <2> QED  BY <1>5, <1>7, <2>1, <2>2
<1>9. accidents' \in 0..MaxFaults
  <2>1. accidents \in 0..MaxFaults
        /\ \E e \in Outcomes(accidents) : accidents' = accidents + Cost(e)
    BY DEF CommitReceipt, AssetInv, StoresTyped
  <2> QED  BY <2>1, FaultAssumption DEF Outcomes, Cost
<1>10. keeping' = [keeping EXCEPT ![k] = Nothing] /\ UNCHANGED <<file, touches>>
  BY DEF CommitReceipt
<1>11. StoresTyped'
  BY <1>1, <1>4, <1>5, <1>8, <1>9, <1>10 DEF StoresTyped, AssetInv
<1>12. PlansStand'
  <2>1. ASSUME NEW l \in Keeper, keeping'[l] # Nothing
        PROVE  /\ ChainedStore(keeping'[l].base, i)
               /\ DraftStands(keeping'[l].base, keeping'[l].next)
    <3>1. keeping'[l] = keeping[l] /\ keeping[l] \in Plan
      BY <1>10, <2>1 DEF AssetInv, StoresTyped
    <3> PICK q \in Plan : q = keeping[l]
      BY <3>1
    <3>2. ChainedStore(q.base, drawn) /\ DraftStands(q.base, q.next)
      BY <2>1, <3>1 DEF AssetInv, PlansStand
    <3>3. \A n \in 1..Len(q.base) : q.base[n].id \in Int /\ q.base[n].asset \in Int
      <4>1. q.base \in Seq(Receipt)
        BY DEF Plan
      <4>2. \A n \in 1..Len(q.base) : q.base[n] \in Receipt
        <5> PICK base \in Seq(Receipt) : base = q.base
          BY <4>1
        <5> QED  OBVIOUS
      <4>3. \A r \in Receipt : r.id \in Int /\ r.asset \in Int
        BY DEF Receipt
      <4> QED  BY <4>2, <4>3
    <3>4. IdsTo(q.base, i)
      BY <1>1, <3>2, <3>3 DEF ChainedStore, IdsTo
    <3> QED  BY <3>1, <3>2, <3>4 DEF ChainedStore
  <2> QED  BY <1>1, <2>1 DEF PlansStand
<1>13. ChainedStore(filed, drawn)' /\ (noted \subseteq Ids(filed))'
  <2>1. ChainedStore(filed', drawn') /\ noted' \subseteq Ids(filed')
    BY <1>1, <1>5, <1>6, <1>8
  <2> QED  BY <2>1
<1> QED  BY <1>11, <1>12, <1>13 DEF AssetInv

(* The store stays, and a call at most gives up.                             *)
LEMMA StoreStays ==
    ASSUME AssetInv, UNCHANGED <<filed, drawn>>, StoresTyped', noted' \subseteq Ids(filed),
           \A l \in Keeper : keeping'[l] # Nothing => keeping'[l] = keeping[l]
    PROVE  AssetInv'
<1>1. PlansStand'
  <2>1. ASSUME NEW l \in Keeper, keeping'[l] # Nothing
        PROVE  /\ ChainedStore(keeping'[l].base, drawn)
               /\ DraftStands(keeping'[l].base, keeping'[l].next)
    BY <2>1 DEF AssetInv, PlansStand
  <2> QED  BY <2>1 DEF PlansStand
<1>2. ChainedStore(filed, drawn)' /\ (noted \subseteq Ids(filed))'
  <2>1. ChainedStore(filed', drawn') /\ noted' \subseteq Ids(filed')
    BY DEF AssetInv
  <2> QED  BY <2>1
<1> QED  BY <1>1, <1>2 DEF AssetInv

(* A call is refused or dies.                                                *)
LEMMA KeepingEnds ==
    ASSUME AssetInv, NEW k \in Keeper, RefuseReceipt(k) \/ DieKeeping(k)
    PROVE  AssetInv'
<1>1. /\ keeping' = [keeping EXCEPT ![k] = Nothing]
      /\ UNCHANGED <<file, filed, noted, left, drawn, touches>>
      /\ \/ accidents' = accidents
         \/ accidents < MaxFaults /\ accidents' = accidents + 1
  BY DEF RefuseReceipt, DieKeeping, Still
<1>2. accidents' \in 0..MaxFaults
  BY <1>1, FaultAssumption DEF AssetInv, StoresTyped
<1>3. StoresTyped'
  BY <1>1, <1>2 DEF AssetInv, StoresTyped
<1>4. \A l \in Keeper : keeping'[l] # Nothing => keeping'[l] = keeping[l]
  BY <1>1 DEF AssetInv, StoresTyped
<1>5. noted' \subseteq Ids(filed)
  BY <1>1 DEF AssetInv
<1> QED  BY <1>1, <1>3, <1>4, <1>5, StoreStays

(* Recovery names what the store holds; files come and go.                   *)
LEMMA FilesMove ==
    ASSUME AssetInv, RecoverReceipts \/ Touch
    PROVE  AssetInv'
<1>1. CASE RecoverReceipts
  <2>1. Len(filed) \in 1..Len(filed)
    BY DEF AssetInv, StoresTyped, ChainedStore
  <2>2. /\ noted' = noted \cup {i \in left : filed[Len(filed)].id = i} /\ left' = {}
        /\ UNCHANGED <<file, filed, drawn, keeping, touches, accidents>>
    BY <1>1 DEF RecoverReceipts
  <2>3. noted' \subseteq Ids(filed)
    BY <2>1, <2>2 DEF AssetInv, Ids
  <2>4. StoresTyped'
    BY <2>2 DEF AssetInv, StoresTyped
  <2> QED  BY <2>2, <2>3, <2>4, StoreStays
<1>2. CASE Touch
  <2>1. /\ file' \in [Where -> Bytes \cup {"none"}] /\ touches' \in 0..MaxTouches
        /\ UNCHANGED <<filed, noted, left, drawn, keeping, accidents>>
    BY <1>2, AssetAssumption DEF Touch, AssetInv, StoresTyped
  <2>2. StoresTyped'
    BY <2>1 DEF AssetInv, StoresTyped
  <2>3. noted' \subseteq Ids(filed)
    BY <2>1 DEF AssetInv
  <2> QED  BY <2>1, <2>2, <2>3, StoreStays
<1> QED  BY <1>1, <1>2

(* Every step keeps the invariant.                                           *)
LEMMA AssetInvNext == ASSUME AssetInv, [AssetNext]_assetVars PROVE AssetInv'
<1>1. CASE UNCHANGED assetVars
  <2>1. UNCHANGED <<file, filed, noted, left, drawn, keeping, touches, accidents>>
    BY <1>1 DEF assetVars
  <2>2. StoresTyped' /\ noted' \subseteq Ids(filed)
    BY <2>1 DEF AssetInv, StoresTyped
  <2> QED  BY <2>1, <2>2, StoreStays
<1> QED  BY <1>1, RegisterKeeps, AssociateKeeps, RelinkKeeps, ObserveKeeps, CommitReceiptKeeps,
            KeepingEnds, FilesMove DEF AssetNext

(* An intake has registered a file, for a paper only with its bytes.         *)
LEMMA AssetInvInit == ASSUME AssetInit PROVE AssetInv
<1> PICK paper \in BOOLEAN, bytes \in Bytes :
      /\ paper => bytes = "own"
      /\ file = [place \in Where |-> IF place = "here" THEN bytes ELSE "none"]
      /\ filed = <<[id |-> 1, asset |-> 1, job |-> "intake", paper |-> paper, ref |-> "here",
                    bytes |-> bytes, status |-> "active", found |-> "available",
                    reason |-> "reference_registered"]>>
  BY DEF AssetInit
<1> DEFINE r == [id |-> 1, asset |-> 1, job |-> "intake", paper |-> paper, ref |-> "here",
                 bytes |-> bytes, status |-> "active", found |-> "available",
                 reason |-> "reference_registered"]
<1>1. r \in Receipt
  BY AssetAssumption DEF Receipt, Where, Reason
<1>2. /\ r.id = 1 /\ r.asset = 1 /\ r.status = "active" /\ r.found = "available"
      /\ r.reason = "reference_registered" /\ (r.paper => r.bytes = "own")
  OBVIOUS
<1>3. filed = <<r>>
  OBVIOUS
<1> HIDE DEF r
<1>4. filed \in Seq(Receipt) /\ Len(filed) = 1 /\ filed[1] = r /\ filed # <<>>
  BY <1>1, <1>3
<1>5. 1..Len(filed) = {1}
  BY <1>4
<1>6. Chain(filed, 1) = {1} /\ Earlier(filed, 1) = {} /\ UpTo(filed, 1) = {1}
      /\ Assets(filed) = {1} /\ Ids(filed) = {1}
  BY <1>2, <1>4, <1>5 DEF Chain, Earlier, UpTo, Assets, Ids
<1>7. ReceiptStands(filed, 1)
  BY <1>2, <1>4, <1>6 DEF ReceiptStands
<1>8. r.paper => ActiveBytes(filed, {1}) = "own"
  <2>1. {n \in {1} : filed[n].status = "active"} = {1}
    BY <1>2, <1>4
  <2>2. Last({1}) = 1
    BY DEF Last
  <2> QED  BY <1>2, <1>4, <2>1, <2>2 DEF ActiveBytes
<1>9. ChainedStore(filed, 1)
  BY <1>2, <1>4, <1>5, <1>6, <1>7, <1>8
  DEF ChainedStore, IdsTo, ChainsStand, OneAssetOfPaper, OwnBytes
<1>10. /\ noted = {1} /\ left = {} /\ drawn = 1 /\ touches = 0 /\ accidents = 0
       /\ \A k \in Keeper : keeping[k] = Nothing
       /\ keeping \in [Keeper -> {Nothing} \cup Plan]
  BY DEF AssetInit
<1>11. file \in [Where -> Bytes \cup {"none"}]
  OBVIOUS
<1>12. StoresTyped
  BY <1>4, <1>10, <1>11, AssetAssumption, FaultAssumption DEF StoresTyped
<1>13. PlansStand
  BY <1>10 DEF PlansStand
<1> QED  BY <1>6, <1>9, <1>10, <1>12, <1>13 DEF AssetInv

(* What the runs check of the receipts follows from the invariant.           *)
LEMMA SourcesStandBy == AssetInv => SourcesStand
<1> SUFFICES ASSUME AssetInv
             PROVE  SourcesStand
  OBVIOUS
<1>1. noted \subseteq Ids(filed) /\ ChainsStand(filed)
  BY DEF AssetInv, ChainedStore
<1>2. ASSUME NEW a \in Explicit, Currentness(a) = "current",
             file[HeadOf(filed, a).ref] = HeadOf(filed, a).bytes
      PROVE  file[HeadOf(filed, a).ref] = "own"
  <2>1. a \in Assets(filed) /\ HeadOf(filed, a).paper
    BY DEF Explicit
  <2>2. HeadOf(filed, a).status = "active"
    <3>1. HeadOf(filed, a).status \in {"active", "change_candidate"}
      BY <2>1, ChainHas DEF Receipt
    <3> QED  BY <1>2, <3>1 DEF Currentness
  <2> QED  BY <1>2, <2>1, <2>2, ChainHas
<1> QED  BY <1>1, <1>2 DEF SourcesStand, PaperSourceIsCurrent

(* In every state of the source assets the receipts form chains of           *)
(* successors, a paper has one asset at most, and what a call is about to    *)
(* append fits what it has read (services/source_asset.py,                   *)
(* source_assets.py).                                                        *)
THEOREM AssetInvariant == AssetSpec => []AssetInv
BY AssetInvInit, AssetInvNext, PTL DEF AssetSpec

-----------------------------------------------------------------------------
(* What nobody has touched is as the receipts say; what no accident befell   *)
(* has its event.                                                            *)
AsFound(r, f) == r.status = "active" /\ r.found = "available" /\ f[r.ref] = r.bytes
Undisturbed(store, f, t, a, names) ==
    /\ store[1].ref = "here"
    /\ t = 0 => \A n \in 1..Len(store) : AsFound(store[n], f)
    /\ a = 0 => Ids(store) \subseteq names
UndisturbedInv ==
    /\ Undisturbed(filed, file, touches, accidents, noted)
    /\ \A k \in Keeper : keeping[k] # Nothing =>
         /\ Undisturbed(keeping[k].base, file, touches, accidents, noted)
         /\ touches = 0 => AsFound(keeping[k].next, file)

(* A draft of what is as it was found is planned.                            *)
LEMMA PlanIsUndisturbed ==
    ASSUME AssetInv, UndisturbedInv, NEW k \in Keeper, NEW next \in Draft, Plans(k, next),
           touches = 0 => AsFound(next, file)
    PROVE  UndisturbedInv'
<1> DEFINE p == [base |-> filed, next |-> next]
<1>1. keeping' = [keeping EXCEPT ![k] = p]
      /\ UNCHANGED <<file, filed, noted, left, drawn, touches, accidents>>
  BY DEF Plans, Still
<1>2. p.base = filed /\ p.next = next
  OBVIOUS
<1> HIDE DEF p
<1>3. ASSUME NEW l \in Keeper, keeping'[l] # Nothing
      PROVE  /\ Undisturbed(keeping'[l].base, file, touches, accidents, noted)
             /\ touches = 0 => AsFound(keeping'[l].next, file)
  <2>1. CASE l = k
    <3>1. keeping'[l] = p
      BY <1>1, <2>1 DEF AssetInv, StoresTyped
    <3> QED  BY <1>2, <3>1 DEF UndisturbedInv
  <2>2. CASE l # k
    <3>1. keeping'[l] = keeping[l]
      BY <1>1, <2>2 DEF AssetInv, StoresTyped
    <3> QED  BY <1>3, <3>1 DEF UndisturbedInv
  <2> QED  BY <2>1, <2>2
<1> QED  BY <1>1, <1>3 DEF UndisturbedInv

(* What a call plans is as it has found the file; it observes another file,  *)
(* or none, only when one was changed.                                       *)
LEMMA PlansAreUndisturbed ==
    ASSUME AssetInv, UndisturbedInv, NEW k \in Keeper,
           \/ \E place \in Where, paper \in BOOLEAN : RegisterManifestation(k, place, paper)
           \/ \E a \in Assets(filed) :
                \/ Associate(k, a) \/ Observe(k, a)
                \/ \E place \in Where : Relink(k, a, place)
    PROVE  UndisturbedInv'
<1>1. ASSUME NEW place \in Where, NEW paper \in BOOLEAN, RegisterManifestation(k, place, paper)
      PROVE  UndisturbedInv'
  <2> DEFINE next == [id |-> 0, asset |-> 0, job |-> k, paper |-> paper, ref |-> place,
                      bytes |-> file[place], status |-> "active", found |-> "available",
                      reason |-> "reference_registered"]
  <2>1. file[place] \in Bytes
    BY <1>1 DEF AssetInv, StoresTyped, RegisterManifestation
  <2>2. next \in Draft
    BY <2>1, AssetAssumption DEF Draft, Reason
  <2>3. Plans(k, next)
    BY <1>1 DEF RegisterManifestation
  <2>4. AsFound(next, file)
    BY DEF AsFound
  <2> HIDE DEF next
  <2> QED  BY <2>2, <2>3, <2>4, PlanIsUndisturbed
<1>2. ASSUME NEW a \in Assets(filed), Associate(k, a)
      PROVE  UndisturbedInv'
  <2> PICK h \in Receipt : h = HeadOf(filed, a)
    BY ChainHas
  <2> DEFINE next == Next(h, k, "paper_associated", TRUE, h.ref, h.bytes, h.status, h.found)
  <2>1. [Successor(k, a, "paper_associated") EXCEPT !.paper = TRUE] = next
    BY DEF Successor, Next, Receipt
  <2>2. Plans(k, next) /\ h.status = "active" /\ h.found = "available" /\ file[h.ref] = h.bytes
    BY <1>2, <2>1 DEF Associate
  <2>3. next \in Draft
    <3>1. /\ h.ref \in Where /\ h.bytes \in Bytes /\ h.status \in {"active", "change_candidate"}
          /\ h.found \in {"available", "missing"} /\ "paper_associated" \in Reason
      BY DEF Receipt, Reason
    <3>2. ASSUME NEW paper \in BOOLEAN, NEW ref \in Where, NEW bytes \in Bytes,
                 NEW status \in {"active", "change_candidate"},
                 NEW found \in {"available", "missing"}
          PROVE  Next(h, k, "paper_associated", paper, ref, bytes, status, found) \in Draft
      BY <3>1, NextDraft
    <3>3. next \in Draft
      BY <3>1, <3>2
    <3> QED  BY <3>3
  <2>4. AsFound(next, file)
    BY <2>2 DEF AsFound, Next, Receipt
  <2> HIDE DEF next
  <2> QED  BY <2>2, <2>3, <2>4, PlanIsUndisturbed
<1>3. ASSUME NEW a \in Assets(filed), NEW place \in Where, Relink(k, a, place)
      PROVE  UndisturbedInv'
  <2> PICK h \in Receipt : h = HeadOf(filed, a)
    BY ChainHas
  <2> PICK b \in Bytes : b = ActiveBytes(filed, Chain(filed, a))
    BY ChainHas
  <2> DEFINE next == Next(h, k, "same_digest_relink", h.paper, place, b, "active", "available")
  <2>1. [Successor(k, a, "same_digest_relink") EXCEPT
           !.ref = place, !.bytes = file[place], !.status = "active", !.found = "available"] = next
    BY <1>3 DEF Successor, Next, Receipt, Relink
  <2>2. Plans(k, next) /\ file[place] = b
    BY <1>3, <2>1 DEF Relink
  <2>3. next \in Draft
    <3>1. h.paper \in BOOLEAN /\ "same_digest_relink" \in Reason
      BY DEF Receipt, Reason
    <3> QED  BY <3>1, NextDraft
  <2>4. AsFound(next, file)
    BY <2>2 DEF AsFound, Next, Receipt
  <2> HIDE DEF next
  <2> QED  BY <2>2, <2>3, <2>4, PlanIsUndisturbed
<1>4. ASSUME NEW a \in Assets(filed), Observe(k, a)
      PROVE  UndisturbedInv'
  <2> PICK h \in Receipt : h = HeadOf(filed, a)
    BY ChainHas
  <2>1. touches # 0
    <3>1. ~(h.bytes = file[h.ref] /\ h.found = "available")
      BY <1>4 DEF Observe, ObserveMissing, ObserveFile, Receipt, Bytes
    <3>2. \E n \in 1..Len(filed) : h = filed[n]
      BY HeadExists DEF HeadOf, Chain, AssetInv, StoresTyped
    <3> QED  BY <3>1, <3>2 DEF UndisturbedInv, Undisturbed, AsFound
  <2>2. /\ UNCHANGED <<file, filed, noted, touches, accidents>>
        /\ \E next : keeping' = [keeping EXCEPT ![k] = [base |-> filed, next |-> next]]
    BY <1>4 DEF Observe, ObserveMissing, ObserveFile, Plans, Still
  <2> PICK next : keeping' = [keeping EXCEPT ![k] = [base |-> filed, next |-> next]]
    BY <2>2
  <2> DEFINE p == [base |-> filed, next |-> next]
  <2>3. keeping' = [keeping EXCEPT ![k] = p] /\ p.base = filed
    OBVIOUS
  <2> HIDE DEF p
  <2>4. ASSUME NEW l \in Keeper, keeping'[l] # Nothing
        PROVE  Undisturbed(keeping'[l].base, file, touches, accidents, noted)
    <3>1. CASE l = k
      BY <2>3, <3>1 DEF AssetInv, StoresTyped, UndisturbedInv
    <3>2. CASE l # k
      <4>1. keeping'[l] = keeping[l]
        BY <2>3, <3>2 DEF AssetInv, StoresTyped
      <4> QED  BY <2>4, <4>1 DEF UndisturbedInv
    <3> QED  BY <3>1, <3>2
  <2> QED  BY <2>1, <2>2, <2>4 DEF UndisturbedInv
<1> QED  BY <1>1, <1>2, <1>3, <1>4

(* A plan that commits replaces the store, and its event is recorded unless  *)
(* an accident keeps it out.                                                 *)
LEMMA CommitIsUndisturbed ==
    ASSUME AssetInv, UndisturbedInv, NEW k \in Keeper, CommitReceipt(k)
    PROVE  UndisturbedInv'
<1> PICK p \in Plan : p = keeping[k]
  BY DEF AssetInv, StoresTyped, CommitReceipt
<1> DEFINE i == drawn + 1
           r == Numbered(p.next, i)
           new == Append(p.base, r)
<1>1. /\ p.base \in Seq(Receipt) /\ p.next \in Draft /\ i \in 1..MaxReceipts
      /\ p.base # <<>> /\ Undisturbed(p.base, file, touches, accidents, noted)
      /\ touches = 0 => AsFound(p.next, file)
  BY AssetAssumption
  DEF AssetInv, StoresTyped, PlansStand, ChainedStore, CommitReceipt, Plan, Draft, UndisturbedInv
<1>2. /\ r \in Receipt /\ r.id = i /\ r.ref = p.next.ref /\ r.bytes = p.next.bytes
      /\ r.status = p.next.status /\ r.found = p.next.found
  BY <1>1, NumberedReceipt
<1>3. new \in Seq(Receipt) /\ Grown(p.base, new, r)
  BY <1>1, <1>2, Appending
<1>4. /\ filed' = new /\ drawn' = i /\ keeping' = [keeping EXCEPT ![k] = Nothing]
      /\ UNCHANGED <<file, touches>> /\ noted \subseteq noted'
      /\ accidents' = 0 => accidents = 0 /\ i \in noted'
  <2>1. accidents \in Nat /\ accidents \in 0..MaxFaults
    BY FaultAssumption DEF AssetInv, StoresTyped
  <2>2. \E e \in Outcomes(accidents) :
          /\ noted' = IF e = "recorded" THEN noted \cup {i} ELSE noted
          /\ accidents' = accidents + Cost(e)
    BY DEF CommitReceipt
  <2>3. accidents' = 0 => accidents = 0 /\ i \in noted'
    BY <2>1, <2>2 DEF Outcomes, Cost
  <2> QED  BY <2>2, <2>3 DEF CommitReceipt, NewStore
<1> HIDE DEF new, r
<1>5. /\ Len(p.base) \in Nat /\ Len(new) = Len(p.base) + 1 /\ new[Len(new)] = r
      /\ \A n \in 1..Len(p.base) : new[n] = p.base[n]
      /\ \A n \in 1..Len(new) : n = Len(new) \/ n \in 1..Len(p.base)
  BY <1>1, <1>2, <1>3, Places
<1>6. new[1].ref = "here"
  <2>1. 1 \in 1..Len(p.base)
    BY <1>1
  <2> QED  BY <1>1, <1>5, <2>1 DEF Undisturbed
<1>7. ASSUME touches = 0, NEW n \in 1..Len(new)
      PROVE  AsFound(new[n], file)
  <2>1. AsFound(r, file)
    BY <1>1, <1>2, <1>7 DEF AsFound
  <2>2. \A m \in 1..Len(p.base) : AsFound(p.base[m], file)
    BY <1>1, <1>7 DEF Undisturbed
  <2> QED  BY <1>5, <2>1, <2>2
<1>8. ASSUME accidents' = 0
      PROVE  Ids(new) \subseteq noted'
  <2>1. Ids(p.base) \subseteq noted
    BY <1>1, <1>4, <1>8 DEF Undisturbed
  <2>2. Ids(new) \subseteq Ids(p.base) \cup {i}
    BY <1>2, <1>5 DEF Ids
  <2> QED  BY <1>4, <1>8, <2>1, <2>2
<1>9. Undisturbed(filed', file', touches', accidents', noted')
  BY <1>4, <1>6, <1>7, <1>8 DEF Undisturbed
<1>10. ASSUME NEW l \in Keeper, keeping'[l] # Nothing
       PROVE  /\ Undisturbed(keeping'[l].base, file', touches', accidents', noted')
              /\ touches' = 0 => AsFound(keeping'[l].next, file')
  <2>1. keeping'[l] = keeping[l]
    BY <1>4, <1>10 DEF AssetInv, StoresTyped
  <2>2. /\ Undisturbed(keeping[l].base, file, touches, accidents, noted)
        /\ touches = 0 => AsFound(keeping[l].next, file)
    BY <1>10, <2>1 DEF UndisturbedInv
  <2> QED  BY <1>4, <2>1, <2>2 DEF Undisturbed
<1> QED  BY <1>9, <1>10 DEF UndisturbedInv

(* No receipt is appended.                                                   *)
LEMMA OthersAreUndisturbed ==
    ASSUME AssetInv, UndisturbedInv, filed' = filed, noted \subseteq noted',
           \A l \in Keeper : keeping'[l] # Nothing => keeping'[l] = keeping[l],
           touches' = 0 => touches = 0 /\ file' = file, accidents' = 0 => accidents = 0
    PROVE  UndisturbedInv'
<1>1. ASSUME NEW l \in Keeper, keeping'[l] # Nothing
      PROVE  /\ Undisturbed(keeping'[l].base, file', touches', accidents', noted')
             /\ touches' = 0 => AsFound(keeping'[l].next, file')
  <2>1. /\ Undisturbed(keeping[l].base, file, touches, accidents, noted)
        /\ touches = 0 => AsFound(keeping[l].next, file)
    BY <1>1 DEF UndisturbedInv
  <2> QED  BY <1>1, <2>1 DEF Undisturbed
<1>2. Undisturbed(filed', file', touches', accidents', noted')
  BY DEF UndisturbedInv, Undisturbed
<1> QED  BY <1>1, <1>2 DEF UndisturbedInv

(* Every step keeps the invariant.                                           *)
LEMMA UndisturbedNext ==
    ASSUME AssetInv, UndisturbedInv, [AssetNext]_assetVars PROVE UndisturbedInv'
<1>1. CASE UNCHANGED assetVars
  BY <1>1, OthersAreUndisturbed DEF assetVars
<1>2. ASSUME NEW k \in Keeper, RefuseReceipt(k) \/ DieKeeping(k)
      PROVE  UndisturbedInv'
  <2>1. /\ keeping' = [keeping EXCEPT ![k] = Nothing]
        /\ UNCHANGED <<file, filed, noted, touches>>
        /\ accidents' = accidents \/ accidents' = accidents + 1
    BY <1>2 DEF RefuseReceipt, DieKeeping, Still
  <2>2. accidents' = 0 => accidents = 0
    BY <2>1, FaultAssumption DEF AssetInv, StoresTyped
  <2>3. \A l \in Keeper : keeping'[l] # Nothing => keeping'[l] = keeping[l]
    BY <2>1 DEF AssetInv, StoresTyped
  <2> QED  BY <2>1, <2>2, <2>3, OthersAreUndisturbed
<1>3. CASE RecoverReceipts
  BY <1>3, OthersAreUndisturbed DEF RecoverReceipts
<1>4. CASE Touch
  <2>1. touches' # 0
    BY <1>4, AssetAssumption DEF Touch, AssetInv, StoresTyped
  <2> QED  BY <1>4, <2>1, OthersAreUndisturbed DEF Touch
<1> QED  BY <1>1, <1>2, <1>3, <1>4, PlansAreUndisturbed, CommitIsUndisturbed DEF AssetNext

(* The file is as intake has registered it, and its event is recorded.       *)
LEMMA UndisturbedInit == ASSUME AssetInit PROVE UndisturbedInv
<1> PICK paper \in BOOLEAN, bytes \in Bytes :
      /\ file = [place \in Where |-> IF place = "here" THEN bytes ELSE "none"]
      /\ filed = <<[id |-> 1, asset |-> 1, job |-> "intake", paper |-> paper, ref |-> "here",
                    bytes |-> bytes, status |-> "active", found |-> "available",
                    reason |-> "reference_registered"]>>
  BY DEF AssetInit
<1>1. /\ Len(filed) = 1 /\ filed[1].id = 1 /\ filed[1].ref = "here" /\ filed[1].bytes = bytes
      /\ filed[1].status = "active" /\ filed[1].found = "available"
  OBVIOUS
<1>2. file["here"] = bytes
  BY DEF Where
<1>3. noted = {1} /\ \A k \in Keeper : keeping[k] = Nothing
  BY DEF AssetInit
<1>4. \A n \in 1..Len(filed) : n = 1
  BY <1>1
<1> QED  BY <1>1, <1>2, <1>3, <1>4 DEF UndisturbedInv, Undisturbed, AsFound, Ids

(* What the runs check follows from the two invariants.                      *)
LEMMA UndisturbedIsClean == AssetInv /\ UndisturbedInv => UndisturbedSourcesAreClean
<1> SUFFICES ASSUME AssetInv, UndisturbedInv
             PROVE  UndisturbedSourcesAreClean
  OBVIOUS
<1>1. ASSUME touches = 0
      PROVE  /\ AlteredAssets = {}
             /\ \A a \in Assets(filed) :
                  /\ Currentness(a) = "current"
                  /\ file[HeadOf(filed, a).ref] = HeadOf(filed, a).bytes
  <2>1. ASSUME NEW a \in Assets(filed)
        PROVE  AsFound(HeadOf(filed, a), file)
    <3>1. \E n \in 1..Len(filed) : HeadOf(filed, a) = filed[n]
      BY HeadExists DEF HeadOf, Chain, AssetInv, StoresTyped
    <3> QED  BY <1>1, <3>1 DEF UndisturbedInv, Undisturbed
  <2>2. \A a \in Assets(filed) :
          /\ Currentness(a) = "current"
          /\ file[HeadOf(filed, a).ref] = HeadOf(filed, a).bytes
    BY <2>1 DEF AsFound, Currentness
  <2> QED  BY <2>2 DEF AlteredAssets
<1>2. ASSUME touches = 0, accidents = 0, filed[1].bytes = "own"
      PROVE  SourcesAreClean
  <2>1. UnreceiptedStates = {}
    BY <1>2 DEF UnreceiptedStates, UndisturbedInv, Undisturbed
  <2>2. file["here"] = "own"
    <3>1. 1 \in 1..Len(filed)
      BY DEF AssetInv, StoresTyped, ChainedStore
    <3> QED  BY <1>2, <3>1 DEF UndisturbedInv, Undisturbed, AsFound
  <2>3. PaperSourceIsCurrent
    BY <1>1, <1>2, <2>2 DEF PaperSourceIsCurrent, Explicit
  <2> QED  BY <1>1, <1>2, <2>1, <2>3 DEF SourcesAreClean
<1> QED  BY <1>1, <1>2 DEF UndisturbedSourcesAreClean

(* As long as nobody has changed a file, every recorded asset is current and *)
(* found as recorded; and without accidents Guardian has nothing to report   *)
(* of a source intake registered with the paper's bytes                      *)
(* (services/source_asset.py, source_resolution.py).                         *)
THEOREM SourcesStayClean == AssetSpec => []UndisturbedSourcesAreClean
BY AssetInvInit, AssetInvNext, UndisturbedInit, UndisturbedNext, UndisturbedIsClean, PTL
   DEF AssetSpec

(* Type correctness of the source assets, for every value of the constants.  *)
THEOREM AssetTypesHold == AssetSpec => []AssetTypeOK
BY AssetInvariant, AssetTypes, PTL

(* What events name stands, chains are chains of successors of which no two  *)
(* claim the paper, and a paper source that is called current has the bytes  *)
(* the paper was registered with, for any number of calls, receipts, changes *)
(* of the files, deaths and failures (services/source_asset.py,              *)
(* source_resolution.py).                                                    *)
THEOREM ReceiptsStayChained == AssetSpec => []SourcesStand
BY AssetInvariant, SourcesStandBy, PTL
===============================================================================
