---------------------------- MODULE ServicesProofs ----------------------------
(* Proofs about AdequacyDecision and GuardianReview, for any number of jobs, *)
(* callers, decisions and changes of the sources, and about what MCServices  *)
(* composes.  Profiles are only ever appended, so what warrants a citation   *)
(* stays; and the gate and the task are compared with one state of the       *)
(* sources, so the pages of the profile that opens the gate are those of the *)
(* profile the task is bound to.  A disposition is appended to the store its *)
(* caller has read and follows the head of its finding there, so that a      *)
(* finding's dispositions form one line however many callers race.           *)
EXTENDS MCServices, TrustedParseProofs

(* A word was said of a profile of the same sources.                         *)
WordsHaveTheirBasis ==
    \A p \in DOMAIN assessed : assessed[p].word # "none" =>
        /\ assessed[p].basis \in DOMAIN assessed
        /\ assessed[assessed[p].basis].of = assessed[p].of
(* Tasks and decisions are about profiles there are.                         *)
ProfilesAreThere ==
    /\ \A j \in Semantic : duty[j] # Nothing => duty[j].profile \in DOMAIN assessed
    /\ \A c \in calls : c.profile \in DOMAIN assessed
    /\ IsFiniteSet(calls)
DInv == DecisionTypeOK /\ WordsHaveTheirBasis /\ ProfilesAreThere /\ CitationsAreWarranted

-----------------------------------------------------------------------------
(* What an action may do to the profiles: append, under the bound.           *)
Extends ==
    /\ assessed' \in Seq(Profile) /\ Len(assessed') <= MaxProfiles
    /\ DOMAIN assessed \subseteq DOMAIN assessed'
    /\ \A p \in DOMAIN assessed : assessed'[p] = assessed[p]
    /\ WordsHaveTheirBasis'

(* An action that leaves the profiles alone does no more.                    *)
LEMMA UnchangedExtends == ASSUME DInv, UNCHANGED assessed PROVE Extends
  BY DEF DInv, DecisionTypeOK, Extends, WordsHaveTheirBasis

(* So does one that records a word of a profile of the same sources.         *)
LEMMA RecordExtends ==
    ASSUME DInv, NEW j \in Semantic, NEW b \in 0..MaxProfiles,
           NEW w \in {"none", "accept", "remediate"}, RecordProfile(j, b, w),
           w # "none" => b \in DOMAIN assessed /\ assessed[b].of = Snapshot
    PROVE  Extends
<1> DEFINE new == [job |-> j, of |-> Snapshot, basis |-> b, word |-> w]
<1>1. CASE UNCHANGED assessed
  BY <1>1, UnchangedExtends
<1>2. CASE Len(assessed) < MaxProfiles /\ assessed' = Append(assessed, new)
  <2>1. new \in Profile
    BY DEF DInv, DecisionTypeOK, Profile, Snapshot
  <2>2. assessed \in Seq(Profile) /\ Len(assessed) \in Nat /\ DOMAIN assessed = 1..Len(assessed)
    BY DEF DInv, DecisionTypeOK
  <2>3. /\ assessed' \in Seq(Profile) /\ Len(assessed') = Len(assessed) + 1
        /\ DOMAIN assessed' = 1..(Len(assessed) + 1)
        /\ \A p \in DOMAIN assessed : assessed'[p] = assessed[p]
        /\ assessed'[Len(assessed) + 1] = new
    BY <1>2, <2>1, <2>2
  <2>4. Len(assessed') <= MaxProfiles
    BY <1>2, <2>2, <2>3, DecisionAssumption
  <2>5. ASSUME NEW p \in DOMAIN assessed', assessed'[p].word # "none"
        PROVE  /\ assessed'[p].basis \in DOMAIN assessed'
               /\ assessed'[assessed'[p].basis].of = assessed'[p].of
    <3>1. CASE p \in DOMAIN assessed
      BY <2>2, <2>3, <2>5, <3>1 DEF DInv, WordsHaveTheirBasis
    <3>2. CASE p = Len(assessed) + 1
      <4>1. w # "none" /\ assessed'[p].basis = b /\ assessed'[p].of = Snapshot
        BY <2>3, <2>5, <3>2
      <4> QED  BY <4>1, <2>2, <2>3
    <3> QED  BY <3>1, <3>2, <2>2, <2>3
  <2> QED  BY <2>2, <2>3, <2>4, <2>5 DEF Extends, WordsHaveTheirBasis
<1> QED  BY <1>1, <1>2 DEF RecordProfile

(* What warrants a citation is never taken back.                             *)
LEMMA WarrantsStay ==
    ASSUME DInv, Extends, UNCHANGED pages, NEW p \in DOMAIN assessed, Warranted(p)
    PROVE  Warranted(p)'
<1>1. assessed'[p] = assessed[p] /\ pages' = pages
  BY DEF Extends
<1>2. ASSUME NEW q \in Reviewed(p) PROVE q \in Reviewed(p)'
  <2>1. q \in DOMAIN assessed /\ assessed[q].word = "accept"
    BY DEF Reviewed
  <2>2. assessed[q].basis \in DOMAIN assessed
    BY <2>1 DEF DInv, WordsHaveTheirBasis
  <2>3. assessed'[q] = assessed[q] /\ assessed'[assessed[q].basis] = assessed[assessed[q].basis]
    BY <2>1, <2>2 DEF Extends
  <2>4. q \in DOMAIN assessed'
    BY <2>1 DEF Extends
  <2> QED  BY <1>1, <2>1, <2>3, <2>4 DEF Reviewed
<1>3. Machine("citation", pages[assessed[p].of.parse])'
      = Machine("citation", pages[assessed[p].of.parse])
  BY <1>1 DEF Machine, Observations
<1> QED  BY <1>2, <1>3 DEF Warranted

(* The gate is open for a profile that stands only if it is warranted.       *)
LEMMA GateWarrants ==
    ASSUME DInv, MayCite, NEW p \in DOMAIN assessed, Stands(p)
    PROVE  Warranted(p)
<1> DEFINE found(q) == Machine("citation", pages[assessed[q].of.parse])
<1>1. PICK n \in DOMAIN assessed : Stands(n) /\ StatusOf(n) = "yes"
  BY DEF MayCite, Newest
<1>2. assessed[n].of = assessed[p].of
  BY <1>1 DEF Stands
<1>3. found(n) = found(p)
  BY <1>2
<1>4. assessed[n] \in Profile
  BY <1>1 DEF DInv, DecisionTypeOK
<1>5. assessed[n].word \in {"none", "accept", "remediate"}
  BY <1>4 DEF Profile
<1>6. CASE assessed[n].word = "none"
  BY <1>1, <1>3, <1>6 DEF StatusOf, Warranted
<1>7. CASE assessed[n].word = "accept"
  <2>1. found(n) \in {"yes", "uncertain"}
    BY <1>1, <1>7 DEF StatusOf
  <2>2. n \in Reviewed(p)
    BY <1>1, <1>2, <1>7 DEF Reviewed, DInv, WordsHaveTheirBasis
  <2> QED  BY <1>3, <2>1, <2>2 DEF Warranted
<1>8. CASE assessed[n].word = "remediate"
  BY <1>1, <1>8 DEF StatusOf
<1> QED  BY <1>5, <1>6, <1>7, <1>8

-----------------------------------------------------------------------------
(* Initially nothing is assessed, bound or cited.                            *)
LEMMA DInit == ASSUME DecisionInit PROVE DInv
<1>1. assessed = <<>> /\ calls = {} /\ \A j \in Semantic : duty[j] = Nothing
  BY DEF DecisionInit
<1>2. assessed \in Seq(Profile) /\ Len(assessed) = 0 /\ DOMAIN assessed = {}
  BY <1>1
<1>3. IsFiniteSet(calls) /\ Cardinality(calls) = 0
  BY <1>1, FS_EmptySet
<1>4. DecisionTypeOK
  BY <1>1, <1>2, <1>3, DecisionAssumption DEF DecisionInit, DecisionTypeOK, Parse, Stage
<1> QED  BY <1>1, <1>2, <1>3, <1>4
  DEF DInv, WordsHaveTheirBasis, ProfilesAreThere, CitationsAreWarranted

(* A step that changes no task and no decision keeps the invariant.          *)
LEMMA Elsewhere ==
    ASSUME DInv, Extends, UNCHANGED <<pages, duty>>, DecisionTypeOK', calls' \subseteq calls,
           IsFiniteSet(calls')
    PROVE  DInv'
<1>1. ProfilesAreThere'
  BY DEF DInv, ProfilesAreThere, Extends
<1>2. CitationsAreWarranted'
  <2> SUFFICES ASSUME NEW j \in Semantic, duty[j] # Nothing, duty[j].cites
               PROVE  Warranted(duty[j].profile)'
    BY DEF CitationsAreWarranted
  <2> QED  BY WarrantsStay DEF DInv, ProfilesAreThere, CitationsAreWarranted
<1> QED  BY <1>1, <1>2 DEF DInv, Extends

(* So does a step that gives a job a task about a profile there is, which    *)
(* cites only if that profile is warranted.                                  *)
LEMMA TaskStep ==
    ASSUME DInv, NEW j \in Semantic, NEW task \in Task, duty' = [duty EXCEPT ![j] = task],
           task.profile \in DOMAIN assessed, task.cites => Warranted(task.profile),
           stage' \in [Semantic -> Stage], UNCHANGED <<sources, assessed, calls>>
    PROVE  DInv'
<1>1. /\ duty' \in [Semantic -> {Nothing} \cup Task] /\ duty'[j] = task
      /\ \A i \in Semantic : i # j => duty'[i] = duty[i]
  BY DEF DInv, DecisionTypeOK
<1>2. DecisionTypeOK'
  BY <1>1 DEF DInv, DecisionTypeOK, sources
<1>3. WordsHaveTheirBasis' /\ ProfilesAreThere'
  BY <1>1 DEF DInv, WordsHaveTheirBasis, ProfilesAreThere
<1>4. ASSUME NEW p, Warranted(p) PROVE Warranted(p)'
  BY <1>4 DEF Warranted, Reviewed, Machine, Observations, sources
<1>5. CitationsAreWarranted'
  BY <1>1, <1>4 DEF DInv, CitationsAreWarranted
<1> QED  BY <1>2, <1>3, <1>5 DEF DInv

(* The profile that counts for a job is one that stands.                     *)
LEMMA EffectiveStands ==
    ASSUME NEW j, NEW p \in Effective(j) PROVE p \in DOMAIN assessed /\ Stands(p)
<1>1. Effective(j) \subseteq Candidates(j)
  BY DEF Effective, Successors, Newest
<1> QED  BY <1>1 DEF Candidates

(* A new task is about the profile that counts, and cites nothing yet.       *)
LEMMA LeasedStep ==
    ASSUME DInv, NEW j \in Semantic, NEW p \in Effective(j),
           duty' = [duty EXCEPT ![j] = Leased(p)], stage' \in [Semantic -> Stage],
           UNCHANGED <<sources, assessed, calls>>
    PROVE  DInv'
<1>1. p \in DOMAIN assessed
  BY EffectiveStands
<1>2. p \in 1..MaxProfiles
  BY <1>1, DecisionAssumption DEF DInv, DecisionTypeOK
<1>3. Leased(p) \in Task /\ Leased(p).profile = p /\ ~Leased(p).cites
  BY <1>2 DEF Leased, Task
<1> QED  BY <1>1, <1>3, TaskStep

(* A submitted task that is decided keeps its profile and what it cites.     *)
LEMMA DecidedStep ==
    ASSUME DInv, NEW j \in Semantic, Undecided(j), NEW status \in {"rejected", "approved"},
           duty' = [duty EXCEPT ![j].status = status], stage' \in [Semantic -> Stage],
           UNCHANGED <<sources, assessed, calls>>
    PROVE  DInv'
<1> DEFINE task == [duty[j] EXCEPT !.status = status]
<1>1. duty[j] \in Task /\ duty' = [duty EXCEPT ![j] = task]
  BY DEF DInv, DecisionTypeOK, Undecided
<1>2. task \in Task /\ task.profile = duty[j].profile /\ task.cites = duty[j].cites
  BY <1>1 DEF Task
<1>3. task.profile \in DOMAIN assessed /\ (task.cites => Warranted(task.profile))
  BY <1>2 DEF DInv, ProfilesAreThere, CitationsAreWarranted, Undecided
<1> HIDE DEF task
<1> QED  BY <1>1, <1>2, <1>3, TaskStep

-----------------------------------------------------------------------------
(* A job takes a step.                                                       *)
LEMMA JobStepKeeps ==
    ASSUME DInv, NEW j \in Semantic,
           \/ AssessJob(j) \/ BlockJob(j) \/ BindTask(j) \/ ReviseTask(j)
           \/ SubmitCandidate(j) \/ RejectCandidate(j) \/ ApproveCandidate(j) \/ ReviewSource(j)
    PROVE  DInv'
<1>0. DecisionTypeOK /\ stage \in [Semantic -> Stage] /\ IsFiniteSet(calls)
  BY DEF DInv, DecisionTypeOK, ProfilesAreThere
<1>1. CASE AssessJob(j)
  <2>1. Extends
    BY <1>1, RecordExtends, DecisionAssumption DEF AssessJob
  <2>2. DecisionTypeOK'
    BY <1>0, <1>1, <2>1 DEF AssessJob, DecisionTypeOK, Extends, sources
  <2> QED  BY <1>0, <1>1, <2>1, <2>2, Elsewhere DEF AssessJob, sources
<1>2. CASE BlockJob(j)
  <2>1. stage' \in [Semantic -> Stage]
    BY <1>0, <1>2 DEF BlockJob, Stage
  <2>2. DecisionTypeOK'
    BY <1>0, <1>2, <2>1 DEF BlockJob, DecisionTypeOK, sources
  <2>3. Extends
    BY <1>2, UnchangedExtends DEF BlockJob
  <2> QED  BY <1>0, <1>2, <2>2, <2>3, Elsewhere DEF BlockJob, sources
<1>3. CASE BindTask(j)
  <2>1. stage' \in [Semantic -> Stage]
    BY <1>0, <1>3 DEF BindTask, Stage
  <2> QED  BY <1>3, <2>1, LeasedStep DEF BindTask
<1>4. CASE ReviseTask(j)
  BY <1>0, <1>4, LeasedStep DEF ReviseTask
<1>5. CASE SubmitCandidate(j)
  <2>1. PICK cites \in BOOLEAN :
          IF cites /\ ~MayCite
          THEN stage' = [stage EXCEPT ![j] = "blocked"] /\ UNCHANGED duty
          ELSE /\ duty' = [duty EXCEPT ![j].status = "submitted", ![j].cites = cites]
               /\ UNCHANGED stage
    BY <1>5 DEF SubmitCandidate
  <2>2. CASE cites /\ ~MayCite
    <3>1. stage' = [stage EXCEPT ![j] = "blocked"] /\ UNCHANGED <<sources, assessed, duty, calls>>
      BY <1>5, <2>1, <2>2 DEF SubmitCandidate
    <3>2. DecisionTypeOK'
      BY <1>0, <3>1 DEF DecisionTypeOK, Stage, sources
    <3> QED  BY <1>0, <3>1, <3>2, UnchangedExtends, Elsewhere DEF sources
  <2>3. CASE cites => MayCite
    <3> DEFINE task == [duty[j] EXCEPT !.status = "submitted", !.cites = cites]
    <3>1. duty[j] \in Task /\ duty' = [duty EXCEPT ![j] = task] /\ UNCHANGED stage
      BY <1>0, <1>5, <2>1, <2>3 DEF DecisionTypeOK, SubmitCandidate, Undecided
    <3>2. task \in Task /\ task.profile = duty[j].profile /\ task.cites = cites
      BY <3>1 DEF Task
    <3>3. task.profile \in DOMAIN assessed /\ Stands(task.profile)
      BY <1>5, <3>2, EffectiveStands DEF SubmitCandidate, Promises
    <3>4. task.cites => Warranted(task.profile)
      BY <2>3, <3>2, <3>3, GateWarrants
    <3>5. UNCHANGED <<sources, assessed, calls>>
      BY <1>5 DEF SubmitCandidate
    <3> HIDE DEF task
    <3> QED  BY <1>0, <3>1, <3>2, <3>3, <3>4, <3>5, TaskStep
  <2> QED  BY <2>2, <2>3
<1>6. CASE RejectCandidate(j)
  BY <1>0, <1>6, DecidedStep DEF RejectCandidate
<1>7. CASE ApproveCandidate(j)
  <2>1. stage' \in [Semantic -> Stage]
    BY <1>0, <1>7 DEF ApproveCandidate, Stage
  <2> QED  BY <1>7, <2>1, DecidedStep DEF ApproveCandidate
<1>8. CASE ReviewSource(j)
  <2> DEFINE p == duty[j].profile
  <2>1. PICK word \in {"accept", "remediate"} :
          calls' = calls \cup {[job |-> j, profile |-> p, word |-> word]}
    BY <1>8 DEF ReviewSource
  <2> DEFINE opened == [job |-> j, profile |-> p, word |-> word]
  <2>2. UNCHANGED <<sources, assessed, duty, stage>> /\ Cardinality(calls) < MaxCalls
    BY <1>8 DEF ReviewSource
  <2>3. duty[j] \in Task /\ p \in DOMAIN assessed
    BY <1>0, <1>8 DEF DInv, DecisionTypeOK, ProfilesAreThere, ReviewSource, Undecided
  <2>4. opened \in Review
    BY <2>3 DEF Task, Review
  <2>5. IsFiniteSet(calls') /\ Cardinality(calls') <= MaxCalls
    <3> HIDE DEF opened
    <3>1. IsFiniteSet(calls)
      BY DEF DInv, ProfilesAreThere
    <3>2. Cardinality(calls) \in Nat
      BY <3>1, FS_CardinalityType
    <3>3. calls' = calls \cup {opened}
      BY <2>1 DEF opened
    <3>4. /\ IsFiniteSet(calls \cup {opened})
          /\ Cardinality(calls \cup {opened}) =
               IF opened \in calls THEN Cardinality(calls) ELSE Cardinality(calls) + 1
      BY <3>1, FS_AddElement
    <3>5. IsFiniteSet(calls') /\ Cardinality(calls') <= Cardinality(calls) + 1
      BY <3>2, <3>3, <3>4
    <3>6. Cardinality(calls') \in Nat
      BY <3>5, FS_CardinalityType
    <3> QED  BY <2>2, <3>2, <3>5, <3>6, DecisionAssumption
  <2>6. DecisionTypeOK'
    BY <1>0, <2>1, <2>2, <2>4, <2>5 DEF DecisionTypeOK, sources
  <2>7. ProfilesAreThere'
    BY <2>1, <2>2, <2>3, <2>5 DEF DInv, ProfilesAreThere
  <2>8. ASSUME NEW q, Warranted(q) PROVE Warranted(q)'
    BY <2>2, <2>8 DEF Warranted, Reviewed, Machine, Observations, sources
  <2>9. CitationsAreWarranted' /\ WordsHaveTheirBasis'
    BY <2>2, <2>8 DEF DInv, CitationsAreWarranted, WordsHaveTheirBasis
  <2> QED  BY <2>6, <2>7, <2>9 DEF DInv
<1> QED  BY <1>1, <1>2, <1>3, <1>4, <1>5, <1>6, <1>7, <1>8

(* A decision under way records its word of the profile it was opened for,   *)
(* when that still stands, or is given up.                                   *)
LEMMA CallStepKeeps ==
    ASSUME DInv, NEW c \in calls, RecordWord(c) \/ AbandonCall(c) PROVE DInv'
<1>1. /\ calls' = calls \ {c} /\ UNCHANGED <<sources, duty, stage>>
  BY DEF RecordWord, AbandonCall
<1>2. DecisionTypeOK /\ c \in Review /\ c.profile \in DOMAIN assessed /\ IsFiniteSet(calls)
  BY DEF DInv, DecisionTypeOK, ProfilesAreThere
<1>3. Extends
  <2>1. CASE RecordWord(c)
    <3>1. Stands(c.profile) /\ RecordProfile(c.job, c.profile, c.word)
      BY <2>1 DEF RecordWord
    <3>2. /\ c.job \in Semantic /\ c.profile \in 0..MaxProfiles
          /\ c.word \in {"none", "accept", "remediate"}
      BY <1>2, DecisionAssumption DEF Review
    <3>3. assessed[c.profile].of = Snapshot
      BY <3>1 DEF Stands
    <3> QED  BY <1>2, <3>1, <3>2, <3>3, RecordExtends
  <2>2. CASE AbandonCall(c)
    BY <2>2, UnchangedExtends DEF AbandonCall
  <2> QED  BY <2>1, <2>2
<1>4. IsFiniteSet(calls') /\ Cardinality(calls') <= MaxCalls
  <2>1. Cardinality(calls) \in Nat /\ Cardinality(calls) <= MaxCalls
    BY <1>2, FS_CardinalityType DEF DecisionTypeOK
  <2>2. IsFiniteSet(calls \ {c}) /\ Cardinality(calls \ {c}) = Cardinality(calls) - 1
    BY <1>2, FS_RemoveElement
  <2>3. calls' = calls \ {c}
    BY <1>1
  <2> QED  BY <2>1, <2>2, <2>3, DecisionAssumption
<1>5. DecisionTypeOK'
  BY <1>1, <1>2, <1>3, <1>4 DEF DecisionTypeOK, Extends, sources
<1> QED  BY <1>1, <1>3, <1>4, <1>5, Elsewhere DEF sources

(* The sources change; what was recorded of them does not.                   *)
LEMMA ShiftKeeps ==
    ASSUME DInv, ParseAnew \/ ChangeFile \/ ChangeSupplement PROVE DInv'
<1>1. /\ UNCHANGED <<pages, assessed, duty, stage, calls>>
      /\ shifts < MaxShifts /\ shifts' = shifts + 1
  BY DEF ParseAnew, ChangeFile, ChangeSupplement, Shift
<1>2. DecisionTypeOK /\ IsFiniteSet(calls)
  BY DEF DInv, ProfilesAreThere
<1>3. active' \in Parse /\ registered' \in BOOLEAN /\ supplement' \in {"none", "there", "gone"}
  <2>1. active \in Parse /\ registered \in BOOLEAN /\ supplement \in {"none", "there", "gone"}
    BY <1>2 DEF DecisionTypeOK
  <2>2. CASE ParseAnew
    <3>1. active' = 2 /\ UNCHANGED <<registered, supplement>>
      BY <2>2 DEF ParseAnew
    <3> QED  BY <2>1, <3>1 DEF Parse
  <2>3. CASE ChangeFile
    <3>1. registered' = ~registered /\ UNCHANGED <<active, supplement>>
      BY <2>3 DEF ChangeFile
    <3>2. registered' \in BOOLEAN
      BY <3>1, Zenon
    <3> QED  BY <2>1, <3>1, <3>2
  <2>4. CASE ChangeSupplement
    <3>1. /\ supplement' = IF supplement = "there" THEN "gone" ELSE "there"
          /\ UNCHANGED <<active, registered>>
      BY <2>4 DEF ChangeSupplement
    <3> QED  BY <2>1, <3>1
  <2> QED  BY <2>2, <2>3, <2>4
<1>4. shifts' \in 0..MaxShifts
  BY <1>1, <1>2, DecisionAssumption DEF DecisionTypeOK
<1>5. DecisionTypeOK'
  BY <1>1, <1>2, <1>3, <1>4 DEF DecisionTypeOK
<1> QED  BY <1>1, <1>2, <1>5, UnchangedExtends, Elsewhere

(* Every step keeps the invariant.                                           *)
LEMMA DInvNext == ASSUME DInv, [DecisionNext]_decisionVars PROVE DInv'
<1>1. CASE DecisionNext
  BY <1>1, JobStepKeeps, CallStepKeeps, ShiftKeeps DEF DecisionNext
<1>2. CASE UNCHANGED decisionVars
  <2>1. DecisionTypeOK' /\ IsFiniteSet(calls')
    BY <1>2 DEF DInv, DecisionTypeOK, ProfilesAreThere, decisionVars
  <2> QED  BY <1>2, <2>1, UnchangedExtends, Elsewhere DEF decisionVars
<1> QED  BY <1>1, <1>2

(* The invariant of what a paper's pages may be used for, however many jobs  *)
(* and decisions there are: types, words said of profiles of the same        *)
(* sources, tasks about profiles there are, and citations that are           *)
(* warranted.                                                                *)
THEOREM DecisionInvariant == DecisionSpec => []DInv
BY DInit, DInvNext, PTL DEF DecisionSpec

(* Type correctness for every value of the constants.                        *)
THEOREM DecisionTypeCorrect == DecisionSpec => []DecisionTypeOK
<1>1. DInv => DecisionTypeOK
  BY DEF DInv
<1> QED  BY <1>1, DecisionInvariant, PTL

(* No semantic job cites running text of pages that neither the machine is   *)
(* sure of nor the user has accepted, for any number of jobs, decisions,     *)
(* assessments and changes of the sources.                                   *)
THEOREM CitationsAreWarrantedAlways == DecisionSpec => []CitationsAreWarranted
<1>1. DInv => CitationsAreWarranted
  BY DEF DInv
<1> QED  BY <1>1, DecisionInvariant, PTL

-----------------------------------------------------------------------------
(* The store of dispositions, now or when a caller has read it: one line for *)
(* each finding, whose members are told apart by their numbers.              *)
OneLine(S) ==
    \A f \in {S[n].finding : n \in 1..Len(S)} :
        /\ \E r \in Of(S, f) : Roots(S, f) = {r}
        /\ \E h \in Of(S, f) : Heads(S, f) = {h}
        /\ \A d \in Of(S, f) :
            /\ d.previous = 0 => d.status \in InitialStatus
            /\ \A e \in Followers(S, d) :
                /\ Followers(S, d) = {e}
                /\ d.status \notin TerminalStatus /\ e.status \in Transitions[d.status]
OwnNumbers(S) == \A m, n \in 1..Len(S) : S[m].id = S[n].id => m = n
NumberedBelow(S, i) == \A n \in 1..Len(S) : S[n].id < i /\ S[n].previous < i
AdmitsIn(S, f, status) ==
    IF Of(S, f) = {} THEN status \in InitialStatus
    ELSE LET h == CHOOSE d \in Heads(S, f) : TRUE
         IN  h.status \notin TerminalStatus /\ status \in Transitions[h.status]

(* A disposition is added to those of its finding.                           *)
LEMMA AppendedOf ==
    ASSUME NEW S \in Seq(Disposition), NEW d \in Disposition, NEW f
    PROVE  Of(Append(S, d), f) = IF f = d.finding THEN Of(S, f) \cup {d} ELSE Of(S, f)
<1>1. {Append(S, d)[n] : n \in 1..Len(Append(S, d))} = {S[n] : n \in 1..Len(S)} \cup {d}
  <2>1. Len(Append(S, d)) = Len(S) + 1 /\ Append(S, d)[Len(S) + 1] = d /\ Len(S) \in Nat
        /\ \A n \in 1..Len(S) : Append(S, d)[n] = S[n]
    OBVIOUS
  <2> DEFINE T == Append(S, d)
  <2> HIDE DEF T
  <2>2. \A n \in 1..Len(T) : n \in 1..Len(S) \/ n = Len(S) + 1
    BY <2>1 DEF T
  <2> QED  BY <2>1, <2>2 DEF T
<1> QED  BY <1>1 DEF Of

(* A disposition that follows the head of its finding prolongs the line.     *)
LEMMA LinesGrow ==
    ASSUME NEW S \in Seq(Disposition), NEW d \in Disposition, OneLine(S), OwnNumbers(S),
           NumberedBelow(S, d.id), d.previous = HeadId(S, d.finding), d.previous # d.id,
           AdmitsIn(S, d.finding, d.status)
    PROVE  OneLine(Append(S, d))
<1> DEFINE T == Append(S, d)
<1>1. \A f : Of(T, f) = IF f = d.finding THEN Of(S, f) \cup {d} ELSE Of(S, f)
  BY AppendedOf
<1>2. \A f : Of(T, f) # {} <=> f \in {T[n].finding : n \in 1..Len(T)}
  BY DEF Of
<1>3. \A f : Of(S, f) # {} <=> f \in {S[n].finding : n \in 1..Len(S)}
  BY DEF Of
<1>4. \A f : \A e \in Of(S, f) :
        e.finding = f /\ e.id \in Nat \ {0} /\ e.id # d.id /\ e.previous # d.id
  <2>1. ASSUME NEW n \in 1..Len(S)
        PROVE  S[n].id \in Nat \ {0} /\ S[n].id # d.id /\ S[n].previous # d.id
    <3>1. S[n] \in Disposition
      OBVIOUS
    <3>2. S[n].id \in Nat \ {0} /\ S[n].previous \in Nat /\ d.id \in Nat
      BY <3>1, ReviewAssumption DEF Disposition
    <3> QED  BY <3>2 DEF NumberedBelow
  <2> QED  BY <2>1 DEF Of
<1>5. \A f : \A e, g \in Of(S, f) : e.id = g.id => e = g
  BY DEF Of, OwnNumbers
<1> HIDE DEF T
<1> SUFFICES ASSUME NEW f, Of(T, f) # {}
             PROVE  /\ \E r \in Of(T, f) : Roots(T, f) = {r}
                    /\ \E h \in Of(T, f) : Heads(T, f) = {h}
                    /\ \A x \in Of(T, f) :
                        /\ x.previous = 0 => x.status \in InitialStatus
                        /\ \A e \in Followers(T, x) :
                            /\ Followers(T, x) = {e}
                            /\ x.status \notin TerminalStatus /\ e.status \in Transitions[x.status]
  BY <1>2 DEF OneLine, T
<1>6. CASE f # d.finding
  <2>1. Of(T, f) = Of(S, f) /\ Of(S, f) # {}
    BY <1>1, <1>6
  <2>2. \A x \in Of(S, f) : Followers(T, x) = Followers(S, x)
    BY <1>4, <2>1 DEF Followers
  <2>3. Roots(T, f) = Roots(S, f) /\ Heads(T, f) = Heads(S, f)
    BY <2>1, <2>2 DEF Roots, Heads
  <2> QED  BY <1>3, <2>1, <2>2, <2>3 DEF OneLine
<1>7. CASE f = d.finding /\ Of(S, f) = {}
  <2>1. Of(T, f) = {d} /\ d.previous = 0 /\ d.status \in InitialStatus /\ d.id # 0
    BY <1>1, <1>7 DEF HeadId, AdmitsIn, Disposition
  <2>2. Followers(T, d) = {}
    BY <1>7, <2>1 DEF Followers
  <2>3. Roots(T, f) = {d} /\ Heads(T, f) = {d}
    BY <2>1, <2>2 DEF Roots, Heads
  <2> QED  BY <2>1, <2>2, <2>3
<1>8. CASE f = d.finding /\ Of(S, f) # {}
  <2>1. PICK h \in Of(S, f) : Heads(S, f) = {h}
    BY <1>3, <1>8 DEF OneLine
  <2>2. (CHOOSE x \in Heads(S, f) : TRUE) = h
    BY <2>1
  <2>3. /\ d.previous = h.id /\ h.status \notin TerminalStatus
        /\ d.status \in Transitions[h.status]
    BY <1>8, <2>2 DEF HeadId, AdmitsIn
  <2>4. Of(T, f) = Of(S, f) \cup {d} /\ d.id # 0 /\ d.previous # 0 /\ d \notin Of(S, f)
    BY <1>1, <1>4, <1>8, <2>3 DEF Disposition
  <2>5. \A x \in Of(S, f) : Followers(T, x) = IF x = h THEN Followers(S, x) \cup {d}
                                                ELSE Followers(S, x)
    BY <1>4, <1>5, <2>3, <2>4 DEF Followers
  <2>6. Followers(S, h) = {} /\ \A x \in Of(S, f) : x # h => Followers(S, x) # {}
    BY <2>1 DEF Heads
  <2>7. Followers(T, d) = {}
    BY <1>4, <1>8, <2>4 DEF Followers
  <2>8. Roots(T, f) = Roots(S, f)
    BY <2>4 DEF Roots
  <2>9. Heads(T, f) = {d}
    BY <2>4, <2>5, <2>6, <2>7 DEF Heads
  <2>10. ASSUME NEW x \in Of(T, f)
         PROVE  /\ x.previous = 0 => x.status \in InitialStatus
                /\ \A e \in Followers(T, x) :
                    /\ Followers(T, x) = {e}
                    /\ x.status \notin TerminalStatus /\ e.status \in Transitions[x.status]
    <3>1. CASE x = d
      BY <2>4, <2>7, <3>1
    <3>2. CASE x = h
      BY <1>3, <1>8, <2>1, <2>3, <2>5, <2>6, <3>2 DEF OneLine
    <3>3. CASE x \in Of(S, f) /\ x # h
      BY <1>3, <1>8, <2>5, <3>3 DEF OneLine
    <3> QED  BY <2>4, <3>1, <3>2, <3>3
  <2> QED  BY <1>3, <1>8, <2>4, <2>8, <2>9, <2>10 DEF OneLine
<1> QED  BY <1>6, <1>7, <1>8

-----------------------------------------------------------------------------
(* What holds of the store, and of each copy a caller has read of it.        *)
SpokenOnce(S, J) ==
    /\ \A m, n \in 1..Len(S) : S[m].by = S[n].by => m = n
    /\ \A n \in 1..Len(S) : S[n].by \in Judge =>
        /\ J[S[n].by] # Nothing
        /\ S[n].finding = J[S[n].by].finding /\ S[n].previous = J[S[n].by].seen
StoreStands(S, J, i) ==
    /\ S \in Seq(Disposition) /\ OneLine(S) /\ OwnNumbers(S)
    /\ NumberedBelow(S, i + 1) /\ SpokenOnce(S, J)
DispositionIds(S) == {S[n].id : n \in 1..Len(S)}
FollowsHead(S, w) == w.seen = HeadId(S, w.finding) /\ AdmitsIn(S, w.finding, w.status)
SilentIn(S, k) == \A n \in 1..Len(S) : S[n].by # k
JudgeStands(k, J, i) ==
    J[k] # Nothing =>
        /\ J[k].seen <= i
        /\ J[k].at = "appends" =>
            StoreStands(J[k].base, J, i) /\ FollowsHead(J[k].base, J[k]) /\ SilentIn(J[k].base, k)
ReportsStand ==
    Len(reports) <= MaxReports /\ (checking # Nothing => Len(reports) < MaxReports)
ReviewInv ==
    /\ ReviewTypeOK /\ ReportsStand /\ StoreStands(dispositions, judging, disposed)
    /\ \A k \in Judge : JudgeStands(k, judging, disposed)
    /\ settled \subseteq DispositionIds(dispositions) /\ (disposed > 0 => dispositions # <<>>)

(* The head a caller sees is a disposition of the store, or none.            *)
LEMMA HeadsStand ==
    ASSUME NEW S \in Seq(Disposition), OneLine(S), NEW i \in Nat, NumberedBelow(S, i + 1), NEW f
    PROVE  HeadId(S, f) \in 0..MaxDispositions /\ HeadId(S, f) <= i
<1>1. CASE Of(S, f) = {}
  BY <1>1, ReviewAssumption DEF HeadId
<1>2. CASE Of(S, f) # {}
  <2>1. f \in {S[n].finding : n \in 1..Len(S)}
    BY <1>2 DEF Of
  <2>2. PICK h \in Of(S, f) : Heads(S, f) = {h}
    BY <2>1 DEF OneLine
  <2>3. PICK n \in 1..Len(S) : h = S[n]
    BY <2>2 DEF Of
  <2>4. S[n] \in Disposition
    OBVIOUS
  <2>5. h.id \in 1..MaxDispositions /\ h.id < i + 1
    BY <2>3, <2>4 DEF NumberedBelow, Disposition
  <2>6. HeadId(S, f) = h.id
    BY <1>2, <2>2 DEF HeadId
  <2> QED  BY <2>5, <2>6, ReviewAssumption
<1> QED  BY <1>1, <1>2

(* A caller whose word is the head's successor has not spoken yet.           *)
LEMMA SilentBefore ==
    ASSUME NEW S \in Seq(Disposition), OneLine(S), SpokenOnce(S, judging), NEW k \in Judge,
           judging[k].seen = HeadId(S, judging[k].finding)
    PROVE  SilentIn(S, k)
<1> SUFFICES ASSUME NEW n \in 1..Len(S), S[n].by = k
             PROVE  FALSE
  BY DEF SilentIn
<1> DEFINE f == judging[k].finding
<1>1. S[n].finding = f /\ S[n].previous = judging[k].seen
  BY DEF SpokenOnce
<1>2. S[n] \in Of(S, f) /\ f \in {S[m].finding : m \in 1..Len(S)}
  BY <1>1 DEF Of
<1>3. PICK h \in Of(S, f) : Heads(S, f) = {h}
  BY <1>2 DEF OneLine
<1>4. HeadId(S, f) = h.id
  BY <1>2, <1>3 DEF HeadId
<1>5. h.finding = f /\ Followers(S, h) = {}
  BY <1>3 DEF Heads, Of
<1> QED  BY <1>1, <1>2, <1>4, <1>5 DEF Followers

(* A line has one root and one head.                                         *)
LEMMA LinesAreCounted ==
    ASSUME NEW S, OneLine(S)
    PROVE  LinesStand(S)
<1> SUFFICES ASSUME NEW f \in {S[n].finding : n \in 1..Len(S)}
             PROVE  Cardinality(Roots(S, f)) = 1 /\ Cardinality(Heads(S, f)) = 1
  BY DEF OneLine, LinesStand
<1>1. PICK r, h : Roots(S, f) = {r} /\ Heads(S, f) = {h}
  BY DEF OneLine
<1> QED  BY <1>1, FS_Singleton

-----------------------------------------------------------------------------
(* Nothing is reported or decided yet.                                       *)
LEMMA ReviewInvInit == ReviewInit => ReviewInv
<1> SUFFICES ASSUME ReviewInit
             PROVE  ReviewInv
  OBVIOUS
<1> DEFINE none == <<>>
<1>0. /\ none \in Seq(Disposition) /\ Len(none) = 0 /\ OneLine(none) /\ OwnNumbers(none)
      /\ \A i : NumberedBelow(none, i)
      /\ \A f : Of(none, f) = {}
  BY DEF OneLine, OwnNumbers, NumberedBelow, Of
<1>1. judging \in [Judge -> {Nothing}] /\ losses = 0 /\ unnamed = {} /\ present \subseteq Problem
      /\ checking = Nothing
  BY DEF ReviewInit
<1>2. /\ \A k \in Judge : JudgeStands(k, judging, disposed)
      /\ judging \in [Judge -> {Nothing} \cup Judgement] /\ losses \in 0..MaxFaults
  BY <1>1, FaultAssumption DEF JudgeStands
<1>3. CASE reports = <<>> /\ dispositions = <<>> /\ settled = {} /\ disposed = 0
  <2>1. StoreStands(dispositions, judging, disposed)
    BY <1>0, <1>3 DEF StoreStands, SpokenOnce
  <2> QED  BY <1>1, <1>2, <1>3, <2>1, ReviewAssumption DEF ReviewInv, ReviewTypeOK, ReportsStand
<1>4. ASSUME NEW status \in InitialStatus, reports = <<Problem>>, settled = {1}, disposed = 1,
             dispositions = <<[id |-> 1, finding |-> <<1, "error">>, status |-> status,
                               previous |-> 0, by |-> "earlier"]>>
      PROVE  ReviewInv
  <2> DEFINE d == [id |-> 1, finding |-> <<1, "error">>, status |-> status,
                   previous |-> 0, by |-> "earlier"]
  <2>1. /\ d \in Disposition /\ d.id = 1 /\ d.finding = <<1, "error">> /\ d.status = status
        /\ d.previous = 0 /\ d.by = "earlier"
    BY ReviewAssumption DEF Disposition, Finding, Problem, Status, InitialStatus
  <2> HIDE DEF d
  <2>2. dispositions = Append(none, d) /\ dispositions = <<d>>
    BY <1>4 DEF d
  <2>3. d.previous = HeadId(none, d.finding) /\ AdmitsIn(none, d.finding, d.status)
    BY <1>0, <2>1 DEF HeadId, AdmitsIn
  <2>4. OneLine(dispositions)
    <3>1. d.previous # d.id
      BY <2>1
    <3>2. /\ none \in Seq(Disposition) /\ OneLine(none) /\ OwnNumbers(none)
          /\ NumberedBelow(none, d.id)
      BY <1>0
    <3> HIDE DEF none
    <3> QED  BY <2>1, <2>2, <2>3, <3>1, <3>2, LinesGrow
  <2>5. Len(dispositions) = 1 /\ dispositions[1] = d /\ dispositions \in Seq(Disposition)
    BY <2>1, <2>2
  <2>6. StoreStands(dispositions, judging, disposed)
    BY <1>4, <2>1, <2>4, <2>5, NothingIsNoJudgement
    DEF StoreStands, OwnNumbers, NumberedBelow, SpokenOnce
  <2>7. settled \subseteq DispositionIds(dispositions)
    BY <1>4, <2>1, <2>5 DEF DispositionIds
  <2>8. /\ settled \subseteq 1..disposed /\ disposed \in 0..MaxDispositions
        /\ dispositions # <<>> /\ reports \in Seq(SUBSET Problem) /\ Len(reports) = 1
    BY <1>4, <2>5, ReviewAssumption
  <2> QED  BY <1>1, <1>2, <2>5, <2>6, <2>7, <2>8, ReviewAssumption
           DEF ReviewInv, ReviewTypeOK, ReportsStand
<1> QED  BY <1>3, <1>4 DEF ReviewInit

-----------------------------------------------------------------------------
(* What the caller has to say, and which disposition it has seen, it keeps.  *)
KeepsWord(J, L) == \A k \in Judge : J[k] # Nothing =>
    /\ L[k] # Nothing /\ L[k].finding = J[k].finding
    /\ L[k].seen = J[k].seen /\ L[k].status = J[k].status

(* A store stands however the callers and the numbers move on.               *)
LEMMA StoresKeep ==
    ASSUME NEW J, NEW L, KeepsWord(J, L), NEW i \in Nat, NEW j \in Nat, i <= j,
           NEW S, StoreStands(S, J, i)
    PROVE  StoreStands(S, L, j)
<1>1. \A n \in 1..Len(S) : S[n] \in Disposition
  BY DEF StoreStands
<1>2. NumberedBelow(S, j + 1)
  <2> SUFFICES ASSUME NEW n \in 1..Len(S)
               PROVE  S[n].id < j + 1 /\ S[n].previous < j + 1
    BY DEF NumberedBelow
  <2>1. S[n].id < i + 1 /\ S[n].previous < i + 1 /\ S[n].id \in Nat /\ S[n].previous \in Nat
    BY <1>1, ReviewAssumption DEF StoreStands, NumberedBelow, Disposition
  <2> QED  BY <2>1
<1> QED  BY <1>2 DEF StoreStands, SpokenOnce, KeepsWord

(* One caller moves; the others stay where they are.                         *)
LEMMA JudgesKeep ==
    ASSUME NEW J, NEW L, KeepsWord(J, L), NEW i \in Nat, NEW j \in Nat, i <= j,
           NEW k \in Judge, J \in [Judge -> {Nothing} \cup Judgement],
           NEW w \in Judgement, L = [J EXCEPT ![k] = w],
           \A x \in Judge : JudgeStands(x, J, i), JudgeStands(k, L, j)
    PROVE  \A x \in Judge : JudgeStands(x, L, j)
<1> SUFFICES ASSUME NEW x \in Judge, x # k, J[x] # Nothing
             PROVE  JudgeStands(x, L, j)
  BY DEF JudgeStands
<1>1. L[x] = J[x]
  OBVIOUS
<1>2. J[x].seen <= j
  BY DEF JudgeStands, Judgement
<1>3. J[x].at = "appends" => StoreStands(J[x].base, L, j)
  BY StoresKeep DEF JudgeStands
<1> QED  BY <1>1, <1>2, <1>3 DEF JudgeStands

(* A caller moves, and keeps what it has to say; before it appends it has    *)
(* read the store and follows its head.                                      *)
LEMMA JudgeMoves ==
    ASSUME ReviewInv, NEW k \in Judge, NEW w \in Judgement,
           judging' = [judging EXCEPT ![k] = w],
           judging[k] # Nothing => /\ w.finding = judging[k].finding
                                   /\ w.seen = judging[k].seen /\ w.status = judging[k].status,
           w.seen <= disposed,
           w.at = "appends" => /\ w.base = dispositions /\ FollowsHead(dispositions, w)
                               /\ SilentIn(dispositions, k),
           UNCHANGED <<present, reports, checking, dispositions, settled, unnamed, disposed>>,
           losses' \in 0..MaxFaults
    PROVE  ReviewInv'
<1>1. /\ judging \in [Judge -> {Nothing} \cup Judgement] /\ disposed \in Nat
      /\ StoreStands(dispositions, judging, disposed)
      /\ \A x \in Judge : JudgeStands(x, judging, disposed)
  BY DEF ReviewInv, ReviewTypeOK
<1>2. KeepsWord(judging, judging') /\ judging' \in [Judge -> {Nothing} \cup Judgement]
      /\ judging'[k] = w
  BY <1>1, NothingIsNoJudgement DEF KeepsWord
<1>3. StoreStands(dispositions, judging', disposed)
  BY <1>1, <1>2, StoresKeep
<1>4. JudgeStands(k, judging', disposed)
  BY <1>2, <1>3 DEF JudgeStands
<1>5. \A x \in Judge : JudgeStands(x, judging', disposed)
  <2>1. disposed <= disposed
    BY <1>1
  <2> QED  BY <1>1, <1>2, <1>4, <2>1, JudgesKeep
<1>6. ReviewTypeOK' /\ ReportsStand'
  BY <1>2 DEF ReviewInv, ReviewTypeOK, ReportsStand
<1> QED  BY <1>3, <1>5, <1>6 DEF ReviewInv

(* The workspace is checked and changed, reports are written, and recovery   *)
(* names what the store holds.                                               *)
LEMMA ReportSteps ==
    ASSUME ReviewInv, CheckWorkspace \/ WriteReport \/ ChangeWorkspace \/ RecoverDispositions
    PROVE  ReviewInv'
<1> USE DEF ReviewInv, ReviewTypeOK, ReportsStand
<1>1. CASE CheckWorkspace
  BY <1>1 DEF CheckWorkspace
<1>2. CASE WriteReport
  <2>1. checking \in SUBSET Problem /\ Len(reports) + 1 <= MaxReports
    BY <1>2, ReviewAssumption DEF WriteReport
  <2>2. reports' \in Seq(SUBSET Problem) /\ Len(reports') = Len(reports) + 1
    BY <1>2, <2>1 DEF WriteReport
  <2> QED  BY <1>2, <2>1, <2>2 DEF WriteReport
<1>3. CASE ChangeWorkspace
  BY <1>3 DEF ChangeWorkspace
<1>4. CASE RecoverDispositions
  <2>1. unnamed # {} /\ disposed > 0
    <3>1. PICK i \in unnamed : i \in 1..disposed
      BY <1>4 DEF RecoverDispositions
    <3> QED  BY <3>1, ReviewAssumption
  <2>2. Len(dispositions) \in 1..Len(dispositions)
    BY <2>1
  <2>3. settled' \subseteq DispositionIds(dispositions) /\ settled' \subseteq 1..disposed
    BY <1>4, <2>2 DEF RecoverDispositions, DispositionIds
  <2> QED  BY <1>4, <2>3 DEF RecoverDispositions
<1> QED  BY <1>1, <1>2, <1>3, <1>4

(* A caller picks a finding of a report, and sees its head.                  *)
LEMMA SeeingKeeps ==
    ASSUME ReviewInv, NEW k \in Judge, SeeFinding(k)
    PROVE  ReviewInv'
<1>1. PICK r \in 1..Len(reports) : \E p \in reports[r], status \in Status :
        judging' = [judging EXCEPT ![k] =
            [finding |-> <<r, p>>, status |-> status, seen |-> HeadId(dispositions, <<r, p>>),
             at |-> "asks", base |-> <<>>]]
  BY DEF SeeFinding
<1>2. PICK p \in reports[r], status \in Status :
        judging' = [judging EXCEPT ![k] =
            [finding |-> <<r, p>>, status |-> status, seen |-> HeadId(dispositions, <<r, p>>),
             at |-> "asks", base |-> <<>>]]
  BY <1>1
<1> DEFINE f == <<r, p>>
           w == [finding |-> f, status |-> status, seen |-> HeadId(dispositions, f),
                 at |-> "asks", base |-> <<>>]
<1>3. f \in Finding
  <2>1. reports[r] \in SUBSET Problem /\ r \in 1..MaxReports
    BY ReviewAssumption DEF ReviewInv, ReviewTypeOK, ReportsStand
  <2> QED  BY <2>1 DEF Finding
<1>4. HeadId(dispositions, f) \in 0..MaxDispositions /\ HeadId(dispositions, f) <= disposed
  BY HeadsStand DEF ReviewInv, ReviewTypeOK, StoreStands
<1>5. w \in Judgement /\ w.seen <= disposed /\ w.at # "appends"
  BY <1>3, <1>4 DEF Judgement
<1>6. judging' = [judging EXCEPT ![k] = w]
  BY <1>2
<1> HIDE DEF w
<1>7. losses' \in 0..MaxFaults
  BY DEF SeeFinding, ReviewInv, ReviewTypeOK
<1> QED  BY <1>5, <1>6, <1>7, JudgeMoves DEF SeeFinding

(* A caller's call goes on: it keeps what it has to say.                     *)
LEMMA CallsMove ==
    ASSUME ReviewInv, NEW k \in Judge, judging[k] # Nothing,
           NEW at \in {"asks", "appends", "answered"}, NEW base \in Seq(Disposition),
           judging' = [judging EXCEPT ![k].at = at, ![k].base = base],
           at = "appends" => /\ base = dispositions
                             /\ FollowsHead(dispositions, judging[k]),
           UNCHANGED <<present, reports, checking, dispositions, settled, unnamed, disposed>>,
           losses' \in 0..MaxFaults
    PROVE  ReviewInv'
<1>1. judging[k] \in Judgement /\ judging[k].seen <= disposed
  BY DEF ReviewInv, ReviewTypeOK, JudgeStands
<1> DEFINE w == [judging[k] EXCEPT !.at = at, !.base = base]
<1>2. /\ w \in Judgement /\ w.at = at /\ w.base = base /\ w.finding = judging[k].finding
      /\ w.seen = judging[k].seen /\ w.status = judging[k].status
  BY <1>1 DEF Judgement
<1>3. judging' = [judging EXCEPT ![k] = w]
  BY DEF ReviewInv, ReviewTypeOK
<1> HIDE DEF w
<1>4. at = "appends" => FollowsHead(dispositions, w) /\ SilentIn(dispositions, k)
  BY <1>2, SilentBefore DEF FollowsHead, ReviewInv, StoreStands
<1> QED  BY <1>1, <1>2, <1>3, <1>4, JudgeMoves

(* What the caller has read, and its word, replace the store.                *)
LEMMA WordIsAppended ==
    ASSUME ReviewInv, NEW k \in Judge, judging[k] # Nothing, judging[k].at = "appends",
           disposed < MaxDispositions, NEW L, KeepsWord(judging, L)
    PROVE  StoreStands(Decided(k), L, disposed + 1)
<1> DEFINE S == judging[k].base
           w == judging[k]
           d == Word(k)
           T == Append(S, d)
<1>1. /\ w \in Judgement /\ disposed \in Nat /\ disposed + 1 \in 1..MaxDispositions
      /\ StoreStands(S, judging, disposed) /\ FollowsHead(S, w) /\ SilentIn(S, k)
      /\ w.seen <= disposed
  BY ReviewAssumption DEF ReviewInv, ReviewTypeOK, JudgeStands
<1>2. /\ d.id = disposed + 1 /\ d.finding = w.finding /\ d.status = w.status
      /\ d.previous = w.seen /\ d.by = k /\ d \in Disposition
  BY <1>1 DEF Word, Disposition, Judgement
<1>3. d.previous # d.id /\ d.previous < disposed + 2 /\ d.id < disposed + 2
  BY <1>1, <1>2, ReviewAssumption DEF Disposition
<1>4. StoreStands(S, L, disposed)
  <2>1. disposed <= disposed
    BY <1>1
  <2> QED  BY <1>1, <2>1, StoresKeep
<1> HIDE DEF w, d, S
<1>5. S \in Seq(Disposition) /\ OneLine(S) /\ OwnNumbers(S) /\ NumberedBelow(S, d.id)
  BY <1>1, <1>2 DEF StoreStands
<1>6. OneLine(T)
  <2>1. d.previous = HeadId(S, d.finding) /\ AdmitsIn(S, d.finding, d.status)
    BY <1>1, <1>2 DEF FollowsHead
  <2> QED  BY <1>2, <1>3, <1>5, <2>1, LinesGrow
<1>7. /\ Len(T) = Len(S) + 1 /\ T[Len(S) + 1] = d /\ Len(S) \in Nat
      /\ \A n \in 1..Len(S) : T[n] = S[n]
      /\ T \in Seq(Disposition)
  BY <1>2, <1>5
<1> HIDE DEF T
<1>8. \A n \in 1..Len(T) : n \in 1..Len(S) \/ n = Len(S) + 1
  BY <1>7
<1>9. \A n \in 1..Len(S) : /\ S[n].id < d.id /\ S[n].previous < d.id /\ S[n].id \in Nat
                           /\ S[n].previous \in Nat /\ S[n].id # d.id /\ S[n].by # k
  <2> SUFFICES ASSUME NEW n \in 1..Len(S)
               PROVE  /\ S[n].id < d.id /\ S[n].previous < d.id /\ S[n].id \in Nat
                      /\ S[n].previous \in Nat /\ S[n].id # d.id /\ S[n].by # k
    OBVIOUS
  <2>1. S[n] \in Disposition
    BY <1>5
  <2>2. S[n].id \in Nat /\ S[n].previous \in Nat
    BY <2>1, ReviewAssumption DEF Disposition
  <2> QED  BY <1>1, <1>2, <1>5, <2>2 DEF NumberedBelow, SilentIn
<1>10. OwnNumbers(T)
  BY <1>5, <1>7, <1>8, <1>9 DEF OwnNumbers
<1>11. NumberedBelow(T, disposed + 1 + 1)
  BY <1>1, <1>2, <1>3, <1>7, <1>8, <1>9 DEF NumberedBelow
<1>12. SpokenOnce(T, L)
  <2>1. L[k] # Nothing /\ d.finding = L[k].finding /\ d.previous = L[k].seen
    BY <1>2 DEF KeepsWord, w
  <2> QED  BY <1>2, <1>4, <1>7, <1>8, <1>9, <2>1 DEF SpokenOnce, StoreStands
<1>13. Decided(k) = T
  BY DEF Decided, T, S, d
<1> QED  BY <1>6, <1>7, <1>10, <1>11, <1>12, <1>13 DEF StoreStands

(* The store a caller has read, with its word, replaces the store: what      *)
(* others appended meanwhile has moved the head, or is kept.                 *)
LEMMA CommitKeeps ==
    ASSUME ReviewInv, NEW k \in Judge, CommitDisposition(k)
    PROVE  ReviewInv'
<1>1. /\ judging \in [Judge -> {Nothing} \cup Judgement] /\ disposed \in Nat
      /\ disposed + 1 \in 0..MaxDispositions /\ disposed + 1 \in 1..(disposed + 1)
      /\ disposed <= disposed + 1 /\ disposed + 1 > 0 /\ losses \in 0..MaxFaults
      /\ settled \subseteq 1..disposed /\ unnamed \subseteq 1..disposed
      /\ \A x \in Judge : JudgeStands(x, judging, disposed)
  BY ReviewAssumption DEF ReviewInv, ReviewTypeOK, CommitDisposition
<1>2. /\ judging[k] \in Judgement /\ judging[k] # Nothing /\ judging[k].at = "appends"
      /\ disposed < MaxDispositions /\ DropsUnnamed(k)
      /\ dispositions' = Decided(k) /\ disposed' = disposed + 1
      /\ UNCHANGED <<present, reports, checking>>
  BY <1>1 DEF CommitDisposition
<1>3. PICK event \in Outcomes(losses) \ {"parked"} :
        /\ settled' = IF event = "recorded" THEN settled \cup {disposed'} ELSE settled
        /\ unnamed' = IF event = "open" THEN unnamed \cup {disposed'} ELSE unnamed
        /\ losses' = losses + Cost(event)
        /\ IF event = "recorded" THEN Answer(k)
           ELSE judging' = [judging EXCEPT ![k].at = "asks", ![k].base = <<>>]
  BY DEF CommitDisposition
<1>4. PICK at \in {"asks", "answered"} :
        judging' = [judging EXCEPT ![k].at = at, ![k].base = <<>>]
  BY <1>3 DEF Answer
<1> DEFINE w == [judging[k] EXCEPT !.at = at, !.base = <<>>]
<1>5. /\ w \in Judgement /\ w.at = at /\ w.finding = judging[k].finding
      /\ w.seen = judging[k].seen /\ w.status = judging[k].status
  <2> DEFINE none == <<>>
  <2>1. none \in Seq(Disposition)
    OBVIOUS
  <2> HIDE DEF none
  <2>2. LET v == [judging[k] EXCEPT !.at = at, !.base = none]
        IN  /\ v \in Judgement /\ v.at = at /\ v.finding = judging[k].finding
            /\ v.seen = judging[k].seen /\ v.status = judging[k].status
    BY <1>2, <2>1 DEF Judgement
  <2> QED  BY <2>2 DEF none
<1>6. judging' = [judging EXCEPT ![k] = w]
  BY <1>1, <1>4
<1> HIDE DEF w
<1>7. /\ KeepsWord(judging, judging') /\ judging' \in [Judge -> {Nothing} \cup Judgement]
      /\ judging'[k] = w
  BY <1>1, <1>5, <1>6, NothingIsNoJudgement DEF KeepsWord
<1>8. StoreStands(dispositions', judging', disposed + 1)
  BY <1>2, <1>7, WordIsAppended
<1>9. JudgeStands(k, judging', disposed + 1)
  <2>1. judging[k].seen <= disposed + 1
    BY <1>1, <1>2, ReviewAssumption DEF JudgeStands, Judgement
  <2> QED  BY <1>4, <1>5, <1>7, <2>1 DEF JudgeStands
<1>10. \A x \in Judge : JudgeStands(x, judging', disposed + 1)
  <2>1. disposed + 1 \in Nat
    BY <1>1
  <2> QED  BY <1>1, <1>5, <1>6, <1>7, <1>9, <2>1, JudgesKeep
<1>11. /\ settled' \subseteq 1..disposed' /\ unnamed' \subseteq 1..disposed'
       /\ disposed' \in 0..MaxDispositions
  BY <1>1, <1>2, <1>3
<1>12. losses' \in 0..MaxFaults
  BY <1>1, <1>3, FaultAssumption DEF Outcomes, Cost
<1>13. dispositions' # <<>> /\ settled' \subseteq DispositionIds(dispositions')
  <2> DEFINE S == judging[k].base
  <2>1. S \in Seq(Disposition) /\ dispositions' = Append(S, Word(k)) /\ Word(k).id = disposed + 1
    BY <1>2 DEF Judgement, Decided, Word
  <2> HIDE DEF S
  <2>2. /\ Len(dispositions') = Len(S) + 1 /\ dispositions'[Len(S) + 1] = Word(k)
        /\ Len(S) \in Nat /\ \A n \in 1..Len(S) : dispositions'[n] = S[n]
    BY <2>1
  <2>3. settled \subseteq {S[n].id : n \in 1..Len(S)}
    BY <1>2 DEF DropsUnnamed, S
  <2>4. {S[n].id : n \in 1..Len(S)} \cup {disposed + 1} \subseteq DispositionIds(dispositions')
    BY <2>1, <2>2 DEF DispositionIds
  <2>5. dispositions' # <<>>
    BY <2>2
  <2> QED  BY <1>2, <1>3, <2>3, <2>4, <2>5
<1>14. dispositions' \in Seq(Disposition)
  BY <1>8 DEF StoreStands
<1> QED  BY <1>1, <1>2, <1>7, <1>8, <1>10, <1>11, <1>12, <1>13, <1>14
         DEF ReviewInv, ReviewTypeOK, ReportsStand, DispositionIds

(* Every step keeps the invariant.                                           *)
LEMMA ReviewInvNext == ReviewInv /\ [ReviewNext]_reviewVars => ReviewInv'
<1> SUFFICES ASSUME ReviewInv, [ReviewNext]_reviewVars
             PROVE  ReviewInv'
  OBVIOUS
<1>0. /\ <<>> \in Seq(Disposition) /\ dispositions \in Seq(Disposition)
      /\ losses \in 0..MaxFaults
  BY DEF ReviewInv, ReviewTypeOK
<1>1. ASSUME NEW k \in Judge, RecordDisposition(k)
      PROVE  ReviewInv'
  <2>1. judging[k] # Nothing /\ losses' \in 0..MaxFaults
        /\ UNCHANGED <<present, reports, checking, dispositions, settled, unnamed, disposed>>
    BY <1>0, <1>1 DEF RecordDisposition, Rest
  <2>2. CASE HeadId(dispositions, judging[k].finding) = judging[k].seen
             /\ Admits(judging[k].finding, judging[k].status)
    <3>1. judging' = [judging EXCEPT ![k].at = "appends", ![k].base = dispositions]
      BY <1>1, <2>2 DEF RecordDisposition
    <3>2. FollowsHead(dispositions, judging[k])
      BY <2>2 DEF FollowsHead, AdmitsIn, Admits
    <3> QED  BY <1>0, <2>1, <3>1, <3>2, CallsMove
  <2>3. CASE ~(HeadId(dispositions, judging[k].finding) = judging[k].seen
               /\ Admits(judging[k].finding, judging[k].status))
    <3>1. judging' = [judging EXCEPT ![k].at = "answered", ![k].base = <<>>]
      BY <1>1, <2>3 DEF RecordDisposition, Answer
    <3> QED  BY <1>0, <2>1, <3>1, CallsMove
  <2> QED  BY <2>2, <2>3
<1>2. ASSUME NEW k \in Judge, RefuseDisposition(k) \/ DieJudging(k)
      PROVE  ReviewInv'
  <2>1. judging[k] # Nothing
        /\ UNCHANGED <<present, reports, checking, dispositions, settled, unnamed, disposed>>
    BY <1>2 DEF RefuseDisposition, DieJudging, Rest
  <2>2. losses' \in 0..MaxFaults
    BY <1>0, <1>2, FaultAssumption DEF RefuseDisposition, DieJudging, Rest
  <2>3. PICK at \in {"asks", "answered"} :
          judging' = [judging EXCEPT ![k].at = at, ![k].base = <<>>]
    BY <1>2 DEF RefuseDisposition, DieJudging, Answer
  <2> QED  BY <1>0, <2>1, <2>2, <2>3, CallsMove
<1>3. CASE UNCHANGED reviewVars
  BY <1>3 DEF reviewVars, ReviewInv, ReviewTypeOK, ReportsStand
<1> QED  BY <1>1, <1>2, <1>3, ReportSteps, SeeingKeeps, CommitKeeps DEF ReviewNext

(* In every state of a review, the dispositions of a finding form one line,  *)
(* and a caller about to append follows the head of the store it has read    *)
(* (services/guardian_disposition.py).                                       *)
THEOREM ReviewInvariant == ReviewSpec => []ReviewInv
BY ReviewInvInit, ReviewInvNext, PTL DEF ReviewSpec

(* One line for each finding, and events that name what stands.              *)
LEMMA DispositionsStandBy == ReviewInv => DispositionsStand
  BY LinesAreCounted DEF ReviewInv, StoreStands, SpokenOnce, DispositionsStand, DispositionIds

(* Every finding has one line of dispositions, nothing that was answered is  *)
(* lost, and every event names a disposition that stands, for any number of  *)
(* callers, reports, dispositions and faults                                 *)
(* (services/guardian_disposition.py).                                       *)
THEOREM FindingsKeepOneLine == ReviewSpec => []DispositionsStand
BY ReviewInvariant, DispositionsStandBy, PTL

-----------------------------------------------------------------------------
(* The services together.                                                    *)
ServicesInv ==
    /\ IntakeInv /\ TrustedInv /\ StraightInv /\ AssetInv /\ UndisturbedInv /\ DInv /\ ReviewInv
    /\ area \in Areas

(* A step of the services is a step of each component or leaves it alone.    *)
LEMMA ServicesStep ==
    ASSUME area \in Areas, [ServicesNext]_servicesVars
    PROVE  /\ [IntakeNext]_intakeVars /\ [TrustedNext]_trustedVars /\ [AssetNext]_assetVars
           /\ [DecisionNext]_decisionVars /\ [ReviewNext]_reviewVars /\ area' = area
<1>1. CASE UNCHANGED servicesVars
  <2>1. /\ intakeVars' = intakeVars /\ trustedVars' = trustedVars /\ assetVars' = assetVars
        /\ decisionVars' = decisionVars /\ reviewVars' = reviewVars /\ area' = area
    BY <1>1 DEF servicesVars
  <2> QED  BY <2>1
<1>2. CASE ServicesNext
  <2>1. /\ area' = area
        /\ area # "intake" => UNCHANGED intakeVars
        /\ area # "trusted" => UNCHANGED trustedVars
        /\ area # "assets" => UNCHANGED assetVars
        /\ area # "adequacy" => UNCHANGED decisionVars
        /\ area # "review" => UNCHANGED reviewVars
    BY <1>2 DEF ServicesNext
  <2>2. /\ area = "intake" => IntakeNext
        /\ area = "trusted" => TrustedNext
        /\ area = "assets" => AssetNext
        /\ area = "adequacy" => DecisionNext
        /\ area = "review" => ReviewNext
    BY <1>2 DEF ServicesNext
  <2> QED  BY <2>1, <2>2
<1> QED  BY <1>1, <1>2

(* Every component starts as it does on its own.                             *)
LEMMA ServicesStart == ASSUME ServicesInit PROVE ServicesInv
  BY IntakeInvInit, TrustedInvInit, StraightInvInit, AssetInvInit, UndisturbedInit, DInit, ReviewInvInit
  DEF ServicesInit, ServicesInv

(* Every step keeps the invariants of all components.                        *)
LEMMA ServicesInvNext ==
    ASSUME ServicesInv, [ServicesNext]_servicesVars
    PROVE  ServicesInv'
<1>1. /\ area \in Areas /\ IntakeInv /\ TrustedInv /\ StraightInv /\ AssetInv
      /\ UndisturbedInv /\ DInv /\ ReviewInv
  BY DEF ServicesInv
<1>2. /\ [IntakeNext]_intakeVars /\ [TrustedNext]_trustedVars /\ [AssetNext]_assetVars
      /\ [DecisionNext]_decisionVars /\ [ReviewNext]_reviewVars /\ area' = area
  BY <1>1, ServicesStep
<1>3. /\ IntakeInv' /\ TrustedInv' /\ StraightInv' /\ AssetInv'
      /\ UndisturbedInv' /\ DInv' /\ ReviewInv'
  BY <1>1, <1>2, IntakeInvNext, StraightInvNext, AssetInvNext, UndisturbedNext, DInvNext,
     ReviewInvNext
<1> QED  BY <1>1, <1>2, <1>3 DEF ServicesInv

(* The invariants of an intake, of a trusted parse, of source assets, of     *)
(* what pages may be used for and of a review hold side by side.             *)
THEOREM ServicesInvariant == ServicesSpec => []ServicesInv
BY ServicesStart, ServicesInvNext, PTL DEF ServicesSpec

(* Type correctness of the services, for every value of the constants.       *)
THEOREM ServicesTypesHold == ServicesSpec => []ServicesTypeOK
<1>1. ServicesInv => ServicesTypeOK
  BY TrustedTypes, AssetTypes DEF ServicesInv, ServicesTypeOK, IntakeInv, DInv, ReviewInv
<1> QED  BY <1>1, ServicesInvariant, PTL

(* A reconciled job names one authority and one run in its interval, and a   *)
(* job on an uncertain source is completed only after the user accepted the  *)
(* pages it was reconciled with (trusted_parse_intake_application.py).       *)
THEOREM ServicesKeepParsesBound == ServicesSpec => []ParsesAreBound
<1>1. ServicesInv => ParsesAreBound
  BY ParsesAreBoundBy DEF ServicesInv, ParsesAreBound
<1> QED  BY <1>1, ServicesInvariant, PTL

(* The promises of the five components at once: an intake leaves for the     *)
(* trunk associated, a parse is bound, source receipts stand in chains,      *)
(* citations are warranted and findings keep one line.                       *)
THEOREM ServicesKeepTheirPromises ==
    ServicesSpec => [](/\ TrunkIsAssociated /\ ParsesAreBound /\ SourcesStand
                       /\ CitationsAreWarranted /\ DispositionsStand)
<1>1. ServicesInv => /\ TrunkIsAssociated /\ ParsesAreBound /\ SourcesStand
                     /\ CitationsAreWarranted /\ DispositionsStand
  BY IntakePromise, ParsesAreBoundBy, SourcesStandBy, DispositionsStandBy
  DEF ServicesInv, ParsesAreBound, DInv
<1> QED  BY <1>1, ServicesInvariant, PTL

(* What went its way to the end is nothing a check reports: an intake that   *)
(* left, a trusted parse that was completed without a detour, and sources    *)
(* that nobody disturbed, whatever calls overlapped and died on the way.     *)
THEOREM FinishedWorkStaysClean == ServicesSpec => []FinishedWorkIsClean
<1>1. ServicesInv => FinishedWorkIsClean
  BY IntakePromise, StraightPromise, UndisturbedIsClean DEF ServicesInv, FinishedWorkIsClean
<1> QED  BY <1>1, ServicesInvariant, PTL
===============================================================================
