------------------------- MODULE IdentityCorrection -------------------------
(***************************************************************************)
(* Registry identity corrections (identity_corrections.py and               *)
(* services/registry_identity.py) beside the Pipeline Jobs that authorize   *)
(* them: a user merges duplicates, aliases a paper, splits a mistaken merge *)
(* or archives and tombstones a paper, each by one more correction in an    *)
(* append-only store, from which the identity of every paper is projected.  *)
(*                                                                          *)
(* Authority is read from the job store before, and apart from, everything  *)
(* the correction is computed from; the two stores refer to each other: a   *)
(* correction to its job, a job revision to the corrections it put out.     *)
(* Papers are there from the start (the Registry only grows), and so is one *)
(* job that grants the operation.                                           *)
(***************************************************************************)
EXTENDS PipelineJob

CONSTANTS
    CorrectionStore,  \* the identity corrections
    Paper,            \* papers of the Registry
    NoPaper,          \* no retained paper
    Asked,            \* operations that callers ask for
    FirstJob          \* the job that is there from the start

ASSUME CorrectionStoreAssumption == CorrectionStore \in Store \ {JobStore}
ASSUME PaperAssumption == IsFiniteSet(Paper)
ASSUME NoPaperAssumption == NoPaper \notin Paper
ASSUME FirstJobAssumption == FirstJob \in Id

VARIABLES
    correction, \* the correction behind an id
    grant       \* the job whose authority each client has checked

idvars == <<jobvars, correction, grant>>

Operation ==
    {"confirmed_duplicate_merge", "paper_alias", "mistaken_merge_split",
     "library_archive", "library_tombstone"}

ASSUME AskedAssumption == Asked \subseteq Operation

Correction ==
    [previous : Id \cup {NoState}, operation : Operation, subjects : SUBSET Paper,
     retained : Paper \cup {NoPaper}, supersedes : Id \cup {NoState}, job : Id]

IdentityTypeOK ==
    /\ JobTypeOK
    /\ correction \in [Id -> Correction \cup {[job |-> NoState]}]
    /\ grant \in [Client -> Id \cup {NoState}]

(* One job was created and its event recorded.                              *)
IdentityInit ==
    /\ store = [s \in Store |-> IF s = JobStore THEN <<FirstJob>> ELSE <<>>]
    /\ taken = {FirstJob} /\ recorded = {FirstJob} /\ named = {FirstJob}
    /\ acked = {FirstJob} /\ installed = {FirstJob} /\ answered = {FirstJob}
    /\ \E n \in Node, k \in Key :
         body = [i \in Id |->
           IF i = FirstJob THEN Root(i, n, k) ELSE [job |-> NoState]]
    /\ open = {} /\ parked = {} /\ holder = Nobody /\ faults = 0
    /\ pc = [c \in Client |-> "idle"]
    /\ work = [c \in Client |-> NoWork]
    /\ correction = [i \in Id |-> [job |-> NoState]]
    /\ grant = [c \in Client |-> NoState]

-----------------------------------------------------------------------------
(* What a single correction must look like, given the ones before it.       *)
WellFormed(x, earlier) ==
    CASE x.operation = "confirmed_duplicate_merge" ->
           Cardinality(x.subjects) >= 2 /\ x.retained \in x.subjects /\ x.supersedes = NoState
      [] x.operation = "paper_alias" ->
           /\ Cardinality(x.subjects) = 1
           /\ x.retained \in Paper \ x.subjects
           /\ x.supersedes = NoState
      [] x.operation = "mistaken_merge_split" ->
           /\ x.retained = NoPaper
           /\ x.supersedes \in earlier
           /\ correction[x.supersedes].operation = "confirmed_duplicate_merge"
           /\ x.subjects # {}
           /\ x.subjects \subseteq
                correction[x.supersedes].subjects \ {correction[x.supersedes].retained}
      [] OTHER ->
           Cardinality(x.subjects) = 1 /\ x.retained = NoPaper /\ x.supersedes = NoState

Merging == {"confirmed_duplicate_merge", "paper_alias"}

RedirectTwice(canonical, x) ==  \* Mutation: a merge follows the old pointers of its target.
    [p \in Paper |->
        IF x.operation \in Merging /\ p \in x.subjects
          THEN IF x.operation = "paper_alias" THEN x.retained ELSE canonical[x.retained]
        ELSE IF x.operation = "mistaken_merge_split" /\ p \in x.subjects THEN p
        ELSE canonical[p]]

(* _project: the paper each paper points at after one more correction.      *)
Redirect(canonical, x) ==
    [p \in Paper |->
        IF x.operation \in Merging /\ p \in x.subjects THEN x.retained
        ELSE IF x.operation = "mistaken_merge_split" /\ p \in x.subjects THEN p
        ELSE canonical[p]]

CanonicalAfter(decisions) ==
    LET after[n \in 0 .. Len(decisions)] ==
          IF n = 0 THEN [p \in Paper |-> p] ELSE Redirect(after[n - 1], decisions[n])
    IN  after[Len(decisions)]
Canonical(content) == CanonicalAfter([n \in 1 .. Len(content) |-> correction[content[n]]])

(* _require_acyclic and _resolve: follow the pointers as often as there are *)
(* papers.                                                                  *)
Follow(canonical, p) ==
    LET at[n \in 0 .. Cardinality(Paper)] == IF n = 0 THEN p ELSE canonical[at[n - 1]]
    IN  at[Cardinality(Paper)]

Acyclic(canonical) ==
    \A p \in Paper : canonical[Follow(canonical, p)] = Follow(canonical, p)

(* identity_correction_diagnostics reports nothing.                         *)
CorrectionsValid(content) ==
    /\ \A n \in 1 .. Len(content) :
         LET x == correction[content[n]]
         IN  /\ x.previous = IF n = 1 THEN NoState ELSE content[n - 1]
             /\ WellFormed(x, {content[m] : m \in 1 .. n - 1})
    /\ \A n \in 1 .. Len(content) : Acyclic(Canonical(SubSeq(content, 1, n)))

(* validate_bundle, with file content for store s: what the records of the  *)
(* workspace refer to exists, and each store is valid in itself.            *)
FileOf(s, t, content) == IF t = s THEN content ELSE store[t]

ReferencesHold(jobs, corrections) ==
    /\ \A i \in Ids(jobs) : body[i].outputs \subseteq Ids(jobs) \cup Ids(corrections)
    /\ \A i \in Ids(corrections) : correction[i].job \in Jobs(jobs)

StoresValid(s, content) ==  \* Mutation: each store is checked by itself only.
    /\ ChainValid(FileOf(s, JobStore, content))
    /\ CorrectionsValid(FileOf(s, CorrectionStore, content))

WorkspaceValid(s, content) ==
    LET jobs == FileOf(s, JobStore, content)
        corrections == FileOf(s, CorrectionStore, content)
    IN  ChainValid(jobs) /\ CorrectionsValid(corrections) /\ ReferencesHold(jobs, corrections)

(* validate_workspace_entries of the workspace as it is.                    *)
Consistent ==
    /\ NamesResolve(CorrectionStore, store[CorrectionStore])
    /\ WorkspaceValid(CorrectionStore, store[CorrectionStore])

-----------------------------------------------------------------------------
(* require_job_authority: the job is current and not terminal.              *)
Authorize(c, j) ==
    /\ pc[c] = "idle"
    /\ grant[c] = NoState
    /\ j \in Jobs(store[JobStore])
    /\ body[Current(store[JobStore], j)].status \notin Terminal
    /\ grant' = [grant EXCEPT ![c] = j]
    /\ UNCHANGED <<jobvars, correction>>

Granted(c) == grant[c] # NoState

HeadOf(content) == IF content = <<>> THEN NoState ELSE content[Len(content)]

(* record: the workspace must be valid, the caller's expected head current, *)
(* and the correction acceptable after the ones before it.                  *)
Correct(c, i, operation, subjects, retained, supersedes) ==
    LET content == store[CorrectionStore]
        x == [previous |-> HeadOf(content), operation |-> operation, subjects |-> subjects,
              retained |-> retained, supersedes |-> supersedes, job |-> grant[c]]
        inputs == {supersedes, HeadOf(content)} \ {NoState}
    IN  /\ pc[c] = "idle"
        /\ Granted(c)
        /\ WellFormed(x, Ids(content))
        /\ Acyclic(Redirect(Canonical(content), x))
        /\ Consistent
        /\ Propose(c, CorrectionStore, i, inputs)
        /\ correction' = [correction EXCEPT ![i] = x]
        /\ grant' = [grant EXCEPT ![c] = NoState]
        /\ UNCHANGED <<body, answered>>

(* The head already is this request's correction: it is returned.           *)
ReplayCorrection(c) ==
    /\ Granted(c)
    /\ Consistent
    /\ store[CorrectionStore] # <<>>
    /\ correction[HeadOf(store[CorrectionStore])].job = grant[c]
    /\ Replay(c, HeadOf(store[CorrectionStore]))
    /\ grant' = [grant EXCEPT ![c] = NoState]
    /\ UNCHANGED correction

(* The caller is refused: a stale head, an alias cycle, a broken workspace. *)
Decline(c) ==
    /\ Granted(c)
    /\ grant' = [grant EXCEPT ![c] = NoState]
    /\ UNCHANGED <<jobvars, correction>>

(* Job callers run beside them, and a job's outputs may name corrections;   *)
(* what jobs do among themselves is PipelineJob's subject.                  *)
JobStep(c) ==
    /\ pc[c] = "idle"
    /\ grant[c] = NoState
    /\ \E i, e \in Id, status \in Requested, n \in Node, outs \in SUBSET Output :
         Transition(c, i, e, status, n, outs, 0)
    /\ UNCHANGED <<correction, grant>>

(* A promotion of either store is validated against the whole workspace.    *)
PromoteValidated(c) ==
    /\ Proceed(c, WorkspaceValid(work[c].store, Proposal(c)))
    /\ answered' = answered \cup (acked' \ acked)
    /\ UNCHANGED <<body, correction, grant>>

IdentityNext ==
    \/ \E c \in Client :
         \/ \E j \in Id : Authorize(c, j)
         \/ \E i \in Id, operation \in Asked, subjects \in SUBSET Paper \ {{}},
               retained \in Paper \cup {NoPaper}, supersedes \in Id \cup {NoState} :
              Correct(c, i, operation, subjects, retained, supersedes)
         \/ ReplayCorrection(c) \/ Decline(c) \/ JobStep(c) \/ PromoteValidated(c)
    \/ Disturb /\ UNCHANGED <<body, answered, correction, grant>>

IdentitySpec == IdentityInit /\ [][IdentityNext]_idvars

-----------------------------------------------------------------------------
(***************************************************************************)
(* Properties                                                               *)
(***************************************************************************)

(* Whatever was lost and whoever was stale, no record in a store refers to  *)
(* one that is not there.                                                   *)
ReferencesAlwaysHold == ReferencesHold(store[JobStore], store[CorrectionStore])

(* A paper's identity is decided by the last correction that merged,        *)
(* aliased or split it, whatever was corrected around it; following the     *)
(* pointers always ends at a paper that stands for itself.                  *)
Touches(i, p) ==
    p \in correction[i].subjects /\ correction[i].operation \in Merging \cup {"mistaken_merge_split"}

PointsAt(content, p) ==
    LET touching == {n \in DOMAIN content : Touches(content[n], p)}
        last == CHOOSE n \in touching : \A m \in touching : m <= n
    IN  IF touching = {} \/ correction[content[last]].retained = NoPaper THEN p
        ELSE correction[content[last]].retained

IdentityIsLastDecision ==
    LET canonical == Canonical(store[CorrectionStore])
    IN  \A p \in Paper :
          /\ canonical[p] = PointsAt(store[CorrectionStore], p)
          /\ canonical[Follow(canonical, p)] = Follow(canonical, p)
=============================================================================
