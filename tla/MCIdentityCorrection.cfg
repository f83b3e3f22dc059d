SPECIFICATION IdentitySpec
CONSTANTS
    Client = {c1, c2}
    Store = {jobs, corrections}
    Id = {1, 2, 3, 4}
    Nobody = Nobody
    MaxFaults = 1
    JobStore = jobs
    Node = {n1}
    Key = {k1}
    Output = {2}
    Requested = {"cancelled"}
    NoState = NoState
    CorrectionStore = corrections
    Paper = {p1, p2}
    NoPaper = NoPaper
    FirstJob = 1
    Asked = {"confirmed_duplicate_merge", "paper_alias", "mistaken_merge_split"}
INVARIANTS ReferencesAlwaysHold IdentityIsLastDecision
SYMMETRY PaperSymmetry
CHECK_DEADLOCK FALSE
