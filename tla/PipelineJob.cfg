SPECIFICATION JobSpec
CONSTANTS
    Client = {c1, c2}
    Store = {jobs}
    Id = {1, 2, 3}
    Nobody = Nobody
    MaxFaults = 1
    JobStore = jobs
    Node = {n1, n2}
    Key = {k1}
    Output = {o1}
    Requested = {"running", "completed"}
    NoState = NoState
INVARIANTS AckedDurable LossIsAccounted EventsTellTheJobs
PROPERTY ImplementsJobLedger
CHECK_DEADLOCK FALSE
