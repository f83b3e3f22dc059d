SPECIFICATION Spec
CONSTANTS
    Client = {c1, c2}
    Key = {k1}
    Input = {a, b, poor}
    Adequate = {a, b}
    None = None
    MaxTasks = 2
    MaxRevision = 6
    MaxFaults = 1
INVARIANT DriftIsNotApproved
CHECK_DEADLOCK FALSE
