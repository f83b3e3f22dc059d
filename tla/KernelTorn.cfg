SPECIFICATION FairSpec
CONSTANTS
    EventId = {1, 2}
    Target = {registry}
    Guarded = {}
    Edit = {}
    Absent = Absent
    MaxFaults = 1
    TornWrites = TRUE
PROPERTY RecoveryCompletes
