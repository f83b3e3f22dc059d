SPECIFICATION ServicesSpec
CONSTANTS
    Nothing = Nothing
    MaxFaults = 1
    TornWrites = TRUE
    Caller = {c1, c2}
    MaxCommits = 3
    Approver = {a1, a2}
    MaxRecords = 2
    MaxStates = 8
    Keeper = {k1, k2}
    MaxReceipts = 3
    MaxTouches = 2
    Judge = {j1, j2}
    Semantic = {1, 2}
    MaxCalls = 2
    MaxProfiles = 3
    MaxShifts = 1
    MaxReports = 1
    MaxDispositions = 3
INVARIANTS
    ServicesTypeOK
    TrunkIsAssociated
    ParsesAreBound
    SourcesStand
    CitationsAreWarranted
    DispositionsStand
    
PROPERTIES
    IntakesSettle
CHECK_DEADLOCK FALSE
