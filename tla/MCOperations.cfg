SPECIFICATION OperationsSpec
CONSTANTS
    Nothing = Nothing
    MaxFaults = 2
    TornWrites = TRUE
    JournalCount = 2
    Archive = {a1, a2}
    Backup = {k1}
    Restore = {r1, r2}
    TargetRoot = {d1}
    MaxWrites = 1
    ImportCount = 2
    Bundle = {b1}
    Export = {e1}
    ExportTarget = {t1, t2}
    MaxLocal = 1
    Proposal = {q1, q2}
    Config = {c1, c2}
    Initializer = {p1, p2}
INVARIANTS
    OperationsTypeOK
    NoJournalLost
    RestoresKeepApart
    ImportedOnce
    OpenedStaysOpened
PROPERTIES
    
    InterruptedOperationsSettle
CHECK_DEADLOCK FALSE
