SPECIFICATION RecordsSpec
CONSTANTS
    Nothing = Nothing
    MaxFaults = 1
    TornWrites = TRUE
    Writer = {w1, w2}
    Evidence = {i1}
    Queue = {q1}
    MaxClock = 5
INVARIANT DriftShowsAsStale
CHECK_DEADLOCK FALSE
