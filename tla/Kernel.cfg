SPECIFICATION FairSpec
CONSTANTS
    EventId = {1, 2}
    Target = {registry}
    Guarded = {registry}
    Edit = {edit}
    Absent = Absent
    MaxFaults = 2
    TornWrites = TRUE
INVARIANTS EventsAreTruthful NoSilentReplacement SuccessesChain
PROPERTIES SettledIsFinal ImplementsAtomicPromotion RecoveryCompletesIfClean
