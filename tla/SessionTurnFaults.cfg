SPECIFICATION FairSpec
CONSTANTS
    t1 = t1
    t2 = t2
    Tasks = {t1, t2}
    Cancellable = {t1}
    MaySkip = {t2}
    None = None
    MaxGen = 2
    MaxFaults = 2
    MaxCrashes = 1
INVARIANTS
    PromptHoldsLease
    TranscriptInOrder
    ProjectedAfterRelease
    BaselinesAgree
    CleanupQuiescent
PROPERTIES
    ImplementsSerial
    TurnSettles
CHECK_DEADLOCK FALSE
