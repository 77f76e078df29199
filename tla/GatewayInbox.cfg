SPECIFICATION FairSpec
CONSTANTS
    NumEvents = 2
    NumLeaders = 2
    MayCollide = {2}
    PendingLimits = {1, 2}
    MaxUid = 2
    MaxFaults = 1
INVARIANTS
    InOrder
    LockAgrees
    RunsLinked
PROPERTIES
    SettledOnce
    EventSettles
CHECK_DEADLOCK FALSE
