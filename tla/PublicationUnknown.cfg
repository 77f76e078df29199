SPECIFICATION FairSpec
CONSTANTS
    t1 = t1
    t2 = t2
    Tasks = {t1}
    Baselines <- OneBaseline
    WithPR = {}
    Cancellable = {}
    MaxAttempts = 3
    MaxFaults = 2
    MaxForeign = 0
    MaxShared = 0
    MayBeUnchanged = {}
PROPERTIES
    UnknownPushReconciled
CHECK_DEADLOCK FALSE
