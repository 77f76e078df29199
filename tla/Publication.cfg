SPECIFICATION FairSpec
CONSTANTS
    t1 = t1
    t2 = t2
    Tasks = {t1, t2}
    Baselines <- MCBaselines
    WithPR = {t1}
    Cancellable = {t1}
    MaxAttempts = 2
    MaxFaults = 3
    MaxForeign = 1
    MaxShared = 1
    MayBeUnchanged = {t2}
INVARIANTS
    TypeOK
    CancelledNeverPushed
    DeliveredIsReal
    ClaimBarrier
PROPERTIES
    SettledStays
    FastForward
    DeliverySettles
CHECK_DEADLOCK FALSE
