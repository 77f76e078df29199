SPECIFICATION FairSpec
CONSTANTS
    w1 = w1
    w2 = w2
    NumTasks = 2
    Workers = {w1, w2}
    MaxEpoch = 2
    MaxBearers = 4
    MaxFaults = 1
    Cold = {"Ready", "Pending"}
INVARIANTS
    TypeOK
    OneWriter
    SettledWithoutBearer
PROPERTIES
    EpochsAdvance
    TaskSettles
CHECK_DEADLOCK FALSE
