SPECIFICATION FairSpec
CONSTANTS
    MaxEpoch = 3
    MaxBoot = 4
    MaxFaults = 0
    MaxVersion = 24
    Overlap = FALSE
PROPERTIES
    TaskSettles
CHECK_DEADLOCK FALSE
