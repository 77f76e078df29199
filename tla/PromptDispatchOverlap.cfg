SPECIFICATION Spec
CONSTANTS
    MaxEpoch = 2
    MaxBoot = 3
    MaxFaults = 1
    MaxVersion = 14
    Overlap = TRUE
INVARIANTS
    AcceptedOnce
    NeverBackInQueue
    SuccessIsReal
    ProjectionAgrees
PROPERTIES
    TerminalStays
CHECK_DEADLOCK FALSE
