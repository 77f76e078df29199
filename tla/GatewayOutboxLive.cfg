SPECIFICATION FairSpec
CONSTANTS
    NumEvents = 1
    MaxMessages = 1
    MaxAttempts = 2
    MaxManual = 0
    MaxExpiries = 1
    MaxBoot = 2
    Workers = {w1, w2}
    Zombie = z
PROPERTIES
    TurnComes
CHECK_DEADLOCK FALSE
