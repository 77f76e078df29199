SPECIFICATION Spec
CONSTANTS
    NumEvents = 2
    MaxMessages = 1
    MaxAttempts = 1
    MaxManual = 1
    MaxExpiries = 0
    MaxBoot = 2
    Workers = {w1}
    Zombie = z
SYMMETRY WorkerSymmetry
INVARIANTS
    DeliveredWasPosted
    InSessionOrder
PROPERTIES
    LivePostsInOrder
CHECK_DEADLOCK FALSE
