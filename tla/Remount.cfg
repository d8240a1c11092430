SPECIFICATION Spec
CONSTANTS
    p1 = p1
    p2 = p2
    Procs <- MCProcs
    Preallocate <- MCPreallocate
    Habits <- Restarts
    NrContainers = 4
    Channels = 5
    TotalBuffers = 3
    PreSize = 2
    InitBuffers = 1
    MaxBuffers = 2
    PoolSize = 10
    StateAssert = TRUE
    Mounts = 0
    Asks = 0
    Boots = 2
CHECK_DEADLOCK FALSE
INVARIANT
    AssertionsHold
