SPECIFICATION Spec
CONSTANTS
    p1 = p1
    p2 = p2
    Procs <- MCProcs
    Preallocate <- MCPreallocate
    Habits <- NoHabits
    NrContainers = 4
    Channels = 5
    TotalBuffers = 3
    PreSize = 2
    InitBuffers = 1
    MaxBuffers = 2
    PoolSize = 10
    StateAssert = FALSE
    Mounts = 3
    Asks = 2
    Boots = 2
INVARIANTS
  AssertionsHold
  Accounted
  LeasesSound
  OwnAnswers
  LogHoldsOwners
  CrashDetected
PROPERTIES
  MountEnds
CHECK_DEADLOCK FALSE
