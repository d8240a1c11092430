SPECIFICATION Spec
CONSTANTS
  BgNum = 2
  BlocksPerBg = 10
  DtableStart = 1
  InodesPerBg = 2
  Files <- TwoFiles
  Fds = {0, 1}
  DirectBlocks = 2
  Ptrs = 2
  Unit = 2
  MaxSize <- Sizes
  Counts = {2, 3}
  Back = 1
  Calls = 4
  Starts = {0, 3}
  Lengths = {12, 18}
  Habits = {}
INVARIANTS
  AssertionsHold
  SpaceAccounted
  MapExact
PROPERTIES
  ImplementsBlockMap
CHECK_DEADLOCK FALSE
