SPECIFICATION Spec
CONSTANTS
  Reqs = {a1, a2}
  NoReq = NoReq
  MaxRequest = 5
  Jobs = 15
  Depth = 2
  IoBlocks = 5
  Pieces = {2, 5}
  MaxEvents = 2
  MaxPending = 1
SYMMETRY AreqSymmetry
INVARIANTS
  JobsCounted
  ReapedComplete
  NothingLeftBehind
CHECK_DEADLOCK FALSE
