SPECIFICATION Spec
CONSTANTS
  FANOUT = 3
  MAX_STACK = 3
  Names <- MCNames
  Hash <- MCHash
  Scopes <- MCScopes
  EntriesOf <- MCEntriesOf
  CollisionBits = 2
  OffsetRange = 16
INVARIANTS
  IndexFinds
  WellFormed
  NodesAccounted
CHECK_DEADLOCK FALSE
