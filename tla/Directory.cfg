SPECIFICATION Spec
CONSTANTS
  n1 = n1
  n2 = n2
  n3 = n3
  SpareInodes = {i1, i2, i3}
  Names <- MCNames
  Calls <- MCCalls
  Inodes <- MCInodes
  NoIno = NoIno
  Root = Root
  RootIndex = RootIndex
  EntryNum = 4
SYMMETRY Interchangeable
INVARIANTS
  AssertionsHold
  EntriesSound
  InodesAccounted
PROPERTIES
  ScanExact
  ImplementsNamespace
CHECK_DEADLOCK FALSE
