SPECIFICATION QuietSpec
CONSTANTS
  Threads = {t1, t2}
  Ictxs = {c1, c2, c3, c4}
  Inos = {i1, i2, i3}
  Root = i1
  MaxHeld = 2
  Nobody = Nobody
  NoIno = NoIno
  Null = Null
  Poison = Poison
  First = First
SYMMETRY IctxSymmetry
INVARIANTS
  OneContext
  ContextsConserved
PROPERTIES
  HeldKeepsIno
CHECK_DEADLOCK FALSE
