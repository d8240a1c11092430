SPECIFICATION FairSpec
CONSTANTS
  Threads = {t1, t2}
  Ictxs = {c1, c2, c3}
  Inos = {i1, i2}
  Root = i1
  MaxHeld = 2
  Nobody = Nobody
  NoIno = NoIno
  Null = Null
  Poison = Poison
  First = First
PROPERTIES
  ReleaseReturns
CHECK_DEADLOCK FALSE
