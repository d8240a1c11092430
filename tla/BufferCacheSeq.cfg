SPECIFICATION FairSpec
CONSTANTS
  Threads = {t1}
  Flushers = {t1}
  Bcs = {b1, b2}
  Keys = {k1, k2, k3}
  SharedKeys = {k3}
  Vals = {v0, v1}
  Zero = v0
  QDepth = 1
  MaxHeld = 2
  Nobody = Nobody
  NoKey = NoKey
  NoBc = NoBc
  Freed = Freed
INVARIANTS
  Coherent
  FlushAssert
PROPERTIES
  ImplementsBlockStore
  FlushTerminates
CHECK_DEADLOCK FALSE
