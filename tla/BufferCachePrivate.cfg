SPECIFICATION Spec
CONSTANTS
  Threads = {t1, t2}
  Flushers = {t1, t2}
  Bcs = {b1, b2}
  Keys = {k1, k2, k3}
  SharedKeys = {}
  Vals = {v0}
  Zero = v0
  QDepth = 2
  MaxHeld = 1
  Nobody = Nobody
  NoKey = NoKey
  NoBc = NoBc
  Freed = Freed
SYMMETRY BcSymmetry
INVARIANTS
  KeyUnique
  HolderExclusive
  CleanListIsClean
  RefsHold
PROPERTIES
  HeldKeepsKey
  FlushLeavesNoDirty
CHECK_DEADLOCK FALSE
