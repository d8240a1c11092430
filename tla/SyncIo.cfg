SPECIFICATION FairSpec
CONSTANTS
  Threads = {t1, t2}
  Tasks = {k1, k2}
  Reqs = {r1, r2, r3}
  MaxBatch = 2
  MaxRequest = 4
  NoReq = NoReq
  NoTask = NoTask
INVARIANTS
  RequestsAccounted
  PoolForgotten
PROPERTIES
  ImplementsIoService
  CallsReturn
CHECK_DEADLOCK FALSE
