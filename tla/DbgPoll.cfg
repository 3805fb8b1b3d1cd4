SPECIFICATION FairSpec
CONSTANTS
  w1 = w1
  w2 = w2
  Writer = {w1, w2}
  CAP = 2
  FLUSH = 2
  Threshold = {0, 2}
  BUF = 2
  ALLOC_FAILS = TRUE
  Ops = {"StartLogging", "ResetLogging", "Trigger", "Detach"}
INVARIANTS
  TypeOK
  NoPollAfterStop
PROPERTIES
  WorkerEnds
  UserReturns
CHECK_DEADLOCK FALSE
