SPECIFICATION PmFairSpec
CONSTANTS
  x1 = x1
  x2 = x2
  f1 = f1
  Xmit = {x1, x2}
  Fwd = {f1}
INVARIANTS
  WakeLockExact
  NobodyInside
  BusStateMatches
PROPERTIES CallsReturn
