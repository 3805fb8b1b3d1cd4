SPECIFICATION Spec
CONSTANTS
  p1 = p1
  p2 = p2
  other = other
  Pkt = {p1, p2}
  NoPkt = NoPkt
  Entry = {other}
  Other = other
  MaxItems = 4
  PSQ_LEN = 3
  TRANSIT_MAX = 3
  ONBUS_MAX = 3
  AFQ = TRUE
  REORDERSUPP = FALSE
  USB = FALSE
  Teardown = {"CleanupTxq"}
SYMMETRY PktSymmetry
INVARIANTS
  OnbusCounted
CHECK_DEADLOCK FALSE
