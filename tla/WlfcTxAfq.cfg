SPECIFICATION Spec
CONSTANTS
  p1 = p1
  p2 = p2
  p3 = p3
  other = other
  sta = sta
  Pkt = {p1, p2, p3}
  NoPkt = NoPkt
  Entry = {other, sta}
  Other = other
  MaxItems = 4
  PSQ_LEN = 2
  TRANSIT_MAX = 3
  ONBUS_MAX = 3
  AFQ = TRUE
  REORDERSUPP = TRUE
  USB = FALSE
  Teardown = {}
SYMMETRY PktSymmetry
INVARIANTS
  QueuedOnce
  CountersExact
