SPECIFICATION Spec
CONSTANTS
  p1 = p1
  p2 = p2
  p3 = p3
  other = other
  sta = sta
  Pkt = {p1, p2, p3}
  NoPkt = NoPkt
  Entry = {other, sta}
  Other = other
  MaxItems = 3
  PSQ_LEN = 2
  TRANSIT_MAX = 2
  ONBUS_MAX = 3
  AFQ = FALSE
  REORDERSUPP = FALSE
  USB = FALSE
  Teardown = {}
SYMMETRY PktSymmetry
INVARIANTS
  NoDanglingPacket
