SPECIFICATION FairSpec
CONSTANTS
  p1 = p1
  p2 = p2
  p3 = p3
  other = other
  Pkt = {p1, p2, p3}
  NoPkt = NoPkt
  Entry = {other}
  Other = other
  MaxItems = 3
  PSQ_LEN = 3
  TRANSIT_MAX = 2
  ONBUS_MAX = 3
  AFQ = FALSE
  REORDERSUPP = FALSE
  USB = TRUE
  Teardown = {}
INVARIANTS
  NoDanglingPacket
  NoLostPacket
  SlotMatchesPacket
  CountersExact
  SuppressionPending
PROPERTIES
  NoResubmit
  SuppressionEnds
