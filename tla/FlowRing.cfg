SPECIFICATION FlowFairSpec
CONSTANTS
  t1 = t1
  t2 = t2
  NumPeers = 2
  NumIds = 2
  Sender = {t1, t2}
  MaxSetup = 3
  QUEUE = 1
  RING = 1
  BOUND = 1
  CTRL = 2
  MaxPackets = 2
  MaxGone = 1
INVARIANTS
  IdOwnership
  RingHeld
PROPERTIES
  QueueDrains
CHECK_DEADLOCK FALSE
