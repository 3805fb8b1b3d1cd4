SPECIFICATION MCSpec
CONSTANTS
  f1 = f1
  f2 = f2
  p1 = p1
  p2 = p2
  b1 = b1
  b2 = b2
  b3 = b3
  b4 = b4
  NoId = NoId
  Flow = {f1, f2}
  TxPktid = {p1, p2}
  TXITEMS = 2
  TXP_THRESHOLD = 2
  TX_POST_BOUND = 1
  MIN_AVAIL = 1
  DEPLETED_MAX = 0
  TXQ_LEN = 2
  MAP_FAILS = TRUE
  RxPktid = {b1, b2, b3, b4}
  RXITEMS = 6
  MAX_RXBUFPOST = 5
  RX_BUF_BURST = 2
  RX_THRESHOLD = 3
  p3 = p3
  f3 = f3
  NoSkb = NoSkb
  NoStream = NoStream
  Skb = {p1, p2, p3}
  Stream = {f1, f2, f3}
  INFO_MAX = 2
  RATIO = 3
  SEQ = 8
  FIRST = 6
  ACKQ_LEN = 2
  ACK_GLOM = 2
  MaxAcks = 3
INVARIANTS
  PktidOwned
  DescriptorsCurrent
  RxProvisioned
  NewestAckKept
SYMMETRY Symm
CHECK_DEADLOCK FALSE
