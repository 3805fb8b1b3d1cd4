SPECIFICATION MCSpec
CONSTANTS
  SIZE = 11
  Lens = {2}
  MaxPush = 14
  COUNTER = 16
  PULL_INACTIVE = TRUE
  s1 = s1
  Stack = {s1}
  REC = 2
  FIFO_SIZE = 4
  MaxEvents = 3
  t1 = t1
  TxThread = {t1}
  SEQ_WRAP = 8
  CREDIT = 1
  WINDOW = 3
  FCHI = 2
  FCLOW = 1
  GLOM = 2
  TXBOUND = 2
  RXBOUND = 2
  TXINRX = 0
  MaxSends = 2
  MaxCtl = 1
  MaxRx = 1
INVARIANTS
  PendingExact
  NothingLost
  InterfacesSettle
  RunOwed
  CtlFrameLive
  WindowKept
PROPERTIES
  IsFifo
  EventsHandled
  TxDrains
  StackRestarts
CHECK_DEADLOCK FALSE
