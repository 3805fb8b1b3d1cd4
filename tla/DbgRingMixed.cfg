SPECIFICATION FairSpec
CONSTANTS
  SIZE = 8
  Lens = {1, 2, 3, 7, 8}
  MaxPush = 6
  COUNTER = 16
  PULL_INACTIVE = FALSE
INVARIANTS
  EntriesIntact
  AssertsHold
PROPERTIES
  ClaimEnds
