SPECIFICATION Spec
CONSTANTS
  SIZE = 7
  Lens = {1, 2, 3}
  MaxPush = 6
  COUNTER = 16
  PULL_INACTIVE = FALSE
PROPERTIES
  SkipsOnlyPadding
