SPECIFICATION Spec
CONSTANTS
  KeepRecent = 1
  Sizes = {1, 2}
  MaxEntries = 6
  AnyTime = FALSE
INVARIANTS NothingIsLost
CHECK_DEADLOCK FALSE
