SPECIFICATION Spec
CONSTANTS
  KeepRecent = 2
  Sizes = {1, 2}
  MaxEntries = 6
  AnyTime = TRUE
INVARIANTS ResultsFollowCalls
CHECK_DEADLOCK FALSE
