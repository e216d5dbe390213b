SPECIFICATION Spec
CONSTANTS
  KeepRecent = 2
  Sizes = {1}
  MaxEntries = 7
  AnyTime = FALSE
INVARIANTS TypeOK RecentIsKept ResultsFollowCalls
CHECK_DEADLOCK FALSE
