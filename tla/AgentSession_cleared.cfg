SPECIFICATION HistorySpec
CONSTANTS
  MaxMessages = 3
  MaxSessions = 2
  MaxSummaries = 2
  Overlaps = {}
  MaxKinds = 1
PROPERTIES ReturnedOnce
CHECK_DEADLOCK FALSE
