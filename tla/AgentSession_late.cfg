SPECIFICATION HistorySpec
CONSTANTS
  MaxMessages = 3
  MaxSessions = 2
  MaxSummaries = 2
  Overlaps = {"late"}
  MaxKinds = 1
INVARIANTS RestIsSaved
CHECK_DEADLOCK FALSE
