SPECIFICATION HistorySpec
CONSTANTS
  MaxMessages = 3
  MaxSessions = 2
  MaxSummaries = 2
  Overlaps = {"moved", "crossed", "stale", "failed", "wordless", "alike"}
  MaxKinds = 1
INVARIANTS CalmRestIsSaved CalmFilesAreRight CalmDisplayIsQueue
CHECK_DEADLOCK FALSE
