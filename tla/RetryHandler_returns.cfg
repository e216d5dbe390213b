SPECIFICATION HistorySpec
CONSTANTS
  Callers = {p1}
  Outcomes = {"good", "transient"}
  MaxRetries = 2
  AutoCompact = FALSE
  Patient = TRUE
  MultiTurn = TRUE
  MayAbort = FALSE
  MaxEvents = 4
PROPERTIES RetryCompletesFirst
