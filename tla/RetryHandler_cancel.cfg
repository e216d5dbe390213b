SPECIFICATION HistorySpec
CONSTANTS
  Callers = {p1}
  Outcomes = {"good", "transient"}
  MaxRetries = 2
  AutoCompact = FALSE
  Patient = TRUE
  MultiTurn = FALSE
  MayAbort = TRUE
  MaxEvents = 4
PROPERTIES CancelledStaysCancelled
