SPECIFICATION HistorySpec
CONSTANTS
  Callers = {p1}
  Outcomes = {"good", "limited"}
  MaxRetries = 2
  AutoCompact = FALSE
  Patient = TRUE
  MultiTurn = FALSE
  MayAbort = FALSE
  MaxEvents = 4
INVARIANTS NoWaitForNothing
