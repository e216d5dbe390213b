SPECIFICATION HistorySpec
CONSTANTS
  Callers = {p1, p2}
  Outcomes = {"good", "transient"}
  MaxRetries = 2
  AutoCompact = FALSE
  Patient = FALSE
  MultiTurn = FALSE
  MayAbort = FALSE
  MaxEvents = 4
PROPERTIES OnlyErrorsRemoved
