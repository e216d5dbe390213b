SPECIFICATION HistorySpec
CONSTANTS
  Callers = {p1}
  Outcomes = {"good", "transient", "limited", "quota", "overflow", "silent"}
  MaxRetries = 2
  AutoCompact = TRUE
  Patient = TRUE
  MultiTurn = TRUE
  MayAbort = TRUE
  MaxEvents = 2
INVARIANTS TypeOK ApartOneRestart ApartRestartIsAccepted PlainRetryIsAwaited
PROPERTIES ApartOnlyErrorsRemoved PlainPromptReturns
