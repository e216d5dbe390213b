SPECIFICATION HistorySpec
CONSTANTS
  p1 = p1
  p2 = p2
  k1 = k1
  k2 = k2
  Nobody = Nobody
  OAuth = OAuth
  NoKind = NoKind
  Processes = {p1, p2}
  Keys = {k1, k2}
  Hash <- MCHash
  Limited = {p2}
  MaySteal = TRUE
  MayRestart = TRUE
  MaxTokens = 2
  Slips = {"mistaken"}
  MaxKinds = 1
PROPERTIES FailedIsBackedOff
CHECK_DEADLOCK FALSE
