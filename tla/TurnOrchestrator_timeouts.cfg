SPECIFICATION Spec
CONSTANTS
  t1 = t1
  t2 = t2
  t3 = t3
  NoTurn = NoTurn
  Turns = {t1, t2, t3}
  MayAbort = FALSE
  AbortQueued = FALSE
  MayTimeOut = TRUE
  MayExit = FALSE
  MayRetry = FALSE
  MayRefuse = FALSE
  MaxReplies = 2
  MaxAsks = 1
INVARIANTS OneGenerating
CHECK_DEADLOCK FALSE
