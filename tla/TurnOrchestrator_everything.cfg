SPECIFICATION FairSpec
CONSTANTS
  t1 = t1
  t2 = t2
  t3 = t3
  NoTurn = NoTurn
  Turns = {t1, t2, t3}
  MayAbort = TRUE
  AbortQueued = TRUE
  MayTimeOut = TRUE
  MayExit = TRUE
  MayRetry = TRUE
  MayRefuse = FALSE
  MaxReplies = 1
  MaxAsks = 1
INVARIANTS NoTurnIsLost
PROPERTIES QueuedRuns
CHECK_DEADLOCK FALSE
