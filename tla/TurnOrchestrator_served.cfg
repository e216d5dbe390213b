SPECIFICATION HistorySpec
CONSTANTS
  NoTurn = NoTurn
  Turns = {t1, t2, t3}
  MayAbort = TRUE
  AbortQueued = FALSE
  MayTimeOut = TRUE
  MayExit = TRUE
  MayRetry = TRUE
  MayRefuse = TRUE
  MaxReplies = 2
  MaxAsks = 2
INVARIANTS CalmOneGenerating CalmPromptFindsAgentFree CalmNoTimeoutWhileDeciding
PROPERTIES CalmEndsWithItsOwnRun UnabortedGeneratingEnds
CHECK_DEADLOCK FALSE
