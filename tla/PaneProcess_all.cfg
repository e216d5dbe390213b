SPECIFICATION HistorySpec
CONSTANTS
  p1 = p1
  p2 = p2
  p3 = p3
  p4 = p4
  p5 = p5
  r1 = r1
  r2 = r2
  d1 = d1
  NoProc = NoProc
  Procs = {p1, p2, p3, p4, p5}
  Restarts = {r1}
  Destroys = {d1}
  MaxBackoff = 3
  MayCrash = TRUE
  MayFail = TRUE
  MayHang = TRUE
INVARIANTS TypeOK CrashIsHandled ApartRunningIsManaged ApartBridgeFollows ApartDestroyedIsDown
PROPERTIES Recovers OperationsReturn
CHECK_DEADLOCK FALSE
