SPECIFICATION HistorySpec
CONSTANTS
  p1 = p1
  p2 = p2
  p3 = p3
  p4 = p4
  p5 = p5
  r1 = r1
  r2 = r2
  d1 = d1
  NoProc = NoProc
  Procs = {p1, p2, p3, p4}
  Restarts = {r1}
  Destroys = {}
  MaxBackoff = 3
  MayCrash = FALSE
  MayFail = FALSE
  MayHang = TRUE
INVARIANTS OneAgent
CHECK_DEADLOCK FALSE
