SPECIFICATION Spec
CONSTANTS
  f1 = f1
  f2 = f2
  f3 = f3
  Files = {f1, f2}
  MaxEntries = 3
  MaxTears = 0
  MayFail = FALSE
INVARIANTS LeafSurvives
CHECK_DEADLOCK FALSE
