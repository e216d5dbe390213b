SPECIFICATION Spec
CONSTANTS
  f1 = f1
  f2 = f2
  f3 = f3
  Files = {f1, f2}
  MaxEntries = 3
  MaxTears = 1
  MayFail = TRUE
PROPERTIES AppendedIsStored
CHECK_DEADLOCK FALSE
