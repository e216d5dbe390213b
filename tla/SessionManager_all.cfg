SPECIFICATION Spec
CONSTANTS
  f1 = f1
  f2 = f2
  f3 = f3
  Files = {f1, f2}
  MaxEntries = 3
  MaxTears = 1
  MayFail = TRUE
INVARIANTS TypeOK ReferencesHold ReloadRestores LabelsSurvive
SYMMETRY Symmetry
CHECK_DEADLOCK FALSE
