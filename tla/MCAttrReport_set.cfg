\* Two writers set the same point.
SPECIFICATION Spec
SYMMETRY Symmetry
CONSTANTS
  w1 = w1
  w2 = w2
  Writers = {w1, w2}
  Attrs = {1}
  Ops = {"set"}
  Str = FALSE
  Tables = 2
  Rows = 1
  SyncMax = 2
  TryMax = 1
  SpecialCount = 2
  MaxRead = 2
  Busy = FALSE
  MaxCalls = 2
INVARIANT SetReportsValue
