\* String points: one table of two rows, linking and unlinking may fail.
SPECIFICATION Spec
SYMMETRY Symmetry
CONSTANTS
  w1 = w1
  w2 = w2
  Writers = {w1, w2}
  Attrs = {1, 2}
  Ops = {"add", "set"}
  Str = TRUE
  Tables = 1
  Rows = 2
  SyncMax = 2
  TryMax = 1
  SpecialCount = 2
  MaxRead = 1
  Busy = TRUE
  MaxCalls = 2
CONSTRAINT UntilLoss
INVARIANTS TypeOK Accounted
