\* Two writers, two points, two tables of one row.
SPECIFICATION FairSpec
CONSTANTS
  w1 = w1
  w2 = w2
  Writers = {w1, w2}
  Attrs = {1, 2}
  Ops = {"add", "set"}
  Str = FALSE
  Tables = 2
  Rows = 1
  SyncMax = 2
  TryMax = 1
  SpecialCount = 1
  MaxRead = 1
  Busy = FALSE
  MaxCalls = 2
CONSTRAINT UntilLoss
INVARIANT Accounted
PROPERTY AllSent
