\* Two writers add; more points than the tables and the special list have places.
SPECIFICATION Spec
SYMMETRY Symmetry
CONSTANTS
  w1 = w1
  w2 = w2
  Writers = {w1, w2}
  Attrs = {1, 2}
  Ops = {"add"}
  Str = FALSE
  Tables = 1
  Rows = 1
  SyncMax = 2
  TryMax = 1
  SpecialCount = 1
  MaxRead = 1
  Busy = FALSE
  MaxCalls = 2
INVARIANTS AddsAccumulate SpecCountTrue
