\* Two timers on four levels of two lists each.
SPECIFICATION Spec
SYMMETRY Symmetry
CONSTANTS
  Keys = {k1, k2}
  RootSize = 2
  WheelSize = 2
  Levels = 4
  Timeouts = {1, 3, 5}
  BatchMax = 2
  NoKey = none
  MaxTime = 10
INVARIANTS TypeOK OnTime
