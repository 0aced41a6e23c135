\* Every call of RunTimerList handles one timer at most.
SPECIFICATION Spec
SYMMETRY Symmetry
CONSTANTS
  Keys = {k1, k2}
  RootSize = 2
  WheelSize = 2
  Levels = 4
  Timeouts = {1, 3, 5}
  BatchMax = 1
  NoKey = none
  MaxTime = 10
INVARIANT CascadedOnce
