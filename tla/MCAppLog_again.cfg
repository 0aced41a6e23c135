\* A writer dies between advancing the index and blanking its slot, in a ring that was lapped.
SPECIFICATION Spec
CONSTANTS
  w1 = w1
  w2 = w2
  ag = ag
  Writers = {w1}
  Crashers = {w1}
  Agent = ag
  Size = 3
  MaxLogs = 5
  Long = {1}
  LockTimeout = 1
  SkipAge = 0
  MaxTime = 5
CONSTRAINT UntilTaint
INVARIANT InOrderAnyway
\* The bounds on logs and time let every process come to rest.
CHECK_DEADLOCK FALSE
