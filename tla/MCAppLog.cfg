\* Two writers and the agent on a ring of two slots that is filled and lapped.
SPECIFICATION FairSpec
CONSTANTS
  w1 = w1
  w2 = w2
  ag = ag
  Writers = {w1, w2}
  Crashers = {w1}
  Agent = ag
  Size = 2
  MaxLogs = 3
  Long = {1}
  LockTimeout = 0
  SkipAge = 0
  MaxTime = 2
CONSTRAINT UntilTaint
INVARIANTS
  TypeOK
  RingExclusion
  DeliveredInOrder
  NothingElseLost
\* The bounds on logs and time let every process come to rest.
CHECK_DEADLOCK FALSE
PROPERTY PublishedRead
