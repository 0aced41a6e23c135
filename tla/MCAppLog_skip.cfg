\* The agent meets a slot that is being written; two writers at a ring that was quiet; the
\* writers fill the ring before the agent reads.
SPECIFICATION Spec
CONSTANTS
  w1 = w1
  w2 = w2
  ag = ag
  Writers = {w1, w2}
  Crashers = {}
  Agent = ag
  Size = 2
  MaxLogs = 3
  Long = {1}
  LockTimeout = 1
  SkipAge = 0
  MaxTime = 3
INVARIANTS AcceptedNotSkipped WritersApart FullIsCounted PassedWhole
\* The bounds on logs and time let every process come to rest.
CHECK_DEADLOCK FALSE
