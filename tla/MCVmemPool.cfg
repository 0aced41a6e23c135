\* Two processes, one of them the agent; two nodes to save in, contents of one or two nodes.
SPECIFICATION FairSpec
CONSTANTS
  p1 = p1
  p2 = p2
  v1 = v1
  v2 = v2
  Procs = {p1, p2}
  Agents = {p2}
  Crashers = {p1, p2}
  Vals = {v1, v2}
  NodeCount = 3
  MaxNeed = 2
  ScanBatch = 1
  UseFlagTimeout = 1
CONSTRAINT UntilTaint
INVARIANTS
  TypeOK
  MutualExclusion
  LiveReadsBack
  UsedCovers
CHECK_DEADLOCK TRUE
PROPERTY LockRecovered
