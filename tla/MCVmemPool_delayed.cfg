\* Delayed frees while the agent keeps running.
SPECIFICATION FairSpec
CONSTANTS
  p1 = p1
  p2 = p2
  v1 = v1
  v2 = v2
  Procs = {p1, p2}
  Agents = {}
  Crashers = {}
  Vals = {v1}
  NodeCount = 3
  MaxNeed = 1
  ScanBatch = 1
  UseFlagTimeout = 1
PROPERTY DelayedFreeRecycled
