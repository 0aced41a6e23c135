\* MtReport_CheckVmem beside the other calls; the window between bUseFlag and its time stamp.
SPECIFICATION Spec
CONSTANTS
  p1 = p1
  p2 = p2
  v1 = v1
  v2 = v2
  Procs = {p1, p2}
  Agents = {p2}
  Crashers = {p1, p2}
  Vals = {v1}
  NodeCount = 3
  MaxNeed = 1
  ScanBatch = 1
  UseFlagTimeout = 1
INVARIANTS SafeBesideCheck SafeUnlessSlow
