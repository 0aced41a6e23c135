\* The stamp cleared after the flag; an insert beside the start of a drain; the memset of a
\* reset, which covers less than all rows, after a crash.
SPECIFICATION Spec
CONSTANTS
  w1 = w1
  w2 = w2
  ag = ag
  Writers = {w1, w2}
  Agent = ag
  Crashers = {w1}
  RealNodeCount = 2
  ResetCount = 1
  MaxRead = 1
  FlagTimeout = 0
  MaxCount = 3
INVARIANTS HeldUnlessSlow ResetOnlyBroken ResetForgetsAll
