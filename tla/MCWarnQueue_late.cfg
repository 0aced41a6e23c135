\* Alarms grow too old, nodes that timed out are used again; the mask changes while an alarm is dealt with.
SPECIFICATION Spec
CONSTANTS
  Alarms = {1}
  Wids = {1, 2}
  NNodes = 2
  Procs = 2
  Valid = 2
  MaxLag = 1
  MaxFaults = 1
INVARIANTS NothingEverLost NeverTorn SentInTime
PROPERTY Finished
