\* One of two senders dies.
SPECIFICATION LiveSpec
CONSTANTS
  Alarms = {1}
  Wids = {1, 2}
  NNodes = 1
  Procs = 2
  Valid = 2
  MaxLag = 1
  MaxFaults = 1
PROPERTY NotifiedAlways
