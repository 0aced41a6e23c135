\* One alarm, whose rows have two ids; two nodes, two senders.
SPECIFICATION LiveSpec
CONSTANTS
  Alarms = {1}
  Wids = {1, 2}
  NNodes = 2
  Procs = 2
  Valid = 2
  MaxLag = 1
  MaxFaults = 1
INVARIANTS TypeOK SentExactly
PROPERTY Notified
CONSTRAINT Explored
