\* The hello and the check, a table of timers that data can fill, a first hello that is
\* late, two faults.
SPECIFICATION LiveSpec
CONSTANTS
  Keys = {1, 2, 3, 4}
  NoKey = 0
  Seqs = {1, 2, 3, 4}
  Chains = {"hello", "check"}
  TryMax = 1
  ValidTime = 2
  TimerMax = 3
  Hangs = FALSE
  NetMax = 1
  LateMax = 1
  MaxFaults = 2
PROPERTIES Recovers ChecksAgain
