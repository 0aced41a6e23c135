\* Two packets on the way, a table of four timers, one fault.
SPECIFICATION Spec
CONSTANTS
  Keys = {1, 2, 3, 4, 5}
  NoKey = 0
  Seqs = {1, 2, 3, 4, 5}
  Chains = {"hello", "check"}
  TryMax = 1
  ValidTime = 2
  TimerMax = 4
  Hangs = TRUE
  NetMax = 2
  LateMax = 1
  MaxFaults = 1
INVARIANTS TypeOK OneChain KeysAgree
