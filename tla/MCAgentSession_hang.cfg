\* As MCAgentSession_live.cfg, with commands that do not end.
SPECIFICATION LiveSpec
CONSTANTS
  Keys = {1, 2, 3, 4, 5}
  NoKey = 0
  Seqs = {1, 2, 3, 4, 5}
  Chains = {"hello"}
  TryMax = 1
  ValidTime = 2
  TimerMax = 3
  Hangs = TRUE
  NetMax = 1
  LateMax = 1
  MaxFaults = 1
PROPERTY Recovers
