\* The agent's table has room for one configuration; the agent logs at level info.
SPECIFICATION LiveSpec
CONSTANTS
  Ids = {1, 2}
  MaxCfg = 1
  CfgLen = 2
  DelLen = 1
  RespLen = 4
  LogsInfo = TRUE
  Keys = {k1, k2}
  NoReq = none
  NetMax = 4
  MaxSeq = 3
  MaxFaults = 0
INVARIANT NoNullConfig
PROPERTY ConvergesFull
