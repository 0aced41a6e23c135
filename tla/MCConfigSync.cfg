\* Three configurations, a table of two; one of them and one deletion to a packet.
SPECIFICATION LiveSpec
CONSTANTS
  Ids = {1, 2, 3}
  MaxCfg = 2
  CfgLen = 2
  DelLen = 1
  RespLen = 3
  LogsInfo = TRUE
  Keys = {k1, k2}
  NoReq = none
  NetMax = 3
  MaxSeq = 3
  MaxFaults = 1
INVARIANTS TypeOK Sorted
PROPERTIES NeverBack Converges
