SPECIFICATION LiveSpec
CONSTANTS
  Attrs = {1, 2}
  Strings = {"s"}
  Long = {}
  NPlugins = 1
  MaxAttrs = 2
  MaxStr = 1
  MaxLogs = 2
  ShortDelay = 1
  RetryDelay = 1
  TryTime = 2
  FreqTime = 2
  FreqLimit = 2
  ReqTimeout = 3
  NXhr = 2
  MaxNum = 1
  MaxOther = 1
  LogCap = 2
PROPERTY PluginLogsSent
