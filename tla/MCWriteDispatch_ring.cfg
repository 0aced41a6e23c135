\* Two processes log to one ring: a log that is written twice, and one that is lost.
SPECIFICATION Spec
CONSTANTS
  NApps = 1
  NChildren = 1
  NServers = 1
  NLoggers = 1
  MaxFiles = 1
  CheckTime = 3
  PerLoop = 2
  RingSize = 3
  MaxDeaths = 0
INVARIANTS OnceUnlessLate NoneLost
