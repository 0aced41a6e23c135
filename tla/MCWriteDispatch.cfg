\* One application, two children, a server and a process that logs for itself, of which one
\* dies; short rings and lists.
SPECIFICATION LiveSpec
CONSTANTS
  NApps = 1
  NChildren = 2
  NServers = 1
  NLoggers = 1
  MaxFiles = 1
  CheckTime = 3
  PerLoop = 2
  RingSize = 2
  MaxDeaths = 1
CONSTRAINT Explored
INVARIANTS TypeOK OneWriter WrittenOnce
PROPERTIES Relieved
