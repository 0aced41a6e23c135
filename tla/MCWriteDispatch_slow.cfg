\* Three ways to a second writer: two passes that each end in time, a slot that is read before
\* its index is stored, and a child that is stopped before the main process.
SPECIFICATION Spec
CONSTANTS
  NApps = 2
  NChildren = 2
  NServers = 1
  NLoggers = 0
  MaxFiles = 2
  CheckTime = 3
  PerLoop = 1
  RingSize = 1
  MaxDeaths = 1
INVARIANTS OneWriterInTime OneWriterUnlessSlow OneWriterStopping
