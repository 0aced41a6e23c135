\* Two writers, one of which may die, and the agent on two nodes.
SPECIFICATION FairSpec
CONSTANTS
  w1 = w1
  w2 = w2
  ag = ag
  Writers = {w1, w2}
  Agent = ag
  Crashers = {w1}
  RealNodeCount = 2
  ResetCount = 1
  MaxRead = 1
  FlagTimeout = 0
  MaxCount = 2
CONSTRAINT Held
INVARIANTS TypeOK HashMutex ListConsistent
PROPERTY Drained
