SPECIFICATION Spec
CONSTANTS
  Worker = {w1, w2}
  Purger = {w1}
  NoOwner = NoOwner
  Concurrency = 1
  LeaseTicks = 1
  FailuresBeforePause = 1
  MaxCall = 2
  MaxClock = 2
  MaxGen = 3
  MaxCrash = 1
INVARIANTS TypeOK RunExcludesPurge CursorCovered
PROPERTIES  ImplementsStore
CHECK_DEADLOCK FALSE
