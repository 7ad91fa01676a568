SPECIFICATION Spec
CONSTANTS
  Worker = {w1}
  Purger = {w1}
  NoOwner = NoOwner
  Concurrency = 2
  LeaseTicks = 2
  FailuresBeforePause = 2
  MaxCall = 3
  MaxClock = 3
  MaxGen = 4
  MaxCrash = 2
INVARIANT RowsOfThisInstallation
PROPERTY NobodyElseWrites
CHECK_DEADLOCK FALSE
