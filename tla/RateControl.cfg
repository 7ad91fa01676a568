SPECIFICATION FairSpec
CONSTANTS
  Method = {"crm"}
  Stat = "stat"
  DefaultPages = 20
  MinPages = 5
  CleanToRecover = 2
  BaseBackoff = 2
  MaxBackoff = 6
  Grace = 60
  Interval = 300
  FailureBase = 60
  FailureMax = 100
  FailuresBeforePause = 3
  Pause = 21600
  DefaultLimit = 480
  LimitFloor = 300
  LeaseSeconds = 300
  Readings <- MCReadings
  Resets <- MCResets
  RetryAfters <- MCRetryAfters
  MaxTrouble = 3
INVARIANT TypeOK
INVARIANT LadderClimbs
PROPERTY PauseIsEarned
PROPERTY StatBlockHeld
PROPERTY MethodsApart
PROPERTY RatesRecover
