SPECIFICATION FairSpec
CONSTANTS
  PageSize = 1
  Limit = 2
  MaxBatches = 2
  MaxRechecks = 1
  Refused <- OneRefused
  FirstStored = 2
  MaxId = 3
  MaxEvents = 2
  MaxFaults = 1
INVARIANT TypeOK
INVARIANT ResumeCovered
PROPERTY LateIsSeen
PROPERTY RequestIsServed
CHECK_DEADLOCK FALSE
