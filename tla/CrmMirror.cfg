CONSTANTS
  MaxId = 2
  PageSize = 1
  Commands = 2
  MaxWidth = 2
  LeafSize = 2
  Lookback = 0
  Overlap = 1
  CommitLag = 1
  MaxShift = 1
  None = None
  Refused = {}
  StartId = 1
  MaxTime = 2
  MaxChanges = 1
  MaxFaults = 1
SPECIFICATION FairSpec
INVARIANT TypeOK
INVARIANT EditsOwed
INVARIANT CoveredIsRead
PROPERTY ImplementsCache
PROPERTY Converges
CHECK_DEADLOCK FALSE
