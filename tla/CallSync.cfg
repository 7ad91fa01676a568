SPECIFICATION FairSpec
CONSTANTS
  PageSize = 2
  BatchPages = 3
  MaxLoops = 2
  BackfillBatches = 2
  HasTotal = TRUE
  Lags <- APageLate
  Refused <- PageUnparsable
  Unstorable <- OneUnstorable
  MaxId = 13
  MaxFaults = 3
INVARIANTS
  TypeOK
  WindowCovered
PROPERTIES
  AllImported
