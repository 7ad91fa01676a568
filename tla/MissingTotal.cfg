SPECIFICATION Spec
CONSTANTS
  PageSize = 2
  BatchPages = 2
  MaxLoops = 2
  BackfillBatches = 1
  HasTotal = FALSE
  Lags <- Exact
  Refused <- NoCalls
  Unstorable <- NoCalls
  MaxId = 7
  MaxFaults = 0
INVARIANTS
  WindowCovered
