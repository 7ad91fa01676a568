SPECIFICATION Spec
CONSTANTS
  Viewer = {admin, clerk}
  Admin = {admin}
  Value = {1, 2, 3}
  ValueCap = 2
  CombinationCap = 2
  MaxReports = 2
  Builds <- Portals
  Scans <- ShapesScanned
INVARIANT TypeOK
INVARIANT NothingDropped
INVARIANT OneCurrency
PROPERTY CachedOnEvidence
CHECK_DEADLOCK FALSE
