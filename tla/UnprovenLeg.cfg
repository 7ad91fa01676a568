SPECIFICATION Spec
CONSTANTS
  Viewer = {admin, clerk}
  Admin = {admin}
  Value = {1, 2, 3}
  ValueCap = 2
  CombinationCap = 2
  MaxReports = 2
  Builds <- Portals
  Scans <- ShapesScanned
PROPERTY RememberedLegsHold
CHECK_DEADLOCK FALSE
