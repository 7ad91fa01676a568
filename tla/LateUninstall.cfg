CONSTANTS
  Handler = {h1, h2}
  Refresher = {worker, api}
  User = {admin, clerk}
  Admin = {admin}
  None = None
  MaxClock = 3
  MaxLinks = 3
  MaxRequests = 3
  MaxGen = 4
SPECIFICATION Spec
SYMMETRY Symmetry
CHECK_DEADLOCK FALSE
PROPERTY NoSecondWipe
