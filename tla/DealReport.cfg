SPECIFICATION Spec
CONSTANTS
  admin = admin
  clerk = clerk
  Viewer = {admin, clerk}
  Admin = {admin}
  MaxDeal = 3
  PageSize = 1
  ScanCap = 5
  ReportLimit = 1
  MaxEdits = 1
  MaxReports = 2
  None = None
  Shapes <- ShapesOfDeals
  Builds <- PortalsOfDeals
  Filters <- FiltersOfAViewer
INVARIANT TypeOK
INVARIANT LossIsBounded
INVARIANT OnlyThePeriod
INVARIANT VerdictIsTrue
INVARIANT NothingBorrowed
CHECK_DEADLOCK FALSE
