CONSTANTS
  Handler = {h1, h2}
  Refresher = {worker, api}
  User = {admin, clerk}
  Admin = {admin}
  None = None
  MaxClock = 3
  MaxLinks = 2
  MaxRequests = 2
  MaxGen = 4
SPECIFICATION FairSpec
INVARIANT TypeOK
INVARIANT CredentialIsAdmins
INVARIANT RevokedStaysRevoked
INVARIANT OptOutIsEmpty
INVARIANT OneExchangePerExpiry
PROPERTY LateUninstallIgnored
PROPERTY OptOutIsHonoured
CHECK_DEADLOCK FALSE
