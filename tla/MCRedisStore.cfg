CONSTANTS
  a = a
  b = b
  NoClient = NoClient
  Clients <- MCClients
  RequestTTL <- MCRequestTTL
  ConfigTTL = 0
  FallbackTTL = 3
  Requests = {r1, r2}
SPECIFICATION FairSpec
INVARIANT TypeOK
PROPERTIES LeaseSafety ImplementsLockService DeadHolderFrees
