CONSTANTS
  a = a
  b = b
  fast = fast
  slow = slow
  NoClient = NoClient
  Clients <- MCClients
  Servers <- MCServers
  MaxSkew = 2
  Skew <- MCSkew
  RequestTTL <- MCRequestTTL
  TicksPerSecond = 2
  ConfigTTL = 2
  Requests = {r1, r2}
  MaxTime = 4
SPECIFICATION Spec
SYMMETRY SlotSymmetry
INVARIANT TypeOK
PROPERTIES LeaseSafety ImplementsLockService
