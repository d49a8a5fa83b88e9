CONSTANTS
  a = a
  b = b
  NoClient = NoClient
  Clients <- MCClients
  RequestTTL <- MCRequestTTL
  ConfigTTL = 0
  FallbackTTL = 3
  Requests = {r1, r2}
SPECIFICATION Spec
\* TLC finds each of these violated (README, section 3): one at a time.
PROPERTY ReleaseDeletesOwn
\* PROPERTY KeepAliveRefreshesOwn
\* PROPERTY TrueMeansAcquired
