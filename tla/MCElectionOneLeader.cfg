CONSTANTS
  long = long
  short = short
  Clients <- MCClients
  NoClient = NoClient
  TTL <- MCTTL
  MinRefresh = 3
  CallTimeout = 5
SPECIFICATION Spec
INVARIANT AtMostOneLeader
