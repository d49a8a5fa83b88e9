CONSTANTS
  long = long
  short = short
  Clients <- MCClients
  NoClient = NoClient
  TTL <- MCTTL
  MinRefresh = 3
  CallTimeout = 5
SPECIFICATION FairSpec
INVARIANTS TypeOK KeptLeaderHolds
PROPERTY CutOffLeaderResigns
