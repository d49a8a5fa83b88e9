CONSTANTS
  a = a
  b = b
  NoClient = NoClient
  Clients <- MCClients
  RequestTTL <- MCRequestTTL
  ConfigTTL = 3
  Requests = {r1, r2}
  Consistency = "CONSISTENCY_QUORUM"
SPECIFICATION Spec
PROPERTY KeepAliveAnswersOwner
