CONSTANTS
  Candidates <- MCCandidates
  OtherFiles = {"service.yaml"}
  Paths <- MCPaths
  Environments <- MCEnvironments
  Contents <- MCContents
  DefaultTTL = 5
  Half = 8
  MaxChanges = 2
SPECIFICATION LoaderFairSpec
INVARIANTS LoaderTypeOK LastSaveWins DetectedFileServed TTLInForce
PROPERTY ShutdownEndsLoop
CHECK_DEADLOCK FALSE
