CONSTANTS
  Candidates <- MCCandidates
  OtherFiles = {"service.yaml"}
  Paths = {"config.yaml"}
  Environments <- MCEnvironments
  Contents <- MCContents
  DefaultTTL = 5
  Half = 8
  MaxChanges = 2
SPECIFICATION LoaderSpec
\* TLC finds each of these violated (README, section 3): one at a time.
INVARIANT HotReload
\* INVARIANT RenameIsCaught
\* PROPERTY ReloadsWhatWasSaved
CHECK_DEADLOCK FALSE
