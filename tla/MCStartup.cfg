CONSTANTS
  Servers = {s1, s2}
  Configs <- MCConfigs
  Names <- MCNames
  Hyphenated <- MCHyphenated
  Folded <- MCFolded
  RedisDefaultTTL = 15
SPECIFICATION StartupFairSpec
INVARIANTS StartupTypeOK ServesOnTable RaceLeavesOne
PROPERTY AllServeInTheEnd
CHECK_DEADLOCK FALSE
