CONSTANTS
  Servers = {s1, s2}
  Configs <- MCConfigs
  Names <- MCNames
  Hyphenated <- MCHyphenated
  Folded <- MCFolded
  RedisDefaultTTL = 15
SPECIFICATION StartupSpec
\* TLC finds each of these violated (README, section 3): one at a time.
INVARIANT SessionInitialized
\* INVARIANT TTLsAreValid
\* INVARIANT TableEnsured
CHECK_DEADLOCK FALSE
