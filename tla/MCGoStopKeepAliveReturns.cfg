CONSTANTS
  Threads = {t1, t2}
  Loops = {g1, g2}
  NoOne = NoOne
  MaxUntold = 3
SPECIFICATION FairSpec
PROPERTY StopKeepAliveReturns
CHECK_DEADLOCK FALSE
