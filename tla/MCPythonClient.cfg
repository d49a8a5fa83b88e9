CONSTANTS
  Threads = {t1, t2}
  Workers = {w1, w2}
  NoThread = NoThread
  MaxSilent = 1
SPECIFICATION FairSpec
INVARIANTS TypeOK CallbacksBalance WorkersAccounted
PROPERTIES StopKeepAliveReturns StoppedWorkersEnd
