CONSTANTS
  Tasks = {k1, k2, k3}
  NoTask = NoTask
  MaxPending = 2
  MaxSilent = 1
SPECIFICATION FairSpec
INVARIANTS TypeOK CallbacksBalance RefusedOnlyWhileRunning
PROPERTIES DetachedTaskEnds StopKeepAliveReturns
