CONSTANTS
  Threads = {t1, t2}
  Loops = {g1, g2}
  NoOne = NoOne
  MaxUntold = 3
SPECIFICATION Spec
\* TLC finds each of these violated (README, section 3): one at a time.
INVARIANT RefusedWhileRunning
\* INVARIANT LossIsAnnounced
\* INVARIANT LastCallbackTells
\* INVARIANT LeaseOfLeader
CHECK_DEADLOCK FALSE
