CONSTANTS
  Threads = {t1, t2}
  Workers = {w1, w2}
  NoThread = NoThread
  MaxSilent = 1
SPECIFICATION Spec
SYMMETRY Symmetry
\* TLC finds each of these violated (README, section 3): one at a time.
INVARIANT OneWorker
\* INVARIANT LeaseOfLeader
