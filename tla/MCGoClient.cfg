CONSTANTS
  Threads = {t1, t2}
  Loops = {g1, g2}
  NoOne = NoOne
  MaxUntold = 3
SPECIFICATION Spec
SYMMETRY Symmetry
INVARIANTS TypeOK CallbacksBalance LoopsMatchStop
CHECK_DEADLOCK FALSE
