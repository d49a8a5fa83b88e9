CONSTANT Requests = {r1, r2, r3}
SPECIFICATION FairSpec
INVARIANTS TypeOK HandlersHaveStore
PROPERTY SignalEnds
CHECK_DEADLOCK FALSE
