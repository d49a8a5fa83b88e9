CONSTANT Requests = {r1, r2}
SPECIFICATION Spec
SYMMETRY Symmetry
PROPERTY GracefulShutdown
CHECK_DEADLOCK FALSE
