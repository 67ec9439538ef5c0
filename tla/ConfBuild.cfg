SPECIFICATION Spec
CONSTANT Grid = 5
CHECK_DEADLOCK FALSE
INVARIANT FailureSurfaces
