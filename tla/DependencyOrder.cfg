CONSTANTS
    Names = {1, 2, 3}
    MaxInsts = 3
    MaxDeps = 2
SPECIFICATION Spec
INVARIANTS OrderIsTopological RefusedForItsFault
CHECK_DEADLOCK FALSE
