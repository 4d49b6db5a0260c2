CONSTANTS
    Keys = {"p", "q"}
    Stock <- Rows
    Threshold = 1
    Uses <- AtOnce

SPECIFICATION Spec

INVARIANTS
    NeverOversold

CHECK_DEADLOCK FALSE
