CONSTANTS
    Sagas = {"order"}
    MaxUnclear = 0

SPECIFICATION FairSpec

INVARIANTS
    ShipmentFailureIsUndone

CHECK_DEADLOCK FALSE
