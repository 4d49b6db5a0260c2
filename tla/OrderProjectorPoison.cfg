CONSTANTS
    Orders = {o1, g1}
    Ghosts = {g1}
    Products = {p1}
    Malformed = {}
    BatchSize = 3
    MaxEvents = 2
    MaxFaults = 0
    MaxCount = 12

SPECIFICATION FairSpec

PROPERTIES
    EventuallyConsistent

CHECK_DEADLOCK FALSE
