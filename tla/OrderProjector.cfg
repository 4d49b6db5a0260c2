CONSTANTS
    Orders = {o1, o2, g1}
    Ghosts = {g1}
    Products = {p1, p2}
    Malformed = {p2}
    BatchSize = 2
    MaxEvents = 4
    MaxFaults = 1
    MaxCount = 5

SPECIFICATION FairSpec

INVARIANTS
    TypeOK
    RowsMatchLog
    ReservationsMatchLog


    

CHECK_DEADLOCK FALSE
