CONSTANTS
    Orders = {o1, g1}
    Ghosts = {g1}
    Products = {p1}
    Workers = {w1, w2, w3}
    PageLimit = 2
    MaxEvents = 4
    AdvancedOrders = {o1, o2}
    Requests = {r1, r2, r3}

SPECIFICATION BothSpec
SYMMETRY InvocationsAreAlike

INVARIANTS
    TypeOK
    ReadsStayTrue
    HistoriesAreLegal
    AdvancedAnswersTellTheStore

PROPERTIES
    ImplementsOrderLog
    AdvancedImplementsOrderLog

CHECK_DEADLOCK FALSE
