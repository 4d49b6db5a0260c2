CONSTANTS
    Accounts = {"a", "b", "c"}
    Opening <- Openings
    ScanOrder <- Order
    Workloads <- RaceAndTransfer
    MaxAttempts = 2
    SnapshotEvery = 2
    Keys = {"p", "q"}
    Stock <- Rows
    Threshold = 1
    Uses <- BothUses
    InvoiceKeys = {1, 2, 3}
    Statuses = {"pending", "paid"}
    PageLimit = 1
    MaxWrites = 3

SPECIFICATION AllSpec

INVARIANTS
    TypesOK
    HistoriesAreLegal
    NothingIsLost
    StockAddsUp
    InTurnPromisesKept
    ListingIsComplete

PROPERTIES
    AppendOnly

CHECK_DEADLOCK FALSE
