CONSTANTS
    Accounts = {"a", "b", "c"}
    Opening <- Openings
    ScanOrder <- Order
    Workloads <- OneTransfer
    MaxAttempts = 1
    SnapshotEvery = 2

SPECIFICATION Spec

INVARIANTS
    TransfersAreAtomic

CHECK_DEADLOCK FALSE
