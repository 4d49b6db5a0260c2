CONSTANTS
    Programs = {"app", "app_faang", "go_faang", "go_health"}
    Requests = {r1, r2, r3}
    MaxSignals = 2

SPECIFICATION FairSpec

INVARIANTS
    TypeOK
    CleanExitCutsNothing

PROPERTIES
    GoServersStop
    AcceptedIsAnswered

CHECK_DEADLOCK FALSE
