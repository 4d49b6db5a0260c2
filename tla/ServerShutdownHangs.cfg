CONSTANTS
    Programs = {"app"}
    Requests = {r1}
    MaxSignals = 1

SPECIFICATION FairSpec

PROPERTIES
    StopsOnSignal

CHECK_DEADLOCK FALSE
