CONSTANTS
    r1 = r1
    r2 = r2
    r3 = r3
    k1 = k1
    k2 = k2
    Requests = {r1, r2, r3}
    Keys = {k1, k2}
    KeyOf <- RepeatedKey
    Containers = {c1, c2}
    MaxAttempts = 3
    FailureThreshold = 2
    HalfOpenMaxCalls = 2
    Orders = {a, b}
    Drivers = {d1, d2, d3}
    FirstPage = {d1, d2}
    Workers = {w1, w2}
    BatchSize = 2
    MaxRepeats = 1
    MaxFaults = 1

SPECIFICATION FairBoth

INVARIANTS
    TypeOK
    BreakersSound
    AnswersAreTrue
    DispatchIsSound

PROPERTIES
    EventuallyAnswered

CHECK_DEADLOCK FALSE
