CONSTANTS
    Programs = {"go_client", "api_client", "scraper"}
    Calls = {c1, c2, c3}
    MaxFailures = 3
    MaxRetries = 3
    PoolPrograms = {"crawler", "channel", "fetch", "gather", "remediation"}
    Tasks = {t1, t2, t3}
    Pool = 2
    Creations = {a1, a2}
    Emails = {m1, m2}
    UnitNames = {"prod", "dev"}
    PageSize = 1
    Events = {e1, e2}
    Ports = {ssh, web}
    Offices = {"office"}
    MaxAttempts = 2
    MaxChanges = 1
    Instances = {i1}
    Functions = {f1}
    Databases = {}
    MaxRuns = 2

SPECIFICATION FairAll

INVARIANTS
    TypesOK
    ClientBreakersSound
    ReportAddsUp
    AccountsAreGoverned
    AnsweredIsClosed
    TrackingIsTrue

PROPERTIES
    EverythingEnds

CHECK_DEADLOCK FALSE
