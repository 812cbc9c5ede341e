SPECIFICATION Spec
CONSTANTS
    e1 = e1
    e2 = e2
    e3 = e3
    None = None
    Execs = {e1, e2, e3}
    ReplayDates = {2}
    Keep = 1
    AdhocRuns = FALSE
    AdminOps = {"reregister", "delete_schedule", "delete_endpoint"}
    MaxTime = 2
    MaxCrashes = 1
SYMMETRY Symmetry
INVARIANTS
    OneQueryPerLogicalRun
    CacheIsBacked
    DeletedEndpointHasNoCache
PROPERTIES
    HistoryIsFinal
    CacheChangesWithSuccess
    ImplementsLogicalRuns
