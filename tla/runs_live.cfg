SPECIFICATION FairSpec
CONSTANTS
    e1 = e1
    e2 = e2
    None = None
    Execs = {e1, e2}
    ReplayDates = {}
    Keep = 1
    AdhocRuns = TRUE
    AdminOps = {"reregister", "delete_schedule", "delete_endpoint"}
    MaxTime = 2
    MaxCrashes = 1
INVARIANTS
    TypeOK
PROPERTIES
    RunsSettle
