SPECIFICATION Spec
CONSTANTS
    e1 = e1
    e2 = e2
    e3 = e3
    None = None
    Execs = {e1, e2, e3}
    ReplayDates = {1}
    Keep = 1
    AdhocRuns = FALSE
    AdminOps = {}
    MaxTime = 2
    MaxCrashes = 0
INVARIANTS
    SkipsOnlyDuplicates
