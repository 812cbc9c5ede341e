SPECIFICATION Spec
CONSTANTS
    e1 = e1
    e2 = e2
    e3 = e3
    e4 = e4
    None = None
    Execs = {e1, e2, e3, e4}
    ReplayDates = {}
    Keep = 2
    AdhocRuns = FALSE
    AdminOps = {}
    MaxTime = 4
    MaxCrashes = 2
SYMMETRY Symmetry
INVARIANTS
    NoSkippedFire
    NominalOrder
    RetentionBound
PROPERTIES
    PrunesOnlyBeyondKeep
