SPECIFICATION Spec
CONSTANTS
    Null = Null
    RawColumns <- MCRawColumns
    Sources <- MCSources
    Endpoints <- MCEndpoints
    MaxRows = 2
    Keep = 2
    MaxRuns = 2
    MaxChanges = 1
INVARIANTS
    TypeOK
    AnswerIsComplete
    CoverageIsExact
PROPERTIES
    CoveredIsServed
