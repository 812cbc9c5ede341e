SPECIFICATION Spec
CONSTANTS
    a = a
    b = b
    e1 = e1
    e2 = e2
    c1 = c1
    c2 = c2
    Missing = Missing
    Refused = Refused
    Keys = {a, b}
    Values = {"d", "v"}
    Default <- MCDefault
    Known <- MCKnown
    Bulks <- MCBulks
    Editors = {e1, e2}
    Callers = {c1, c2}
    Tasks = {e1, e2, c1, c2}
    PoolSize = 2
CHECK_DEADLOCK FALSE
INVARIANT
    LogIsTruthful
PROPERTIES
    WholeOrNothing
    RequestsEnd
