SPECIFICATION Spec
CONSTANTS
    None = None
    a1 = a1
    a2 = a2
    Admins = {a1, a2}
    Previews <- MCPreviews
    NewEndpoints <- MCNewEndpoints
    Updates <- MCUpdates
    Givens <- MCGivens
    MaxRequests = 4
SYMMETRY Symmetry
INVARIANTS
    TypeOK
    MaskIsLexical
    BindsAreBound
    SnapshotIsMapped
    RefusalIsExact
CHECK_DEADLOCK FALSE
