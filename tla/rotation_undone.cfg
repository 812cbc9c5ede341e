SPECIFICATION Spec
CONSTANTS
    None = None
    AdminToken = AdminToken
    m1 = m1
    a1 = a1
    a2 = a2
    c1 = c1
    Methods = {m1}
    Labels <- MCLabels
    Admins = {a1, a2}
    Clients = {c1}
    MethodRows <- MCMethodRows
    MethodUpdates <- MCMethodUpdates
    EndpointRows <- MCEndpointRows
    EndpointUpdates <- MCEndpointUpdates
    MaxRequests = 5
    MaxSecrets = 3
SYMMETRY Symmetry
INVARIANT
    RotationIsFinal
