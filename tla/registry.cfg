SPECIFICATION Spec
CONSTANTS
    None = None
    Endpoint = Endpoint
    r1 = r1
    r2 = r2
    r3 = r3
    s1 = s1
    s2 = s2
    Requests = {r1, r2, r3}
    Schedules = {s1, s2}
    Params <- MCParams
    Timings <- MCTimings
    EndpointRows <- MCEndpointRows
    ScheduleRows <- MCScheduleRows
    EndpointUpdates <- MCEndpointUpdates
    ScheduleUpdates <- MCScheduleUpdates
    MaxRequests = 3
    MaxFailures = 1
    MaxRestarts = 1
SYMMETRY Symmetry
INVARIANTS
    TypeOK
    RegistryAgrees
    NoStrayJob
    ConfigFits
