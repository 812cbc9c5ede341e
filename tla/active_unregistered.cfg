SPECIFICATION Spec
CONSTANTS
    None = None
    Endpoint = Endpoint
    r1 = r1
    r2 = r2
    s1 = s1
    s2 = s2
    Requests = {r1, r2}
    Schedules = {s1, s2}
    Params <- MCParams
    Timings <- MCTimings
    EndpointRows <- MCEndpointRows
    ScheduleRows <- MCScheduleRows
    EndpointUpdates <- MCEndpointUpdates
    ScheduleUpdates <- MCScheduleUpdates
    MaxRequests = 2
    MaxFailures = 0
    MaxRestarts = 0
SYMMETRY Symmetry
INVARIANTS
    EveryActiveIsRegistered
