------------------------- MODULE MCScheduleRegistry -------------------------
(* ScheduleRegistry with one parameter and two timings. *)
EXTENDS ScheduleRegistry, TLC

P == {"p"}

MCParams == P
MCTimings == {"hourly", "daily"}

EndpointRow(strategy, sql, schema) == [strategy |-> strategy, sql |-> sql, schema |-> schema]
MCEndpointRows == {EndpointRow("snapshot", P, P), EndpointRow("live", {}, {})}

ScheduleRow(timing, bound, active) == [timing |-> timing, bound |-> bound, active |-> active]
MCScheduleRows ==
    {ScheduleRow("hourly", P, TRUE), ScheduleRow("hourly", P, FALSE), ScheduleRow("hourly", {}, TRUE)}

MCEndpointUpdates ==
    {[strategy |-> "live"], [strategy |-> "snapshot"], [sql |-> {}], [sql |-> {}, schema |-> {}]}
MCScheduleUpdates == {[timing |-> "daily"], [active |-> FALSE], [active |-> TRUE, bound |-> {}]}

Symmetry == Permutations(Requests) \cup Permutations(Schedules)
=============================================================================
