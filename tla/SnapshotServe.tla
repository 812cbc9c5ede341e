--------------------------- MODULE SnapshotServe ---------------------------
(***************************************************************************)
(* The snapshot side of the data plane: DataService._serve_snapshot        *)
(* (backend/app/services/data.py) answering requests from the retained     *)
(* snapshots, while the scheduler adds snapshots, retention prunes them,   *)
(* the administrator edits the endpoint and the rows in Oracle change.     *)
(*                                                                         *)
(* An endpoint configuration is a record                                   *)
(*   params     its declared parameters                                    *)
(*   sql        what the SQL text does with each: the raw column and       *)
(*              operator it compares with, and the rows it selects when    *)
(*              the parameter is NULL                                      *)
(*   filters    the declared mappings, compiled (SnapshotFilter)           *)
(*   columnMap  raw column -> output column                                *)
(* A snapshot carries its job run's resolved_params_json and, for the      *)
(* properties only, the configuration and Oracle rows it was taken from.   *)
(***************************************************************************)
EXTENDS SnapshotFilter, FiniteSets

CONSTANTS
    RawColumns,  \* columns of the Oracle rows
    Sources,     \* the contents Oracle may have: sets of raw rows
    Endpoints,   \* the configurations the administrator may save
    MaxRows,     \* max_rows of a scheduled query
    Keep,        \* the setting snapshot_retention_count
    MaxRuns,     \* bound: scheduled runs that store a snapshot
    MaxChanges   \* bound: edits of the endpoint and of the rows in Oracle

Rows == UNION Sources

ASSUME RowsAssumption ==
    \A r \in Rows : RawColumns \subseteq DOMAIN r
                    /\ \A x \in RawColumns : r[x] \in Int \cup {Null}
ASSUME NullAssumption == Null \notin Int
ASSUME EndpointsAssumption ==
    \A ep \in Endpoints :
        /\ DOMAIN ep.sql = ep.params /\ DOMAIN ep.filters \subseteq ep.params
        /\ DOMAIN ep.columnMap = RawColumns
        /\ \A x, y \in RawColumns : ep.columnMap[x] = ep.columnMap[y] => x = y
        /\ \A p \in ep.params : ep.sql[p].column \in RawColumns
        /\ \A p \in DOMAIN ep.filters : ep.filters[p].accepts \subseteq Int
ASSUME LimitsAssumption == MaxRows \in Nat /\ Keep \in Nat \ {0} /\ MaxRuns \in Nat
                           /\ MaxChanges \in Nat

VARIABLES
    source,    \* the rows in Oracle
    endpoint,  \* the committed configuration
    run,       \* the scheduled run in flight: configuration and parameters
    snaps,     \* the retained snapshots
    taken,     \* how many snapshots were taken (bounded by MaxRuns)
    changes,   \* how many edits were made (bounded by MaxChanges)
    request    \* one data request: its configuration, parameters and answer

vars == <<source, endpoint, run, snaps, taken, changes, request>>

-----------------------------------------------------------------------------
(***************************************************************************)
(* The SQL query (Oracle is not under src/).                               *)
(***************************************************************************)
Selects(predicate, row, value) ==
    IF value = Null THEN row \in predicate.nullSelects
    ELSE /\ row[predicate.column] # Null
         /\ Compare(predicate.operator, row[predicate.column], value)

SqlSelects(ep, row, params) == \A p \in ep.params : Selects(ep.sql[p], row, params[p])

(* One row after the output-column mapping. *)
MapRow(ep, row) ==
    [c \in {ep.columnMap[x] : x \in RawColumns} |->
        row[CHOOSE x \in RawColumns : ep.columnMap[x] = c]]

(* What the endpoint's query answers for these parameters. *)
Result(ep, rows, params) == {MapRow(ep, r) : r \in {x \in rows : SqlSelects(ep, x, params)}}

(* fetchmany(max_rows): all of the result or, in no given order, that many. *)
Fetched(ep, rows, params) ==
    LET all == Result(ep, rows, params)
    IN  IF Cardinality(all) <= MaxRows THEN {all}
        ELSE {got \in SUBSET all : Cardinality(got) = MaxRows}

(* Values a parameter may be bound to, by a schedule or by a request. *)
Accepted(ep, p) ==
    {Null} \cup (IF p \in DOMAIN ep.filters THEN ep.filters[p].accepts ELSE {0})
Bindings(ep) == {b \in [ep.params -> UNION {Accepted(ep, p) : p \in ep.params}] :
                    \A p \in ep.params : b[p] \in Accepted(ep, p)}

-----------------------------------------------------------------------------
(***************************************************************************)
(* The scheduler's side.                                                   *)
(***************************************************************************)
Init ==
    /\ source \in Sources /\ endpoint \in Endpoints
    /\ run = [stage |-> "idle"]
    /\ snaps = {} /\ taken = 0 /\ changes = 0
    /\ request = [stage |-> "idle"]

(* The endpoint is loaded and its binds resolved before the query ... *)
StartRun ==
    /\ run.stage = "idle" /\ taken < MaxRuns
    /\ \E b \in Bindings(endpoint) :
           run' = [stage |-> "querying", endpoint |-> endpoint, resolved |-> b]
    /\ UNCHANGED <<source, endpoint, snaps, taken, changes, request>>

(* The newest n snapshots. *)
Newest(S, n) == {s \in S : Cardinality({t \in S : t.at > s.at}) < n}

(* Mutants: the endpoint is loaded again after the query; the result is      *)
(* stored unvalidated.                                                       *)
EndRunReloads ==
    /\ run.stage = "querying"
    /\ \E got \in Fetched(run.endpoint, source, run.resolved) :
           IF RowsMatchResolved(got, endpoint.filters, run.resolved)
           THEN /\ taken' = taken + 1
                /\ snaps' = Newest(snaps \cup
                      {[at |-> taken + 1, endpoint |-> endpoint,
                        resolved |-> run.resolved, rows |-> got, source |-> source]}, Keep)
           ELSE UNCHANGED <<taken, snaps>>
    /\ run' = [stage |-> "idle"]
    /\ UNCHANGED <<source, endpoint, changes, request>>
EndRunUnvalidated ==
    /\ run.stage = "querying"
    /\ \E got \in Fetched(run.endpoint, source, run.resolved) :
           /\ taken' = taken + 1
           /\ snaps' = Newest(snaps \cup
                 {[at |-> taken + 1, endpoint |-> run.endpoint,
                   resolved |-> run.resolved, rows |-> got, source |-> source]}, Keep)
    /\ run' = [stage |-> "idle"]
    /\ UNCHANGED <<source, endpoint, changes, request>>

(* ... and its column map, filters and retention are applied after it.  A    *)
(* result that contradicts the resolved parameters fails the run.            *)
EndRun ==
    /\ run.stage = "querying"
    /\ \E got \in Fetched(run.endpoint, source, run.resolved) :
           IF RowsMatchResolved(got, run.endpoint.filters, run.resolved)
           THEN /\ taken' = taken + 1
                /\ snaps' = Newest(snaps \cup
                      {[at |-> taken + 1, endpoint |-> run.endpoint,
                        resolved |-> run.resolved, rows |-> got, source |-> source]}, Keep)
           ELSE UNCHANGED <<taken, snaps>>
    /\ run' = [stage |-> "idle"]
    /\ UNCHANGED <<source, endpoint, changes, request>>

(* The query, connection or commit fails: execute_scheduled_job's except. *)
FailRun ==
    /\ run.stage = "querying"
    /\ run' = [stage |-> "idle"]
    /\ UNCHANGED <<source, endpoint, snaps, taken, changes, request>>

(* The business data change. *)
ChangeSource ==
    /\ changes < MaxChanges /\ changes' = changes + 1
    /\ \E rows \in Sources \ {source} : source' = rows
    /\ UNCHANGED <<endpoint, run, snaps, taken, request>>

(* require_snapshot_filter_mappings: every declared parameter is mapped. *)
Configured(ep) == DOMAIN ep.filters = ep.params

(* PUT /endpoints/{id}, an attached schedule having been deleted first; an    *)
(* unmapped parameter is refused (an older row may still have one).          *)
UpdateEndpoint ==
    /\ changes < MaxChanges /\ changes' = changes + 1
    /\ \E ep \in Endpoints \ {endpoint} : Configured(ep) /\ endpoint' = ep
    /\ UNCHANGED <<source, run, snaps, taken, request>>

-----------------------------------------------------------------------------
(***************************************************************************)
(* The data plane's side.                                                  *)
(***************************************************************************)

(* Resolve the endpoint and coerce the request's parameters. *)
Receive ==
    /\ request.stage \in {"idle", "answered"}
    /\ \E params \in Bindings(endpoint) :
           request' = [stage |-> "resolved", endpoint |-> endpoint, params |-> params]
    /\ UNCHANGED <<source, endpoint, run, snaps, taken, changes>>

Answered(status) ==
    request' = [stage |-> "answered", endpoint |-> request.endpoint,
                params |-> request.params, status |-> status]

(* The checks before any snapshot is read. *)
Refuse ==
    /\ request.stage = "resolved"
    /\ \/ /\ ~Configured(request.endpoint)
          /\ Answered("not_configured")
       \/ /\ Configured(request.endpoint)
          /\ ~RangesValid(request.endpoint.filters, request.params)
          /\ Answered("bad_range")
    /\ UNCHANGED <<source, endpoint, run, snaps, taken, changes>>

Covering(ep, params) == {s \in snaps : Covers(ep.filters, params, s.resolved)}

(* The snapshots the loop over the retained ones may stop at: all of them    *)
(* for an endpoint without parameters; else those that cover the request and *)
(* lack a filter's column or still match their job run's parameters.         *)
Candidates(ep, params) ==
    IF ep.params = {} THEN snaps
    ELSE {s \in Covering(ep, params) :
             \/ Unavailable(s.rows, ep.filters)
             \/ RowsMatchResolved(s.rows, ep.filters, s.resolved)}

(* No candidate: the three ways to say so. *)
Decline ==
    LET ep == request.endpoint
    IN  /\ request.stage = "resolved" /\ Configured(ep)
        /\ RangesValid(ep.filters, request.params)
        /\ Candidates(ep, request.params) = {}
        /\ Answered(IF snaps = {} THEN "no_snapshot"
                    ELSE IF Covering(ep, request.params) # {} THEN "integrity_failed"
                    ELSE "out_of_coverage")
        /\ UNCHANGED <<source, endpoint, run, snaps, taken, changes>>

(* The newest candidate is filtered and served. *)
Serve ==
    LET ep == request.endpoint
    IN  /\ request.stage = "resolved" /\ Configured(ep)
        /\ RangesValid(ep.filters, request.params)
        /\ \E s \in Candidates(ep, request.params) :
              /\ \A t \in Candidates(ep, request.params) : t.at <= s.at
              /\ IF Unavailable(s.rows, ep.filters)
                 THEN Answered("column_unavailable")
                 ELSE request' = [stage |-> "answered", endpoint |-> ep,
                                  params |-> request.params, status |-> "ok", from |-> s,
                                  data |-> FilterRows(s.rows, ep.filters, request.params)]
        /\ UNCHANGED <<source, endpoint, run, snaps, taken, changes>>

Next ==
    \/ StartRun \/ EndRun \/ FailRun \/ ChangeSource \/ UpdateEndpoint
    \/ Receive \/ Refuse \/ Decline \/ Serve

Spec == Init /\ [][Next]_vars

-----------------------------------------------------------------------------
(***************************************************************************)
(* Properties.                                                             *)
(***************************************************************************)

(* The declared mappings say what the SQL does. *)
Truthful(ep) ==
    /\ DOMAIN ep.filters = ep.params
    /\ \A p \in ep.params :
           /\ ep.filters[p].column = ep.columnMap[ep.sql[p].column]
           /\ ep.filters[p].operator = ep.sql[p].operator
           /\ ep.filters[p].nullMeansAll => Rows \subseteq ep.sql[p].nullSelects

TypeOK ==
    /\ source \in Sources /\ endpoint \in Endpoints
    /\ taken \in 0 .. MaxRuns /\ changes \in 0 .. MaxChanges
    /\ run.stage \in {"idle", "querying"}
    /\ run.stage = "querying" =>
           run.endpoint \in Endpoints /\ run.resolved \in Bindings(run.endpoint)
    /\ \A s \in snaps :
           /\ s.at \in 1 .. taken /\ s.endpoint \in Endpoints /\ s.source \in Sources
           /\ s.resolved \in Bindings(s.endpoint)
    /\ request.stage \in {"idle", "resolved", "answered"}
    /\ request.stage # "idle" =>
           request.endpoint \in Endpoints /\ request.params \in Bindings(request.endpoint)

(* A 200 answer is the query's own answer: if the snapshot holds what the    *)
(* query returned for the run's parameters, and the endpoint is still the    *)
(* one it was taken from and declares its mappings truthfully, filtering     *)
(* gives the rows the query would have given for the request's parameters,   *)
(* although the run's were others.                                           *)
AnswerIsComplete ==
    request.stage = "answered" /\ request.status = "ok" =>
        LET s == request.from ep == request.endpoint
        IN  s.endpoint = ep /\ Truthful(ep)
            /\ s.rows = Result(ep, s.source, s.resolved)
            => request.data = Result(ep, s.source, request.params)

(* A result that contradicts its parameters is never retained, so a request  *)
(* that the snapshots of the current configuration cover is answered, from   *)
(* the newest of them: what EndRun validates, Serve still finds valid.       *)
CoveredIsServed ==
    [][LET ep == request.endpoint
           covering == Covering(ep, request.params)
       IN  /\ request.stage = "resolved" /\ request'.stage = "answered"
           /\ Configured(ep) /\ RangesValid(ep.filters, request.params)
           /\ covering # {} /\ \A s \in covering : s.endpoint = ep
           => /\ request'.status = "ok"
              /\ \A s \in covering : s.at <= request'.from.at]_vars

(* The rows and the SQL tell the values of a parameter apart: the comparisons *)
(* are those the schema allows, only a NULL declared to mean all selects any  *)
(* row (col = NULL selects none), a column may hold every value its parameter *)
(* accepts, and never only one of them.                                       *)
Discriminating ==
    \A ep \in Endpoints : Truthful(ep) =>
        \A p \in ep.params :
            LET filter == ep.filters[p]  predicate == ep.sql[p]
            IN  /\ filter.operator \in {"eq", "gte", "lte"}
                /\ IF filter.nullMeansAll THEN filter.operator = "eq"
                   ELSE predicate.nullSelects \cap Rows = {}
                /\ \A v \in filter.accepts :
                       /\ \E r \in Rows : r[predicate.column] = v
                       /\ \E r \in Rows :
                             r[predicate.column] \in (filter.accepts \cup {Null}) \ {v}

(* Coverage is exact, parameter by parameter: a snapshot is refused only if  *)
(* filtering it for the request's value would not give the rows the SQL      *)
(* selects for that value, among the rows whose cell the type accepts.       *)
CoverageIsExact ==
    request.stage = "resolved" /\ Truthful(request.endpoint) =>
        LET ep == request.endpoint
        IN  \A s \in {t \in snaps : t.endpoint = ep}, p \in ep.params :
              LET filter == ep.filters[p]  predicate == ep.sql[p]
                  readable == {r \in Rows : r[predicate.column] \in filter.accepts \cup {Null}}
                  kept(r) == \/ request.params[p] = Null
                             \/ Satisfies(MapRow(ep, r), filter, request.params[p])
              IN  CoversParameter(filter, s.resolved[p], request.params[p])
                  <=> \A r \in readable :
                        (Selects(predicate, r, s.resolved[p]) /\ kept(r))
                            <=> Selects(predicate, r, request.params[p])
=============================================================================
