-------------------------- MODULE ScheduleRegistry --------------------------
(***************************************************************************)
(* The administration of one endpoint and its schedule, request by         *)
(* request: backend/app/services/schedule.py and endpoint.py with their    *)
(* routers, against the PostgreSQL rows and the in-memory APScheduler      *)
(* registry that services/scheduler.py keeps beside them.                  *)
(*                                                                         *)
(* A request is an asyncio task with a session of its own.  Its steps are  *)
(* the statements it awaits and the code between two of them; another      *)
(* request may run at every await.  An UPDATE or DELETE takes the row's    *)
(* lock until the end of the transaction; SQLAlchemy emits no UPDATE for   *)
(* a column set to the value the session had loaded, and then no lock is   *)
(* taken.  The registry is not transactional: what a request does to it    *)
(* is visible at once and survives its rollback.                           *)
(*                                                                         *)
(* A schedule row is [timing, bound, active]: its cron or interval, the    *)
(* parameters its bindings name, is_active.  An endpoint row is            *)
(* [strategy, sql, schema]: its data strategy and the parameters of its    *)
(* SQL and of its schema.                                                  *)
(***************************************************************************)
EXTENDS Naturals, FiniteSets

CONSTANTS
    None,             \* SQL NULL / Python None
    Requests,         \* admin requests that may be in flight together
    Schedules,        \* ids of schedule rows, each used once
    Endpoint,         \* names the endpoint row among the locks
    Params,           \* names of parameters
    Timings,          \* a cron expression or an interval, with its timezone
    EndpointRows,     \* the endpoint rows the administrator starts from
    ScheduleRows,     \* the rows POST /schedules may create
    EndpointUpdates,  \* payloads of PUT /endpoints/{id}: column -> value
    ScheduleUpdates,  \* payloads of PUT /schedules/{id}
    MaxRequests,      \* bound: requests sent
    MaxFailures,      \* bound: requests that fail at a statement or commit
    MaxRestarts       \* bound: how often the process stops and starts again

EndpointTable == [strategy : {"live", "snapshot"}, sql : SUBSET Params, schema : SUBSET Params]
ScheduleTable == [timing : Timings, bound : SUBSET Params, active : BOOLEAN]

(* A payload gives some columns of a row their values. *)
PartOf(changes, table) ==
    \E row \in table :
        DOMAIN changes \subseteq DOMAIN row /\ \A c \in DOMAIN changes : changes[c] = row[c]

ASSUME RequestsAssumption == IsFiniteSet(Requests)
ASSUME SchedulesAssumption ==
    IsFiniteSet(Schedules) /\ Endpoint \notin Schedules /\ None \notin Schedules
ASSUME RowsAssumption ==
    /\ EndpointRows \subseteq EndpointTable /\ None \notin EndpointTable
    /\ ScheduleRows \subseteq ScheduleTable /\ Timings # {}
    /\ \A u \in EndpointUpdates : PartOf(u, EndpointTable)
    /\ \A u \in ScheduleUpdates : PartOf(u, ScheduleTable)
ASSUME BoundsAssumption ==
    MaxRequests \in Nat /\ MaxFailures \in Nat /\ MaxRestarts \in Nat

VARIABLES
    endpoint,   \* the committed endpoints row, None once it is deleted
    schedules,  \* the committed rows of its schedules, by id
    jobs,       \* the APScheduler registry: job id -> [timing, paused]
    req,        \* where each request is and what its session holds
    used,       \* ids of the schedules inserted so far
    sent,       \* requests sent (bounded by MaxRequests)
    failures,   \* requests failed (bounded by MaxFailures)
    restarts,   \* restarts (bounded by MaxRestarts)
    drift,      \* history: schedules whose job was touched out of turn
    skew        \* history: a request committed what it validated against old rows

rows == <<endpoint, schedules>>
bounds == <<sent, failures, restarts>>
vars == <<endpoint, schedules, jobs, req, used, sent, failures, restarts, drift, skew>>

-----------------------------------------------------------------------------
(***************************************************************************)
(* Rows, locks and sessions.                                               *)
(***************************************************************************)

Overlay(changes, row) ==
    [c \in DOMAIN row |-> IF c \in DOMAIN changes THEN changes[c] ELSE row[c]]
Unchanged(changes, row) == \A c \in DOMAIN changes : changes[c] = row[c]
Differing(changes, row) ==
    [c \in {x \in DOMAIN changes : changes[x] # row[x]} |-> changes[c]]
NoChanges == [c \in {} |-> None]

Put(f, key, value) == [k \in DOMAIN f \cup {key} |-> IF k = key THEN value ELSE f[k]]
Drop(f, keys) == [k \in DOMAIN f \ keys |-> f[k]]

(* A request: its operation, step, schedule id and payload; the row it       *)
(* loaded, the endpoint and the bindings it validated against; the columns   *)
(* it has flushed and the rows it has locked.                                *)
Session(op, at, id, set) ==
    [op |-> op, at |-> at, id |-> id, set |-> set, read |-> None, ep |-> None,
     attached |-> {}, dirty |-> NoChanges, lock |-> {}]
Fresh(op, id, set) == Session(op, "load", id, set)
Idle == Session("none", "idle", None, NoChanges)

Done(r) == req' = [req EXCEPT ![r] = Idle]
Goto(r, step) == req' = [req EXCEPT ![r].at = step]

HeldByOther(r, row) == \E q \in Requests \ {r} : row \in req[q].lock

(* resolve_schedule_parameters: exactly the schema's parameters are bound,   *)
(* on a snapshot endpoint.                                                   *)
Fits(ep, bound) == ep.strategy = "snapshot" /\ bound = ep.schema
Bounds == {schedules[s].bound : s \in DOMAIN schedules}

Restored(table) ==
    [s \in {x \in DOMAIN table : table[x].active} |->
        [timing |-> table[s].timing, paused |-> FALSE]]

Init ==
    /\ endpoint \in EndpointRows
    /\ \/ schedules = [s \in {} |-> None]
       \/ \E s \in Schedules, row \in ScheduleRows :
              Fits(endpoint, row.bound) /\ schedules = [x \in {s} |-> row]
    /\ used = DOMAIN schedules
    /\ jobs = Restored(schedules)
    /\ req = [r \in Requests |-> Idle]
    /\ sent = 0 /\ failures = 0 /\ restarts = 0
    /\ drift = {} /\ skew = FALSE

-----------------------------------------------------------------------------
(***************************************************************************)
(* A request arrives.                                                      *)
(***************************************************************************)
Calls ==
    {Fresh("create", s, row) :
        s \in Schedules \ (used \cup {req[r].id : r \in Requests}), row \in ScheduleRows}
    \cup {Fresh("update", s, changes) : s \in used, changes \in ScheduleUpdates}
    \cup {Fresh("pause", s, [active |-> FALSE]) : s \in used}
    \cup {Fresh("resume", s, [active |-> TRUE]) : s \in used}
    \cup {Fresh("delete", s, NoChanges) : s \in used}
    \cup {Fresh("update_endpoint", None, changes) : changes \in EndpointUpdates}
    \cup {Fresh("delete_endpoint", None, NoChanges)}

Send(r) ==
    /\ req[r].at = "idle" /\ sent < MaxRequests /\ sent' = sent + 1
    /\ \E call \in Calls : req' = [req EXCEPT ![r] = call]
    /\ UNCHANGED <<rows, jobs, used, failures, restarts, drift, skew>>

-----------------------------------------------------------------------------
(***************************************************************************)
(* Reading and validating.                                                 *)
(***************************************************************************)

(* The first SELECT. *)
Load(r) ==
    /\ req[r].at = "load"
    /\ \/ /\ req[r].op = "create"
          /\ IF endpoint # None /\ Fits(endpoint, req[r].set.bound)
             THEN req' = [req EXCEPT ![r].ep = endpoint, ![r].at = "check"]
             ELSE Done(r)
       \/ /\ req[r].op \in {"update", "pause", "resume", "delete"}
          /\ IF req[r].id \in DOMAIN schedules
             THEN req' = [req EXCEPT ![r].read = schedules[req[r].id],
                              ![r].at = IF req[r].op = "update" THEN "check" ELSE "write"]
             ELSE Done(r)
       \/ /\ req[r].op = "update_endpoint"
          /\ IF endpoint # None
             THEN req' = [req EXCEPT ![r].ep = endpoint, ![r].at = "check"]
             ELSE Done(r)
       \/ /\ req[r].op = "delete_endpoint"
          /\ IF DOMAIN schedules = {} THEN Goto(r, "check")
             ELSE IF Cardinality(DOMAIN schedules) > 1 THEN Done(r)
             ELSE \E s \in DOMAIN schedules :
                      req' = [req EXCEPT ![r].id = s, ![r].at = "check"]
    /\ UNCHANGED <<rows, jobs, used, bounds, drift, skew>>

(* Mutant: the attached schedule's bindings are not resolved again. *)
EndpointUpdateUnbound(ep) ==
    /\ Cardinality(DOMAIN schedules) <= 1
    /\ DOMAIN schedules # {} => ep.sql = ep.schema /\ ep.strategy = "snapshot"

(* update_endpoint against the schedule it finds: two of them are            *)
(* MultipleResultsFound.                                                     *)
EndpointUpdateFits(ep) ==
    /\ Cardinality(DOMAIN schedules) <= 1
    /\ DOMAIN schedules # {} => ep.sql = ep.schema /\ \A b \in Bounds : Fits(ep, b)

(* The second SELECT, and the rest of the validation. *)
Check(r) ==
    /\ req[r].at = "check"
    /\ \/ /\ req[r].op = "create"
          /\ IF DOMAIN schedules = {} THEN Goto(r, "write") ELSE Done(r)
       \/ /\ req[r].op = "update"
          /\ IF endpoint # None /\ Fits(endpoint, Overlay(req[r].set, req[r].read).bound)
             THEN req' = [req EXCEPT ![r].ep = endpoint, ![r].at = "write"]
             ELSE Done(r)
       \/ /\ req[r].op = "update_endpoint"
          /\ IF EndpointUpdateFits(Overlay(req[r].set, req[r].ep))
             THEN req' = [req EXCEPT ![r].attached = Bounds, ![r].at = "write"]
             ELSE Done(r)
       \/ /\ req[r].op = "delete_endpoint"
          /\ IF endpoint # None THEN Goto(r, "write") ELSE Done(r)
    /\ UNCHANGED <<rows, jobs, used, bounds, drift, skew>>

-----------------------------------------------------------------------------
(***************************************************************************)
(* Writing: the flush, which waits for the row's lock.                     *)
(***************************************************************************)

(* Mutant: an UPDATE that matches no row goes unnoticed. *)
WriteScheduleBlind(r) ==
    LET id == req[r].id
    IN  /\ req[r].at = "write" /\ req[r].op \in {"update", "pause", "resume"}
        /\ IF Unchanged(req[r].set, req[r].read) THEN Goto(r, "refresh")
           ELSE /\ ~HeldByOther(r, id)
                /\ req' = [req EXCEPT ![r].dirty = Differing(req[r].set, req[r].read),
                                      ![r].lock = {id}, ![r].at = "refresh"]
        /\ UNCHANGED <<rows, jobs, used, bounds, drift, skew>>

(* BaseCrudRepository.update of a schedule; 0 rows matched is an error. *)
WriteSchedule(r) ==
    LET id == req[r].id
    IN  /\ req[r].at = "write" /\ req[r].op \in {"update", "pause", "resume"}
        /\ IF Unchanged(req[r].set, req[r].read) THEN Goto(r, "refresh")
           ELSE /\ ~HeldByOther(r, id)
                /\ IF id \in DOMAIN schedules
                   THEN req' = [req EXCEPT ![r].dirty = Differing(req[r].set, req[r].read),
                                           ![r].lock = {id}, ![r].at = "refresh"]
                   ELSE Done(r)
        /\ UNCHANGED <<rows, jobs, used, bounds, drift, skew>>

(* The INSERT; its foreign key waits for a deletion of the endpoint. *)
InsertSchedule(r) ==
    LET id == req[r].id
    IN  /\ req[r].at = "write" /\ req[r].op = "create"
        /\ \A q \in Requests : req[q].op = "delete_endpoint" => Endpoint \notin req[q].lock
        /\ IF endpoint # None
           THEN req' = [req EXCEPT ![r].lock = {id}, ![r].at = "touch"] /\ used' = used \cup {id}
           ELSE Done(r) /\ UNCHANGED used
        /\ UNCHANGED <<rows, jobs, bounds, drift, skew>>

(* The DELETE of a schedule; a row already gone is only a warning. *)
RemoveSchedule(r) ==
    LET id == req[r].id
    IN  /\ req[r].at = "write" /\ req[r].op = "delete"
        /\ ~HeldByOther(r, id)
        /\ req' = [req EXCEPT ![r].lock = {id} \cap DOMAIN schedules, ![r].at = "commit"]
        /\ UNCHANGED <<rows, jobs, used, bounds, drift, skew>>

(* BaseCrudRepository.update of the endpoint. *)
WriteEndpoint(r) ==
    /\ req[r].at = "write" /\ req[r].op = "update_endpoint"
    /\ IF Unchanged(req[r].set, req[r].ep) THEN Goto(r, "commit")
       ELSE /\ ~HeldByOther(r, Endpoint)
            /\ IF endpoint # None
               THEN req' = [req EXCEPT ![r].dirty = Differing(req[r].set, req[r].ep),
                                       ![r].lock = {Endpoint}, ![r].at = "commit"]
               ELSE Done(r)
    /\ UNCHANGED <<rows, jobs, used, bounds, drift, skew>>

(* The DELETE of the endpoint cascades to its schedules, and waits for every *)
(* lock on them and for an INSERT that references it.                        *)
RemoveEndpoint(r) ==
    /\ req[r].at = "write" /\ req[r].op = "delete_endpoint"
    /\ \A q \in Requests : req[q].lock = {}
    /\ req' = [req EXCEPT ![r].lock = {Endpoint} \cup DOMAIN schedules, ![r].at = "commit"]
    /\ UNCHANGED <<rows, jobs, used, bounds, drift, skew>>

(* Mutant: the job is registered from the row as it was first loaded. *)
RefreshOwn(r) ==
    LET id == req[r].id
    IN  /\ req[r].at = "refresh"
        /\ IF id \in DOMAIN schedules
           THEN req' = [req EXCEPT ![r].read = Overlay(req[r].dirty, req[r].read),
                                   ![r].at = "touch"]
           ELSE Done(r)
        /\ UNCHANGED <<rows, jobs, used, bounds, drift, skew>>

(* refresh: the row with this session's own columns; a row that is gone is   *)
(* an error.                                                                 *)
Refresh(r) ==
    LET id == req[r].id
    IN  /\ req[r].at = "refresh"
        /\ IF id \in DOMAIN schedules
           THEN req' = [req EXCEPT ![r].read = Overlay(req[r].dirty, schedules[id]),
                                   ![r].at = "touch"]
           ELSE Done(r)
        /\ UNCHANGED <<rows, jobs, used, bounds, drift, skew>>

-----------------------------------------------------------------------------
(***************************************************************************)
(* The registry.                                                           *)
(***************************************************************************)

(* Does the code between the refresh and the next await register a job? *)
Registers(q, row) == q.op = "resume" \/ (q.op \in {"create", "update"} /\ row.active)

(* add_schedule_job, pause_schedule_job or remove_schedule_job. *)
Touched(q, row) ==
    IF Registers(q, row) THEN Put(jobs, q.id, [timing |-> row.timing, paused |-> FALSE])
    ELSE IF q.op = "update" THEN Drop(jobs, {q.id})
    ELSE IF q.op = "pause" /\ q.id \in DOMAIN jobs THEN [jobs EXCEPT ![q.id].paused = TRUE]
    ELSE jobs

(* A touch without the row's lock is out of turn if another request holds    *)
(* it, or if the row is no longer the one the request acts for.              *)
OutOfTurn(r) ==
    LET id == req[r].id
        assumed == IF req[r].op = "update" THEN req[r].read
                   ELSE Overlay(req[r].set, req[r].read)
    IN  /\ id \notin req[r].lock
        /\ HeldByOther(r, id) \/ id \notin DOMAIN schedules \/ schedules[id] # assumed

Touch(r) ==
    LET row == IF req[r].op = "create" THEN req[r].set ELSE req[r].read
    IN  /\ req[r].at = "touch"
        /\ jobs' = Touched(req[r], row)
        /\ drift' = IF OutOfTurn(r) THEN drift \cup {req[r].id}
                    ELSE drift \ {req[r].id}
        /\ Goto(r, IF Registers(req[r], row) THEN "advance" ELSE "commit")
        /\ UNCHANGED <<rows, used, bounds, skew>>

(* next_run_at of the job just registered, when it differs from the row's;   *)
(* then the refresh.                                                         *)
Advance(r) ==
    LET id == req[r].id
    IN  /\ req[r].at = "advance"
        /\ \/ /\ req[r].op # "create" /\ id \notin DOMAIN schedules
              /\ Done(r)
           \/ /\ req[r].op # "create" /\ id \in DOMAIN schedules
              /\ Goto(r, "commit")
           \/ /\ req[r].op = "create" \/ id \in DOMAIN schedules
              /\ ~HeldByOther(r, id)
              /\ req' = [req EXCEPT ![r].lock = {id}, ![r].at = "commit"]
        /\ UNCHANGED <<rows, jobs, used, bounds, drift, skew>>

-----------------------------------------------------------------------------
(***************************************************************************)
(* The end of a request.                                                   *)
(***************************************************************************)

(* What the request validated is no longer what is committed. *)
Outdated(q) ==
    \/ q.op = "create" /\ (endpoint # q.ep \/ DOMAIN schedules # {})
    \/ q.op = "update" /\ "bound" \in DOMAIN q.dirty /\ endpoint # q.ep
    \/ /\ q.op = "update_endpoint" /\ DOMAIN q.dirty # {}
       /\ (endpoint # q.ep \/ Bounds # q.attached)

CommitRows(r) ==
    LET q == req[r]
    IN  /\ req[r].at = "commit" /\ req[r].op \in {"create", "update", "pause", "resume"}
        /\ schedules' = IF q.op = "create" THEN Put(schedules, q.id, q.set)
                        ELSE IF DOMAIN q.dirty = {} THEN schedules
                        ELSE Put(schedules, q.id, Overlay(q.dirty, schedules[q.id]))
        /\ skew' = (skew \/ Outdated(q))
        /\ Done(r)
        /\ UNCHANGED <<endpoint, jobs, used, bounds, drift>>

CommitEndpoint(r) ==
    /\ req[r].at = "commit" /\ req[r].op = "update_endpoint"
    /\ endpoint' = IF DOMAIN req[r].dirty = {} THEN endpoint
                   ELSE Overlay(req[r].dirty, endpoint)
    /\ skew' = (skew \/ Outdated(req[r]))
    /\ Done(r)
    /\ UNCHANGED <<schedules, jobs, used, bounds, drift>>

(* A deletion is committed first.  A schedule that was created after         *)
(* delete_endpoint looked for one is cascaded away without its job.          *)
CommitRemoval(r) ==
    /\ req[r].at = "commit" /\ req[r].op \in {"delete", "delete_endpoint"}
    /\ schedules' = Drop(schedules, req[r].lock)
    /\ endpoint' = IF Endpoint \in req[r].lock THEN None ELSE endpoint
    /\ drift' = drift \cup ((req[r].lock \cap DOMAIN schedules) \ {req[r].id})
    /\ req' = [req EXCEPT ![r].lock = {}, ![r].at = "unregister"]
    /\ UNCHANGED <<jobs, used, bounds, skew>>

(* Mutant: the deletion of an endpoint leaves its schedule's job. *)
UnregisterOwn(r) ==
    /\ req[r].at = "unregister"
    /\ jobs' = IF req[r].op = "delete" THEN Drop(jobs, {req[r].id}) ELSE jobs
    /\ Done(r)
    /\ UNCHANGED <<rows, used, bounds, drift, skew>>

(* ... and the job is removed after it. *)
Unregister(r) ==
    /\ req[r].at = "unregister"
    /\ jobs' = Drop(jobs, {req[r].id})
    /\ Done(r)
    /\ UNCHANGED <<rows, used, bounds, drift, skew>>

(* A statement or the commit fails: the session is rolled back, the          *)
(* registry is not.                                                          *)
Fail(r) ==
    /\ req[r].at \notin {"idle", "unregister"}
    /\ failures < MaxFailures /\ failures' = failures + 1
    /\ drift' = IF /\ req[r].at \in {"advance", "commit"}
                   /\ \/ req[r].op = "create"
                      \/ req[r].op \in {"update", "pause", "resume"} /\ DOMAIN req[r].dirty # {}
                THEN drift \cup {req[r].id} ELSE drift
    /\ Done(r)
    /\ UNCHANGED <<rows, jobs, used, sent, restarts, skew>>

(* The process stops, its sessions and registry are gone; it starts again    *)
(* and restore_active_schedules registers the active rows before the first   *)
(* request is accepted.                                                      *)
Restart ==
    /\ restarts < MaxRestarts /\ restarts' = restarts + 1
    /\ req' = [r \in Requests |-> Idle]
    /\ jobs' = Restored(schedules)
    /\ drift' = {}
    /\ UNCHANGED <<rows, used, sent, failures, skew>>

(* The bound on requests is reached and all are answered. *)
Quiet ==
    /\ sent = MaxRequests /\ \A r \in Requests : req[r].at = "idle"
    /\ UNCHANGED vars

Step(r) ==
    \/ Send(r) \/ Load(r) \/ Check(r)
    \/ WriteSchedule(r) \/ InsertSchedule(r) \/ RemoveSchedule(r)
    \/ WriteEndpoint(r) \/ RemoveEndpoint(r) \/ Refresh(r)
    \/ Touch(r) \/ Advance(r)
    \/ CommitRows(r) \/ CommitEndpoint(r) \/ CommitRemoval(r) \/ Unregister(r)
    \/ Fail(r)

Next == (\E r \in Requests : Step(r)) \/ Restart \/ Quiet

Spec == Init /\ [][Next]_vars

-----------------------------------------------------------------------------
(***************************************************************************)
(* Properties.                                                             *)
(***************************************************************************)

Ops == {"create", "update", "pause", "resume", "delete", "update_endpoint", "delete_endpoint"}
Steps == {"load", "check", "write", "refresh", "touch", "advance", "commit", "unregister"}

TypeOK ==
    /\ endpoint \in EndpointTable \cup {None}
    /\ \A s \in DOMAIN schedules : schedules[s] \in ScheduleTable
    /\ DOMAIN schedules \subseteq used /\ DOMAIN jobs \subseteq used /\ used \subseteq Schedules
    /\ sent \in 0 .. MaxRequests /\ failures \in 0 .. MaxFailures /\ restarts \in 0 .. MaxRestarts
    /\ drift \subseteq used /\ skew \in BOOLEAN
    /\ \A r \in Requests : req[r].at # "idle" =>
           /\ req[r].op \in Ops /\ req[r].at \in Steps
           /\ req[r].op # "create" => req[r].lock \subseteq {Endpoint} \cup DOMAIN schedules

(* A row and its job. *)
Agrees(s) ==
    IF schedules[s].active
    THEN s \in DOMAIN jobs /\ jobs[s] = [timing |-> schedules[s].timing, paused |-> FALSE]
    ELSE s \in DOMAIN jobs => jobs[s].paused

(* The registry runs what the table says, for every row no transaction has   *)
(* locked: PUT, pause, resume and create touch it inside the transaction     *)
(* that locks the row.  Only a touch out of turn (by a request whose own     *)
(* UPDATE was omitted, while another changes the row) or a request that      *)
(* failed after its touch lets them drift apart, until the next touch or     *)
(* restart.                                                                  *)
RegistryAgrees ==
    \A s \in DOMAIN schedules \ drift :
        (\A r \in Requests : s \notin req[r].lock) => Agrees(s)

(* No job outlives its row: it belongs to a committed row, to one being      *)
(* inserted or to a deletion about to unregister it.                         *)
NoStrayJob ==
    \A s \in DOMAIN jobs \ drift :
        \/ s \in DOMAIN schedules
        \/ \E r \in Requests :
              /\ req[r].id = s
              /\ \/ req[r].op = "create" /\ req[r].at \in {"advance", "commit"}
                 \/ req[r].at = "unregister"

(* An endpoint has one schedule, whose bindings it accepts, unless a request *)
(* committed on the strength of rows that had changed since it read them:    *)
(* create, PUT and the endpoint's own PUT each check it.                     *)
ConfigFits ==
    skew \/ /\ Cardinality(DOMAIN schedules) <= 1
            /\ endpoint = None => DOMAIN schedules = {}
            /\ endpoint # None => \A b \in Bounds : Fits(endpoint, b)

(* docs/architecture.md: every active schedule is registered when it is      *)
(* created, updated, resumed or restored.                                    *)
EveryActiveIsRegistered ==
    (\A r \in Requests : req[r].at = "idle") =>
        \A s \in DOMAIN schedules : schedules[s].active => s \in DOMAIN jobs
=============================================================================
