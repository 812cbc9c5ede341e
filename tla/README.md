# QueryGateway: TLA+ verification

QueryGateway publishes Oracle queries as REST endpoints. An administrator defines connections,
endpoints (an SQL text, its parameters, its output columns), schedules and API credentials; clients
call the endpoints. A *live* endpoint runs its SQL for every request. A *snapshot* endpoint answers
from rows that a scheduled job stored earlier, filtered for the request. The backend is one asyncio
process (FastAPI) with an in-memory APScheduler, a PostgreSQL database for its own state, and Oracle
as the data source.

This directory holds TLA+ specifications of the backend (`src/backend/app`), TLC configurations that
check them on small instances, and TLAPS proofs of their main theorems. Paths below are relative to
`src/backend/app` unless they start with `docs/`.

## 1. The system

| Component | State | Operations | Model |
|---|---|---|---|
| Scheduled job execution (`services/scheduler.py`, `repositories/job_run.py`, `snapshot.py`) | rows `job_runs`, `snapshots`; `schedules.next_run_at`; one database session per execution | `execute_scheduled_job`, step by step; start, restore, stop | `ScheduleRuns`, `LogicalRuns` |
| APScheduler registry (`services/scheduler.py`) | in memory: job id -> trigger, paused, next run time | add, pause, remove, restore, fire | `ScheduleRegistry` (all jobs), `ScheduleRuns` (one job's times) |
| Schedule administration (`services/schedule.py`, `routers/schedules.py`) | rows `schedules` | create, PUT, pause, resume, delete, run now, preview | `ScheduleRegistry`, `ScheduleRuns` (run now) |
| Endpoint configuration (`services/endpoint.py`, `schemas/endpoint.py`, `routers/endpoints.py`) | rows `endpoints` | create, PUT, delete, SQL preview; the validators and the bind scanner | `SqlScanner`, `EndpointContract`; `EndpointAccess` (its authentication), `ScheduleRegistry` (with a schedule), `SnapshotServe` (under retained snapshots) |
| Schedule parameter bindings (`services/schedule_bindings.py`) | none of its own; JSON columns of `schedules` | resolve a date, a window, every bind; preview | `CalendarWindows`, `ScheduleBindings` |
| Snapshot serving (`services/data.py`, `services/snapshot_filtering.py`) | rows `snapshots` with their run's parameters | coverage, integrity check, filtering, choice | `SnapshotFilter`, `SnapshotServe` |
| Live serving, SQL execution (`services/data.py`, `sql/executor.py`) | none | authenticate, validate, query, shape | `EndpointAccess` (who is served), `EndpointContract` (what is bound), `AccessLogging` (what is recorded) |
| Data-plane authentication (`services/auth_method.py`, `services/data.py`) | rows `auth_methods` | create, PUT, rotate, delete, issue a token, verify | `EndpointAccess` |
| Parameter models (`sql/param_models.py`, `schemas/endpoint.py`) | none | coercion, defaults, required | `EndpointContract` |
| Access log (`services/access_log.py`) | rows `access_logs` | record each data request through a session of its own | `AccessLogging` |
| Settings (`services/settings.py`, `routers/settings.py`) | rows `settings` | list and seed, PUT of one key, PUT of several | `SettingsStore`; the retention count is the constant `Keep` of `ScheduleRuns` |
| Connections (`services/connection.py`) | rows `connections` | create, PUT, delete, test | `EndpointAccess` (`is_active`, deletion); the rest is not modelled |
| Sessions and pool (`database.py`, `dependencies.py`) | 5 + 10 connections | check out, wait, give up, close | `ConnectionPool`; transactions are in every model |
| Generic repository (`repositories/base.py`) | none | get, create, update, delete, refresh | `RowSession`, and inside the actions that use it |
| Admin login, health, middleware, logging, console, packaging | | | not modelled (section 7) |

How they interact:

* The **admin API** writes rows in a request's transaction and touches the registry in the middle of
  it. The registry is not transactional: what a request did to it stays when the transaction fails.
* The **registry** calls `execute_scheduled_job` as a coroutine on the same event loop, with a session
  of its own; `POST /schedules/{id}/run` calls it inside a request instead, outside `max_instances`.
* An **execution** reads the schedule, claims its logical time by inserting a `job_runs` row under the
  unique key `(schedule_id, scheduled_for)`, reads the endpoint, resolves the binds, queries Oracle,
  then stores the snapshot, prunes old ones and settles the run in one transaction.
* The **data plane** reads the retained snapshots with their runs' parameters and must decide whether
  one of them holds every row the request would have got from Oracle.
* A **data request** reads the endpoint, its auth method twice and its connection, each with a statement
  of its own, and holds its session until the access log has written a row through a second one.
* An **admin update** reads the row, is validated against what it read, and writes the columns that
  differ; an auth method's credentials are one JSON column, so that any change of it writes all of it.
* Deleting a schedule sets `schedule_id` of its runs to NULL; deleting an endpoint cascades to its
  schedule and its snapshots.

What is hard: every `await` is a point where another request or execution runs; PostgreSQL is at READ
COMMITTED, so two statements of one transaction may see different commits; SQLAlchemy omits an UPDATE
whose value is what the session loaded, and then takes no lock either; the process may
stop anywhere and restores its registry from the rows; configuration is edited under running jobs and
retained snapshots; and dates pass through timezones.

What makes each part correct:

* *Execution*: Oracle is queried at most once per logical run; history is never rewritten; a snapshot
  is retained only if its run succeeded; a failure leaves the cache alone; retention removes only what
  is beyond the count; a run in flight is settled; a fire runs for its own nominal time.
* *Administration and registry*: the registry runs what the table says; no job outlives its row; an
  endpoint has one schedule, whose bindings it accepts.
* *Bindings*: what was saved resolves on every date; a run is for the date it was asked for; a window
  is the calendar period of its name; successive windows neither overlap nor leave a day out.
* *Serving*: a 200 answer is what the query would have returned; what a snapshot covers is served;
  coverage refuses nothing it could serve.
* *Access*: nothing is let through without a credential of the method the endpoint names; a replaced
  credential and an inactive method are refused, whatever overlaps; an endpoint keeps a way in.
* *Contract*: the scanner blanks what Oracle does not read as code; a query is executed with the binds it
  has; a snapshot endpoint has a filter for each parameter; a stored default is never refused.
* *Settings, log and pool*: a bulk change happens as a whole; the log says what clients saw; tasks that
  wait for a connection or a row lock while they hold one all end.

`PROJECT.json` lists the hazards line by line, with the properties that watch each.

## 2. Modules

| Module | What it is |
|---|---|
| `LogicalRuns` | abstract ledger: a logical run begins at most once, its result is final, and the cache gains a snapshot only with a success |
| `ScheduleRuns` | the executions of one schedule, session by session, with the job, the clock, crashes and the admin requests that interfere |
| `ScheduleRunsProofs` | invariants of `ScheduleRuns`, its refinement of `LogicalRuns`, and the order and retention of scheduled executions alone |
| `SnapshotFilter` | coverage, range check, filtering and validation as operators, without state |
| `SnapshotServe` | requests against snapshots, with runs, pruning, edits and changing source rows; EXTENDS `SnapshotFilter` |
| `SnapshotServeProofs` | soundness of coverage and the invariants of `SnapshotServe` |
| `ScheduleRegistry` | concurrent admin requests statement by statement, rows, row locks, registry |
| `ScheduleRegistryProofs` | its invariants |
| `CalendarWindows` | dates, zones, midnights, window presets, and what the presets are documented to mean |
| `ScheduleBindings` | saving, firing, replaying and resolving a schedule's bindings; EXTENDS `CalendarWindows` |
| `ScheduleBindingsProofs` | the calendar theorems and the invariants of `ScheduleBindings` |
| `RowSession` | what an update's session holds and the row its UPDATE makes; used by the next two |
| `EndpointAccess` | auth methods, endpoint and connection edited under data requests; EXTENDS `RowSession` |
| `EndpointAccessProofs` | its invariants |
| `SqlScanner` | `schemas/endpoint.py`'s bind scanner, and Oracle's lexical rules beside it, without state |
| `EndpointContract` | SQL, descriptors and strategy of one endpoint, its PUTs and its requests; EXTENDS `SqlScanner`, `RowSession` |
| `EndpointContractProofs` | its invariants, and that the scanner agrees with the lexical rules on every text |
| `ConnectionPool` | the connections of the metadata database |
| `SettingsStore` | the settings requests, upsert by upsert; EXTENDS `ConnectionPool` |
| `AccessLogging` | the tasks with two sessions; EXTENDS `ConnectionPool` |
| `MetadataDatabase` | composition of `SettingsStore` and `AccessLogging` on one pool, with fairness |
| `MetadataDatabaseProofs` | its invariants: the log's and the settings requests' |
| `NaturalLemmas` | least elements, induction over a given set of numbers, and the existence of recursively defined functions; used by three of the proof modules |
| `MC*` | constants and symmetry sets for TLC |

Definitions whose comment says *Mutant* are plausible bugs of the definition that follows. No
specification uses them; `PROJECT.json` pairs each with the property that must reject it.

### ScheduleRuns

One action is the code between two awaits at which another session's commit can matter.

| Code | Actions |
|---|---|
| APScheduler submits a due job and advances it; misfire, `max_instances` | `SubmitFire`, `SkipFire` |
| `run_now` (with or without a logical date) | `RunNow` |
| load the schedule, choose `logical_run_time` | `ReadSchedule` |
| `get_by_schedule_and_scheduled_for` | `CheckExisting` |
| INSERT of the running row, IntegrityError | `InsertRun` |
| endpoint, binds, connection check, query sent | `StartQuery` |
| answer, row validation, or an exception | `EndQuery` |
| flush of the snapshot | `SaveSnapshot` |
| the two statements of `delete_old` | `SelectKept`, `SelectOld` |
| flush of the deletes and of the status; `get_job_next_run_time` | `MarkSuccess` |
| UPDATE of the schedule and COMMIT | `CommitSuccess` |
| the except branch | `MarkFailed`, `CommitFailure` |
| PUT or resume, and its later commit | `Reregister`, `CommitNext` |
| DELETE of the schedule or the endpoint | `DeleteSchedule`, `DeleteEndpoint` |
| stop, `start_scheduler`, `restore_active_schedules` | `Crash`, `Restart`, `CommitRestore` |

Time is the sequence of nominal fire times 1, 2, 3, ...; `now` is the latest one passed. A manual run's
logical time is its start instant, which no other run shares: it is represented by the execution
itself. `created_at` of a snapshot is the start time of the writing transaction (server default
`now()`), hence `stamp`, which is set when the query begins and orders the snapshots.

### ScheduleRegistry

A request is `[op, at, id, set, read, ep, attached, dirty, lock]`: its operation and step, what its
session has loaded, what it validated against, what it has flushed and the rows it has locked. `Load`
and `Check` are the SELECTs with their refusals, `Write...`/`Insert...`/`Remove...` the flush (which
waits for a lock), `Refresh` the reload, `Touch` the call that changes the registry, `Advance` the
UPDATE of `next_run_at`, `Commit...` the commit, `Unregister` the removal of the job after a deletion,
`Fail` an error at any statement or the commit, `Restart` a stop and a start. Two history variables
make the promises precise where the code gives up: `drift` holds schedules whose job was touched by a
request that did not hold the row's lock while the row was not the one it acted for, or by one that
then failed; `skew` says that a request was committed although what it had validated against was no
longer the committed rows.

### CalendarWindows and ScheduleBindings

A date is its ordinal and an instant a number of minutes, so that a zone is arithmetic: its offset
before and after one transition. `Midnight` is `datetime.combine(d, time.min, tzinfo=zone)`, which for
a skipped or repeated midnight takes the earlier offset; `LocalDate` is `.astimezone(zone).date()`.
`ResolveWindow` is `_resolve_window`; `InWindow` says independently which dates the name of the preset
stands for. `ScheduleBindings` holds one schedule and one schema: `SaveSchedule`, `DeleteSchedule`,
`SaveEndpoint` (whole requests here; `ScheduleRegistry` interleaves them), `AskReplay` (`run_now`
reads the schedule and makes the instant in its timezone), `Fire`, `Replay` and `ReplayMissing` (the execution
loads the schedule, in a session of its own) and `Resolve` (the endpoint is loaded and the binds resolved, after whatever was
saved in between).

### SnapshotFilter and SnapshotServe

Cells are integers or NULL; a declared type is the set of values it coerces (`accepts`), so that a
cell outside it raises, as the code does. An endpoint configuration says what its SQL does with each
parameter *and* what its mappings declare; `Truthful` relates the two. `StartRun`/`EndRun`/`FailRun`
are a scheduled run (configuration and binds before the query, column map, validation and retention
after it), `ChangeSource` a change of the business rows, `UpdateEndpoint` an edit, `Receive`, `Refuse`,
`Decline` and `Serve` a data request. A snapshot carries the configuration and source rows it was taken
from, for the properties only.

### RowSession and EndpointAccess

| Code | Actions |
|---|---|
| `create_auth_method` | `CreateMethod` |
| `update_auth_method`: read and validate; flush and commit | `ReadForUpdate`; `WriteMethod` |
| `rotate_credentials`, or a PUT of a password | `ReadForRotation`; `WriteMethod` |
| `issue_token`, `delete_auth_method` | `IssueToken`, `DeleteMethod` |
| `update_endpoint`, `delete_endpoint` | `ReadEndpoint`, `WriteEndpoint`, `DeleteEndpoint` |
| `update_connection`, `delete_connection` | `UpdateConnection`, `DeleteConnection` |
| a data request: arrival, endpoint, first and second read of the method, `_serve_live` | `Receive`, `Resolve`, `Dispatch`, `Verify`, `Serve` |

`config_json` is `[secret, label]`: what rotation replaces, and what a PUT of `expire_minutes` or
`username` changes in the same column. A secret is generated once, hence a number; a credential is
the method, secret and label it was handed out for. `revoked`, `undone` and `pathLost` are history
variables that say where the code gives a promise up (section 5).

### SqlScanner and EndpointContract

A text is a sequence of characters, of the alphabet on which the scanner decides; bind names that
start with `_` are outside it. `MaskSqlNonCode` goes over the text as `_mask_sql_non_code` does, region
by region; `CodePositions` is written from Oracle's rules alone, token by token. `EndpointContract`
holds one endpoint: `Preview` and `TakePreview` (`preview_sql`), `CreateEndpoint`, `ReadEndpoint` (the
payload's validators and the rule on the row that was read), `WriteEndpoint`, `DeleteEndpoint`,
`Attach` and `Detach` (whether it has a schedule) and `Serve` (a request whose parameters are coerced).
A parameter's value is named after what the types tell apart: a word, digits, an ISO date, a truth
value, each as the string of a query or as the JSON of a default.

### ConnectionPool, SettingsStore, AccessLogging and MetadataDatabase

`held` counts the connections of each task. A settings request reads the table or takes its next item
(`ReadAll`, `Select`), writes it or leaves it out (`Write`, `Keep`) and commits (`CommitEdit`); it fails on a
refused value, a key inserted meanwhile, a circle of lock waits or an exhausted pool. A caller is a data
request (`Open`, `ServeData`, then `OpenLog`, `InsertRow` or `LogFails`), a manual run (`OpenJob` while it
holds its own session, `FinishJob`) or a job that the scheduler fires.

## 3. Runs

| Run | Shows | Bounds |
|---|---|---|
| `runs_concurrent` | one query per logical run, final history, a cache backed by successes that changes only with one, no snapshot of a deleted endpoint, refinement of `LogicalRuns` | 3 executions, `MaxTime` 2, a replay of date 2, all admin operations, 1 crash, `Keep` 1 |
| `runs_scheduled` | without manual runs: nominal order, no skipped fire before a restart, retention exact | 4 executions, `MaxTime` 4, `Keep` 2, 2 crashes |
| `runs_live` | types; under fairness every running row is settled unless its execution is lost | 2 executions, `MaxTime` 2, manual runs, all admin operations, 1 crash |
| `serve_snapshots` | complete answers, exact coverage, covered requests served | 6 configurations, 2 sources of 3 and 4 rows, `MaxRows` 2, `Keep` 2, 2 runs, 1 change |
| `registry` | registry agrees with the table, no stray job, configuration fits | 3 requests in flight of 3 sent, 2 schedule ids, 1 parameter, 1 failure, 1 restart |
| `bindings` | saved configurations resolve, dates and windows right, windows tile | Saturday 28 February to Monday 1 March 2032 (a leap day, the end of a week and of a month) in a calendar of 67 days, 2 zones, 2 fire minutes, cadences 1 and 2, all presets, 3 bindings, 3 schemas |
| `access` | no grant without proof; replaced credentials and inactive methods refused; keys stay rotated; the path kept | 1 method of any of the 3 kinds, 2 admins, 1 data request at a time, 5 admin requests, 3 secrets (1.5 million states) |
| `contract` | the mask is lexical, binds bound, snapshot endpoints mapped, refusals exact | previews of every text of up to 4 of 12 fragments; 1 parameter in each of its descriptors and 2 as a range; 2 admins, 4 admin requests |
| `metadata` | bulk changes whole, log truthful, every request ends | a pool of 2, 2 settings, 2 settings requests, 2 callers of any kind |
| `stuck_after_replay`, `active_unregistered`, `rotation_undone` | three of the disagreements of section 6 | 3 executions and no crash; 2 requests and 2 schedule ids; the instance of `access` |

Why these bounds suffice. Three executions let one hold a claim, one collide with it and one overtake
both; a date can be claimed by a fire and by a replay, and a crash can fall between any two steps. Four
serial executions over four fire times fill a cache of two twice over, with two crashes between
them. In `registry` two requests race and a third inspects, repairs or deletes what they leave; an
instance with four requests also passes. One parameter is enough to tell a binding that fits
from one that does not. The six configurations of `serve_snapshots` differ in exactly what may change
under a retained snapshot: the operator, the column, the mapping, the parameters, and a row from before
mappings were required; the rows include a NULL and a cell no declared type accepts, and the sources
exceed `MaxRows`. `bindings` crosses a leap day, a month's end, a Sunday to Monday and a date whose
midnight is skipped or repeated, and an offset of seven days passes the calendar's last day.
In `access` two requests are what a lost update takes; five admin requests are enough to create a
method, point the endpoint at it, rotate twice and let another PUT overlap, and a data request may
fall between any two of them. The fragments of `contract` are the openings and ends of every lexical region,
a bind, and characters that must not be taken for them; four of them nest, cut short and adjoin any two
regions. Its one parameter runs through all combinations of type, `required`, default, `null`,
expression, `max_length` and filter, valid or not. In `metadata` the two bulk PUTs take the keys in opposite
orders, so they wait for each other, and two tasks with a connection each fill the pool, so that
what they wait for next is only freed by one of them.
Executions, requests and schedule ids are symmetric (fresh UUIDs that nothing orders); symmetry is
not used for `runs_live` and `metadata`, which check liveness properties.

`registry` and `runs_*` have a final stuttering step (`Quiet`, `Finished`) for the state in which the
bounds are used up, enabled only when nothing is in flight; a deadlock in any other state is an error.
`access` has none and needs none: data requests keep arriving. `contract` and `metadata` set
`CHECK_DEADLOCK FALSE`: the first stops once the endpoint is deleted and the requests are used up,
the second once every task has ended, and that no task is stuck before is its property `RequestsEnd`.

### Fairness

`runs_live` and `metadata` use it. `FairSpec` assumes weak fairness of each execution's steps (the event loop
runs every ready coroutine; an Oracle call is bounded by the connection's call timeout and ends in an answer or
an exception), of the trigger (a due job is submitted or skipped), of the commit of a request that has
flushed, and of the restart (a supervisor: `restart: unless-stopped` in the compose files).
Administrators, the clock and crashes owe nothing. An execution that waits for an admin transaction's
lock is freed by that transaction's own commit. `MetadataDatabase` assumes weak fairness of the steps
of each request and job: the event loop runs what can run, a statement ends, a wait for a
connection ends after the pool's 30 seconds, and PostgreSQL's deadlock detector fails one of a circle. Clients
owe nothing: no `Receive...` or `Begin...` action is fair.

## 4. Proofs

All theorems hold for every value of the constants that meets the named assumptions, so for any number
of executions, requests, rows, columns, dates and any bounds.

**ScheduleRunsProofs.** `IInv` = `TypeOK`, `PcMatchesRun` (what its place in the code says of an
execution's row and query), `KeysAreUnique` (two rows have two keys), `CacheIsBacked` and
`ReplaysHaveDates`. `OneQueryPerLogicalRun` is not inductive: the query before the INSERT proves
nothing by the time of the INSERT. What carries it is the unique key, and that the key of a row never
changes. From it: `TypeCorrect`, `QueriedOnce`, `SnapshotsAreOfSuccesses`, `HistoryNeverRewritten`
(an action property), `CacheFollowsSuccess` (another),
`NoSnapshotAfterDeletion` (with `NothingToStore`: no transaction holds a snapshot of a deleted endpoint)
and `Refinement` (`Spec => Logical!Spec`: InsertRun maps to Begin, the two commits
to Succeed and Fail, DeleteEndpoint to Purge, everything else stutters). Assumptions: run ids are not
numbers, statuses are not NULL, `Keep` is positive, dates are naturals.

A second part is about scheduled executions alone. They are serial (`OneAtATime`: at most one execution
is under way, because `max_instances` is 1 and a stop ends it), but the properties relate executions
that are far apart. Three invariants on top of `IInv` carry them; TLC checked each before it was proved.

* `RetentionInv`: `OneAtATime`, `StampsGrow` (no two snapshots were begun at once), `PrunesRight` (what
  `delete_old` has read is still what its commit finds) and the bound itself, which the next run needs.
  Hence `CacheIsBounded` and, since a commit leaves the `Keep` newest of at most `Keep` + 1,
  `PrunedBeyondKeep`. Both assume `OnlyScheduled` (`run_now` is not used): with manual runs
  another execution commits between the two statements (section 6).
* `OrderInv`: the row's `next_run_at` is never past the job's next time, which is never past the next
  fire (`TimesAhead`), fires are submitted in order (`CallsInOrder`), the execution in hand finds a
  `next_run_at` that is due and leaves a later one (`Answering`), and the keys are behind `next_run_at`
  and in the order of the fires (`KeysInOrder`). Hence
  `RunsInNominalOrder`, under `NoReregistration`: a PUT or resume moves `next_run_at` between
  a fire and the read that answers it. Restarts are allowed.
* `FreshInv`: before the process first stops, the running execution has the persisted `next_run_at` and every
  earlier run is behind it. Hence `FiresAreNotSkipped`, under `Undisturbed` (no admin requests either): a
  replay takes the key (`stuck_after_replay`), a PUT may bring `next_run_at` back to a time that has a
  run, and a deletion refuses the INSERT of the run in flight.

Each hypothesis is a condition on the constants that say which requests occur, and holds in `runs_scheduled`.

**SnapshotServeProofs.** `CoverageSound` is about the operators: for truthful mappings, if the resolved
parameters cover the request's, filtering the query's result for the former gives its result for the
latter. Its core, `OneParameter`, goes through the operators and NULLs of one parameter. `Complete`
and `CoveredServed` lift it to the specification with `IInv` = `TypeOK` + `SnapshotsValidated` (every
retained snapshot passed the validation under its own configuration) + `AnswerIsComplete`.
`CoverageExact` is the other direction as well: what the code refuses as uncovered, filtering would really
get wrong. That cannot hold of any rows whatever (on an empty table everything covers everything), so it
assumes `Discriminating`: the operators are the three of `schemas/endpoint.py:172-173`, only a NULL
declared to mean "all" selects anything, and each value a parameter accepts is that of some row and not of
every row. TLC evaluates the assumption on the instance of `serve_snapshots`.

**ScheduleRegistryProofs.** `IInv` conjoins what is known of a session at each of its steps
(`Shapes`, `Sessions`, `ReadRows`), of the locks (`Locks`: exclusive, `NewIds`: an inserted row is
known to its session only; `DeletionExcludes`: a deletion of the endpoint holds every row and no INSERT is
under way)
and of the registry: `PendingAgrees` says of a request that has touched the job and not committed that
the job already matches the row as it is going to be, `SettledAgrees` is `RegistryAgrees`
while a change may be flushed and its job not yet touched. One lemma per action. Results: `TypeCorrect`, `RegistryFollowsTable`,
`JobsHaveRows`, `ConfigurationFits`.

**ScheduleBindingsProofs.** `MidnightIsOfItsDate`: in every zone that skips no whole date, the instant
`run_now` computes falls on its own date. `WindowsAreCalendar`: for any calendar with months, every
preset is the documented set of dates. `TypeCorrect`, `Fitting`, `Resolving`, `OfItsDate`, `Documented`
and `Tiling` follow from `IInv` = the checked invariants + `RunInFlight` (a started run not overtaken
has the committed schedule; its instant is of its date in the timezone it was made in), `RunResolved` and `PreviousFire` (the fire remembered is of the committed
schedule). `IsZone` admits one transition and excludes zones that skip a whole date.

**EndpointAccessProofs.** `IInv` = `RowsInv` + `RequestsInv`. `RowsInv` says that tables, counters and
sessions are well formed, that a method keeps its kind (`KindStays`), that every secret belongs to one
method (`Owned`), that a session's secret is its own (`Freshness`), and what a row can still become: a
replaced secret that is current again, or that a session is about to write back, is in `undone`
(`BackIsUndone`), with `KeyRotationIsFinal` and `PathIsKept`. It is needed because a PUT writes back a
configuration it read several steps earlier: what the table holds says nothing about what it will hold.
`RequestsInv` says the same of a data request at each of its reads (`RequestOK`) and conjoins the three
properties. One lemma per action. Results: `AccessTypeCorrect`, `ProofOfGrant`,
`RevokedRefused`, `InactiveRefused`, `KeysStayRotated`, `PathKept`.

**EndpointContractProofs.** `IInv` = `RowInv` (the row is made of columns that were sent, with valid
descriptors, and satisfies the mapping rule and the equality of binds where `raced` and `loose` do not
excuse it), `SessionsInv` (what each open PUT has been validated for: a PUT not raced commits what it was
validated as) and `AnswersInv`. For these the scanner is any function from texts to sets of names.
`RefusedExactly` rests on lemmas about `FieldDefault`: a descriptor whose default was accepted without
`enforce_required` is accepted with it. Results: `ContractTypeCorrect`, `BindsBound`, `SnapshotMapped`,
`RefusedExactly`, and `MaskLexical`, whose proof is about the scanner itself, for texts of any length over
any characters. The scanner ends a quoted region with a walk that skips doubled quotes two at a time, and a
comment or Q-literal with a search; the lexical rules say where a token ends by counting the quotes since its
opening. `RegionIsQuoteEnd` and `TokenIsQuoteEnd` bring both to one closed form, `RegionsAreTokens`
concludes that the two agree on the end of the region that opens at any position, and `MaskIsExact` goes from
there over the whole text by induction from its end: the positions still to be masked are those not in code.

**MetadataDatabaseProofs.** `LogTruthful`, from `LogInv`: what a caller at each step has recorded against what
it will send. `EditsAreAtomic` (an action property), from `EditInv`: what is left of a request's payload is its
end from some item on, each earlier item is among those written or those found stored, and no
payload asks for two values of a key (`AsksOnce`, for a GET because `Known` has no repetition), so that a
commit stores them all.

**NaturalLemmas.** Induction on a predicate is out of the provers' reach, induction over a *set* is not: a set
of counterexamples that is not empty has a least element. `LeastElement`, `UpTo` and `DownFrom` state
this for intervals, and `RecursiveFunction` and `BackwardFunction` that a function defined by recursion
exists and obeys its equation, by collecting its finite approximations; without that nothing follows from the
definitions of `MissingDefaults` and of the scanner.

Every invariant and action property of the passing runs is stated by a theorem. Only model-checked: `RunsSettle` and
`RequestsEnd`, which are liveness properties under fairness and rest on ENABLED; and the violation runs, each
of which needs its counterexample only.

## 5. Properties that hold only under a condition

* `NoSkippedFire` stops at the first restart: APScheduler is started before the restored
  `next_run_at` is committed, so a job that fires in between finds the value of before the stop. With
  administrators' requests it does not hold (section 4).
* `RetentionBound` and `PrunesOnlyBeyondKeep` are for executions without manual runs, `NominalOrder` also
  without a PUT or resume of the schedule.
* `RegistryAgrees` and `NoStrayJob` except `drift`, `ConfigFits` excepts `skew`; both conditions are
  reachable. In particular two concurrent creates leave two schedules of one endpoint, and
  `get_by_endpoint_id` (`scalar_one_or_none`) then raises for every PUT or deletion of that endpoint.
  A job that drifted active keeps running: an execution does not look at `is_active` of its schedule.
* `AnswerIsComplete` needs truthful mappings, which nothing in the program can verify, and an uncut
  snapshot.
* `SavedResolves` excepts a run overtaken by a save, and dates whose offset or window leaves
  `date.min .. date.max`.
* `RevokedIsRefused` excepts a secret that a PUT had read before the rotation committed and writes back
  after (`undone`; the disagreement `rotation_undone`). An api_key's PUT never writes its
  config, so `KeyRotationIsFinal` has no exception.
* `InactiveIsRefused` excepts a method that a PUT asks to activate after the request arrived.
* `PathIsKept` excepts the deletion of the method (ON DELETE SET NULL; the endpoint then refuses every request)
  and a PUT committed over a row that changed since it was read.
* `BindsAreBound` holds from a PUT of both SQL and schema, or of a scheduled endpoint, up to one that sends
  one of them alone or is committed over a changed row (`loose`); `SnapshotIsMapped` excepts
  the latter (`raced`). A preview without a schema passes the values on as they come.
* `RunIsOfItsDate` excepts a replay whose request read another timezone than its execution loads: a PUT
  of the timezone in between (section 6). `WindowIsCalendar` is about the date that the run resolves.
* `LogIsTruthful` accepts a warning in place of a row (`lost`): `_write` swallows the pool's timeout and whatever
  the INSERT or the commit raises. It does not speak of a request
  that is cancelled: `CancelledError` is not an `Exception`, so no row is written.
* `WholeOrNothing` excepts values that the request found stored: their UPDATE is omitted, so another
  request may have changed them by its commit, and two bulk PUTs may leave a mixture of both.
* A replay of a date whose run failed or was lost is dropped as a duplicate; the key ignores the
  status. That is the documented idempotency, and `HistoryIsFinal` depends on it.

## 6. Disagreements

Where the code does not do what a document, a comment or a docstring says. The first three have a run
that finds the property violated, and `PROJECT.json` quotes the text.

| | What happens |
|---|---|
| run `stuck_after_replay` | A replay takes the pending nominal time. The fire that finds it taken returns without advancing `next_run_at`, so later fires, which never ran, are skipped as its duplicates. |
| run `active_unregistered` | A resume or PUT whose UPDATE is omitted touches the job while another request's change is uncommitted: an active row ends without a job. |
| run `rotation_undone` | A PUT of `expire_minutes` or a username reads `config_json` before a rotation commits and writes it back after: the replaced secret is current again ("invalidates all previously issued credentials", SECURITY.md:87). |
| `services/scheduler.py:136`, 284-287 | A manual run commits the job's already advanced next run time between the submission of a fire and its read: the delayed fire resolves the next logical date, not "the same" (docs/architecture.md:69-71). |
| `repositories/snapshot.py:56-77` | Between the two statements of `delete_old` another run commits a newer snapshot, which the second statement deletes, against its docstring (line 54). `PrunesOnlyBeyondKeep` holds without manual runs. |
| `services/scheduler.py:225`, `sql/executor.py:59` | A scheduled result is cut at 10000 rows without a mark; its snapshot still counts as covering "the complete request" (docs/scheduler_parameter_bindings.md:148-149), and a 200 answer lacks rows. |
| `services/schedule.py:152`, `services/endpoint.py:223-236` | The SQL is edited while no schedule is attached; a schedule created afterwards is checked against the schema alone, not for "exact coverage of the endpoint's SQL binds" (docs/architecture.md:85). |
| `services/settings.py:79` | A GET that found a key missing overwrites what an administrator's PUT inserted before its upsert, though it seeds only "missing" settings (line 72). |
| `services/schedule.py:315-326`, `services/scheduler.py:125`, 197-203 | `run_now` turns the date into an instant in the timezone its session reads; the execution turns it back in the timezone it reads again. With a PUT of the timezone between them, not the "particular business date" is replayed (docs/scheduler_parameter_bindings.md:223) but one that instant has in the new timezone. |
| `services/access_log.py:107-133` | With the pool exhausted, a request cancelled, a path longer than the 500 characters of `access_logs.path` (models/access_log.py:30) or an error of the database, the log row is lost and a warning logged, except for a cancellation; "Access logs record all data endpoint requests" (docs/security_checklist.md:64). |
| `schemas/connection.py` `identifier_invariant` | A PUT of one of `service_name` and `sid` is not compared with the row, which may end with both or neither ("Exactly one ... enforced in service layer", models/connection.py:42). `pool_min` and `pool_max` likewise. |

## 7. Not modelled

* JWT, password hashing and encryption: stateless uses of cryptographic libraries. The expiry of a token is
  one more refusal.
* Health probes, lists and the schedule preview: they read only, through operators modelled elsewhere.
* Connection records beyond `is_active` and deletion: their columns are written in one
  statement and read by the driver; the connection test is driver I/O.
* Unique names and paths: a check that answers 409 and a constraint that answers 500 when two requests
  race. A NULL sent for a column that takes none is a 500 that changes nothing.
* Middleware, logging, the React console, packaging: no state the modelled behaviour depends on. The
  deployment's single process is an assumption of `ScheduleRuns` and `ScheduleRegistry`.
* Oracle, PostgreSQL, SQLAlchemy's pool, APScheduler and zoneinfo are modelled from how the code uses them.
* The text of SQL except in `SqlScanner`: elsewhere parameters are names, and values are integers, NULL or
  representatives of what the types tell apart.

## 8. Plan

Done, in this order: `ScheduleRuns` + `LogicalRuns` (the heart: claims, cache, crashes);
`SnapshotFilter` + `SnapshotServe` (what clients get from it); `ScheduleRegistry` (the concurrent
administration around both); `CalendarWindows` + `ScheduleBindings` (which dates are loaded);
`EndpointAccess` (who is let in); `SqlScanner` + `EndpointContract` (what a query is given);
`SettingsStore` + `AccessLogging` + `MetadataDatabase` (the shared database), each followed by its
proofs.

Next, most important first:

1. Weaker hypotheses for `CacheIsBounded`, `RunsInNominalOrder` and `FiresAreNotSkipped`: instead of excluding
   manual runs and re-registrations altogether, a history variable that says when one has overlapped an
   execution, as `drift` does in `ScheduleRegistry`.
2. The composition of `ScheduleRuns` with the resolution of `ScheduleBindings` and the validation of
   `SnapshotServe`, which it abstracts by a nondeterministic failure.
3. Connection records: the identifier and pool rules of partial PUTs against the row.
4. Cancellation of requests (a client that disconnects) in `AccessLogging` and `MetadataDatabase`.
