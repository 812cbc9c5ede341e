---------------------------- MODULE ScheduleRuns ----------------------------
(***************************************************************************)
(* The execution of one snapshot schedule:                                 *)
(* backend/app/services/scheduler.py, with the repositories it calls, the  *)
(* PostgreSQL rows it shares with the admin API, and the in-memory         *)
(* APScheduler job that fires it.                                          *)
(*                                                                         *)
(* Nominal fire times are the naturals 1, 2, 3, ...; `now` is the latest   *)
(* one the wall clock has passed, so the trigger's first fire time that is *)
(* not in the past is now + 1.  An execution of execute_scheduled_job is a *)
(* member of Execs; it is one run id, one database session and one         *)
(* asyncio task, and its steps are the stretches of code between two       *)
(* awaits at which another session's commit can become visible.            *)
(*                                                                         *)
(* Database reads are READ COMMITTED: a step reads the committed rows and  *)
(* the uncommitted rows of its own transaction.  SQLAlchemy's identity map *)
(* keeps attributes as they were first loaded in a session.                *)
(***************************************************************************)
EXTENDS Naturals, FiniteSets

CONSTANTS
    Execs,        \* executions of execute_scheduled_job (one run id each)
    None,         \* SQL NULL / Python None
    ReplayDates,  \* logical dates an administrator may ask run_now to replay
    Keep,         \* the setting snapshot_retention_count
    AdhocRuns,    \* BOOLEAN: run_now without a logical date is used
    AdminOps,     \* administrator requests that interfere with executions
    MaxTime,      \* bound: the clock stops at this fire time
    MaxCrashes    \* bound: how often the process stops and is started again

ASSUME ExecsAssumption ==
    IsFiniteSet(Execs) /\ Execs \cap Nat = {} /\ None \notin Nat \cup Execs
ASSUME NoneAssumption == None \notin {"running", "success", "failed"}
ASSUME KeepAssumption == Keep \in Nat \ {0}
ASSUME DatesAssumption == ReplayDates \subseteq Nat
ASSUME OpsAssumption ==
    AdminOps \subseteq {"reregister", "delete_schedule", "delete_endpoint"}
ASSUME BoundsAssumption == MaxTime \in Nat /\ MaxCrashes \in Nat /\ AdhocRuns \in BOOLEAN

VARIABLES
    now,          \* the latest nominal fire time that has passed
    phase,        \* the API process: "up", "restoring" or "down"
    crashes,      \* how often it stopped (bounded by MaxCrashes)
    job,          \* next_run_time of the APScheduler job, None if there is none
    scheduleRow,  \* the schedules row exists
    endpointRow,  \* the endpoints row exists
    nextRunAt,    \* schedules.next_run_at, committed
    pendingNext,  \* next_run_at in an open admin transaction, None if none
    runs,         \* job_runs.status of the run of each execution, None: no row
    snaps,        \* executions whose snapshot row is committed
    pc,           \* where each execution is
    call,         \* how it was called: trigger and time
    key,          \* its logical_run_time = job_runs.scheduled_for
    loaded,       \* schedule.next_run_at as its session loaded it
    stamp,        \* start order of the transaction that writes its snapshot
    kept,         \* keep_ids of its delete_old
    doomed,       \* snapshots its transaction has deleted, uncommitted
    newNext       \* next_run_at its transaction is about to write

clockVars == <<now, phase, crashes>>
dbVars    == <<scheduleRow, endpointRow, nextRunAt, pendingNext, runs, snaps>>
execVars  == <<pc, call, key, loaded, stamp, kept, doomed, newNext>>
vars      == <<clockVars, job, dbVars, execVars>>

Time == 0 .. (MaxTime + 1)
Key  == Time \cup ReplayDates \cup Execs   \* Execs: the instants they start at

Triggers == {"scheduled", "manual", "replay"}
Waiting  == {"idle"}
Working  == {"submitted", "checking", "inserting", "loading", "querying",
             "saving", "retaining", "pruning", "deleting", "closing",
             "failing", "failclosing"}
Ended    == {"missing", "skipped", "finished", "lost"}

TypeOK ==
    /\ now \in 0 .. MaxTime
    /\ phase \in {"up", "restoring", "down"}
    /\ crashes \in Nat
    /\ job \in Time \cup {None}
    /\ scheduleRow \in BOOLEAN /\ endpointRow \in BOOLEAN
    /\ nextRunAt \in Time \cup {None} /\ pendingNext \in Time \cup {None}
    /\ runs \in [Execs -> {"running", "success", "failed"} \cup {None}]
    /\ snaps \in SUBSET Execs
    /\ pc \in [Execs -> Waiting \cup Working \cup Ended]
    /\ call \in [Execs -> [trigger: Triggers, time: Time \cup ReplayDates \cup {None}]]
    /\ key \in [Execs -> Key \cup {None}]
    /\ loaded \in [Execs -> Time \cup {None}]
    /\ stamp \in [Execs -> Nat]
    /\ kept \in [Execs -> SUBSET Execs]
    /\ doomed \in [Execs -> SUBSET Execs]
    /\ newNext \in [Execs -> Time \cup {None}]
    /\ \A e \in Execs : pc[e] \in Working \ {"submitted"} => key[e] # None

(* create_schedule has been committed and its job registered. *)
Init ==
    /\ now = 0 /\ phase = "up" /\ crashes = 0
    /\ job = 1 /\ nextRunAt = 1 /\ pendingNext = None
    /\ scheduleRow = TRUE /\ endpointRow = TRUE
    /\ runs = [e \in Execs |-> None]
    /\ snaps = {}
    /\ pc = [e \in Execs |-> "idle"]
    /\ call = [e \in Execs |-> [trigger |-> "manual", time |-> None]]
    /\ key = [e \in Execs |-> None]
    /\ loaded = [e \in Execs |-> None]
    /\ stamp = [e \in Execs |-> 0]
    /\ kept = [e \in Execs |-> {}]
    /\ doomed = [e \in Execs |-> {}]
    /\ newNext = [e \in Execs |-> None]

-----------------------------------------------------------------------------
(***************************************************************************)
(* The APScheduler job (in memory, not under src/).                        *)
(***************************************************************************)

(* Executions that count against max_instances = 1: run_now's do not. *)
Instances == {e \in Execs : pc[e] \in Working /\ call[e].trigger = "scheduled"}

Due == job # None /\ job <= now

(* The clock passes the next fire time. *)
Tick ==
    /\ now < MaxTime
    /\ now' = now + 1
    /\ UNCHANGED <<phase, crashes, job, dbVars, execVars>>

(* A due job is submitted for the latest fire time (coalesce) and its        *)
(* next_run_time advanced in the same stretch of the event loop, before the  *)
(* coroutine has read anything.                                              *)
SubmitFire(e) ==
    /\ Due /\ pc[e] = "idle" /\ Instances = {}
    /\ job' = now + 1
    /\ pc' = [pc EXCEPT ![e] = "submitted"]
    /\ call' = [call EXCEPT ![e] = [trigger |-> "scheduled", time |-> now]]
    /\ UNCHANGED <<clockVars, dbVars, key, loaded, stamp, kept, doomed, newNext>>

(* A due fire that never reaches the code: an instance is still running      *)
(* (max_instances), or the loop was blocked past misfire_grace_time.         *)
SkipFire ==
    /\ Due
    /\ job' = now + 1
    /\ UNCHANGED <<clockVars, dbVars, execVars>>

-----------------------------------------------------------------------------
(***************************************************************************)
(* execute_scheduled_job.                                                  *)
(***************************************************************************)

(* POST /schedules/{id}/run executes in the request, outside APScheduler. *)
RunNow(e) ==
    /\ phase = "up" /\ scheduleRow /\ pc[e] = "idle"
    /\ \/ /\ AdhocRuns
          /\ call' = [call EXCEPT ![e] = [trigger |-> "manual", time |-> None]]
       \/ \E d \in ReplayDates :
            call' = [call EXCEPT ![e] = [trigger |-> "replay", time |-> d]]
    /\ pc' = [pc EXCEPT ![e] = "submitted"]
    /\ UNCHANGED <<clockVars, job, dbVars, key, loaded, stamp, kept, doomed, newNext>>

(* Mutants: without the last fallback; the live job's time for the persisted. *)
LogicalRunTimeNoFallback(e) ==
    IF call[e].trigger = "scheduled" THEN nextRunAt ELSE call[e].time
LogicalRunTimeLiveJob(e) == IF call[e].trigger = "replay" THEN call[e].time ELSE job

(* logical_run_time: the date asked for; else, for the scheduler, the        *)
(* persisted next_run_at; else the instant the execution started at, which   *)
(* no other execution shares.                                                *)
LogicalRunTime(e) ==
    IF call[e].trigger = "replay" THEN call[e].time
    ELSE IF call[e].trigger = "scheduled" /\ nextRunAt # None THEN nextRunAt
    ELSE e

ReadSchedule(e) ==
    /\ pc[e] = "submitted"
    /\ IF scheduleRow
       THEN /\ key' = [key EXCEPT ![e] = LogicalRunTime(e)]
            /\ loaded' = [loaded EXCEPT ![e] = nextRunAt]
            /\ pc' = [pc EXCEPT ![e] = "checking"]
       ELSE /\ pc' = [pc EXCEPT ![e] = "missing"]
            /\ UNCHANGED <<key, loaded>>
    /\ UNCHANGED <<clockVars, job, dbVars, call, stamp, kept, doomed, newNext>>

(* A job_runs row with this (schedule_id, scheduled_for).  Deleting the      *)
(* schedule sets schedule_id to NULL in its runs.                            *)
Taken(k) == scheduleRow /\ \E f \in Execs : runs[f] # None /\ key[f] = k

(* Mutant: a hit on a failed run reopens it. *)
CheckExistingReopens(e) ==
    /\ pc[e] = "checking"
    /\ pc' = [pc EXCEPT ![e] = IF Taken(key[e]) THEN "skipped" ELSE "inserting"]
    /\ runs' = [f \in Execs |-> IF runs[f] = "failed" /\ key[f] = key[e]
                               THEN "running" ELSE runs[f]]
    /\ UNCHANGED <<clockVars, job, scheduleRow, endpointRow, nextRunAt, pendingNext, snaps,
                   call, key, loaded, stamp, kept, doomed, newNext>>

(* The existing-run query; its hit returns at once, writing nothing. *)
CheckExisting(e) ==
    /\ pc[e] = "checking"
    /\ pc' = [pc EXCEPT ![e] = IF Taken(key[e]) THEN "skipped" ELSE "inserting"]
    /\ UNCHANGED <<clockVars, job, dbVars, call, key, loaded, stamp, kept, doomed, newNext>>

(* Mutant: without the unique key only the earlier query protects. *)
InsertableNoKey(e) == scheduleRow

(* INSERT and COMMIT of the running row.  The unique key, or the foreign key *)
(* of a schedule deleted meanwhile, raises IntegrityError.                   *)
Insertable(e) == scheduleRow /\ ~Taken(key[e])

InsertRun(e) ==
    /\ pc[e] = "inserting"
    /\ IF Insertable(e)
       THEN /\ runs' = [runs EXCEPT ![e] = "running"]
            /\ pc' = [pc EXCEPT ![e] = "loading"]
       ELSE /\ pc' = [pc EXCEPT ![e] = "skipped"]
            /\ UNCHANGED runs
    /\ UNCHANGED <<clockVars, job, scheduleRow, endpointRow, nextRunAt, pendingNext, snaps,
                   call, key, loaded, stamp, kept, doomed, newNext>>

(* A transaction's position in the order of transaction starts. *)
NextStamp == 1 + Cardinality({e \in Execs : stamp[e] # 0})

(* Load the endpoint, resolve the parameters, commit them to the run, then   *)
(* begin the transaction of the connection check, whose start time becomes   *)
(* the snapshot's created_at (server default now()), and send the query.     *)
(* Missing or inactive endpoint, unresolvable binding, unusable connection:  *)
(* ValueError.                                                               *)
StartQuery(e) ==
    /\ pc[e] = "loading"
    /\ \/ /\ endpointRow
          /\ stamp' = [stamp EXCEPT ![e] = NextStamp]
          /\ pc' = [pc EXCEPT ![e] = "querying"]
       \/ /\ pc' = [pc EXCEPT ![e] = "failing"]
          /\ UNCHANGED stamp
    /\ UNCHANGED <<clockVars, job, dbVars, call, key, loaded, kept, doomed, newNext>>

(* Oracle answers with rows that match the resolved parameters, or anything  *)
(* raises: driver error, timeout, row validation.                            *)
EndQuery(e) ==
    /\ pc[e] = "querying"
    /\ \E next \in {"saving", "failing"} : pc' = [pc EXCEPT ![e] = next]
    /\ UNCHANGED <<clockVars, job, dbVars, call, key, loaded, stamp, kept, doomed, newNext>>

(* Mutants: the snapshot is committed when it is created; its foreign key to *)
(* the endpoint is gone.                                                     *)
SaveSnapshotCommits(e) ==
    /\ pc[e] = "saving"
    /\ pc' = [pc EXCEPT ![e] = IF endpointRow THEN "retaining" ELSE "lost"]
    /\ snaps' = IF endpointRow THEN snaps \cup {e} ELSE snaps
    /\ UNCHANGED <<clockVars, job, scheduleRow, endpointRow, nextRunAt, pendingNext, runs,
                   call, key, loaded, stamp, kept, doomed, newNext>>
SaveSnapshotNoKey(e) ==
    /\ pc[e] = "saving"
    /\ pc' = [pc EXCEPT ![e] = "retaining"]
    /\ UNCHANGED <<clockVars, job, dbVars, call, key, loaded, stamp, kept, doomed, newNext>>

(* Flush the snapshot.  If the endpoint was deleted during the query the     *)
(* foreign key fails the flush; the except branch then flushes again on a    *)
(* session that needs a rollback, raises PendingRollbackError, and the run   *)
(* is left "running".                                                        *)
SaveSnapshot(e) ==
    /\ pc[e] = "saving"
    /\ pc' = [pc EXCEPT ![e] = IF endpointRow THEN "retaining" ELSE "lost"]
    /\ UNCHANGED <<clockVars, job, dbVars, call, key, loaded, stamp, kept, doomed, newNext>>

(* Mutants: one snapshot fewer, or one more, is kept. *)
NewestShort(S, n) == {s \in S : Cardinality({t \in S : stamp[t] > stamp[s]}) < n - 1}
NewestLong(S, n) == {s \in S : Cardinality({t \in S : stamp[t] > stamp[s]}) <= n}

(* The newest n of a set of snapshots: created_at DESC LIMIT n. *)
Newest(S, n) == {s \in S : Cardinality({t \in S : stamp[t] > stamp[s]}) < n}

Visible(e) == snaps \cup {e}

(* delete_old, first statement: the ids to keep. *)
SelectKept(e) ==
    /\ pc[e] = "retaining"
    /\ kept' = [kept EXCEPT ![e] = Newest(Visible(e), Keep)]
    /\ pc' = [pc EXCEPT ![e] = "pruning"]
    /\ UNCHANGED <<clockVars, job, dbVars, call, key, loaded, stamp, doomed, newNext>>

(* Mutant: delete_old commits. *)
SelectOldCommits(e) ==
    /\ pc[e] = "pruning"
    /\ doomed' = [doomed EXCEPT ![e] = Visible(e) \ kept[e]]
    /\ snaps' = snaps \cap kept[e]
    /\ pc' = [pc EXCEPT ![e] = "deleting"]
    /\ UNCHANGED <<clockVars, job, scheduleRow, endpointRow, nextRunAt, pendingNext, runs,
                   call, key, loaded, stamp, kept, newNext>>

(* delete_old, second statement: the endpoint's snapshots not among them, as *)
(* committed by now.                                                         *)
SelectOld(e) ==
    /\ pc[e] = "pruning"
    /\ doomed' = [doomed EXCEPT ![e] = Visible(e) \ kept[e]]
    /\ pc' = [pc EXCEPT ![e] = "deleting"]
    /\ UNCHANGED <<clockVars, job, dbVars, call, key, loaded, stamp, kept, newNext>>

(* Flush the deletes, waiting for a transaction that deleted one of the same *)
(* rows; flush status = success; read the job's next run time.               *)
MarkSuccess(e) ==
    /\ pc[e] = "deleting"
    /\ \A f \in Execs \ {e} : pc[f] = "closing" => doomed[f] \cap doomed[e] = {}
    /\ newNext' = [newNext EXCEPT ![e] = job]
    /\ pc' = [pc EXCEPT ![e] = "closing"]
    /\ UNCHANGED <<clockVars, job, dbVars, call, key, loaded, stamp, kept, doomed>>

(* Mutant: only last_run_at is written. *)
WriteNextForgotten(e) == nextRunAt

(* The schedule row's UPDATE: SQLAlchemy omits a value equal to the one the  *)
(* session loaded, whatever the row holds by now.                            *)
WriteNext(e) ==
    IF scheduleRow /\ newNext[e] \notin {None, loaded[e]} THEN newNext[e] ELSE nextRunAt

(* UPDATE schedules (waits for an admin transaction on the row) and COMMIT. *)
CommitSuccess(e) ==
    /\ pc[e] = "closing" /\ pendingNext = None
    /\ runs' = [runs EXCEPT ![e] = "success"]
    /\ snaps' = Visible(e) \ doomed[e]
    /\ nextRunAt' = WriteNext(e)
    /\ pc' = [pc EXCEPT ![e] = "finished"]
    /\ UNCHANGED <<clockVars, job, scheduleRow, endpointRow, pendingNext,
                   call, key, loaded, stamp, kept, doomed, newNext>>

(* Mutant: the exception is logged and swallowed. *)
MarkFailedSwallows(e) ==
    /\ pc[e] = "failing"
    /\ pc' = [pc EXCEPT ![e] = "finished"]
    /\ UNCHANGED <<clockVars, job, dbVars, call, key, loaded, stamp, kept, doomed, newNext>>

(* The except branch: flush status = failed (or timeout) and read the job's  *)
(* next run time, ...                                                        *)
MarkFailed(e) ==
    /\ pc[e] = "failing"
    /\ newNext' = [newNext EXCEPT ![e] = job]
    /\ pc' = [pc EXCEPT ![e] = "failclosing"]
    /\ UNCHANGED <<clockVars, job, dbVars, call, key, loaded, stamp, kept, doomed>>

(* Mutant: a failed execution commits the snapshot its session still holds. *)
CommitFailureKeepsRows(e) ==
    /\ pc[e] = "failclosing" /\ pendingNext = None
    /\ runs' = [runs EXCEPT ![e] = "failed"]
    /\ snaps' = IF stamp[e] # 0 /\ endpointRow THEN snaps \cup {e} ELSE snaps
    /\ nextRunAt' = WriteNext(e)
    /\ pc' = [pc EXCEPT ![e] = "finished"]
    /\ UNCHANGED <<clockVars, job, scheduleRow, endpointRow, pendingNext,
                   call, key, loaded, stamp, kept, doomed, newNext>>

(* ... and commit. *)
CommitFailure(e) ==
    /\ pc[e] = "failclosing" /\ pendingNext = None
    /\ runs' = [runs EXCEPT ![e] = "failed"]
    /\ nextRunAt' = WriteNext(e)
    /\ pc' = [pc EXCEPT ![e] = "finished"]
    /\ UNCHANGED <<clockVars, job, scheduleRow, endpointRow, pendingNext, snaps,
                   call, key, loaded, stamp, kept, doomed, newNext>>

-----------------------------------------------------------------------------
(***************************************************************************)
(* Administrator requests, and the life of the process.                    *)
(***************************************************************************)

(* PUT of an active schedule, or resume: the job is removed and added again, *)
(* and its next run time flushed - which locks the row until the commit -    *)
(* unless it equals the value just refreshed.                                *)
Reregister ==
    /\ "reregister" \in AdminOps
    /\ phase = "up" /\ scheduleRow /\ pendingNext = None
    /\ job' = now + 1
    /\ pendingNext' = IF nextRunAt = now + 1 THEN None ELSE now + 1
    /\ UNCHANGED <<clockVars, scheduleRow, endpointRow, nextRunAt, runs, snaps, execVars>>

CommitNext ==
    /\ phase = "up" /\ pendingNext # None
    /\ nextRunAt' = pendingNext /\ pendingNext' = None
    /\ UNCHANGED <<clockVars, job, scheduleRow, endpointRow, runs, snaps, execVars>>

(* Executions between the flush of their job_runs row and their commit: they *)
(* hold its lock and want the schedule's.  A delete of the schedule holds    *)
(* the schedule's and wants theirs (ON DELETE SET NULL), so PostgreSQL       *)
(* aborts one: either the request changes nothing, or the execution's flush  *)
(* fails and its run is left "running".                                      *)
HoldRunLock == {e \in Execs : pc[e] \in {"closing", "failclosing"}}
LoseLockHolders == pc' = [e \in Execs |-> IF e \in HoldRunLock THEN "lost" ELSE pc[e]]

(* DELETE /schedules/{id}: commit, then remove the job. *)
DeleteSchedule ==
    /\ "delete_schedule" \in AdminOps
    /\ phase = "up" /\ scheduleRow /\ pendingNext = None
    /\ scheduleRow' = FALSE /\ job' = None
    /\ LoseLockHolders
    /\ UNCHANGED <<clockVars, endpointRow, nextRunAt, pendingNext, runs, snaps,
                   call, key, loaded, stamp, kept, doomed, newNext>>

(* DELETE /endpoints/{id}: cascades to the schedule and the snapshots; waits *)
(* for the transactions that inserted a snapshot of the endpoint.            *)
DeleteEndpoint ==
    /\ "delete_endpoint" \in AdminOps
    /\ phase = "up" /\ endpointRow /\ pendingNext = None
    /\ \A e \in Execs : pc[e] \notin {"retaining", "pruning", "deleting", "closing"}
    /\ endpointRow' = FALSE /\ scheduleRow' = FALSE /\ job' = None
    /\ snaps' = {}
    /\ LoseLockHolders
    /\ UNCHANGED <<clockVars, nextRunAt, pendingNext, runs,
                   call, key, loaded, stamp, kept, doomed, newNext>>

(* The process stops, gracefully or not: the in-memory job store and every   *)
(* execution and open transaction are gone.                                  *)
Crash ==
    /\ phase # "down" /\ crashes < MaxCrashes
    /\ phase' = "down" /\ crashes' = crashes + 1
    /\ job' = None /\ pendingNext' = None
    /\ pc' = [e \in Execs |-> IF pc[e] \in Working THEN "lost" ELSE pc[e]]
    /\ UNCHANGED <<now, scheduleRow, endpointRow, nextRunAt, runs, snaps,
                   call, key, loaded, stamp, kept, doomed, newNext>>

(* start_scheduler starts APScheduler, then restore_active_schedules adds    *)
(* the job from the current time on; no request is served before it commits. *)
Restart ==
    /\ phase = "down"
    /\ phase' = "restoring"
    /\ job' = IF scheduleRow THEN now + 1 ELSE None
    /\ pendingNext' = IF scheduleRow /\ nextRunAt # now + 1 THEN now + 1 ELSE None
    /\ UNCHANGED <<now, crashes, scheduleRow, endpointRow, nextRunAt, runs, snaps, execVars>>

CommitRestore ==
    /\ phase = "restoring"
    /\ phase' = "up"
    /\ nextRunAt' = IF pendingNext # None THEN pendingNext ELSE nextRunAt
    /\ pendingNext' = None
    /\ UNCHANGED <<now, crashes, job, scheduleRow, endpointRow, runs, snaps, execVars>>

-----------------------------------------------------------------------------
(* One step of execution e once it has been called. *)
ExecStep(e) ==
    \/ ReadSchedule(e) \/ CheckExisting(e) \/ InsertRun(e)
    \/ StartQuery(e) \/ EndQuery(e)
    \/ SaveSnapshot(e) \/ SelectKept(e) \/ SelectOld(e)
    \/ MarkSuccess(e) \/ CommitSuccess(e)
    \/ MarkFailed(e) \/ CommitFailure(e)

(* The bounded instance is used up; the real system goes on. *)
Finished ==
    /\ now = MaxTime /\ phase = "up" /\ ~Due /\ pendingNext = None
    /\ \A e \in Execs : pc[e] \notin Working
    /\ UNCHANGED vars

Next ==
    \/ \E e \in Execs : SubmitFire(e) \/ RunNow(e) \/ ExecStep(e)
    \/ Tick \/ SkipFire
    \/ Reregister \/ CommitNext \/ DeleteSchedule \/ DeleteEndpoint
    \/ Crash \/ Restart \/ CommitRestore
    \/ Finished

Spec == Init /\ [][Next]_vars

(* Fairness: the event loop runs every ready coroutine, Oracle calls end     *)
(* (they are bounded by the connection's timeout), a request once begun      *)
(* commits, and a supervisor restarts the process.  Administrators, the      *)
(* clock and crashes owe nothing.                                            *)
FairSpec ==
    /\ Spec
    /\ \A e \in Execs : WF_vars(ExecStep(e))
    /\ WF_vars(SkipFire \/ \E e \in Execs : SubmitFire(e))
    /\ WF_vars(CommitNext) /\ WF_vars(Restart) /\ WF_vars(CommitRestore)
-----------------------------------------------------------------------------
(***************************************************************************)
(* Properties of every execution, whatever runs beside it.                 *)
(***************************************************************************)

(* Oracle is queried at most once for a logical run, whatever mix of fires,  *)
(* replays and restarts asks for it: the existing-run query and the unique   *)
(* key (schedule_id, scheduled_for) of job_runs.                             *)
OneQueryPerLogicalRun ==
    \A e, f \in Execs : e # f /\ stamp[e] # 0 /\ stamp[f] # 0 => key[e] # key[f]

(* A job_runs row keeps its logical time and, once success or failed, its    *)
(* status: no late answer, retry, restart or delete rewrites the history.    *)
HistoryIsFinal ==
    [][\A e \in Execs : runs[e] # None =>
           /\ key'[e] = key[e]
           /\ runs[e] # "running" => runs'[e] = runs[e]
           /\ runs'[e] # None]_vars

(* A retained snapshot is that of a run recorded as a success, so the data   *)
(* plane never serves rows of a run that failed, crashed or is in flight.    *)
CacheIsBacked == \A s \in snaps : runs[s] = "success"

(* The cache changes only in a step that completes a run successfully, or    *)
(* with its endpoint: a failed execution never replaces or prunes a retained *)
(* snapshot (delete_old shares the transaction that records the success).    *)
CacheChangesWithSuccess ==
    [][snaps' # snaps =>
          \/ endpointRow /\ ~endpointRow'
          \/ \E e \in Execs : runs[e] = "running" /\ runs'[e] = "success"]_snaps

(* Once an endpoint is deleted no execution still in flight brings a         *)
(* snapshot of it back.                                                      *)
DeletedEndpointHasNoCache == ~endpointRow => snaps = {}

(***************************************************************************)
(* Properties of scheduled executions alone: max_instances = 1 serialises  *)
(* them, across misfires, crashes and restarts.                            *)
(***************************************************************************)

(* Every snapshot a commit removes has Keep newer ones retained: delete_old  *)
(* deletes "beyond the keep count".                                          *)
PrunesOnlyBeyondKeep ==
    [][endpointRow' => \A s \in snaps \ snaps' :
           Cardinality({t \in snaps' : stamp[t] > stamp[s]}) >= Keep]_snaps

(* The cache never outgrows the setting. *)
RetentionBound == Cardinality(snaps) <= Keep

(* Until the process is restarted, a scheduled execution is never skipped as  *)
(* a duplicate: every fire that reaches the code finds a next_run_at that no  *)
(* run has used, however executions fail, overrun or misfire.                *)
NoSkippedFire ==
    crashes = 0 =>
        \A e \in Execs : call[e].trigger = "scheduled" => pc[e] # "skipped"

(* A scheduled run's nominal time is never later than the fire it answers,   *)
(* and later fires have later nominal times.                                 *)
NominalOrder ==
    \A e, f \in Execs :
        /\ runs[e] # None /\ call[e].trigger = "scheduled"
        /\ runs[f] # None /\ call[f].trigger = "scheduled"
        => /\ key[e] <= call[e].time
           /\ call[e].time < call[f].time => key[e] < key[f]

(***************************************************************************)
(* Liveness, under FairSpec.                                               *)
(***************************************************************************)

(* A run recorded as running is settled, unless its execution was lost.      *)
RunsSettle ==
    \A e \in Execs : runs[e] = "running" ~> runs[e] # "running" \/ pc[e] = "lost"

(***************************************************************************)
(* What the documentation says and the code does not do, refuted by a run  *)
(* of its own.                                                             *)
(***************************************************************************)

(* scheduler.py: the key makes retries idempotent "for a given fire time", so *)
(* a fire is skipped only if that fire time already has a run.               *)
SkipsOnlyDuplicates ==
    \A e \in Execs : call[e].trigger = "scheduled" /\ pc[e] = "skipped" /\ scheduleRow
                        => \E f \in Execs : runs[f] # None /\ key[f] = call[e].time

(***************************************************************************)
(* Refinement: an execution session by session implements LogicalRuns.     *)
(***************************************************************************)
KeysWith(status) == {key[e] : e \in {f \in Execs : runs[f] = status}}

Logical == INSTANCE LogicalRuns
    WITH running   <- KeysWith("running"),
         succeeded <- KeysWith("success"),
         failed    <- KeysWith("failed"),
         cache     <- {key[e] : e \in snaps}

(* Every step is a step of the abstract ledger, or none. *)
ImplementsLogicalRuns == Logical!Spec
=============================================================================
