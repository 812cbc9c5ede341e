---------------------------- MODULE AccessLogging ----------------------------
(***************************************************************************)
(* The tasks that need a second connection while they hold one: a data     *)
(* request writes its access-log row through a session of its own          *)
(* (backend/app/services/access_log.py) before its request's session is    *)
(* closed, and a manual run of a schedule awaits the job, which opens its  *)
(* own session, with the schedule it read (services/schedule.py).  A job   *)
(* the scheduler fires has only its own.                                   *)
(*                                                                         *)
(* What the job does with its session is ScheduleRuns, what a data request *)
(* reads and answers EndpointAccess, EndpointContract and SnapshotServe:   *)
(* here a request is answered or refused or fails.                         *)
(***************************************************************************)
EXTENDS ConnectionPool

CONSTANTS
    Callers      \* data requests, manual runs and jobs, each received once

ASSUME CallsAssumption == Callers \subseteq Tasks

VARIABLES
    call,       \* each caller's progress
    rows,       \* access_logs: the request and the status logged
    lost        \* data requests for which _write logged a warning

callVars == <<call, rows, lost>>

DefaultStatus == 500

CallsInit ==
    /\ call = [c \in Callers |-> [kind |-> "none", at |-> "waiting",
                                   sent |-> 0, logged |-> DefaultStatus]]
    /\ rows = {} /\ lost = {}

ReceiveCall(c, kind) ==
    /\ call[c].at = "waiting"
    /\ call' = [call EXCEPT ![c].kind = kind, ![c].at = "open"]
    /\ UNCHANGED <<rows, lost, held>>

(* The first statement of the task's session. *)
Open(c) ==
    /\ call[c].at = "open"
    /\ Checkout(c)
    /\ call' = [call EXCEPT ![c].at = "work"]
    /\ UNCHANGED <<rows, lost>>

EndCall(c) == call' = [call EXCEPT ![c].at = "ended"] /\ Close(c)

(* A manual run answers 500 and a job is lost. *)
OpenFails(c) ==
    /\ call[c].at = "open" /\ call[c].kind # "data"
    /\ GivesUp(c)
    /\ EndCall(c)
    /\ UNCHANGED <<rows, lost>>

(* The block's end: what it returned or raised is what the client will see, *)
(* and the log context has recorded a status.                               *)
LeavesBlock(c, sent, logged) ==
    /\ call' = [call EXCEPT ![c].at = "log", ![c].sent = sent, ![c].logged = logged]
    /\ UNCHANGED <<rows, lost, held>>

Returns(c, st) == call[c].at = "work" /\ LeavesBlock(c, st, st)

RaisesHttpUnrecorded(c, st) == call[c].at = "work" /\ LeavesBlock(c, st, call[c].logged)

RaisesHttp(c, st) == call[c].at = "work" /\ LeavesBlock(c, st, st)

(* Nothing has been recorded: set_status comes last in the block. *)
Raises(c) ==
    /\ call[c].at = "work" \/ (call[c].at = "open" /\ GivesUp(c))
    /\ LeavesBlock(c, 500, call[c].logged)

ServeData(c) ==
    /\ call[c].kind = "data"
    /\ Returns(c, 200) \/ RaisesHttp(c, 401) \/ Raises(c)

OpenLog(c) ==
    /\ call[c].at = "log"
    /\ Checkout(c)
    /\ call' = [call EXCEPT ![c].at = "insert"]
    /\ UNCHANGED <<rows, lost>>

RowOf(c) == [request |-> c, status |-> call[c].logged]

InsertRow(c) ==
    /\ call[c].at = "insert"
    /\ rows' = rows \cup {RowOf(c)}
    /\ EndCall(c)
    /\ UNCHANGED lost

(* _write swallows every exception: the pool's timeout, a value that its     *)
(* column is too short for, an error of the database at the INSERT or at the *)
(* COMMIT, which may then have been done.                                    *)
LogFails(c) ==
    /\ \/ call[c].at = "log" /\ GivesUp(c) /\ rows' = rows
       \/ call[c].at = "insert" /\ rows' \in {rows, rows \cup {RowOf(c)}}
    /\ lost' = lost \cup {c}
    /\ EndCall(c)

LogData(c) == OpenLog(c) \/ InsertRow(c) \/ LogFails(c)

(* execute_scheduled_job opens a session; a manual run still holds its own. *)
OpenJob(c) ==
    /\ call[c].kind = "manual" /\ call[c].at = "work"
    /\ Checkout(c)
    /\ call' = [call EXCEPT ![c].at = "job"]
    /\ UNCHANGED <<rows, lost>>

OpenJobFails(c) ==
    /\ call[c].kind = "manual" /\ call[c].at = "work"
    /\ GivesUp(c)
    /\ EndCall(c)
    /\ UNCHANGED <<rows, lost>>

FinishJob(c) ==
    /\ call[c].at = (IF call[c].kind = "manual" THEN "job" ELSE "work")
    /\ call[c].kind \in {"manual", "job"}
    /\ EndCall(c)
    /\ UNCHANGED <<rows, lost>>

CallStep(c) == \/ Open(c) \/ OpenFails(c) \/ ServeData(c) \/ LogData(c)
               \/ OpenJob(c) \/ OpenJobFails(c) \/ FinishJob(c)

CallsNext ==
    \E c \in Callers : \/ \E kind \in {"data", "manual", "job"} : ReceiveCall(c, kind)
                       \/ CallStep(c)

-----------------------------------------------------------------------------
(***************************************************************************)
(* Properties.                                                             *)
(***************************************************************************)

(* The access log and the warnings together are the record of what clients   *)
(* saw: each answer, a refusal or a failure included, has a row with the     *)
(* status that was sent or a warning that it could not be written, and a row *)
(* is an answer's.                                                           *)
LogIsTruthful ==
    LET data == {c \in Callers : call[c].kind = "data" /\ call[c].at = "ended"}
        answers == {[request |-> c, status |-> call[c].sent] : c \in data}
    IN /\ rows \subseteq answers
       /\ \A a \in answers : a \in rows \/ a.request \in lost
=============================================================================
