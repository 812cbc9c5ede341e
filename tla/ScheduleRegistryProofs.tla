----------------------- MODULE ScheduleRegistryProofs -----------------------
(***************************************************************************)
(* Proofs about ScheduleRegistry, for any number of requests in flight,    *)
(* any payloads and any bounds: the registry follows the table, no job     *)
(* outlives its row, the endpoint accepts its schedule's bindings.         *)
(***************************************************************************)
EXTENDS ScheduleRegistry, FiniteSetTheorems, TLAPS

-----------------------------------------------------------------------------
(***************************************************************************)
(* The inductive invariant.  What the properties say of quiet rows needs   *)
(* what each session holds at each of its steps, whose row the locks make  *)
(* it, and what the job of a row being changed already says.               *)
(***************************************************************************)

(* The sessions are records of these nine fields. *)
Shape(q) ==
    q = [op |-> q.op, at |-> q.at, id |-> q.id, set |-> q.set, read |-> q.read, ep |-> q.ep,
         attached |-> q.attached, dirty |-> q.dirty, lock |-> q.lock]
Shapes ==
    /\ DOMAIN req = Requests
    /\ \A r \in Requests : Shape(req[r])
    /\ \A s \in DOMAIN jobs : jobs[s] = [timing |-> jobs[s].timing, paused |-> jobs[s].paused]

Edits(q) == q.op \in {"update", "pause", "resume"}

(* A session that changes a schedule row: nothing flushed or locked before   *)
(* the flush, and its row's lock from the first UPDATE on.                   *)
EditSession(q) ==
    /\ q.id \in used
    /\ q.at \in {"load", "check", "write", "refresh", "touch", "advance", "commit"}
    /\ q.op = "pause" => q.set = [active |-> FALSE]
    /\ q.op = "resume" => q.set = [active |-> TRUE]
    /\ PartOf(q.set, ScheduleTable)
    /\ q.at # "load" => q.read \in ScheduleTable
    /\ q.at \in {"load", "check", "write"} => q.lock = {} /\ DOMAIN q.dirty = {}
    /\ q.at \in {"refresh", "touch"} /\ DOMAIN q.dirty = {} => q.lock = {}
    /\ q.lock \subseteq {q.id}
    /\ DOMAIN q.dirty # {} => q.lock = {q.id}
    /\ DOMAIN q.dirty \subseteq DOMAIN q.set /\ \A c \in DOMAIN q.dirty : q.dirty[c] = q.set[c]
    /\ q.op = "update" /\ q.at \in {"write", "refresh", "touch", "advance", "commit"}
           /\ "bound" \in DOMAIN q.set => Fits(q.ep, q.set.bound)

(* A session that inserts one. *)
CreateSession(q) ==
    /\ q.id \in Schedules
    /\ q.at \in {"load", "check", "write", "touch", "advance", "commit"}
    /\ q.set \in ScheduleTable
    /\ IF q.at \in {"touch", "advance", "commit"}
       THEN q.lock = {q.id} /\ q.id \in used
       ELSE q.lock = {} /\ q.id \notin used
    /\ q.at # "load" => q.ep \in EndpointTable /\ Fits(q.ep, q.set.bound)

(* A session that deletes: from its commit on its schedule row is gone. *)
RemovalSession(q) ==
    /\ q.at \in {"load", "check", "write", "commit", "unregister"}
    /\ q.op = "delete" => q.id \in used /\ Endpoint \notin q.lock
    /\ q.op = "delete_endpoint" => q.id \in used \cup {None} /\ (q.at = "load" => q.id = None)
    /\ q.at # "commit" => q.lock = {}
    /\ q.at = "commit" /\ q.id \in DOMAIN schedules => q.id \in q.lock
    /\ q.at = "unregister" => q.id \notin DOMAIN schedules

EndpointSession(q) ==
    /\ q.id = None
    /\ q.at \in {"load", "check", "write", "commit"}
    /\ PartOf(q.set, EndpointTable)
    /\ q.at # "load" => q.ep \in EndpointTable
    /\ q.at # "commit" => q.lock = {} /\ DOMAIN q.dirty = {}
    /\ DOMAIN q.dirty # {} =>
           /\ q.lock = {Endpoint} /\ endpoint # None
           /\ q.dirty = Differing(q.set, q.ep)
    /\ q.lock \subseteq {Endpoint}
    /\ q.at \in {"write", "commit"} => \A b \in q.attached : Fits(Overlay(q.set, q.ep), b)

SessionOK(r) ==
    LET q == req[r]
    IN  IF q.at = "idle" THEN q = Idle
        ELSE /\ Edits(q) => EditSession(q)
             /\ q.op = "create" => CreateSession(q)
             /\ q.op \in {"delete", "delete_endpoint"} => RemovalSession(q)
             /\ q.op = "update_endpoint" => EndpointSession(q)
Sessions == \A r \in Requests : SessionOK(r)

Locks == \A r \in Requests : \A q \in Requests \ {r} : req[r].lock \cap req[q].lock = {}

(* Nobody else has got hold of a schedule that is being created. *)
NewId(r) ==
    req[r].op = "create" =>
        /\ req[r].id \notin DOMAIN schedules
        /\ req[r].at \notin {"advance", "commit"} => req[r].id \notin DOMAIN jobs
        /\ \A q \in Requests \ {r} :
              req[q].id = req[r].id => req[q].op # "create" /\ req[q].at = "load"
NewIds == \A r \in Requests : NewId(r)

(* The lock keeps the row that was read what it is. *)
ReadRow(r) ==
    Edits(req[r]) /\ req[r].at = "touch" /\ DOMAIN req[r].dirty # {}
        => req[r].read = Overlay(req[r].dirty, schedules[req[r].id])
ReadRows == \A r \in Requests : ReadRow(r)

JobAgrees(registry, s, row) ==
    IF row.active
    THEN s \in DOMAIN registry /\ registry[s] = [timing |-> row.timing, paused |-> FALSE]
    ELSE s \in DOMAIN registry => registry[s].paused

(* It has touched the job and its change of the row is not yet committed. *)
Pending(r) ==
    Edits(req[r]) /\ req[r].at \in {"advance", "commit"} /\ DOMAIN req[r].dirty # {}

Inserted(r) == req[r].op = "create" /\ req[r].at \in {"advance", "commit"}

PendingAgrees ==
    \A r \in Requests : req[r].id \notin drift =>
        /\ Pending(r) => JobAgrees(jobs, req[r].id, Overlay(req[r].dirty, schedules[req[r].id]))
        /\ Inserted(r) => JobAgrees(jobs, req[r].id, req[r].set)

SettledAgrees ==
    \A s \in DOMAIN schedules \ drift :
        (\A r \in Requests : Pending(r) => req[r].id # s) => JobAgrees(jobs, s, schedules[s])

(* The deletion of an endpoint holds every row, and no INSERT is under way. *)
Deletes(r) == req[r].op = "delete_endpoint" /\ req[r].at = "commit"
DeletionExcludes ==
    \A r \in Requests : Deletes(r) =>
        /\ Endpoint \in req[r].lock
        /\ DOMAIN schedules \subseteq req[r].lock
        /\ \A q \in Requests : req[q].op = "create" => req[q].lock = {}

IInv ==
    /\ TypeOK /\ Shapes /\ Sessions /\ Locks /\ NewIds
    /\ ReadRows /\ PendingAgrees /\ SettledAgrees /\ NoStrayJob
    /\ DeletionExcludes /\ ConfigFits

-----------------------------------------------------------------------------
(***************************************************************************)
(* Steps that touch neither the rows nor the registry: what a session may  *)
(* become without disturbing the others.                                   *)
(***************************************************************************)

(* The session of r goes from its present state to the next within itself.  *)
Inward(r) ==
    LET new == req'[r]
    IN  /\ UNCHANGED <<rows, jobs, failures, restarts, drift, skew>>
        /\ sent' \in 0 .. MaxRequests
        /\ \/ used' = used
           \/ req[r].op = "create" /\ new.id = req[r].id /\ used' = used \cup {new.id}
        /\ DOMAIN req' = Requests /\ Shape(new)
        /\ \A q \in Requests \ {r} : req'[q] = req[q]
        /\ new.at = "idle" \/
              /\ new.op \in Ops /\ new.at \in Steps
              /\ new.op # "create" => new.lock \subseteq {Endpoint} \cup DOMAIN schedules
        /\ SessionOK(r)'
        /\ \A q \in Requests \ {r} : new.lock \cap req[q].lock = {}
        /\ NewId(r)'
        /\ \A q \in Requests \ {r} : req[q].op = "create" /\ new.id = req[q].id
               => new.at = "load" /\ new.op # "create"
        /\ ReadRow(r)'
        /\ (Pending(r)' <=> Pending(r)) /\ (Inserted(r)' <=> Inserted(r))
        /\ Pending(r) \/ Inserted(r) =>
               new.id = req[r].id /\ new.dirty = req[r].dirty /\ new.set = req[r].set
        /\ req[r].at # "unregister" /\ new.at # "unregister"
        /\ Deletes(r)' =>
               /\ Endpoint \in new.lock /\ DOMAIN schedules \subseteq new.lock
               /\ \A q \in Requests : req[q].op = "create" => req[q].lock = {}
        /\ new.op = "create" /\ new.lock # {} =>
               \A q \in Requests \ {r} : ~Deletes(q)

LEMMA IdleFields ==
    /\ Shape(Idle) /\ Idle.at = "idle" /\ Idle.op = "none" /\ Idle.id = None
    /\ Idle.lock = {} /\ DOMAIN Idle.dirty = {}
BY DEF Shape, Idle, Session, NoChanges

LEMMA InwardStep ==
    ASSUME IInv, NEW r \in Requests, Inward(r)
    PROVE  IInv'
<1>1. /\ endpoint' = endpoint /\ schedules' = schedules /\ jobs' = jobs /\ drift' = drift
      /\ skew' = skew /\ failures' = failures /\ restarts' = restarts
      /\ \A q \in Requests \ {r} : req'[q] = req[q]
      /\ used \subseteq used'
  BY DEF Inward, rows
<1>2. used' \subseteq Schedules
  BY IdleFields DEF Inward, IInv, TypeOK, Sessions, SessionOK, CreateSession
<1>3. TypeOK'
  BY <1>1, <1>2 DEF Inward, IInv, TypeOK
<1>4. Shapes'
  BY <1>1 DEF Inward, IInv, Shapes
<1>5. Sessions'
  <2> SUFFICES ASSUME NEW q \in Requests \ {r} PROVE SessionOK(q)'
    BY DEF Inward, Sessions
  <2>1. SessionOK(q) /\ req'[q] = req[q]
    BY <1>1 DEF IInv, Sessions
  <2>2. CASE req[q].op = "create"
    <3>1. req[q].id \in used' => req[q].id \in used
      BY <2>2 DEF Inward, IInv, NewIds, NewId
    <3> QED
      BY <1>1, <2>1, <2>2, <3>1 DEF SessionOK, CreateSession, Edits
  <2>3. CASE req[q].op # "create"
    BY <1>1, <2>1, <2>3 DEF SessionOK, EditSession, RemovalSession, EndpointSession, Edits
  <2> QED
    BY <2>2, <2>3
<1>6. Locks'
  BY <1>1 DEF Inward, IInv, Locks
<1>7. NewIds'
  BY <1>1 DEF Inward, IInv, NewIds, NewId
<1>8. ReadRows'
  BY <1>1 DEF Inward, IInv, ReadRows, ReadRow
<1>9. \A q \in Requests :
        /\ (Pending(q)' <=> Pending(q)) /\ (Inserted(q)' <=> Inserted(q))
        /\ Pending(q) \/ Inserted(q) =>
              req'[q].id = req[q].id /\ req'[q].dirty = req[q].dirty /\ req'[q].set = req[q].set
  BY <1>1 DEF Inward, Pending, Inserted
<1>10. PendingAgrees'
  BY <1>1, <1>9 DEF IInv, PendingAgrees, JobAgrees
<1>11. SettledAgrees'
  BY <1>1, <1>9 DEF IInv, SettledAgrees, JobAgrees
<1>12. NoStrayJob'
  <2> SUFFICES ASSUME NEW s \in DOMAIN jobs \ drift, s \notin DOMAIN schedules
               PROVE  \E q \in Requests : req'[q].id = s /\ (Inserted(q)' \/ req'[q].at = "unregister")
    BY <1>1 DEF NoStrayJob, Inserted
  <2>1. PICK q \in Requests : req[q].id = s /\ (Inserted(q) \/ req[q].at = "unregister")
    BY DEF IInv, NoStrayJob, Inserted
  <2> QED
    BY <1>1, <1>9, <2>1 DEF Inward
<1>13. DeletionExcludes'
  BY <1>1 DEF Inward, IInv, DeletionExcludes, Deletes
<1>14. ConfigFits'
  BY <1>1 DEF IInv, ConfigFits, Bounds, Fits
<1> QED
  BY <1>3, <1>4, <1>5, <1>6, <1>7, <1>8, <1>10, <1>11, <1>12, <1>13, <1>14 DEF IInv

LEMMA DoneInward ==
    ASSUME IInv, NEW r \in Requests, Done(r), UNCHANGED <<rows, jobs, used, bounds, drift, skew>>,
           req[r].at # "unregister", ~Pending(r), ~Inserted(r)
    PROVE  Inward(r)
<1>1. /\ DOMAIN req' = Requests /\ req'[r] = Idle
      /\ \A q \in Requests \ {r} : req'[q] = req[q]
  BY DEF Done, IInv, Shapes
<1>2. SessionOK(r)'
  BY <1>1 DEF SessionOK, Idle, Session, NoChanges
<1>3. NewId(r)' /\ ReadRow(r)' /\ ~Pending(r)' /\ ~Inserted(r)' /\ ~Deletes(r)'
  BY <1>1, IdleFields DEF NewId, ReadRow, Pending, Inserted, Deletes, Edits
<1>4. \A q \in Requests : req[q].op = "create" => req[q].id # None
  BY SchedulesAssumption, IdleFields DEF IInv, Sessions, SessionOK, CreateSession
<1> QED
  BY <1>1, <1>2, <1>3, <1>4, IdleFields DEF Inward, bounds, IInv, TypeOK

LEMMA PauseResume ==
    PartOf([active |-> FALSE], ScheduleTable) /\ PartOf([active |-> TRUE], ScheduleTable)
<1>1. PICK t \in Timings : TRUE
  BY RowsAssumption
<1>2. ASSUME NEW b \in BOOLEAN PROVE PartOf([active |-> b], ScheduleTable)
  <2>1. [timing |-> t, bound |-> {}, active |-> b] \in ScheduleTable
    BY DEF ScheduleTable
  <2> QED
    BY <2>1 DEF PartOf
<1> QED
  BY <1>2

(* A new session holds nothing. *)
LEMMA SendStep ==
    ASSUME IInv, NEW r \in Requests, Send(r)
    PROVE  IInv'
<1>1. PICK call \in Calls : req' = [req EXCEPT ![r] = call]
  BY DEF Send
<1>2. /\ DOMAIN req' = Requests /\ req'[r] = call
      /\ \A q \in Requests \ {r} : req'[q] = req[q]
  BY <1>1 DEF IInv, Shapes
<1>3. PICK op \in Ops, id \in Schedules \cup {None},
           set \in ScheduleRows \cup ScheduleUpdates \cup EndpointUpdates
                   \cup {NoChanges, [active |-> FALSE], [active |-> TRUE]} :
        /\ call = Fresh(op, id, set)
        /\ op = "create" => /\ id \in Schedules \ used /\ set \in ScheduleRows
                             /\ \A q \in Requests : req[q].id # id
        /\ op \in {"update", "pause", "resume", "delete"} => id \in used
        /\ op = "update" => set \in ScheduleUpdates
        /\ op = "pause" => set = [active |-> FALSE]
        /\ op = "resume" => set = [active |-> TRUE]
        /\ op = "update_endpoint" => set \in EndpointUpdates /\ id = None
        /\ op = "delete_endpoint" => id = None
  <2>1. used \subseteq Schedules
    BY DEF IInv, TypeOK
  <2> QED
    BY <2>1 DEF Calls, Ops
<1>4. /\ Shape(call) /\ call.at = "load" /\ call.op = op /\ call.id = id /\ call.set = set
      /\ call.lock = {} /\ DOMAIN call.dirty = {}
  BY <1>3 DEF Fresh, Session, Shape, NoChanges
<1>5. op # "create" => \A q \in Requests : req[q].op = "create" => call.op # "create"
  BY <1>4
<1>6. UNCHANGED <<rows, jobs, used, failures, restarts, drift, skew>> /\ sent' \in 0 .. MaxRequests
  BY BoundsAssumption DEF Send, IInv, TypeOK
<1>7. req[r] = Idle
  BY DEF Send, IInv, Sessions, SessionOK
<1>8. SessionOK(r)'
  <2>1. used' = used /\ schedules' = schedules /\ endpoint' = endpoint
    BY <1>6 DEF rows
  <2>2. CASE op = "create"
    BY <1>2, <1>3, <1>4, <2>1, <2>2, RowsAssumption
    DEF SessionOK, CreateSession, Edits
  <2>3. CASE op \in {"update", "pause", "resume"}
    <3>1. PartOf(set, ScheduleTable)
      BY <1>3, <2>3, RowsAssumption, PauseResume
    <3> QED
      BY <1>2, <1>3, <1>4, <2>1, <2>3, <3>1 DEF SessionOK, EditSession, Edits
  <2>4. CASE op \in {"delete", "delete_endpoint"}
    BY <1>2, <1>3, <1>4, <2>1, <2>4 DEF SessionOK, RemovalSession, Edits
  <2>5. CASE op = "update_endpoint"
    BY <1>2, <1>3, <1>4, <2>1, <2>5, RowsAssumption DEF SessionOK, EndpointSession, Edits
  <2> QED
    BY <2>2, <2>3, <2>4, <2>5 DEF Ops
<1>9. /\ NewId(r)' /\ ReadRow(r)' /\ ~Pending(r)' /\ ~Inserted(r)' /\ ~Deletes(r)'
      /\ ~Pending(r) /\ ~Inserted(r)
  BY <1>2, <1>3, <1>4, <1>6, <1>7, IdleFields
  DEF NewId, ReadRow, Pending, Inserted, Deletes, Edits, IInv, TypeOK, rows
<1>10. Inward(r)
  BY <1>2, <1>3, <1>4, <1>6, <1>7, <1>8, <1>9, IdleFields DEF Inward, Steps
<1> QED
  BY <1>10, InwardStep

(* A row with some of its columns set is a row. *)
LEMMA OverlayTyped ==
    ASSUME NEW row \in ScheduleTable, NEW changes, NEW set, PartOf(set, ScheduleTable),
           DOMAIN changes \subseteq DOMAIN set, \A c \in DOMAIN changes : changes[c] = set[c]
    PROVE  Overlay(changes, row) \in ScheduleTable
<1>1. PICK full \in ScheduleTable :
        DOMAIN set \subseteq DOMAIN full /\ \A c \in DOMAIN set : set[c] = full[c]
  BY DEF PartOf
<1> DEFINE new == Overlay(changes, row)
<1>2. DOMAIN new = {"timing", "bound", "active"} /\ new = [c \in DOMAIN new |-> new[c]]
  BY DEF Overlay, ScheduleTable
<1>3. new.timing \in Timings /\ new.bound \in SUBSET Params /\ new.active \in BOOLEAN
  BY <1>1 DEF Overlay, ScheduleTable
<1>4. new = [timing |-> new.timing, bound |-> new.bound, active |-> new.active]
  BY <1>2
<1> QED
  BY <1>3, <1>4 DEF ScheduleTable

LEMMA EndpointOverlayTyped ==
    ASSUME NEW row \in EndpointTable, NEW changes, NEW set, PartOf(set, EndpointTable),
           DOMAIN changes \subseteq DOMAIN set, \A c \in DOMAIN changes : changes[c] = set[c]
    PROVE  Overlay(changes, row) \in EndpointTable
<1>1. PICK full \in EndpointTable :
        DOMAIN set \subseteq DOMAIN full /\ \A c \in DOMAIN set : set[c] = full[c]
  BY DEF PartOf
<1> DEFINE new == Overlay(changes, row)
<1>2. DOMAIN new = {"strategy", "sql", "schema"} /\ new = [c \in DOMAIN new |-> new[c]]
  BY DEF Overlay, EndpointTable
<1>3. /\ new.strategy \in {"live", "snapshot"} /\ new.sql \in SUBSET Params
      /\ new.schema \in SUBSET Params
  BY <1>1 DEF Overlay, EndpointTable
<1>4. new = [strategy |-> new.strategy, sql |-> new.sql, schema |-> new.schema]
  BY <1>2
<1> QED
  BY <1>3, <1>4 DEF EndpointTable

(* Reading changes what the session knows of a row and moves it on. *)
LEMMA LoadStep ==
    ASSUME IInv, NEW r \in Requests, Load(r)
    PROVE  IInv'
<1> DEFINE old == req[r]
           new == req'[r]
<1>1. /\ old.at = "load" /\ UNCHANGED <<rows, jobs, used, bounds, drift, skew>>
      /\ SessionOK(r) /\ NewId(r) /\ Shape(old) /\ ~Pending(r) /\ ~Inserted(r)
  BY DEF Load, IInv, Sessions, NewIds, Shapes, Pending, Inserted
<1>2. CASE Done(r)
  BY <1>1, <1>2, DoneInward, InwardStep
<1>3. CASE ~Done(r)
  <2>1. /\ DOMAIN req' = Requests /\ Shape(new)
        /\ \A q \in Requests \ {r} : req'[q] = req[q]
        /\ new.op = old.op /\ new.set = old.set /\ new.dirty = old.dirty /\ new.lock = old.lock
        /\ \/ /\ old.op = "create" /\ new.at = "check" /\ new.id = old.id
              /\ new.ep = endpoint /\ endpoint # None /\ Fits(endpoint, old.set.bound)
           \/ /\ old.op \in {"update", "pause", "resume", "delete"}
              /\ new.at = IF old.op = "update" THEN "check" ELSE "write"
              /\ new.id = old.id /\ old.id \in DOMAIN schedules /\ new.read = schedules[old.id]
           \/ /\ old.op = "update_endpoint" /\ new.at = "check" /\ new.id = old.id
              /\ new.ep = endpoint /\ endpoint # None
           \/ /\ old.op = "delete_endpoint" /\ new.at = "check"
              /\ new.id \in {old.id} \cup DOMAIN schedules
    <3>1. DOMAIN req = Requests /\ Shape(old)
      BY DEF IInv, Shapes
    <3>2. CASE old.op = "create"
      BY <1>1, <1>3, <3>1, <3>2 DEF Load, Shape
    <3>3. CASE old.op \in {"update", "pause", "resume", "delete"}
      BY <1>1, <1>3, <3>1, <3>3 DEF Load, Shape
    <3>4. CASE old.op = "update_endpoint"
      BY <1>1, <1>3, <3>1, <3>4 DEF Load, Shape
    <3>5. CASE old.op = "delete_endpoint"
      <4>1. CASE DOMAIN schedules = {}
        BY <1>1, <1>3, <3>1, <3>5, <4>1 DEF Load, Goto, Shape
      <4>2. CASE DOMAIN schedules # {}
        <5>1. PICK s \in DOMAIN schedules :
                req' = [req EXCEPT ![r].id = s, ![r].at = "check"]
          BY <1>1, <1>3, <3>5, <4>2 DEF Load
        <5> QED
          BY <3>1, <3>5, <5>1 DEF Shape
      <4> QED
        BY <4>1, <4>2
    <3> QED
      BY <3>2, <3>3, <3>4, <3>5 DEF Load
  <2>2. endpoint' = endpoint /\ schedules' = schedules /\ jobs' = jobs /\ used' = used
    BY <1>1 DEF rows
  <2>3. SessionOK(r)'
    <3>1. /\ endpoint \in EndpointTable \cup {None} /\ DOMAIN schedules \subseteq used
          /\ \A s \in DOMAIN schedules : schedules[s] \in ScheduleTable
      BY DEF IInv, TypeOK
    <3>2. old.op \in Ops
      BY <1>1 DEF IInv, TypeOK
    <3>3. CASE old.op = "create"
      BY <1>1, <2>1, <2>2, <3>1, <3>3 DEF SessionOK, CreateSession, Edits
    <3>4. CASE Edits(old)
      BY <1>1, <2>1, <2>2, <3>1, <3>4 DEF SessionOK, EditSession, Edits
    <3>5. CASE old.op \in {"delete", "delete_endpoint"}
      BY <1>1, <2>1, <2>2, <3>1, <3>5 DEF SessionOK, RemovalSession, Edits
    <3>6. CASE old.op = "update_endpoint"
      BY <1>1, <2>1, <2>2, <3>1, <3>6 DEF SessionOK, EndpointSession, Edits
    <3> QED
      BY <3>2, <3>3, <3>4, <3>5, <3>6 DEF Ops, Edits
  <2>4. NewId(r)' /\ ReadRow(r)' /\ ~Pending(r)' /\ ~Inserted(r)' /\ ~Deletes(r)'
    BY <1>1, <2>1, <2>2, SchedulesAssumption
    DEF NewId, ReadRow, Pending, Inserted, Deletes, Edits, IInv, NewIds
  <2>5. \A q \in Requests \ {r} : req[q].op = "create" => req[q].id # new.id
    <3> SUFFICES ASSUME NEW q \in Requests \ {r}, req[q].op = "create", req[q].id = new.id
                 PROVE  FALSE
      OBVIOUS
    <3>1. /\ req[q].id \notin DOMAIN schedules
          /\ req[q].id = old.id => old.op # "create"
      BY DEF IInv, NewIds, NewId
    <3>2. req[q].id \in Schedules
      BY IdleFields DEF IInv, Sessions, SessionOK, CreateSession
    <3>3. old.op \in {"update_endpoint", "delete_endpoint"} /\ req[q].id = old.id
      BY <2>1, <3>1
    <3>4. old.id = None
      BY <1>1, <3>3 DEF SessionOK, EndpointSession, RemovalSession
    <3> QED
      BY <3>2, <3>3, <3>4, SchedulesAssumption
  <2>6. /\ \A q \in Requests \ {r} : new.lock \cap req[q].lock = {}
        /\ new.op \in Ops /\ new.at \in Steps /\ new.at # "unregister"
        /\ new.op # "create" => new.lock \subseteq {Endpoint} \cup DOMAIN schedules
        /\ new.op = "create" => new.lock = {}
    BY <1>1, <2>1 DEF IInv, TypeOK, Locks, Steps, SessionOK, CreateSession
  <2>7. sent' \in 0 .. MaxRequests /\ failures' = failures /\ restarts' = restarts
    BY <1>1 DEF bounds, IInv, TypeOK
  <2>8. Inward(r)
    BY <1>1, <2>1, <2>2, <2>3, <2>4, <2>5, <2>6, <2>7 DEF Inward
  <2> QED
    BY <2>8, InwardStep
<1> QED
  BY <1>2, <1>3

(* A step of a session past its first SELECT and before its touch.          *)
LEMMA KeepStep ==
    ASSUME IInv, NEW r \in Requests,
           UNCHANGED <<rows, jobs, used, bounds, drift, skew>>,
           DOMAIN req' = Requests, Shape(req'[r]), \A q \in Requests \ {r} : req'[q] = req[q],
           req'[r].op = req[r].op, req'[r].id = req[r].id, req'[r].set = req[r].set,
           req[r].at \in {"check", "write", "refresh"},
           req'[r].at \in {"write", "refresh", "touch", "commit"},
           req[r].op = "create" => req'[r].at = "write" /\ req'[r].lock = {},
           SessionOK(r)', ReadRow(r)',
           \A q \in Requests \ {r} : req'[r].lock \cap req[q].lock = {},
           req[r].op # "create" => req'[r].lock \subseteq {Endpoint} \cup DOMAIN schedules,
           Edits(req[r]) => req'[r].at # "commit",
           Deletes(r)' => /\ Endpoint \in req'[r].lock /\ DOMAIN schedules \subseteq req'[r].lock
                          /\ \A q \in Requests : req[q].op = "create" => req[q].lock = {}
    PROVE  IInv'
<1> DEFINE old == req[r]
           new == req'[r]
<1>1. schedules' = schedules /\ jobs' = jobs /\ NewId(r)
  BY DEF rows, IInv, NewIds
<1>2. ~Pending(r) /\ ~Pending(r)' /\ ~Inserted(r) /\ ~Inserted(r)'
  BY DEF Pending, Inserted, Edits
<1>3. NewId(r)'
  BY <1>1 DEF NewId
<1>4. \A q \in Requests \ {r} : req[q].op = "create" => new.id # req[q].id
  BY DEF IInv, NewIds, NewId
<1>5. new.op \in Ops /\ new.at \in Steps /\ new.at # "unregister" /\ old.at # "unregister"
  BY DEF IInv, TypeOK, Steps
<1>6. sent' \in 0 .. MaxRequests /\ failures' = failures /\ restarts' = restarts
  BY DEF bounds, IInv, TypeOK
<1>7. Inward(r)
  BY <1>2, <1>3, <1>4, <1>5, <1>6 DEF Inward
<1> QED
  BY <1>7, InwardStep

(* The validation: what is written was accepted by the rows then read.       *)
LEMMA CheckStep ==
    ASSUME IInv, NEW r \in Requests, Check(r)
    PROVE  IInv'
<1> DEFINE old == req[r]
           new == req'[r]
<1>1. /\ old.at = "check" /\ UNCHANGED <<rows, jobs, used, bounds, drift, skew>>
      /\ SessionOK(r) /\ DOMAIN req = Requests /\ Shape(old) /\ ~Pending(r) /\ ~Inserted(r)
      /\ endpoint' = endpoint /\ schedules' = schedules /\ used' = used
  BY DEF Check, IInv, Sessions, Shapes, Pending, Inserted, rows
<1>2. CASE Done(r)
  BY <1>1, <1>2, DoneInward, InwardStep
<1>3. CASE ~Done(r)
  <2>1. /\ DOMAIN req' = Requests /\ Shape(new)
        /\ \A q \in Requests \ {r} : req'[q] = req[q]
        /\ new.op = old.op /\ new.id = old.id /\ new.set = old.set /\ new.read = old.read
        /\ new.dirty = old.dirty /\ new.lock = old.lock /\ new.at = "write"
        /\ old.op \in {"create", "update", "update_endpoint", "delete_endpoint"}
        /\ old.op = "update" =>
               /\ new.ep = endpoint /\ endpoint # None
               /\ Fits(endpoint, Overlay(old.set, old.read).bound)
        /\ old.op # "update" => new.ep = old.ep
        /\ old.op = "update_endpoint" =>
               new.attached = Bounds /\ EndpointUpdateFits(Overlay(old.set, old.ep))
    <3>1. CASE old.op \in {"create", "delete_endpoint"}
      BY <1>1, <1>3, <3>1 DEF Check, Goto, Shape
    <3>2. CASE old.op = "update"
      BY <1>1, <1>3, <3>2 DEF Check, Shape
    <3>3. CASE old.op = "update_endpoint"
      BY <1>1, <1>3, <3>3 DEF Check, Shape
    <3> QED
      BY <3>1, <3>2, <3>3 DEF Check
  <2>2. SessionOK(r)'
    <3>1. CASE old.op = "create"
      BY <1>1, <2>1, <3>1 DEF SessionOK, CreateSession, Edits
    <3>2. CASE old.op = "update"
      <4>1. old.read \in ScheduleTable
        BY <1>1, <3>2 DEF SessionOK, EditSession, Edits
      <4>2. "bound" \in DOMAIN old.set => Fits(new.ep, old.set.bound)
        BY <2>1, <3>2, <4>1 DEF Overlay, ScheduleTable
      <4> QED
        BY <1>1, <2>1, <3>2, <4>2 DEF SessionOK, EditSession, Edits
    <3>3. CASE old.op = "delete_endpoint"
      BY <1>1, <2>1, <3>3 DEF SessionOK, RemovalSession, Edits
    <3>4. CASE old.op = "update_endpoint"
      <4>1. \A b \in new.attached : Fits(Overlay(new.set, new.ep), b)
        BY <2>1, <3>4 DEF EndpointUpdateFits, Bounds
      <4> QED
        BY <1>1, <2>1, <3>4, <4>1 DEF SessionOK, EndpointSession, Edits
    <3> QED
      BY <2>1, <3>1, <3>2, <3>3, <3>4
  <2>3. /\ \A q \in Requests \ {r} : new.lock \cap req[q].lock = {}
        /\ new.op # "create" => new.lock \subseteq {Endpoint} \cup DOMAIN schedules
        /\ new.op = "create" => new.lock = {}
    BY <1>1, <2>1 DEF IInv, TypeOK, Locks, SessionOK, CreateSession
  <2>4. ReadRow(r)' /\ ~Deletes(r)'
    BY <2>1 DEF ReadRow, Deletes
  <2> QED
    BY <1>1, <2>1, <2>2, <2>3, <2>4, KeepStep
<1> QED
  BY <1>2, <1>3

(* The flush of an UPDATE takes the lock of the row, or there is none.       *)
LEMMA WriteScheduleStep ==
    ASSUME IInv, NEW r \in Requests, WriteSchedule(r)
    PROVE  IInv'
<1> DEFINE old == req[r]
           new == req'[r]
<1>1. /\ old.at = "write" /\ UNCHANGED <<rows, jobs, used, bounds, drift, skew>>
      /\ Edits(old) /\ EditSession(old) /\ DOMAIN req = Requests /\ Shape(old)
      /\ ~Pending(r) /\ ~Inserted(r)
      /\ endpoint' = endpoint /\ schedules' = schedules /\ used' = used
  BY DEF WriteSchedule, IInv, Sessions, SessionOK, Shapes, Pending, Inserted, Edits, rows
<1>2. CASE Done(r)
  BY <1>1, <1>2, DoneInward, InwardStep
<1>3. CASE ~Done(r)
  <2>1. /\ DOMAIN req' = Requests /\ Shape(new)
        /\ \A q \in Requests \ {r} : req'[q] = req[q]
        /\ new.op = old.op /\ new.id = old.id /\ new.set = old.set /\ new.read = old.read
        /\ new.ep = old.ep /\ new.at = "refresh"
        /\ \/ new.dirty = old.dirty /\ new.lock = old.lock
           \/ /\ new.dirty = Differing(old.set, old.read) /\ new.lock = {old.id}
              /\ ~HeldByOther(r, old.id) /\ old.id \in DOMAIN schedules
              /\ ~Unchanged(old.set, old.read)
    <3>1. CASE Unchanged(old.set, old.read)
      BY <1>1, <1>3, <3>1 DEF WriteSchedule, Goto, Shape
    <3>2. CASE ~Unchanged(old.set, old.read)
      BY <1>1, <1>3, <3>2 DEF WriteSchedule, Shape
    <3> QED
      BY <3>1, <3>2
  <2>2. SessionOK(r)'
    <3>1. DOMAIN new.dirty \subseteq DOMAIN old.set /\ \A c \in DOMAIN new.dirty : new.dirty[c] = old.set[c]
      BY <1>1, <2>1 DEF EditSession, Differing
    <3>2. DOMAIN new.dirty = {} => new.lock = {}
      BY <1>1, <2>1 DEF EditSession, Differing, Unchanged
    <3> QED
      BY <1>1, <2>1, <3>1, <3>2 DEF SessionOK, EditSession, Edits
  <2>3. /\ \A q \in Requests \ {r} : new.lock \cap req[q].lock = {}
        /\ new.lock \subseteq {Endpoint} \cup DOMAIN schedules
    BY <1>1, <2>1 DEF IInv, TypeOK, Locks, HeldByOther, EditSession
  <2>4. ReadRow(r)' /\ ~Deletes(r)' /\ old.op # "create"
    BY <1>1, <2>1 DEF ReadRow, Deletes, Edits
  <2> QED
    BY <1>1, <2>1, <2>2, <2>3, <2>4, KeepStep
<1> QED
  BY <1>2, <1>3

LEMMA RefreshStep ==
    ASSUME IInv, NEW r \in Requests, Refresh(r)
    PROVE  IInv'
<1> DEFINE old == req[r]
           new == req'[r]
<1>1. /\ old.at = "refresh" /\ UNCHANGED <<rows, jobs, used, bounds, drift, skew>>
      /\ SessionOK(r) /\ DOMAIN req = Requests /\ Shape(old) /\ ~Pending(r) /\ ~Inserted(r)
      /\ endpoint' = endpoint /\ schedules' = schedules /\ used' = used /\ old.op \in Ops
  BY DEF Refresh, IInv, TypeOK, Sessions, Shapes, Pending, Inserted, rows
<1>2. Edits(old) /\ EditSession(old)
  BY <1>1 DEF SessionOK, Ops, Edits, CreateSession, RemovalSession, EndpointSession
<1>3. CASE Done(r)
  BY <1>1, <1>3, DoneInward, InwardStep
<1>4. CASE ~Done(r)
  <2>1. /\ DOMAIN req' = Requests /\ Shape(new)
        /\ \A q \in Requests \ {r} : req'[q] = req[q]
        /\ new.op = old.op /\ new.id = old.id /\ new.set = old.set /\ new.ep = old.ep
        /\ new.dirty = old.dirty /\ new.lock = old.lock /\ new.at = "touch"
        /\ old.id \in DOMAIN schedules /\ new.read = Overlay(old.dirty, schedules[old.id])
    BY <1>1, <1>4 DEF Refresh, Shape
  <2>2. new.read \in ScheduleTable
    <3>1. schedules[old.id] \in ScheduleTable
      BY <2>1 DEF IInv, TypeOK
    <3>2. /\ PartOf(old.set, ScheduleTable) /\ DOMAIN old.dirty \subseteq DOMAIN old.set
          /\ \A c \in DOMAIN old.dirty : old.dirty[c] = old.set[c]
      BY <1>2 DEF EditSession
    <3> QED
      BY <2>1, <3>1, <3>2, OverlayTyped
  <2>3. SessionOK(r)'
    BY <1>1, <1>2, <2>1, <2>2 DEF SessionOK, EditSession, Edits
  <2>4. /\ \A q \in Requests \ {r} : new.lock \cap req[q].lock = {}
        /\ new.lock \subseteq {Endpoint} \cup DOMAIN schedules /\ old.op # "create"
    BY <1>1, <1>2, <2>1 DEF IInv, TypeOK, Locks, Edits
  <2>5. ReadRow(r)' /\ ~Deletes(r)'
    BY <1>1, <2>1 DEF ReadRow, Deletes
  <2> QED
    BY <1>1, <1>2, <2>1, <2>3, <2>4, <2>5, KeepStep
<1> QED
  BY <1>3, <1>4

LEMMA RemoveScheduleStep ==
    ASSUME IInv, NEW r \in Requests, RemoveSchedule(r)
    PROVE  IInv'
<1> DEFINE old == req[r]
           new == req'[r]
<1>1. /\ old.at = "write" /\ UNCHANGED <<rows, jobs, used, bounds, drift, skew>>
      /\ old.op = "delete" /\ RemovalSession(old) /\ DOMAIN req = Requests /\ Shape(old)
      /\ endpoint' = endpoint /\ schedules' = schedules /\ used' = used
      /\ used \subseteq Schedules
  BY DEF RemoveSchedule, IInv, TypeOK, Sessions, SessionOK, Shapes, rows
<1>2. /\ DOMAIN req' = Requests /\ Shape(new)
      /\ \A q \in Requests \ {r} : req'[q] = req[q]
      /\ new.op = old.op /\ new.id = old.id /\ new.set = old.set /\ new.at = "commit"
      /\ new.lock = {old.id} \cap DOMAIN schedules /\ ~HeldByOther(r, old.id)
  BY <1>1 DEF RemoveSchedule, Shape
<1>3. SessionOK(r)'
  BY <1>1, <1>2, SchedulesAssumption DEF SessionOK, RemovalSession, Edits
<1>4. /\ \A q \in Requests \ {r} : new.lock \cap req[q].lock = {}
      /\ new.lock \subseteq {Endpoint} \cup DOMAIN schedules
  BY <1>2 DEF HeldByOther
<1>5. ReadRow(r)' /\ ~Deletes(r)' /\ ~Edits(old)
  BY <1>1, <1>2 DEF ReadRow, Deletes, Edits
<1> QED
  BY <1>1, <1>2, <1>3, <1>4, <1>5, KeepStep

LEMMA RemoveEndpointStep ==
    ASSUME IInv, NEW r \in Requests, RemoveEndpoint(r)
    PROVE  IInv'
<1> DEFINE old == req[r]
           new == req'[r]
<1>1. /\ old.at = "write" /\ UNCHANGED <<rows, jobs, used, bounds, drift, skew>>
      /\ old.op = "delete_endpoint" /\ RemovalSession(old) /\ DOMAIN req = Requests /\ Shape(old)
      /\ endpoint' = endpoint /\ schedules' = schedules /\ used' = used
  BY DEF RemoveEndpoint, IInv, Sessions, SessionOK, Shapes, rows
<1>2. /\ DOMAIN req' = Requests /\ Shape(new)
      /\ \A q \in Requests \ {r} : req'[q] = req[q]
      /\ new.op = old.op /\ new.id = old.id /\ new.set = old.set /\ new.at = "commit"
      /\ new.lock = {Endpoint} \cup DOMAIN schedules /\ \A q \in Requests : req[q].lock = {}
  BY <1>1 DEF RemoveEndpoint, Shape
<1>3. SessionOK(r)'
  BY <1>1, <1>2 DEF SessionOK, RemovalSession, Edits
<1>4. \A q \in Requests \ {r} : new.lock \cap req[q].lock = {}
  BY <1>2
<1>5. ReadRow(r)' /\ ~Edits(old)
  BY <1>1, <1>2 DEF ReadRow, Edits
<1> QED
  BY <1>1, <1>2, <1>3, <1>4, <1>5, KeepStep

LEMMA WriteEndpointStep ==
    ASSUME IInv, NEW r \in Requests, WriteEndpoint(r)
    PROVE  IInv'
<1> DEFINE old == req[r]
           new == req'[r]
<1>1. /\ old.at = "write" /\ UNCHANGED <<rows, jobs, used, bounds, drift, skew>>
      /\ old.op = "update_endpoint" /\ EndpointSession(old) /\ DOMAIN req = Requests /\ Shape(old)
      /\ endpoint' = endpoint /\ schedules' = schedules /\ used' = used
      /\ ~Pending(r) /\ ~Inserted(r)
  BY DEF WriteEndpoint, IInv, Sessions, SessionOK, Shapes, Pending, Inserted, rows
<1>2. CASE Done(r)
  BY <1>1, <1>2, DoneInward, InwardStep
<1>3. CASE ~Done(r)
  <2>1. /\ DOMAIN req' = Requests /\ Shape(new)
        /\ \A q \in Requests \ {r} : req'[q] = req[q]
        /\ new.op = old.op /\ new.id = old.id /\ new.set = old.set /\ new.ep = old.ep
        /\ new.attached = old.attached /\ new.at = "commit"
        /\ \/ new.dirty = old.dirty /\ new.lock = old.lock
           \/ /\ new.dirty = Differing(old.set, old.ep) /\ new.lock = {Endpoint}
              /\ ~HeldByOther(r, Endpoint) /\ endpoint # None
    <3>1. CASE Unchanged(old.set, old.ep)
      BY <1>1, <1>3, <3>1 DEF WriteEndpoint, Goto, Shape
    <3>2. CASE ~Unchanged(old.set, old.ep)
      BY <1>1, <1>3, <3>2 DEF WriteEndpoint, Shape
    <3> QED
      BY <3>1, <3>2
  <2>2. SessionOK(r)'
    BY <1>1, <2>1 DEF SessionOK, EndpointSession, Edits
  <2>3. /\ \A q \in Requests \ {r} : new.lock \cap req[q].lock = {}
        /\ new.lock \subseteq {Endpoint} \cup DOMAIN schedules
    BY <1>1, <2>1 DEF EndpointSession, HeldByOther
  <2>4. ReadRow(r)' /\ ~Deletes(r)' /\ ~Edits(old)
    BY <1>1, <2>1 DEF ReadRow, Deletes, Edits
  <2> QED
    BY <1>1, <2>1, <2>2, <2>3, <2>4, KeepStep
<1> QED
  BY <1>2, <1>3

(* The INSERT: a new id, under a lock nobody else has.                       *)
LEMMA InsertScheduleStep ==
    ASSUME IInv, NEW r \in Requests, InsertSchedule(r)
    PROVE  IInv'
<1> DEFINE old == req[r]
           new == req'[r]
<1>1. /\ old.at = "write" /\ UNCHANGED <<rows, jobs, bounds, drift, skew>>
      /\ old.op = "create" /\ CreateSession(old) /\ DOMAIN req = Requests /\ Shape(old)
      /\ endpoint' = endpoint /\ schedules' = schedules /\ ~Pending(r) /\ ~Inserted(r)
      /\ NewId(r) /\ old.op \in Ops
  BY DEF InsertSchedule, IInv, Sessions, SessionOK, Shapes, Pending, Inserted, rows, NewIds, Ops
<1>2. CASE Done(r) /\ used' = used
  BY <1>1, <1>2, DoneInward, InwardStep
<1>3. CASE ~(Done(r) /\ used' = used)
  <2>1. /\ DOMAIN req' = Requests /\ Shape(new)
        /\ \A q \in Requests \ {r} : req'[q] = req[q]
        /\ new.op = old.op /\ new.id = old.id /\ new.set = old.set /\ new.ep = old.ep
        /\ new.dirty = old.dirty /\ new.lock = {old.id} /\ new.at = "touch"
        /\ used' = used \cup {old.id}
        /\ \A q \in Requests : req[q].op = "delete_endpoint" => Endpoint \notin req[q].lock
    BY <1>1, <1>3 DEF InsertSchedule, Shape
  <2>2. SessionOK(r)'
    BY <1>1, <2>1 DEF SessionOK, CreateSession, Edits
  <2>3. NewId(r)' /\ ReadRow(r)' /\ ~Pending(r)' /\ ~Inserted(r)' /\ ~Deletes(r)'
    BY <1>1, <2>1 DEF NewId, ReadRow, Pending, Inserted, Deletes, Edits
  <2>4. \A q \in Requests \ {r} : req[q].op = "create" => req[q].id # new.id
    BY <1>1, <2>1 DEF NewId
  <2>5. \A q \in Requests \ {r} : new.lock \cap req[q].lock = {}
    <3> SUFFICES ASSUME NEW q \in Requests \ {r} PROVE old.id \notin req[q].lock
      BY <2>1
    <3>1. CASE req[q].at = "idle"
      BY <3>1, IdleFields DEF IInv, Sessions, SessionOK
    <3>2. CASE req[q].at # "idle" /\ req[q].op # "create"
      BY <1>1, <3>2, SchedulesAssumption DEF IInv, TypeOK, CreateSession, NewId
    <3>3. CASE req[q].at # "idle" /\ req[q].op = "create"
      BY <2>1, <2>4, <3>3 DEF IInv, Sessions, SessionOK, CreateSession
    <3> QED
      BY <3>1, <3>2, <3>3
  <2>6. \A q \in Requests \ {r} : ~Deletes(q)
    BY <2>1 DEF IInv, DeletionExcludes, Deletes
  <2>7. sent' \in 0 .. MaxRequests /\ failures' = failures /\ restarts' = restarts
    BY <1>1 DEF bounds, IInv, TypeOK
  <2>8. Inward(r)
    BY <1>1, <2>1, <2>2, <2>3, <2>4, <2>5, <2>6, <2>7 DEF Inward, Steps
  <2> QED
    BY <2>8, InwardStep
<1> QED
  BY <1>2, <1>3

(* After the touch: the new next_run_at, or nothing to write.                *)
LEMMA AdvanceStep ==
    ASSUME IInv, NEW r \in Requests, Advance(r)
    PROVE  IInv'
<1> DEFINE old == req[r]
           new == req'[r]
<1>1. /\ old.at = "advance" /\ UNCHANGED <<rows, jobs, used, bounds, drift, skew>>
      /\ SessionOK(r) /\ DOMAIN req = Requests /\ Shape(old) /\ NewId(r)
      /\ endpoint' = endpoint /\ schedules' = schedules /\ used' = used /\ old.op \in Ops
  BY DEF Advance, IInv, TypeOK, Sessions, Shapes, NewIds, rows
<1>2. \/ old.op = "create" /\ CreateSession(old) /\ ~Edits(old)
      \/ Edits(old) /\ EditSession(old) /\ old.op # "create"
  BY <1>1 DEF SessionOK, Ops, Edits, RemovalSession, EndpointSession
<1>3. CASE Done(r)
  <2>1. old.op # "create" /\ old.id \notin DOMAIN schedules
    BY <1>1, <1>3, IdleFields DEF Advance, Goto, Done, Shape
  <2>2. DOMAIN old.dirty = {}
    BY <1>1, <1>2, <2>1, SchedulesAssumption DEF EditSession, IInv, TypeOK
  <2> QED
    BY <1>1, <1>3, <2>1, <2>2, DoneInward, InwardStep DEF Pending, Inserted
<1>4. CASE ~Done(r)
  <2>1. /\ DOMAIN req' = Requests /\ Shape(new)
        /\ \A q \in Requests \ {r} : req'[q] = req[q]
        /\ new.op = old.op /\ new.id = old.id /\ new.set = old.set /\ new.ep = old.ep
        /\ new.read = old.read /\ new.dirty = old.dirty /\ new.at = "commit"
        /\ \/ new.lock = old.lock /\ old.op # "create"
           \/ /\ new.lock = {old.id} /\ ~HeldByOther(r, old.id)
              /\ old.op = "create" \/ old.id \in DOMAIN schedules
    BY <1>1, <1>4 DEF Advance, Goto, Shape
  <2>2. SessionOK(r)'
    <3>1. CASE old.op = "create"
      BY <1>1, <1>2, <2>1, <3>1 DEF SessionOK, CreateSession, Edits
    <3>2. CASE old.op # "create"
      BY <1>1, <1>2, <2>1, <3>2 DEF SessionOK, EditSession, Edits
    <3> QED
      BY <3>1, <3>2
  <2>3. NewId(r)' /\ ReadRow(r)' /\ ~Deletes(r)'
    BY <1>1, <1>2, <2>1 DEF NewId, ReadRow, Deletes, Edits, rows
  <2>4. \A q \in Requests \ {r} : req[q].op = "create" => req[q].id # new.id
    BY <1>1, <2>1 DEF IInv, NewIds, NewId
  <2>5. \A q \in Requests \ {r} : new.lock \cap req[q].lock = {}
    BY <2>1 DEF HeldByOther, IInv, Locks
  <2>6. (Pending(r)' <=> Pending(r)) /\ (Inserted(r)' <=> Inserted(r))
    BY <1>1, <2>1 DEF Pending, Inserted, Edits
  <2>7. sent' \in 0 .. MaxRequests /\ failures' = failures /\ restarts' = restarts
    BY <1>1 DEF bounds, IInv, TypeOK
  <2>8. new.op = "create" => \A q \in Requests \ {r} : ~Deletes(q)
    BY <1>1, <1>2, <2>1 DEF IInv, DeletionExcludes, CreateSession
  <2>9. new.op # "create" => new.lock \subseteq {Endpoint} \cup DOMAIN schedules
    BY <1>1, <2>1 DEF IInv, TypeOK
  <2>10. Inward(r)
    BY <1>1, <2>1, <2>2, <2>3, <2>4, <2>5, <2>6, <2>7, <2>8, <2>9 DEF Inward, Steps
  <2> QED
    BY <2>10, InwardStep
<1> QED
  BY <1>3, <1>4

-----------------------------------------------------------------------------
(***************************************************************************)
(* The touch of the registry.                                              *)
(***************************************************************************)

(* It changes one job, to what the request takes the row to be.              *)
LEMMA TouchedJobs ==
    ASSUME NEW q, NEW row,
           \A s \in DOMAIN jobs : jobs[s] = [timing |-> jobs[s].timing, paused |-> jobs[s].paused],
           Edits(q) \/ q.op = "create", q.op = "create" => q.id \notin DOMAIN jobs,
           row.active \in BOOLEAN,
           jobs' = Touched(q, row)
    PROVE  /\ DOMAIN jobs' \subseteq DOMAIN jobs \cup {q.id}
           /\ \A s \in DOMAIN jobs' :
                 jobs'[s] = [timing |-> jobs'[s].timing, paused |-> jobs'[s].paused]
           /\ \A s : s # q.id =>
                 (s \in DOMAIN jobs' <=> s \in DOMAIN jobs) /\ (s \in DOMAIN jobs => jobs'[s] = jobs[s])
           /\ q.op \in {"create", "update"} => JobAgrees(jobs', q.id, row)
           /\ q.op = "pause" => (q.id \in DOMAIN jobs' => jobs'[q.id].paused)
           /\ q.op = "resume" => /\ q.id \in DOMAIN jobs'
                                 /\ jobs'[q.id] = [timing |-> row.timing, paused |-> FALSE]
<1>1. CASE Registers(q, row)
  BY <1>1 DEF Touched, Registers, Put, JobAgrees, Edits
<1>2. CASE ~Registers(q, row) /\ q.op = "update"
  BY <1>2 DEF Touched, Registers, Drop, JobAgrees
<1>3. CASE q.op = "pause"
  <2>1. ~Registers(q, row)
    BY <1>3 DEF Registers
  <2>2. CASE q.id \in DOMAIN jobs
    <3>1. jobs' = [jobs EXCEPT ![q.id].paused = TRUE]
      BY <1>3, <2>1, <2>2 DEF Touched
    <3>2. jobs'[q.id] = [timing |-> jobs[q.id].timing, paused |-> TRUE]
      BY <2>2, <3>1
    <3> QED
      BY <1>3, <2>2, <3>1, <3>2
  <2>3. CASE q.id \notin DOMAIN jobs
    BY <1>3, <2>1, <2>3 DEF Touched
  <2> QED
    BY <2>2, <2>3
<1>4. CASE ~Registers(q, row) /\ q.op = "create"
  BY <1>4 DEF Touched, Registers, JobAgrees
<1> QED
  BY <1>1, <1>2, <1>3, <1>4 DEF Registers, Edits

LEMMA TouchStep ==
    ASSUME IInv, NEW r \in Requests, Touch(r)
    PROVE  IInv'
<1> DEFINE old == req[r]
           new == req'[r]
           row == IF old.op = "create" THEN old.set ELSE old.read
<1>1. /\ old.at = "touch" /\ UNCHANGED <<rows, used, bounds, skew>>
      /\ SessionOK(r) /\ DOMAIN req = Requests /\ Shape(old) /\ NewId(r) /\ ReadRow(r)
      /\ endpoint' = endpoint /\ schedules' = schedules /\ old.op \in Ops
      /\ sent' = sent /\ failures' = failures /\ restarts' = restarts
  BY DEF Touch, IInv, TypeOK, Sessions, Shapes, NewIds, ReadRows, rows, bounds
<1>2. \/ old.op = "create" /\ CreateSession(old) /\ ~Edits(old)
      \/ Edits(old) /\ EditSession(old) /\ old.op # "create"
  BY <1>1 DEF SessionOK, Ops, Edits, RemovalSession, EndpointSession
<1>3. /\ DOMAIN req' = Requests /\ Shape(new)
      /\ \A q \in Requests \ {r} : req'[q] = req[q]
      /\ new = [old EXCEPT !.at = new.at] /\ new.at \in {"advance", "commit"}
      /\ new.op = old.op /\ new.id = old.id /\ new.set = old.set /\ new.ep = old.ep
      /\ new.read = old.read /\ new.dirty = old.dirty /\ new.lock = old.lock
  BY <1>1 DEF Touch, Goto, Shape
<1>4. row \in ScheduleTable /\ old.id \in used
  BY <1>1, <1>2 DEF CreateSession, EditSession
<1>5. /\ DOMAIN jobs' \subseteq DOMAIN jobs \cup {old.id}
      /\ \A s \in DOMAIN jobs' : jobs'[s] = [timing |-> jobs'[s].timing, paused |-> jobs'[s].paused]
      /\ \A s : s # old.id =>
            (s \in DOMAIN jobs' <=> s \in DOMAIN jobs) /\ (s \in DOMAIN jobs => jobs'[s] = jobs[s])
      /\ old.op \in {"create", "update"} => JobAgrees(jobs', old.id, row)
      /\ old.op = "pause" => (old.id \in DOMAIN jobs' => jobs'[old.id].paused)
      /\ old.op = "resume" => /\ old.id \in DOMAIN jobs'
                              /\ jobs'[old.id] = [timing |-> row.timing, paused |-> FALSE]
  <2>1. \A s \in DOMAIN jobs : jobs[s] = [timing |-> jobs[s].timing, paused |-> jobs[s].paused]
    BY DEF IInv, Shapes
  <2>2. row.active \in BOOLEAN
    BY <1>4 DEF ScheduleTable
  <2>3. old.op = "create" => old.id \notin DOMAIN jobs
    BY <1>1 DEF NewId
  <2>4. jobs' = Touched(old, row)
    BY DEF Touch
  <2> QED
    BY <1>2, <2>1, <2>2, <2>3, <2>4, TouchedJobs
<1>6. drift' = IF OutOfTurn(r) THEN drift \cup {old.id} ELSE drift \ {old.id}
  BY DEF Touch
<1>7. TypeOK'
  BY <1>1, <1>3, <1>4, <1>5, <1>6 DEF IInv, TypeOK, Steps
<1>8. Shapes'
  BY <1>3, <1>5 DEF IInv, Shapes
<1>9. Sessions'
  <2>1. SessionOK(r)'
    BY <1>1, <1>2, <1>3 DEF SessionOK, CreateSession, EditSession, Edits
  <2>2. ASSUME NEW q \in Requests \ {r} PROVE SessionOK(q)'
    BY <1>1, <1>3 DEF IInv, Sessions, SessionOK, CreateSession, EditSession, RemovalSession,
                      EndpointSession, Edits
  <2> QED
    BY <2>1, <2>2 DEF Sessions
<1>10. Locks'
  BY <1>3 DEF IInv, Locks
<1>11. NewIds'
  <2>1. NewId(r)'
    BY <1>1, <1>3 DEF NewId
  <2>2. ASSUME NEW q \in Requests \ {r} PROVE NewId(q)'
    BY <1>1, <1>3, <1>5 DEF IInv, NewIds, NewId
  <2> QED
    BY <2>1, <2>2 DEF NewIds
<1>12. ReadRows'
  BY <1>1, <1>3 DEF IInv, ReadRows, ReadRow
<1>13. DeletionExcludes'
  <2>1. ~Deletes(r)' /\ ~Deletes(r)
    BY <1>1, <1>2, <1>3 DEF Deletes, Edits
  <2> QED
    BY <1>1, <1>3, <2>1 DEF IInv, DeletionExcludes, Deletes
<1>14. PendingAgrees'
  <2>1. ASSUME Edits(old), DOMAIN old.dirty # {}
        PROVE  JobAgrees(jobs', old.id, Overlay(old.dirty, schedules[old.id]))
    <3>1. row = Overlay(old.dirty, schedules[old.id])
      BY <1>1, <2>1 DEF ReadRow, Edits
    <3>2. old.op = "pause" => row.active = FALSE
      BY <1>2, <1>4, <2>1, <3>1 DEF EditSession, Overlay, ScheduleTable
    <3>3. old.op = "resume" => row.active = TRUE
      BY <1>2, <1>4, <2>1, <3>1 DEF EditSession, Overlay, ScheduleTable
    <3> QED
      BY <1>1, <1>5, <2>1, <3>1, <3>2, <3>3 DEF JobAgrees, Edits
  <2>2. ASSUME NEW q \in Requests \ {r}, Pending(q), req[q].id \notin drift'
        PROVE  req[q].id # old.id
    <3> SUFFICES ASSUME req[q].id = old.id PROVE FALSE
      OBVIOUS
    <3>1. req[q].lock = {old.id} /\ req[q].at # "load" /\ old.op # "create"
      BY <1>1, <2>2 DEF Pending, IInv, Sessions, SessionOK, EditSession, NewId
    <3>2. old.id \notin old.lock /\ HeldByOther(r, old.id)
      BY <3>1 DEF IInv, Locks, HeldByOther
    <3> QED
      BY <1>6, <2>2, <3>2 DEF OutOfTurn
  <2>3. ASSUME NEW q \in Requests \ {r}, Inserted(q) PROVE req[q].id # old.id
    BY <1>1, <2>3 DEF Inserted, IInv, NewIds, NewId
  <2>4. ASSUME NEW q \in Requests \ {r}, req[q].id \notin drift'
        PROVE  /\ Pending(q) => JobAgrees(jobs', req[q].id, Overlay(req[q].dirty, schedules[req[q].id]))
               /\ Inserted(q) => JobAgrees(jobs', req[q].id, req[q].set)
    <3>1. Pending(q) \/ Inserted(q) => req[q].id # old.id /\ req[q].id \notin drift
      BY <1>6, <2>2, <2>3, <2>4
    <3> QED
      BY <1>1, <1>3, <1>5, <3>1 DEF IInv, PendingAgrees, JobAgrees
  <2> QED
    <3>1. Pending(r)' => JobAgrees(jobs', new.id, Overlay(new.dirty, schedules[new.id]))
      BY <1>3, <2>1 DEF Pending, Edits
    <3>2. Inserted(r)' => JobAgrees(jobs', new.id, new.set)
      BY <1>3, <1>5 DEF Inserted
    <3>3. ASSUME NEW q \in Requests \ {r}
          PROVE  req'[q] = req[q] /\ (Pending(q)' <=> Pending(q)) /\ (Inserted(q)' <=> Inserted(q))
      BY <1>3 DEF Pending, Inserted
    <3>4. ASSUME NEW q \in Requests, req'[q].id \notin drift'
          PROVE  /\ Pending(q)' => JobAgrees(jobs', req'[q].id, Overlay(req'[q].dirty, schedules[req'[q].id]))
                 /\ Inserted(q)' => JobAgrees(jobs', req'[q].id, req'[q].set)
      <4>1. CASE q = r
        BY <3>1, <3>2, <4>1
      <4>2. CASE q # r
        BY <2>4, <3>3, <3>4, <4>2
      <4> QED
        BY <4>1, <4>2
    <3> QED
      BY <1>1, <3>4 DEF PendingAgrees
<1>15. SettledAgrees'
  <2> SUFFICES ASSUME NEW s \in DOMAIN schedules \ drift',
                      \A q \in Requests : Pending(q)' => req'[q].id # s
               PROVE  JobAgrees(jobs', s, schedules[s])
    BY <1>1 DEF SettledAgrees, JobAgrees
  <2>1. CASE s # old.id
    <3>1. s \notin drift
      BY <1>6, <2>1
    <3>2. \A q \in Requests : Pending(q) => req[q].id # s
      BY <1>1, <1>3 DEF Pending, Edits
    <3> QED
      BY <1>1, <1>5, <2>1, <3>1, <3>2 DEF IInv, SettledAgrees, JobAgrees
  <2>2. CASE s = old.id
    <3>1. Edits(old) /\ EditSession(old) /\ ~OutOfTurn(r)
      BY <1>1, <1>2, <1>6, <2>2 DEF NewId
    <3>2. DOMAIN old.dirty = {} /\ old.lock = {}
      BY <1>1, <1>3, <2>2, <3>1 DEF Pending, EditSession, Edits
    <3>3. schedules[s] = IF old.op = "update" THEN old.read ELSE Overlay(old.set, old.read)
      BY <2>2, <3>1, <3>2 DEF OutOfTurn
    <3>4. old.read \in ScheduleTable
      BY <1>1, <3>1 DEF EditSession
    <3> QED
      <4>1. CASE old.op = "update"
        BY <1>5, <2>2, <3>3, <4>1
      <4>2. CASE old.op = "pause"
        <5>1. schedules[s].active = FALSE
          BY <3>1, <3>3, <3>4, <4>2 DEF Overlay, EditSession, ScheduleTable
        <5> QED
          BY <1>5, <2>2, <4>2, <5>1 DEF JobAgrees
      <4>3. CASE old.op = "resume"
        <5>1. schedules[s].active = TRUE /\ schedules[s].timing = row.timing
          BY <3>1, <3>3, <3>4, <4>3 DEF Overlay, EditSession, ScheduleTable
        <5> QED
          BY <1>5, <2>2, <4>3, <5>1 DEF JobAgrees
      <4> QED
        BY <3>1, <4>1, <4>2, <4>3 DEF Edits
  <2> QED
    BY <2>1, <2>2
<1>16. NoStrayJob'
  <2> SUFFICES ASSUME NEW s \in DOMAIN jobs' \ drift', s \notin DOMAIN schedules
               PROVE  \E q \in Requests : /\ req'[q].id = s
                                          /\ Inserted(q)' \/ req'[q].at = "unregister"
    BY <1>1 DEF NoStrayJob, Inserted
  <2>1. CASE s # old.id
    <3>1. s \in DOMAIN jobs \ drift
      BY <1>5, <1>6, <2>1
    <3>2. PICK q \in Requests : req[q].id = s /\ (Inserted(q) \/ req[q].at = "unregister")
      BY <3>1 DEF IInv, NoStrayJob, Inserted
    <3> QED
      BY <1>3, <2>1, <3>2 DEF Inserted
  <2>2. CASE s = old.id
    <3>1. CASE old.op = "create"
      BY <1>3, <2>2, <3>1 DEF Inserted
    <3>2. CASE old.op # "create"
      <4>1. old.lock = {}
        BY <1>1, <1>2, <2>2, <3>2, SchedulesAssumption DEF IInv, TypeOK, EditSession
      <4> QED
        BY <1>6, <2>2, <4>1 DEF OutOfTurn
    <3> QED
      BY <3>1, <3>2
  <2> QED
    BY <2>1, <2>2
<1>17. ConfigFits'
  BY <1>1 DEF IInv, ConfigFits, Bounds, Fits
<1> QED
  BY <1>7, <1>8, <1>9, <1>10, <1>11, <1>12, <1>13, <1>14, <1>15, <1>16, <1>17 DEF IInv

-----------------------------------------------------------------------------
(***************************************************************************)
(* The end of a request.                                                   *)
(***************************************************************************)

(* What is deleted stays deleted until its job is unregistered. *)
LEMMA RemovalGone ==
    ASSUME IInv, NEW r \in Requests, req[r].at = "unregister"
    PROVE  /\ req[r].op \in {"delete", "delete_endpoint"} /\ RemovalSession(req[r])
           /\ req[r].id \notin DOMAIN schedules
<1>1. req[r].op \in Ops /\ SessionOK(r)
  BY DEF IInv, TypeOK, Sessions
<1>2. req[r].op \in {"delete", "delete_endpoint"}
  BY <1>1 DEF SessionOK, Ops, Edits, EditSession, CreateSession, EndpointSession
<1> QED
  BY <1>1, <1>2 DEF SessionOK, RemovalSession

(* The rows whose value a request changes when it ends with this step.      *)
Changes(s) == s \in DOMAIN schedules' /\ (s \in DOMAIN schedules => schedules'[s] # schedules[s])

(* A session ends: rows change only under its lock, and the jobs of what it  *)
(* leaves behind either agree with the rows or are known to have drifted.    *)
LEMMA LeaveStep ==
    ASSUME IInv, NEW r \in Requests, Done(r), used' = used, restarts' = restarts, sent' = sent,
           failures' \in 0 .. MaxFailures, skew' \in BOOLEAN,
           endpoint' \in EndpointTable \cup {None}, endpoint # None => endpoint' # None,
           DOMAIN schedules \subseteq DOMAIN schedules', DOMAIN schedules' \subseteq used,
           \A s \in DOMAIN schedules' : schedules'[s] \in ScheduleTable,
           \A s : Changes(s) =>
               /\ s = req[r].id /\ req[r].lock = {s}
               /\ s \in DOMAIN schedules \/ (req[r].op = "create" /\ req[r].at = "commit"),
           \A s \in DOMAIN jobs' : s \in DOMAIN jobs /\ jobs'[s] = jobs[s],
           \A s \in DOMAIN jobs : s \notin DOMAIN jobs' => s = req[r].id /\ req[r].at = "unregister",
           drift \subseteq drift', drift' \subseteq used,
           \A s \in DOMAIN schedules' \ drift' :
               Changes(s) \/ (Pending(r) /\ s = req[r].id) => JobAgrees(jobs', s, schedules'[s]),
           Inserted(r) => req[r].id \in DOMAIN schedules' \cup drift',
           req[r].at = "unregister" => req[r].id \notin DOMAIN jobs',
           ConfigFits'
    PROVE  IInv'
<1> DEFINE old == req[r]
<1>1. /\ DOMAIN req' = Requests /\ req'[r] = Idle
      /\ \A q \in Requests \ {r} : req'[q] = req[q]
  BY DEF Done, IInv, Shapes
<1>2. \A q \in Requests : req[q].op = "create" =>
        req[q].id # None /\ req[q].at # "idle" /\ CreateSession(req[q])
  BY SchedulesAssumption, IdleFields DEF IInv, Sessions, SessionOK, CreateSession
<1>3. \A q \in Requests \ {r} : req[q].op = "create" => req[q].id \notin DOMAIN schedules'
  <2> SUFFICES ASSUME NEW q \in Requests \ {r}, req[q].op = "create", req[q].id \in DOMAIN schedules'
               PROVE  FALSE
    OBVIOUS
  <2>1. req[q].id \notin DOMAIN schedules
    BY DEF IInv, NewIds, NewId
  <2>2. req[q].id = old.id /\ old.op = "create"
    BY <2>1 DEF Changes
  <2> QED
    BY <2>2 DEF IInv, NewIds, NewId
<1>4. ASSUME NEW q \in Requests \ {r}, NEW s, Changes(s), req[q].id = s
      PROVE  req[q].lock = {} \/ s \notin req[q].lock
  BY <1>4 DEF IInv, Locks
<1>5. TypeOK'
  BY <1>1, IdleFields DEF IInv, TypeOK
<1>6. Shapes'
  BY <1>1, IdleFields DEF IInv, Shapes
<1>7. Sessions'
  <2> SUFFICES ASSUME NEW q \in Requests \ {r} PROVE SessionOK(q)'
    BY <1>1 DEF Sessions, SessionOK, Idle, Session, NoChanges
  <2>1. SessionOK(q) /\ req'[q] = req[q]
    BY <1>1 DEF IInv, Sessions
  <2>2. req[q].op \in {"delete", "delete_endpoint"} /\ req[q].at \in {"commit", "unregister"} =>
          (req[q].id \in DOMAIN schedules' => req[q].id \in DOMAIN schedules)
    <3> SUFFICES ASSUME req[q].at \in {"commit", "unregister"},
                        req[q].id \in DOMAIN schedules', req[q].id \notin DOMAIN schedules
                 PROVE  FALSE
      OBVIOUS
    <3>1. old.op = "create" /\ old.id = req[q].id
      BY DEF Changes
    <3> QED
      BY <3>1 DEF IInv, NewIds, NewId
  <2> QED
    BY <2>1, <2>2 DEF SessionOK, EditSession, CreateSession, RemovalSession, EndpointSession, Edits
<1>8. Locks'
  BY <1>1, IdleFields DEF IInv, Locks
<1>9. NewIds'
  BY <1>1, <1>2, <1>3, IdleFields DEF IInv, NewIds, NewId
<1>10. \A q \in Requests \ {r} :
         Edits(req[q]) /\ DOMAIN req[q].dirty # {} =>
             /\ req[q].id \in DOMAIN schedules /\ ~Changes(req[q].id) /\ req[q].lock = {req[q].id}
             /\ schedules'[req[q].id] = schedules[req[q].id]
  <2> SUFFICES ASSUME NEW q \in Requests \ {r}, Edits(req[q]), DOMAIN req[q].dirty # {}
               PROVE  /\ req[q].id \in DOMAIN schedules /\ ~Changes(req[q].id)
                      /\ req[q].lock = {req[q].id}
    BY DEF Changes
  <2>1. req[q].at # "idle" /\ req[q].lock = {req[q].id} /\ req[q].id \in used
    BY IdleFields DEF IInv, Sessions, SessionOK, EditSession, Edits
  <2>2. req[q].id \in DOMAIN schedules
    BY <2>1, SchedulesAssumption DEF IInv, TypeOK, Edits
  <2> QED
    BY <1>4, <2>1, <2>2
<1>11. ReadRows'
  BY <1>1, <1>10, IdleFields DEF IInv, ReadRows, ReadRow, Edits
<1>12. DeletionExcludes'
  <2> SUFFICES ASSUME NEW q \in Requests \ {r}, Deletes(q)
               PROVE  ~(\E s : Changes(s) /\ s \notin DOMAIN schedules)
    BY <1>1, IdleFields DEF IInv, DeletionExcludes, Deletes, Changes
  <2> QED
    BY DEF IInv, DeletionExcludes
<1>13. \A q \in Requests \ {r} : (Pending(q)' <=> Pending(q)) /\ (Inserted(q)' <=> Inserted(q))
  BY <1>1 DEF Pending, Inserted
<1>14. ~Pending(r)' /\ ~Inserted(r)'
  BY <1>1, IdleFields DEF Pending, Inserted, Edits
<1>15. \A q \in Requests \ {r} : Pending(q) \/ Inserted(q) =>
          (req[q].id \in DOMAIN jobs => req[q].id \in DOMAIN jobs')
  <2> SUFFICES ASSUME NEW q \in Requests \ {r}, Pending(q) \/ Inserted(q),
                      old.at = "unregister", req[q].id = old.id
               PROVE  FALSE
    OBVIOUS
  <2>1. CASE Pending(q)
    <3>1. req[q].id \in DOMAIN schedules
      BY <1>10, <2>1 DEF Pending
    <3> QED
      BY <3>1, RemovalGone
  <2>2. CASE Inserted(q)
    BY <2>2 DEF Inserted, IInv, NewIds, NewId
  <2> QED
    BY <2>1, <2>2
<1>16. PendingAgrees'
  <2> SUFFICES ASSUME NEW q \in Requests \ {r}, req[q].id \notin drift
               PROVE  /\ Pending(q) => JobAgrees(jobs', req[q].id, Overlay(req[q].dirty, schedules'[req[q].id]))
                      /\ Inserted(q) => JobAgrees(jobs', req[q].id, req[q].set)
    BY <1>1, <1>13, <1>14 DEF PendingAgrees
  <2>1. ASSUME Pending(q)
        PROVE  JobAgrees(jobs', req[q].id, Overlay(req[q].dirty, schedules'[req[q].id]))
    <3>1. schedules'[req[q].id] = schedules[req[q].id]
      BY <1>10, <2>1 DEF Pending
    <3>2. JobAgrees(jobs, req[q].id, Overlay(req[q].dirty, schedules[req[q].id]))
      BY <2>1 DEF IInv, PendingAgrees
    <3> QED
      BY <1>15, <2>1, <3>1, <3>2 DEF JobAgrees
  <2>2. ASSUME Inserted(q) PROVE JobAgrees(jobs', req[q].id, req[q].set)
    BY <1>15, <2>2 DEF IInv, PendingAgrees, JobAgrees
  <2> QED
    BY <2>1, <2>2
<1>17. SettledAgrees'
  <2> SUFFICES ASSUME NEW s \in DOMAIN schedules' \ drift',
                      \A q \in Requests \ {r} : Pending(q) => req[q].id # s,
                      ~Changes(s), ~(Pending(r) /\ s = req[r].id)
               PROVE  JobAgrees(jobs', s, schedules'[s])
    BY <1>1, <1>13, <1>14 DEF SettledAgrees
  <2>1. s \in DOMAIN schedules /\ schedules'[s] = schedules[s]
    BY DEF Changes
  <2>2. JobAgrees(jobs, s, schedules[s])
    BY <2>1 DEF IInv, SettledAgrees
  <2>3. s \in DOMAIN jobs => s \in DOMAIN jobs'
    BY <2>1, RemovalGone
  <2> QED
    BY <2>1, <2>2, <2>3 DEF JobAgrees
<1>18. NoStrayJob'
  <2> SUFFICES ASSUME NEW s \in DOMAIN jobs' \ drift', s \notin DOMAIN schedules'
               PROVE  \E q \in Requests : /\ req'[q].id = s
                                          /\ Inserted(q)' \/ req'[q].at = "unregister"
    BY DEF NoStrayJob, Inserted
  <2>1. s \in DOMAIN jobs \ drift /\ s \notin DOMAIN schedules
    OBVIOUS
  <2>2. PICK q \in Requests : req[q].id = s /\ (Inserted(q) \/ req[q].at = "unregister")
    BY <2>1 DEF IInv, NoStrayJob, Inserted
  <2>3. q # r
    BY <2>2
  <2> QED
    BY <1>1, <1>13, <2>2, <2>3
<1> QED
  BY <1>5, <1>6, <1>7, <1>8, <1>9, <1>11, <1>12, <1>16, <1>17, <1>18 DEF IInv

LEMMA UnregisterStep ==
    ASSUME IInv, NEW r \in Requests, Unregister(r)
    PROVE  IInv'
<1>1. /\ endpoint' = endpoint /\ schedules' = schedules /\ used' = used /\ drift' = drift
      /\ skew' = skew /\ sent' = sent /\ failures' = failures /\ restarts' = restarts
      /\ req[r].at = "unregister" /\ Done(r) /\ jobs' = Drop(jobs, {req[r].id})
  BY DEF Unregister, rows, bounds
<1>2. \A s : ~Changes(s)
  BY <1>1 DEF Changes
<1>3. ~Pending(r) /\ ~Inserted(r)
  BY <1>1 DEF Pending, Inserted
<1>4. ConfigFits'
  BY <1>1 DEF IInv, ConfigFits, Bounds, Fits
<1>5. /\ \A s \in DOMAIN jobs' : s \in DOMAIN jobs /\ jobs'[s] = jobs[s]
      /\ \A s \in DOMAIN jobs : s \notin DOMAIN jobs' => s = req[r].id
      /\ req[r].id \notin DOMAIN jobs'
  BY <1>1 DEF Drop
<1>6. TypeOK
  BY DEF IInv
<1> QED
  BY <1>1, <1>2, <1>3, <1>4, <1>5, <1>6, LeaveStep DEF TypeOK

LEMMA FailStep ==
    ASSUME IInv, NEW r \in Requests, Fail(r)
    PROVE  IInv'
<1>1. /\ endpoint' = endpoint /\ schedules' = schedules /\ used' = used /\ jobs' = jobs
      /\ skew' = skew /\ sent' = sent /\ restarts' = restarts /\ Done(r)
      /\ req[r].at \notin {"idle", "unregister"} /\ failures' \in 0 .. MaxFailures
      /\ drift' = IF Inserted(r) \/ Pending(r) THEN drift \cup {req[r].id} ELSE drift
  BY BoundsAssumption DEF Fail, rows, IInv, TypeOK, Inserted, Pending, Edits
<1>2. \A s : ~Changes(s)
  BY <1>1 DEF Changes
<1>3. drift' \subseteq used
  BY <1>1 DEF IInv, TypeOK, Sessions, SessionOK, EditSession, CreateSession, Pending, Inserted, Edits
<1>4. ConfigFits'
  BY <1>1 DEF IInv, ConfigFits, Bounds, Fits
<1>5. TypeOK
  BY DEF IInv
<1> QED
  BY <1>1, <1>2, <1>3, <1>4, <1>5, LeaveStep DEF TypeOK

LEMMA CommitEndpointStep ==
    ASSUME IInv, NEW r \in Requests, CommitEndpoint(r)
    PROVE  IInv'
<1> DEFINE old == req[r]
<1>1. /\ schedules' = schedules /\ used' = used /\ drift' = drift /\ jobs' = jobs
      /\ sent' = sent /\ failures' = failures /\ restarts' = restarts
      /\ old.at = "commit" /\ old.op = "update_endpoint" /\ Done(r)
      /\ skew' = (skew \/ Outdated(old))
      /\ endpoint' = IF DOMAIN old.dirty = {} THEN endpoint ELSE Overlay(old.dirty, endpoint)
  BY DEF CommitEndpoint, bounds
<1>2. EndpointSession(old) /\ TypeOK
  BY <1>1 DEF IInv, Sessions, SessionOK
<1>3. \A s : ~Changes(s)
  BY <1>1 DEF Changes
<1>4. ~Pending(r) /\ ~Inserted(r)
  BY <1>1 DEF Pending, Inserted, Edits
<1>5. CASE DOMAIN old.dirty = {}
  <2>1. ConfigFits'
    BY <1>1, <1>5 DEF IInv, ConfigFits, Bounds, Fits
  <2> QED
    BY <1>1, <1>2, <1>3, <1>4, <1>5, <2>1, LeaveStep DEF TypeOK
<1>6. CASE DOMAIN old.dirty # {}
  <2>1. endpoint \in EndpointTable /\ old.dirty = Differing(old.set, old.ep)
        /\ old.ep \in EndpointTable /\ PartOf(old.set, EndpointTable)
    BY <1>1, <1>2, <1>6 DEF EndpointSession, TypeOK
  <2>2. endpoint' = Overlay(old.dirty, endpoint)
    BY <1>1, <1>6
  <2>3. endpoint' \in EndpointTable
    <3>1. DOMAIN old.dirty \subseteq DOMAIN old.set /\ \A c \in DOMAIN old.dirty : old.dirty[c] = old.set[c]
      BY <2>1 DEF Differing
    <3> QED
      BY <2>1, <2>2, <3>1, EndpointOverlayTyped
  <2>4. endpoint' # None
    BY <2>3, RowsAssumption
  <2>5. ConfigFits'
    <3> SUFFICES ASSUME skew' = FALSE
                 PROVE  /\ Cardinality(DOMAIN schedules) <= 1
                        /\ \A b \in Bounds : Fits(endpoint', b)
      BY <1>1, <1>2, <2>4 DEF ConfigFits, Bounds, Fits, TypeOK
    <3>1. endpoint = old.ep /\ Bounds = old.attached /\ ~skew
      BY <1>1, <1>6 DEF Outdated
    <3>2. Cardinality(DOMAIN schedules) <= 1
      BY <3>1 DEF IInv, ConfigFits
    <3>3. \A b \in Bounds : Fits(Overlay(old.set, old.ep), b)
      BY <1>1, <1>2, <3>1 DEF EndpointSession
    <3>4. /\ endpoint'.strategy = Overlay(old.set, old.ep).strategy
          /\ endpoint'.schema = Overlay(old.set, old.ep).schema
      BY <2>1, <2>2, <3>1 DEF Overlay, Differing, EndpointTable
    <3> QED
      BY <3>2, <3>3, <3>4 DEF Fits
  <2>6. skew' \in BOOLEAN
    BY <1>1, <1>2 DEF TypeOK
  <2> QED
    BY <1>1, <1>2, <1>3, <1>4, <2>3, <2>4, <2>5, <2>6, LeaveStep DEF TypeOK
<1> QED
  BY <1>5, <1>6

LEMMA CommitRowsStep ==
    ASSUME IInv, NEW r \in Requests, CommitRows(r)
    PROVE  IInv'
<1> DEFINE old == req[r]
<1>1. /\ endpoint' = endpoint /\ used' = used /\ drift' = drift /\ jobs' = jobs
      /\ sent' = sent /\ failures' = failures /\ restarts' = restarts
      /\ old.at = "commit" /\ old.op \in {"create", "update", "pause", "resume"} /\ Done(r)
      /\ skew' = (skew \/ Outdated(old))
      /\ schedules' = IF old.op = "create" THEN Put(schedules, old.id, old.set)
                      ELSE IF DOMAIN old.dirty = {} THEN schedules
                      ELSE Put(schedules, old.id, Overlay(old.dirty, schedules[old.id]))
  BY DEF CommitRows, bounds
<1>2. SessionOK(r) /\ TypeOK /\ skew' \in BOOLEAN
  BY <1>1 DEF IInv, Sessions, TypeOK
<1>3. CASE old.op = "create"
  <2>1. CreateSession(old) /\ old.lock = {old.id} /\ old.id \in used /\ old.set \in ScheduleTable
    BY <1>1, <1>2, <1>3 DEF SessionOK, CreateSession
  <2>2. /\ DOMAIN schedules' = DOMAIN schedules \cup {old.id} /\ schedules'[old.id] = old.set
        /\ \A s \in DOMAIN schedules : s # old.id => schedules'[s] = schedules[s]
        /\ old.id \notin DOMAIN schedules
    BY <1>1, <1>3 DEF Put, IInv, NewIds, NewId
  <2>3. \A s : Changes(s) => s = old.id
    BY <2>2 DEF Changes
  <2>4. ~Pending(r) /\ (old.id \notin drift => JobAgrees(jobs, old.id, old.set))
    BY <1>1, <1>3 DEF Pending, Edits, Inserted, IInv, PendingAgrees
  <2>5. ConfigFits'
    <3> SUFFICES ASSUME ~skew'
                 PROVE  /\ Cardinality(DOMAIN schedules') <= 1 /\ endpoint # None
                        /\ \A s \in DOMAIN schedules' : Fits(endpoint, schedules'[s].bound)
      <4>1. endpoint' = endpoint
        BY <1>1
      <4> QED
        BY <4>1 DEF ConfigFits, Bounds, Fits
    <3>1. endpoint = old.ep /\ DOMAIN schedules = {}
      BY <1>1, <1>3 DEF Outdated
    <3>2. Cardinality(DOMAIN schedules') = 1
      <4>1. DOMAIN schedules' = {old.id}
        BY <2>2, <3>1
      <4> QED
        BY <4>1, FS_Singleton
    <3>3. endpoint \in EndpointTable /\ Fits(endpoint, old.set.bound)
      BY <1>1, <2>1, <3>1 DEF CreateSession
    <3> QED
      BY <2>2, <3>1, <3>2, <3>3, RowsAssumption
  <2> QED
    BY <1>1, <1>2, <1>3, <2>1, <2>2, <2>3, <2>4, <2>5, LeaveStep DEF TypeOK
<1>4. CASE old.op # "create" /\ DOMAIN old.dirty = {}
  <2>1. schedules' = schedules /\ (\A s : ~Changes(s)) /\ ~Pending(r) /\ ~Inserted(r)
    BY <1>1, <1>4 DEF Changes, Pending, Inserted
  <2>2. ConfigFits'
    BY <1>1, <2>1 DEF IInv, ConfigFits, Bounds, Fits
  <2> QED
    BY <1>1, <1>2, <2>1, <2>2, LeaveStep DEF TypeOK
<1>5. CASE old.op # "create" /\ DOMAIN old.dirty # {}
  <2>1. Edits(old) /\ EditSession(old) /\ Pending(r) /\ ~Inserted(r) /\ old.lock = {old.id}
    BY <1>1, <1>2, <1>5 DEF SessionOK, EditSession, Edits, Pending, Inserted
  <2>2. old.id \in DOMAIN schedules
    BY <1>2, <1>5, <2>1, <1>1, SchedulesAssumption DEF TypeOK, EditSession
  <2> DEFINE new == Overlay(old.dirty, schedules[old.id])
  <2>3. /\ DOMAIN schedules' = DOMAIN schedules /\ schedules'[old.id] = new
        /\ \A s \in DOMAIN schedules : s # old.id => schedules'[s] = schedules[s]
    BY <1>1, <1>5, <2>2 DEF Put
  <2>4. new \in ScheduleTable
    <3>1. schedules[old.id] \in ScheduleTable
      BY <1>2, <2>2 DEF TypeOK
    <3>2. /\ PartOf(old.set, ScheduleTable) /\ DOMAIN old.dirty \subseteq DOMAIN old.set
          /\ \A c \in DOMAIN old.dirty : old.dirty[c] = old.set[c]
      BY <2>1 DEF EditSession
    <3> QED
      BY <3>1, <3>2, OverlayTyped
  <2>5. \A s : Changes(s) => s = old.id
    BY <2>3 DEF Changes
  <2>6. old.id \notin drift => JobAgrees(jobs, old.id, new)
    BY <2>1 DEF IInv, PendingAgrees
  <2>7. ConfigFits'
    <3> SUFFICES ASSUME ~skew'
                 PROVE  /\ Cardinality(DOMAIN schedules) <= 1 /\ endpoint # None
                        /\ \A s \in DOMAIN schedules : Fits(endpoint, schedules'[s].bound)
      BY <1>1, <2>3 DEF ConfigFits, Bounds, Fits
    <3>1. ~skew /\ ~Outdated(old)
      BY <1>1
    <3>2. /\ Cardinality(DOMAIN schedules) <= 1 /\ endpoint # None
          /\ \A s \in DOMAIN schedules : Fits(endpoint, schedules[s].bound)
      BY <2>2, <3>1 DEF IInv, ConfigFits, Bounds
    <3>3. CASE "bound" \in DOMAIN old.dirty
      <4>1. old.op = "update"
        BY <2>1, <3>3 DEF EditSession, Edits
      <4>2. endpoint = old.ep
        BY <3>1, <3>3, <4>1 DEF Outdated
      <4>3. Fits(endpoint, new.bound)
        BY <1>1, <1>2, <2>1, <2>2, <3>3, <4>1, <4>2 DEF EditSession, Overlay, TypeOK, ScheduleTable
      <4> QED
        BY <2>3, <3>2, <4>3
    <3>4. CASE "bound" \notin DOMAIN old.dirty
      <4>1. new.bound = schedules[old.id].bound
        BY <1>2, <2>2, <3>4 DEF Overlay, TypeOK, ScheduleTable
      <4> QED
        BY <2>2, <2>3, <3>2, <4>1
    <3> QED
      BY <3>3, <3>4
  <2> QED
    BY <1>1, <1>2, <2>1, <2>2, <2>3, <2>4, <2>5, <2>6, <2>7, LeaveStep DEF TypeOK
<1> QED
  BY <1>3, <1>4, <1>5

(* The commit of a deletion: the rows it locked are gone, its own schedule's *)
(* job is about to be, any other has drifted.                                *)
LEMMA CommitRemovalStep ==
    ASSUME IInv, NEW r \in Requests, CommitRemoval(r)
    PROVE  IInv'
<1> DEFINE old == req[r]
           new == req'[r]
<1>1. /\ used' = used /\ jobs' = jobs /\ skew' = skew
      /\ sent' = sent /\ failures' = failures /\ restarts' = restarts
      /\ old.at = "commit" /\ old.op \in {"delete", "delete_endpoint"}
      /\ schedules' = Drop(schedules, old.lock)
      /\ endpoint' = IF Endpoint \in old.lock THEN None ELSE endpoint
      /\ drift' = drift \cup ((old.lock \cap DOMAIN schedules) \ {old.id})
      /\ SessionOK(r) /\ TypeOK /\ DOMAIN req = Requests /\ Shape(old)
  BY DEF CommitRemoval, bounds, IInv, Sessions, Shapes
<1>2. RemovalSession(old)
  BY <1>1 DEF SessionOK
<1>3. /\ DOMAIN req' = Requests /\ Shape(new)
      /\ \A q \in Requests \ {r} : req'[q] = req[q]
      /\ new.op = old.op /\ new.id = old.id /\ new.set = old.set
      /\ new.lock = {} /\ new.at = "unregister"
  BY <1>1 DEF CommitRemoval, Shape
<1>4. /\ DOMAIN schedules' = DOMAIN schedules \ old.lock
      /\ \A s \in DOMAIN schedules' : schedules'[s] = schedules[s]
  BY <1>1 DEF Drop
<1>5. \A q \in Requests \ {r} : req[q].lock \cap old.lock = {}
  BY DEF IInv, Locks
<1>6. /\ ~Pending(r) /\ ~Inserted(r) /\ ~Pending(r)' /\ ~Inserted(r)'
      /\ ~Deletes(r)' /\ ~Edits(old) /\ ~Edits(new)
      /\ \A q \in Requests \ {r} : /\ Pending(q)' <=> Pending(q)
                                   /\ Inserted(q)' <=> Inserted(q)
                                   /\ Deletes(q)' <=> Deletes(q)
  BY <1>1, <1>3 DEF Pending, Inserted, Deletes, Edits
<1>7. TypeOK'
  BY <1>1, <1>3, <1>4, <1>5 DEF TypeOK, Steps
<1>8. Shapes'
  BY <1>1, <1>3 DEF IInv, Shapes
<1>9. Sessions'
  <2>1. SessionOK(r)'
    <3>1. old.id \notin DOMAIN schedules'
      BY <1>1, <1>2, <1>4 DEF RemovalSession
    <3> QED
      BY <1>1, <1>2, <1>3, <1>6, <3>1, SchedulesAssumption DEF SessionOK, RemovalSession
  <2>2. ASSUME NEW q \in Requests \ {r} PROVE SessionOK(q)'
    <3>1. SessionOK(q) /\ req'[q] = req[q] /\ DOMAIN schedules' \subseteq DOMAIN schedules
      BY <1>3, <1>4 DEF IInv, Sessions
    <3>2. CASE req[q].op = "update_endpoint"
      <4>1. DOMAIN req[q].dirty # {} /\ req[q].at # "idle" => endpoint' # None
        BY <1>1, <1>5, <3>1, <3>2 DEF SessionOK, EndpointSession
      <4> QED
        BY <3>1, <3>2, <4>1 DEF SessionOK, EndpointSession, Edits
    <3>3. CASE req[q].op # "update_endpoint"
      BY <1>1, <3>1, <3>3 DEF SessionOK, EditSession, CreateSession, RemovalSession, Edits
    <3> QED
      BY <3>2, <3>3
  <2> QED
    BY <2>1, <2>2 DEF Sessions
<1>10. Locks'
  BY <1>3 DEF IInv, Locks
<1>11. NewIds'
  <2>1. ASSUME NEW q \in Requests, req'[q].op = "create" PROVE q # r /\ NewId(q)
    BY <1>1, <1>3, <2>1 DEF IInv, NewIds
  <2>2. ASSUME NEW q \in Requests \ {r}, req[q].op = "create" PROVE req[q].id # old.id
    BY <1>1, <2>2 DEF IInv, NewIds, NewId
  <2> QED
    BY <1>1, <1>3, <1>4, <2>1, <2>2 DEF NewIds, NewId
<1>12. \A q \in Requests \ {r} : Edits(req[q]) /\ DOMAIN req[q].dirty # {} =>
         schedules'[req[q].id] = schedules[req[q].id]
  <2> SUFFICES ASSUME NEW q \in Requests \ {r}, Edits(req[q]), DOMAIN req[q].dirty # {}
               PROVE  req[q].id \in DOMAIN schedules'
    BY <1>4
  <2>1. req[q].at # "idle" /\ req[q].lock = {req[q].id} /\ req[q].id \in used
    BY IdleFields DEF IInv, Sessions, SessionOK, EditSession, Edits
  <2>2. req[q].id \in DOMAIN schedules
    BY <1>1, <2>1, SchedulesAssumption DEF TypeOK, Edits
  <2> QED
    BY <1>4, <1>5, <2>1, <2>2
<1>13. ReadRows'
  BY <1>3, <1>6, <1>12 DEF IInv, ReadRows, ReadRow
<1>14. DeletionExcludes'
  <2> SUFFICES ASSUME NEW q \in Requests \ {r}, Deletes(q)
               PROVE  /\ Endpoint \in req[q].lock /\ DOMAIN schedules' \subseteq req[q].lock
                      /\ \A x \in Requests : req'[x].op = "create" => req'[x].lock = {}
    BY <1>3, <1>6 DEF DeletionExcludes
  <2> QED
    BY <1>3, <1>4 DEF IInv, DeletionExcludes
<1>15. PendingAgrees'
  <2> SUFFICES ASSUME NEW q \in Requests \ {r}, req[q].id \notin drift
               PROVE  /\ Pending(q) => JobAgrees(jobs, req[q].id, Overlay(req[q].dirty, schedules'[req[q].id]))
                      /\ Inserted(q) => JobAgrees(jobs, req[q].id, req[q].set)
    BY <1>1, <1>3, <1>6 DEF PendingAgrees
  <2>1. Pending(q) => schedules'[req[q].id] = schedules[req[q].id]
    BY <1>12 DEF Pending
  <2> QED
    BY <2>1 DEF IInv, PendingAgrees
<1>16. SettledAgrees'
  <2> SUFFICES ASSUME NEW s \in DOMAIN schedules' \ drift',
                      \A q \in Requests : Pending(q) => req[q].id # s
               PROVE  JobAgrees(jobs, s, schedules'[s])
    BY <1>1, <1>3, <1>6 DEF SettledAgrees
  <2> QED
    BY <1>1, <1>4 DEF IInv, SettledAgrees
<1>17. NoStrayJob'
  <2> SUFFICES ASSUME NEW s \in DOMAIN jobs \ drift', s \notin DOMAIN schedules'
               PROVE  \E q \in Requests : /\ req'[q].id = s
                                          /\ Inserted(q)' \/ req'[q].at = "unregister"
    BY <1>1 DEF NoStrayJob, Inserted
  <2>1. CASE s \in DOMAIN schedules
    BY <1>1, <1>3, <1>4, <2>1
  <2>2. CASE s \notin DOMAIN schedules
    <3>1. PICK q \in Requests : req[q].id = s /\ (Inserted(q) \/ req[q].at = "unregister")
      BY <1>1, <2>2 DEF IInv, NoStrayJob, Inserted
    <3> QED
      BY <1>1, <1>3, <1>6, <3>1
  <2> QED
    BY <2>1, <2>2
<1>18. ConfigFits'
  <2> SUFFICES ASSUME ~skew
               PROVE  /\ Cardinality(DOMAIN schedules') <= 1
                      /\ endpoint' = None => DOMAIN schedules' = {}
                      /\ endpoint' # None => \A s \in DOMAIN schedules' : Fits(endpoint', schedules'[s].bound)
    BY <1>1 DEF ConfigFits, Bounds
  <2>1. /\ Cardinality(DOMAIN schedules) <= 1 /\ (endpoint = None => DOMAIN schedules = {})
        /\ endpoint # None => \A s \in DOMAIN schedules : Fits(endpoint, schedules[s].bound)
    BY DEF IInv, ConfigFits, Bounds
  <2>2. Cardinality(DOMAIN schedules') <= 1
    <3>1. IsFiniteSet(DOMAIN schedules)
      BY <1>1, SchedulesAssumption, FS_Subset DEF TypeOK
    <3>2. /\ Cardinality(DOMAIN schedules') <= Cardinality(DOMAIN schedules)
          /\ Cardinality(DOMAIN schedules') \in Nat /\ Cardinality(DOMAIN schedules) \in Nat
      BY <1>4, <3>1, FS_Subset, FS_CardinalityType
    <3> QED
      BY <2>1, <3>2
  <2>3. CASE Endpoint \in old.lock
    <3>1. Deletes(r)
      BY <1>1, <1>2, <2>3 DEF RemovalSession, Deletes
    <3>2. DOMAIN schedules' = {}
      BY <1>4, <3>1 DEF IInv, DeletionExcludes
    <3> QED
      BY <2>2, <3>2
  <2>4. CASE Endpoint \notin old.lock
    BY <1>1, <1>4, <2>1, <2>2, <2>4
  <2> QED
    BY <2>3, <2>4
<1> QED
  BY <1>7, <1>8, <1>9, <1>10, <1>11, <1>13, <1>14, <1>15, <1>16, <1>17, <1>18 DEF IInv

-----------------------------------------------------------------------------
(***************************************************************************)
(* Start and restart: the registry is rebuilt from the table.              *)
(***************************************************************************)
LEMMA RestoredAgrees ==
    ASSUME NEW table, \A s \in DOMAIN table : table[s] \in ScheduleTable
    PROVE  /\ DOMAIN Restored(table) \subseteq DOMAIN table
           /\ \A s \in DOMAIN Restored(table) :
                 Restored(table)[s] = [timing |-> Restored(table)[s].timing,
                                       paused |-> Restored(table)[s].paused]
           /\ \A s \in DOMAIN table : JobAgrees(Restored(table), s, table[s])
BY DEF Restored, JobAgrees

(* With every session idle what is left to show is about rows and jobs.      *)
LEMMA QuietInv ==
    ASSUME TypeOK, ConfigFits, req = [r \in Requests |-> Idle], jobs = Restored(schedules), drift = {}
    PROVE  IInv
<1>1. \A r \in Requests : req[r] = Idle
  OBVIOUS
<1>2. /\ DOMAIN jobs \subseteq DOMAIN schedules
      /\ \A s \in DOMAIN jobs : jobs[s] = [timing |-> jobs[s].timing, paused |-> jobs[s].paused]
      /\ \A s \in DOMAIN schedules : JobAgrees(jobs, s, schedules[s])
  BY RestoredAgrees DEF TypeOK
<1>3. Shapes
  BY <1>1, <1>2, IdleFields DEF Shapes
<1>4. Sessions /\ Locks /\ NewIds
  BY <1>1, IdleFields DEF Sessions, SessionOK, Locks, NewIds, NewId
<1>5. ReadRows /\ PendingAgrees /\ DeletionExcludes
  BY <1>1, IdleFields DEF ReadRows, ReadRow, PendingAgrees, Pending, Inserted, DeletionExcludes, Deletes,
                          Edits
<1>6. SettledAgrees /\ NoStrayJob
  BY <1>2 DEF SettledAgrees, NoStrayJob
<1> QED
  BY <1>3, <1>4, <1>5, <1>6 DEF IInv

LEMMA InitInv == Init => IInv
<1> SUFFICES ASSUME Init PROVE IInv
  OBVIOUS
<1>1. /\ endpoint \in EndpointTable /\ endpoint # None /\ used = DOMAIN schedules
      /\ jobs = Restored(schedules) /\ req = [r \in Requests |-> Idle]
      /\ sent = 0 /\ failures = 0 /\ restarts = 0 /\ drift = {} /\ skew = FALSE
  BY RowsAssumption DEF Init
<1>2. /\ DOMAIN schedules \subseteq Schedules /\ Cardinality(DOMAIN schedules) <= 1
      /\ \A s \in DOMAIN schedules : schedules[s] \in ScheduleTable /\ Fits(endpoint, schedules[s].bound)
  <2>1. CASE schedules = [s \in {} |-> None]
    BY <2>1, FS_EmptySet
  <2>2. CASE \E s \in Schedules, row \in ScheduleRows :
                 Fits(endpoint, row.bound) /\ schedules = [x \in {s} |-> row]
    <3>1. PICK s \in Schedules, row \in ScheduleRows :
            Fits(endpoint, row.bound) /\ schedules = [x \in {s} |-> row]
      BY <2>2
    <3>2. DOMAIN schedules = {s} /\ schedules[s] = row /\ row \in ScheduleTable
      BY <3>1, RowsAssumption
    <3>3. Cardinality(DOMAIN schedules) = 1
      BY <3>2, FS_Singleton
    <3> QED
      BY <3>1, <3>2, <3>3
  <2> QED
    BY <2>1, <2>2 DEF Init
<1>3. DOMAIN jobs \subseteq DOMAIN schedules
  BY <1>1, <1>2, RestoredAgrees
<1>4. TypeOK
  <2>1. \A r \in Requests : req[r].at = "idle"
    BY <1>1, IdleFields
  <2>2. sent \in 0 .. MaxRequests /\ failures \in 0 .. MaxFailures /\ restarts \in 0 .. MaxRestarts
    BY <1>1, BoundsAssumption
  <2>3. drift \subseteq used /\ skew \in BOOLEAN /\ DOMAIN schedules \subseteq used
        /\ DOMAIN jobs \subseteq used /\ used \subseteq Schedules
    BY <1>1, <1>2, <1>3
  <2> QED
    BY <1>1, <1>2, <2>1, <2>2, <2>3 DEF TypeOK
<1>5. ConfigFits
  BY <1>1, <1>2 DEF ConfigFits, Bounds
<1> QED
  BY <1>1, <1>4, <1>5, QuietInv

LEMMA RestartStep ==
    ASSUME IInv, Restart
    PROVE  IInv'
<1>1. /\ endpoint' = endpoint /\ schedules' = schedules /\ used' = used /\ skew' = skew
      /\ sent' = sent /\ failures' = failures /\ restarts' \in 0 .. MaxRestarts
      /\ req' = [r \in Requests |-> Idle] /\ jobs' = Restored(schedules) /\ drift' = {}
      /\ TypeOK /\ ConfigFits
  BY BoundsAssumption DEF Restart, rows, IInv, TypeOK
<1>2. DOMAIN jobs' \subseteq DOMAIN schedules
  BY <1>1, RestoredAgrees DEF TypeOK
<1>3. TypeOK'
  BY <1>1, <1>2, IdleFields DEF TypeOK
<1>4. ConfigFits'
  BY <1>1 DEF ConfigFits, Bounds, Fits
<1>5. \A r \in Requests : req'[r] = Idle
  BY <1>1
<1>6. /\ \A s \in DOMAIN jobs' : jobs'[s] = [timing |-> jobs'[s].timing, paused |-> jobs'[s].paused]
      /\ \A s \in DOMAIN schedules : JobAgrees(jobs', s, schedules[s])
  BY <1>1, RestoredAgrees DEF TypeOK
<1>7. Shapes'
  BY <1>1, <1>5, <1>6, IdleFields DEF Shapes
<1>8. Sessions' /\ Locks' /\ NewIds'
  BY <1>5, IdleFields DEF Sessions, SessionOK, Locks, NewIds, NewId, Idle, Session, NoChanges
<1>9. ReadRows' /\ PendingAgrees' /\ DeletionExcludes'
  BY <1>5, IdleFields DEF ReadRows, ReadRow, PendingAgrees, Pending, Inserted, DeletionExcludes, Deletes,
                          Edits
<1>10. SettledAgrees' /\ NoStrayJob'
  BY <1>1, <1>2, <1>6 DEF SettledAgrees, NoStrayJob
<1> QED
  BY <1>3, <1>4, <1>7, <1>8, <1>9, <1>10 DEF IInv

LEMMA StutterStep ==
    ASSUME IInv, UNCHANGED vars
    PROVE  IInv'
BY DEF vars, IInv, TypeOK, Shapes, Shape, Sessions, SessionOK, EditSession, CreateSession, RemovalSession,
       EndpointSession, Edits, Locks, NewIds, NewId, ReadRows, ReadRow, PendingAgrees, Pending, Inserted,
       JobAgrees, SettledAgrees, NoStrayJob, DeletionExcludes, Deletes, ConfigFits, Bounds, Fits

-----------------------------------------------------------------------------
(***************************************************************************)
(* The theorems.                                                           *)
(***************************************************************************)

(* The strengthening of the properties is inductive, for every number of    *)
(* requests, every payload and every order of their steps.                   *)
THEOREM Invariant == Spec => []IInv
<1>1. IInv /\ [Next]_vars => IInv'
  <2> SUFFICES ASSUME IInv, [Next]_vars PROVE IInv'
    OBVIOUS
  <2>1. ASSUME NEW r \in Requests, Step(r) PROVE IInv'
    BY <2>1, SendStep, LoadStep, CheckStep, WriteScheduleStep, InsertScheduleStep, RemoveScheduleStep,
       WriteEndpointStep, RemoveEndpointStep, RefreshStep, TouchStep, AdvanceStep, CommitRowsStep,
       CommitEndpointStep, CommitRemovalStep, UnregisterStep, FailStep DEF Step
  <2>2. CASE Restart
    BY <2>2, RestartStep
  <2>3. CASE UNCHANGED vars
    BY <2>3, StutterStep
  <2> QED
    BY <2>1, <2>2, <2>3 DEF Next, Quiet
<1> QED
  BY <1>1, InitInv, PTL DEF Spec

(* Rows, registry, sessions and locks stay well formed; a session locks only *)
(* rows that exist.                                                          *)
THEOREM TypeCorrect == Spec => []TypeOK
<1>1. IInv => TypeOK
  BY DEF IInv
<1> QED
  BY <1>1, Invariant, PTL

(* The registry says what the table says of every row that no transaction    *)
(* holds, unless a job was touched out of turn or its request failed.        *)
THEOREM RegistryFollowsTable == Spec => []RegistryAgrees
<1>1. IInv => RegistryAgrees
  <2> SUFFICES ASSUME IInv, NEW s \in DOMAIN schedules \ drift,
                      \A r \in Requests : s \notin req[r].lock
               PROVE  Agrees(s)
    BY DEF RegistryAgrees
  <2>1. \A r \in Requests : Pending(r) => req[r].id # s
    BY DEF IInv, Sessions, SessionOK, EditSession, Pending, Edits
  <2> QED
    BY <2>1 DEF IInv, SettledAgrees, JobAgrees, Agrees
<1> QED
  BY <1>1, Invariant, PTL

(* A job belongs to a row, to one being inserted or to a deletion about to   *)
(* unregister it.                                                            *)
THEOREM JobsHaveRows == Spec => []NoStrayJob
<1>1. IInv => NoStrayJob
  BY DEF IInv
<1> QED
  BY <1>1, Invariant, PTL

(* The endpoint accepts its only schedule's bindings unless a request was    *)
(* committed against rows that had changed since it validated them.          *)
THEOREM ConfigurationFits == Spec => []ConfigFits
<1>1. IInv => ConfigFits
  BY DEF IInv
<1> QED
  BY <1>1, Invariant, PTL
=============================================================================
