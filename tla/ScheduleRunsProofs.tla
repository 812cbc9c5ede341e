------------------------- MODULE ScheduleRunsProofs -------------------------
(***************************************************************************)
(* Proofs about ScheduleRuns, for every set of executions, every retention *)
(* setting, every bound and every choice of administrator requests.        *)
(***************************************************************************)
EXTENDS ScheduleRuns, NaturalLemmas, FiniteSetTheorems, TLAPS

(* Where an execution is decides what its job_runs row can be.               *)
Unrecorded == {"idle", "submitted", "checking", "inserting", "missing", "skipped"}
Recorded   == {"loading", "querying", "saving", "retaining", "pruning", "deleting",
               "closing", "failing", "failclosing"}

PcMatchesRun(e) ==
    /\ pc[e] \in Unrecorded => runs[e] = None
    /\ pc[e] \in Recorded => runs[e] = "running"
    /\ stamp[e] # 0 => runs[e] # None

(* The unique key (schedule_id, scheduled_for) over the rows, as a fact about *)
(* every state and not only about an INSERT.                                  *)
KeysAreUnique ==
    \A e, f \in Execs : e # f /\ runs[e] # None /\ runs[f] # None => key[e] # key[f]

(* A replay carries the date it was asked for. *)
ReplaysHaveDates == \A e \in Execs : call[e].trigger = "replay" => call[e].time \in ReplayDates

(* The inductive invariant: OneQueryPerLogicalRun and CacheIsBacked speak of  *)
(* runs that have queried or are in the cache, and are kept only because      *)
(* every recorded run, whatever its progress, has a key of its own and is     *)
(* where its execution says it is.                                            *)
IInv ==
    /\ TypeOK
    /\ \A e \in Execs : PcMatchesRun(e)
    /\ KeysAreUnique
    /\ CacheIsBacked
    /\ ReplaysHaveDates

(* The clock's successor and every time passed stay inside the bounded range. *)
LEMMA TimeStep ==
    ASSUME now \in 0 .. MaxTime
    PROVE  now + 1 \in Time /\ now \in Time
  BY BoundsAssumption DEF Time

(* A new transaction start is a positive number. *)
LEMMA StampIsPositive == NextStamp \in Nat /\ NextStamp # 0
  <1> DEFINE S == {e \in Execs : stamp[e] # 0}
  <1>1. IsFiniteSet(S)
    BY ExecsAssumption, FS_Subset
  <1>2. Cardinality(S) \in Nat
    BY <1>1, FS_CardinalityType
  <1> QED
    BY <1>2 DEF NextStamp

(* The logical run time an execution computes is a key, never NULL. *)
LEMMA LogicalRunTimeIsKey ==
    ASSUME TypeOK, ReplaysHaveDates, NEW e \in Execs
    PROVE  LogicalRunTime(e) \in Key /\ LogicalRunTime(e) # None
  <1>1. CASE call[e].trigger = "replay"
    <2>1. call[e].time \in ReplayDates
      BY <1>1 DEF ReplaysHaveDates
    <2> QED
      BY <1>1, <2>1, ExecsAssumption, DatesAssumption DEF LogicalRunTime, Key
  <1>2. CASE call[e].trigger # "replay" /\ call[e].trigger = "scheduled" /\ nextRunAt # None
    BY <1>2 DEF LogicalRunTime, Key, TypeOK
  <1>3. CASE call[e].trigger # "replay" /\ ~(call[e].trigger = "scheduled" /\ nextRunAt # None)
    BY <1>3, ExecsAssumption DEF LogicalRunTime, Key
  <1> QED
    BY <1>1, <1>2, <1>3

(* Every value an execution writes to next_run_at is a time or nothing. *)
LEMMA WriteNextType ==
    ASSUME TypeOK, NEW e \in Execs
    PROVE  WriteNext(e) \in Time \cup {None}
  BY DEF WriteNext, TypeOK

-----------------------------------------------------------------------------
(* Type correctness, action by action. *)

LEMMA SchedulerStepTypes ==
    ASSUME IInv, NEW e \in Execs,
           Tick \/ SubmitFire(e) \/ SkipFire \/ RunNow(e)
    PROVE  TypeOK'
  <1> USE TimeStep DEF IInv, TypeOK, clockVars, dbVars, execVars, Working, Waiting, Triggers
  <1>1. CASE Tick
    <2>1. now' \in 0 .. MaxTime
      BY <1>1, BoundsAssumption DEF Tick
    <2> QED
      BY <1>1, <2>1 DEF Tick
  <1>2. CASE SubmitFire(e)
    <2>1. call' \in [Execs -> [trigger: Triggers, time: Time \cup ReplayDates \cup {None}]]
      BY <1>2 DEF SubmitFire
    <2>2. pc' = [pc EXCEPT ![e] = "submitted"] /\ job' = now + 1
      BY <1>2 DEF SubmitFire
    <2> QED
      BY <1>2, <2>1, <2>2 DEF SubmitFire
  <1>3. CASE SkipFire
    BY <1>3 DEF SkipFire
  <1>4. CASE RunNow(e)
    <2>1. call' \in [Execs -> [trigger: Triggers, time: Time \cup ReplayDates \cup {None}]]
      BY <1>4 DEF RunNow
    <2>2. pc' = [pc EXCEPT ![e] = "submitted"]
      BY <1>4 DEF RunNow
    <2> QED
      BY <1>4, <2>1, <2>2 DEF RunNow
  <1> QED
    BY <1>1, <1>2, <1>3, <1>4

LEMMA ExecStepTypes ==
    ASSUME IInv, NEW e \in Execs, ExecStep(e)
    PROVE  TypeOK'
  <1> USE DEF IInv, TypeOK, clockVars, dbVars, execVars, Working, Waiting, Ended
  <1>1. CASE ReadSchedule(e)
    <2>1. LogicalRunTime(e) \in Key /\ LogicalRunTime(e) # None
      BY LogicalRunTimeIsKey
    <2>2. CASE scheduleRow
      <3> DEFINE k == LogicalRunTime(e)
      <3> HIDE DEF k
      <3>1. /\ key' = [key EXCEPT ![e] = k]
            /\ loaded' = [loaded EXCEPT ![e] = nextRunAt]
            /\ pc' = [pc EXCEPT ![e] = "checking"]
        BY <1>1, <2>2 DEF ReadSchedule, k
      <3>2. k \in Key /\ k # None
        BY <2>1 DEF k
      <3>3. key' \in [Execs -> Key \cup {None}] /\ loaded' \in [Execs -> Time \cup {None}]
        BY <3>1, <3>2
      <3>4. \A f \in Execs : pc'[f] \in Working \ {"submitted"} => key'[f] # None
        BY <3>1, <3>2
      <3>5. pc' \in [Execs -> Waiting \cup Working \cup Ended]
        BY <3>1
      <3> QED
        BY <1>1, <3>3, <3>4, <3>5 DEF ReadSchedule
    <2>3. CASE ~scheduleRow
      BY <1>1, <2>3 DEF ReadSchedule
    <2> QED
      BY <2>2, <2>3
  <1>2. CASE CheckExisting(e)
    BY <1>2 DEF CheckExisting
  <1>3. CASE InsertRun(e)
    <2>1. CASE Insertable(e)
      BY <1>3, <2>1 DEF InsertRun
    <2>2. CASE ~Insertable(e)
      BY <1>3, <2>2 DEF InsertRun
    <2> QED
      BY <2>1, <2>2
  <1>4. CASE StartQuery(e)
    <2>1. CASE endpointRow /\ stamp' = [stamp EXCEPT ![e] = NextStamp]
                 /\ pc' = [pc EXCEPT ![e] = "querying"]
      BY <1>4, <2>1, StampIsPositive DEF StartQuery
    <2>2. CASE pc' = [pc EXCEPT ![e] = "failing"] /\ UNCHANGED stamp
      BY <1>4, <2>2 DEF StartQuery
    <2> QED
      BY <1>4, <2>1, <2>2 DEF StartQuery
  <1>5. CASE EndQuery(e)
    BY <1>5 DEF EndQuery
  <1>6. CASE SaveSnapshot(e)
    BY <1>6 DEF SaveSnapshot
  <1>7. CASE SelectKept(e)
    BY <1>7 DEF SelectKept, Newest, Visible
  <1>8. CASE SelectOld(e)
    BY <1>8 DEF SelectOld, Visible
  <1>9. CASE MarkSuccess(e)
    BY <1>9 DEF MarkSuccess
  <1>10. CASE CommitSuccess(e)
    BY <1>10, WriteNextType DEF CommitSuccess, Visible
  <1>11. CASE MarkFailed(e)
    BY <1>11 DEF MarkFailed
  <1>12. CASE CommitFailure(e)
    BY <1>12, WriteNextType DEF CommitFailure
  <1> QED
    BY <1>1, <1>2, <1>3, <1>4, <1>5, <1>6, <1>7, <1>8, <1>9, <1>10, <1>11, <1>12
       DEF ExecStep

LEMMA EnvironmentStepTypes ==
    ASSUME IInv,
           Reregister \/ CommitNext \/ DeleteSchedule \/ DeleteEndpoint
             \/ Crash \/ Restart \/ CommitRestore
    PROVE  TypeOK'
  <1> USE TimeStep DEF IInv, TypeOK, clockVars, dbVars, execVars, Working, Waiting, Ended
  <1>1. CASE Reregister
    BY <1>1 DEF Reregister
  <1>2. CASE CommitNext
    BY <1>2 DEF CommitNext
  <1>3. CASE DeleteSchedule
    BY <1>3 DEF DeleteSchedule, LoseLockHolders
  <1>4. CASE DeleteEndpoint
    BY <1>4 DEF DeleteEndpoint, LoseLockHolders
  <1>5. CASE Crash
    BY <1>5 DEF Crash
  <1>6. CASE Restart
    BY <1>6 DEF Restart
  <1>7. CASE CommitRestore
    BY <1>7 DEF CommitRestore
  <1> QED
    BY <1>1, <1>2, <1>3, <1>4, <1>5, <1>6, <1>7
-----------------------------------------------------------------------------
(* The rows: keys, statuses and snapshots.                                   *)

RowsInv ==
    /\ \A e \in Execs : PcMatchesRun(e)
    /\ KeysAreUnique
    /\ CacheIsBacked

(* A step that writes no job_runs status, adds no snapshot and leaves the     *)
(* logical times of recorded runs alone keeps the keys unique and the cache   *)
(* backed.                                                                    *)
LEMMA QuietStepKeepsRows ==
    ASSUME KeysAreUnique, CacheIsBacked, runs' = runs, snaps' \subseteq snaps,
           \A f \in Execs : runs[f] # None => key'[f] = key[f]
    PROVE  KeysAreUnique' /\ CacheIsBacked'
  BY NoneAssumption DEF KeysAreUnique, CacheIsBacked

LEMMA SchedulerStepRows ==
    ASSUME IInv, NEW e \in Execs,
           Tick \/ SubmitFire(e) \/ SkipFire \/ RunNow(e)
    PROVE  RowsInv' /\ ReplaysHaveDates'
  <1>1. /\ runs' = runs /\ snaps' = snaps /\ key' = key /\ stamp' = stamp
        /\ pc' = pc \/ (pc[e] = "idle" /\ pc' = [pc EXCEPT ![e] = "submitted"])
    BY DEF Tick, SubmitFire, SkipFire, RunNow, dbVars, execVars
  <1>2. KeysAreUnique' /\ CacheIsBacked'
    BY <1>1, QuietStepKeepsRows DEF IInv
  <1>3. \A f \in Execs : PcMatchesRun(f)'
    BY <1>1, NoneAssumption DEF IInv, TypeOK, PcMatchesRun, Unrecorded, Recorded
  <1>4. ReplaysHaveDates'
    <2>1. CASE Tick \/ SkipFire
      BY <2>1 DEF Tick, SkipFire, execVars, IInv, ReplaysHaveDates
    <2>2. CASE SubmitFire(e)
      BY <2>2 DEF SubmitFire, IInv, ReplaysHaveDates, TypeOK
    <2>3. CASE RunNow(e)
      <3>1. \A f \in Execs \ {e} : call'[f] = call[f]
        BY <2>3 DEF RunNow, IInv, TypeOK
      <3>2. CASE call' = [call EXCEPT ![e] = [trigger |-> "manual", time |-> None]]
        BY <3>1, <3>2 DEF IInv, ReplaysHaveDates, TypeOK
      <3>3. CASE \E d \in ReplayDates :
                   call' = [call EXCEPT ![e] = [trigger |-> "replay", time |-> d]]
        BY <3>1, <3>3 DEF IInv, ReplaysHaveDates, TypeOK
      <3> QED
        BY <2>3, <3>2, <3>3 DEF RunNow
    <2> QED
      BY <2>1, <2>2, <2>3
  <1> QED
    BY <1>2, <1>3, <1>4 DEF RowsInv

(* Steps of an execution that only compute, read or flush. *)
LEMMA QuietExecStepRows ==
    ASSUME IInv, NEW e \in Execs,
           ReadSchedule(e) \/ CheckExisting(e) \/ StartQuery(e) \/ EndQuery(e)
             \/ SaveSnapshot(e) \/ SelectKept(e) \/ SelectOld(e)
             \/ MarkSuccess(e) \/ MarkFailed(e)
    PROVE  /\ RowsInv' /\ runs' = runs /\ snaps' = snaps
           /\ \A f \in Execs : runs[f] # None => key'[f] = key[f]
  <1>1. runs' = runs /\ snaps' = snaps
    BY DEF ReadSchedule, CheckExisting, StartQuery, EndQuery, SaveSnapshot, SelectKept,
           SelectOld, MarkSuccess, MarkFailed, dbVars
  <1>2. \A f \in Execs : runs[f] # None => key'[f] = key[f]
    <2>1. CASE ReadSchedule(e)
      BY <2>1 DEF ReadSchedule, IInv, TypeOK, PcMatchesRun, Unrecorded
    <2>2. CASE ~ReadSchedule(e)
      BY <2>2 DEF CheckExisting, StartQuery, EndQuery, SaveSnapshot, SelectKept,
                  SelectOld, MarkSuccess, MarkFailed
    <2> QED
      BY <2>1, <2>2
  <1>3. KeysAreUnique' /\ CacheIsBacked'
    BY <1>1, <1>2, QuietStepKeepsRows DEF IInv
  <1>4. \A f \in Execs : PcMatchesRun(f)'
    <2> USE <1>1, NoneAssumption DEF IInv, TypeOK, PcMatchesRun, Unrecorded, Recorded
    <2>1. CASE ReadSchedule(e)
      BY <2>1 DEF ReadSchedule
    <2>2. CASE CheckExisting(e)
      BY <2>2 DEF CheckExisting
    <2>3. CASE StartQuery(e)
      <3> HIDE DEF TypeOK
      <3>1. runs[e] = "running"
        BY <2>3 DEF StartQuery
      <3>2. \A f \in Execs \ {e} : pc'[f] = pc[f] /\ stamp'[f] = stamp[f]
        BY <2>3 DEF StartQuery, TypeOK
      <3>3. pc'[e] \in {"querying", "failing"}
        BY <2>3 DEF StartQuery, TypeOK
      <3> QED
        BY <3>1, <3>2, <3>3
    <2>4. CASE EndQuery(e)
      BY <2>4 DEF EndQuery
    <2>5. CASE SaveSnapshot(e)
      BY <2>5 DEF SaveSnapshot
    <2>6. CASE SelectKept(e)
      BY <2>6 DEF SelectKept
    <2>7. CASE SelectOld(e)
      BY <2>7 DEF SelectOld
    <2>8. CASE MarkSuccess(e)
      BY <2>8 DEF MarkSuccess
    <2>9. CASE MarkFailed(e)
      BY <2>9 DEF MarkFailed
    <2> QED
      BY <2>1, <2>2, <2>3, <2>4, <2>5, <2>6, <2>7, <2>8, <2>9
  <1> QED
    BY <1>1, <1>2, <1>3, <1>4 DEF RowsInv

(* The insertion: a new row only under a key no row has. *)
LEMMA InsertRunRows ==
    ASSUME IInv, NEW e \in Execs, InsertRun(e)
    PROVE  RowsInv'
  <1>1. snaps' = snaps /\ key' = key /\ stamp' = stamp /\ runs[e] = None
    BY DEF InsertRun, IInv, PcMatchesRun, Unrecorded
  <1>2. CASE Insertable(e)
    <2>1. /\ runs' = [runs EXCEPT ![e] = "running"]
          /\ pc' = [pc EXCEPT ![e] = "loading"]
          /\ \A f \in Execs : runs[f] # None => key[f] # key[e]
      BY <1>2 DEF InsertRun, Insertable, Taken
    <2>2. KeysAreUnique'
      BY <1>1, <2>1 DEF KeysAreUnique, IInv, TypeOK
    <2>3. CacheIsBacked'
      <3>1. snaps \subseteq Execs /\ \A t \in snaps : runs[t] = "success" /\ t # e
        BY <1>1, NoneAssumption DEF CacheIsBacked, IInv, TypeOK
      <3>2. \A t \in Execs \ {e} : runs'[t] = runs[t]
        BY <2>1 DEF IInv, TypeOK
      <3>3. snaps' = snaps
        BY <1>1
      <3> QED
        BY <3>1, <3>2, <3>3 DEF CacheIsBacked
    <2>4. \A f \in Execs : PcMatchesRun(f)'
      BY <1>1, <2>1, NoneAssumption DEF PcMatchesRun, IInv, TypeOK, Unrecorded, Recorded
    <2> QED
      BY <2>2, <2>3, <2>4 DEF RowsInv
  <1>3. CASE ~Insertable(e)
    <2>1. runs' = runs /\ pc' = [pc EXCEPT ![e] = "skipped"]
      BY <1>3 DEF InsertRun
    <2>2. KeysAreUnique' /\ CacheIsBacked'
      BY <1>1, <2>1, QuietStepKeepsRows DEF IInv
    <2>3. \A f \in Execs : PcMatchesRun(f)'
      BY <1>1, <2>1 DEF PcMatchesRun, IInv, TypeOK, Unrecorded, Recorded
    <2> QED
      BY <2>2, <2>3 DEF RowsInv
  <1> QED
    BY <1>2, <1>3

(* The two commits that settle a run. *)
LEMMA CommitRows ==
    ASSUME IInv, NEW e \in Execs, CommitSuccess(e) \/ CommitFailure(e)
    PROVE  RowsInv'
  <1>1. /\ key' = key /\ stamp' = stamp /\ runs[e] = "running"
        /\ pc' = [pc EXCEPT ![e] = "finished"]
    BY DEF CommitSuccess, CommitFailure, IInv, PcMatchesRun, Recorded
  <1>2. PICK s \in {"success", "failed"} : runs' = [runs EXCEPT ![e] = s]
    BY DEF CommitSuccess, CommitFailure
  <1>3. \A t \in snaps' : t \in snaps \/ (t = e /\ runs'[e] = "success")
    BY <1>2 DEF CommitSuccess, CommitFailure, Visible, IInv, TypeOK
  <1>4. runs'[e] = s /\ \A f \in Execs \ {e} : runs'[f] = runs[f]
    BY <1>2 DEF IInv, TypeOK
  <1>5. pc'[e] = "finished" /\ \A f \in Execs \ {e} : pc'[f] = pc[f]
    BY <1>1 DEF IInv, TypeOK
  <1>7. KeysAreUnique'
    BY <1>1, <1>4, NoneAssumption DEF KeysAreUnique, IInv
  <1>8. CacheIsBacked'
    <2>1. snaps \subseteq Execs /\ \A t \in snaps : runs[t] = "success" /\ t # e
      BY <1>1 DEF CacheIsBacked, IInv, TypeOK
    <2> QED
      BY <1>3, <1>4, <2>1 DEF CacheIsBacked
  <1>9. \A f \in Execs : PcMatchesRun(f)'
    BY <1>1, <1>4, <1>5, NoneAssumption DEF PcMatchesRun, IInv, Unrecorded, Recorded
  <1> QED
    BY <1>7, <1>8, <1>9 DEF RowsInv

(* Administrators and the process: rows change only by the endpoint's purge. *)
LEMMA EnvironmentStepRows ==
    ASSUME IInv,
           Reregister \/ CommitNext \/ DeleteSchedule \/ DeleteEndpoint
             \/ Crash \/ Restart \/ CommitRestore
    PROVE  RowsInv' /\ runs' = runs /\ key' = key /\ snaps' \in {snaps, {}}
  <1>1. /\ runs' = runs /\ key' = key /\ stamp' = stamp
        /\ snaps' \in {snaps, {}}
        /\ \A f \in Execs : pc'[f] \in {pc[f], "lost"}
    BY DEF Reregister, CommitNext, DeleteSchedule, DeleteEndpoint, Crash, Restart,
           CommitRestore, execVars, LoseLockHolders, IInv, TypeOK
  <1>2. KeysAreUnique' /\ CacheIsBacked'
    BY <1>1, QuietStepKeepsRows DEF IInv
  <1>3. \A f \in Execs : PcMatchesRun(f)'
    BY <1>1 DEF PcMatchesRun, IInv, Unrecorded, Recorded
  <1> QED
    BY <1>1, <1>2, <1>3 DEF RowsInv
-----------------------------------------------------------------------------
(* The invariant is inductive. *)

LEMMA InitInv == Init => IInv
  <1> SUFFICES ASSUME Init PROVE IInv
    OBVIOUS
  <1>1. 0 \in 0 .. MaxTime /\ 1 \in Time
    BY BoundsAssumption DEF Time
  <1>2. TypeOK
    BY <1>1 DEF Init, TypeOK, Waiting, Working, Triggers
  <1>3. \A e \in Execs : PcMatchesRun(e)
    BY DEF Init, PcMatchesRun, Recorded
  <1>4. KeysAreUnique /\ CacheIsBacked /\ ReplaysHaveDates
    BY DEF Init, KeysAreUnique, CacheIsBacked, ReplaysHaveDates
  <1> QED
    BY <1>2, <1>3, <1>4 DEF IInv

LEMMA NextInv == IInv /\ [Next]_vars => IInv'
  <1> SUFFICES ASSUME IInv, [Next]_vars PROVE TypeOK' /\ RowsInv' /\ ReplaysHaveDates'
    BY DEF IInv, RowsInv
  <1>1. ASSUME NEW e \in Execs, Tick \/ SubmitFire(e) \/ SkipFire \/ RunNow(e)
        PROVE  TypeOK' /\ RowsInv' /\ ReplaysHaveDates'
    BY <1>1, SchedulerStepTypes, SchedulerStepRows
  <1>2. ASSUME NEW e \in Execs, ExecStep(e)
        PROVE  TypeOK' /\ RowsInv' /\ ReplaysHaveDates'
    <2>1. TypeOK'
      BY <1>2, ExecStepTypes
    <2>2. call' = call
      BY <1>2 DEF ExecStep, ReadSchedule, CheckExisting, InsertRun, StartQuery, EndQuery,
         SaveSnapshot, SelectKept, SelectOld, MarkSuccess, CommitSuccess, MarkFailed,
         CommitFailure
    <2>3. RowsInv'
      BY <1>2, QuietExecStepRows, InsertRunRows, CommitRows DEF ExecStep
    <2> QED
      BY <2>1, <2>2, <2>3 DEF IInv, ReplaysHaveDates
  <1>3. ASSUME Reregister \/ CommitNext \/ DeleteSchedule \/ DeleteEndpoint
                 \/ Crash \/ Restart \/ CommitRestore
        PROVE  TypeOK' /\ RowsInv' /\ ReplaysHaveDates'
    <2>1. call' = call
      BY <1>3 DEF Reregister, CommitNext, DeleteSchedule, DeleteEndpoint, Crash, Restart,
         CommitRestore, execVars
    <2> QED
      BY <1>3, <2>1, EnvironmentStepTypes, EnvironmentStepRows DEF IInv, ReplaysHaveDates
  <1>4. CASE Tick \/ SkipFire
    <2>1. CASE Execs = {}
      <3>1. UNCHANGED <<dbVars, execVars>>
        BY <1>4 DEF Tick, SkipFire
      <3>2. now' \in 0 .. MaxTime /\ job' \in Time \cup {None}
            /\ phase' = phase /\ crashes' = crashes
        BY <1>4, TimeStep, BoundsAssumption DEF Tick, SkipFire, clockVars, IInv, TypeOK
      <3> QED
        BY <2>1, <3>1, <3>2
           DEF IInv, TypeOK, RowsInv, PcMatchesRun, KeysAreUnique, CacheIsBacked,
               ReplaysHaveDates, dbVars, execVars
    <2>2. CASE Execs # {}
      BY <1>4, <1>1, <2>2
    <2> QED
      BY <2>1, <2>2
  <1>5. CASE UNCHANGED vars
    BY <1>5 DEF IInv, TypeOK, RowsInv, PcMatchesRun, KeysAreUnique, CacheIsBacked,
       ReplaysHaveDates, vars, clockVars, dbVars, execVars
  <1> QED
    BY <1>1, <1>2, <1>3, <1>4, <1>5 DEF Next, Finished

(* IInv holds in every reachable state. *)
LEMMA InvHolds == Spec => []IInv
  BY InitInv, NextInv, PTL DEF Spec

-----------------------------------------------------------------------------
(* Every variable keeps its type, whatever administrators, crashes and the    *)
(* clock do to the executions in flight.                                      *)
THEOREM TypeCorrect == Spec => []TypeOK
  <1>1. IInv => TypeOK
    BY DEF IInv
  <1> QED
    BY <1>1, InvHolds, PTL

(* Oracle is queried at most once per logical run, for any number of          *)
(* concurrent fires, replays, ad hoc runs, deletes and restarts.              *)
THEOREM QueriedOnce == Spec => []OneQueryPerLogicalRun
  <1>1. IInv => OneQueryPerLogicalRun
    BY DEF IInv, PcMatchesRun, KeysAreUnique, OneQueryPerLogicalRun
  <1> QED
    BY <1>1, InvHolds, PTL

(* Every retained snapshot belongs to a run recorded as a success. *)
THEOREM SnapshotsAreOfSuccesses == Spec => []CacheIsBacked
  <1>1. IInv => CacheIsBacked
    BY DEF IInv
  <1> QED
    BY <1>1, InvHolds, PTL
-----------------------------------------------------------------------------
(* The history of a recorded run.                                             *)

(* What HistoryIsFinal asks of one step. *)
KeepsHistory ==
    \A e \in Execs : runs[e] # None =>
        /\ key'[e] = key[e]
        /\ runs[e] # "running" => runs'[e] = runs[e]
        /\ runs'[e] # None

LEMMA NextKeepsHistory == IInv /\ [Next]_vars => KeepsHistory
  <1> SUFFICES ASSUME IInv, [Next]_vars PROVE KeepsHistory
    OBVIOUS
  <1>1. ASSUME runs' = runs, \A f \in Execs : runs[f] # None => key'[f] = key[f]
        PROVE  KeepsHistory
    BY <1>1 DEF KeepsHistory
  <1>2. ASSUME NEW e \in Execs, ExecStep(e) PROVE KeepsHistory
    <2>1. CASE InsertRun(e)
      <3>1. key' = key /\ runs[e] = None /\ \A f \in Execs \ {e} : runs'[f] = runs[f]
        BY <2>1 DEF InsertRun, IInv, TypeOK, PcMatchesRun, Unrecorded
      <3> QED
        BY <3>1 DEF KeepsHistory
    <2>2. CASE CommitSuccess(e) \/ CommitFailure(e)
      <3>1. key' = key /\ runs[e] = "running"
        BY <2>2 DEF CommitSuccess, CommitFailure, IInv, PcMatchesRun, Recorded
      <3>2. runs'[e] \in {"success", "failed"} /\ \A f \in Execs \ {e} : runs'[f] = runs[f]
        BY <2>2 DEF CommitSuccess, CommitFailure, IInv, TypeOK
      <3> QED
        BY <3>1, <3>2, NoneAssumption DEF KeepsHistory
    <2>3. CASE ~InsertRun(e) /\ ~CommitSuccess(e) /\ ~CommitFailure(e)
      BY <1>1, <1>2, <2>3, QuietExecStepRows DEF ExecStep
    <2> QED
      BY <2>1, <2>2, <2>3
  <1>3. ASSUME NEW e \in Execs, SubmitFire(e) \/ RunNow(e) PROVE KeepsHistory
    BY <1>1, <1>3 DEF SubmitFire, RunNow, dbVars
  <1>4. CASE Tick \/ SkipFire
    BY <1>1, <1>4 DEF Tick, SkipFire, dbVars, execVars
  <1>5. CASE Reregister \/ CommitNext \/ DeleteSchedule \/ DeleteEndpoint
               \/ Crash \/ Restart \/ CommitRestore
    BY <1>1, <1>5, EnvironmentStepRows
  <1>6. CASE UNCHANGED vars
    BY <1>1, <1>6 DEF vars, dbVars, execVars
  <1> QED
    BY <1>2, <1>3, <1>4, <1>5, <1>6 DEF Next, Finished

(* No late answer, retry, delete, crash or restart rewrites a settled run or  *)
(* the logical time of a recorded one.                                        *)
THEOREM HistoryNeverRewritten == Spec => HistoryIsFinal
  <1>1. IInv /\ [Next]_vars => [KeepsHistory]_vars
    BY NextKeepsHistory
  <1>2. [][KeepsHistory]_vars => HistoryIsFinal
    BY PTL DEF HistoryIsFinal, KeepsHistory
  <1> QED
    BY <1>1, <1>2, InvHolds, PTL DEF Spec

-----------------------------------------------------------------------------
(* The cache: what changes it, and what a deleted endpoint leaves of it.      *)

(* What CacheChangesWithSuccess asks of one step. *)
ChangesCacheWithSuccess ==
    snaps' # snaps =>
        \/ endpointRow /\ ~endpointRow'
        \/ \E e \in Execs : runs[e] = "running" /\ runs'[e] = "success"

LEMMA NextChangesCacheWithSuccess == IInv /\ [Next]_vars => ChangesCacheWithSuccess
  <1> SUFFICES ASSUME IInv, [Next]_vars, snaps' # snaps
               PROVE  \/ endpointRow /\ ~endpointRow'
                      \/ \E e \in Execs : runs[e] = "running" /\ runs'[e] = "success"
    BY DEF ChangesCacheWithSuccess
  <1>1. CASE DeleteEndpoint
    BY <1>1 DEF DeleteEndpoint
  <1>2. ASSUME NEW e \in Execs, CommitSuccess(e)
        PROVE  runs[e] = "running" /\ runs'[e] = "success"
    BY <1>2 DEF CommitSuccess, IInv, TypeOK, PcMatchesRun, Recorded
  <1>3. CASE ~DeleteEndpoint /\ \A e \in Execs : ~CommitSuccess(e)
    BY <1>3 DEF Next, Finished, vars, clockVars, dbVars, execVars, ExecStep, Tick, SkipFire,
       SubmitFire, RunNow, ReadSchedule, CheckExisting, InsertRun, StartQuery, EndQuery,
       SaveSnapshot, SelectKept, SelectOld, MarkSuccess, MarkFailed, CommitFailure,
       Reregister, CommitNext, DeleteSchedule, Crash, Restart, CommitRestore
  <1> QED
    BY <1>1, <1>2, <1>3

(* delete_old and the INSERT of the snapshot share the transaction that       *)
(* records the success: a failed run neither replaces nor prunes a snapshot.  *)
THEOREM CacheFollowsSuccess == Spec => CacheChangesWithSuccess
  <1>1. IInv /\ [Next]_vars => [ChangesCacheWithSuccess]_snaps
    BY NextChangesCacheWithSuccess
  <1>2. [][ChangesCacheWithSuccess]_snaps => CacheChangesWithSuccess
    BY PTL DEF CacheChangesWithSuccess, ChangesCacheWithSuccess
  <1> QED
    BY <1>1, <1>2, InvHolds, PTL DEF Spec

(* An execution whose transaction has inserted a snapshot. *)
Storing == {"retaining", "pruning", "deleting", "closing"}

(* No transaction holds a snapshot of a deleted endpoint: the foreign key     *)
(* refuses it afterwards, and the DELETE waits for those before it.           *)
NothingToStore == endpointRow \/ (snaps = {} /\ \A e \in Execs : pc[e] \notin Storing)

LEMMA NothingToStoreStep == TypeOK /\ NothingToStore /\ [Next]_vars => NothingToStore'
  <1> SUFFICES ASSUME TypeOK, NothingToStore, [Next]_vars, ~endpointRow'
               PROVE  snaps' = {} /\ \A e \in Execs : pc'[e] \notin Storing
    BY DEF NothingToStore
  <1>1. CASE DeleteEndpoint
    BY <1>1 DEF DeleteEndpoint, LoseLockHolders, Storing
  <1>2. CASE ~DeleteEndpoint
    <2>1. ~endpointRow /\ snaps = {} /\ \A e \in Execs : pc[e] \notin Storing
      BY <1>2 DEF NothingToStore, Next, Finished, vars, clockVars, dbVars, execVars, ExecStep,
         Tick, SkipFire, SubmitFire, RunNow, ReadSchedule, CheckExisting, InsertRun, StartQuery,
         EndQuery, SaveSnapshot, SelectKept, SelectOld, MarkSuccess, CommitSuccess, MarkFailed,
         CommitFailure, Reregister, CommitNext, DeleteSchedule, Crash, Restart, CommitRestore
    <2>2. ASSUME NEW e \in Execs, SubmitFire(e) \/ RunNow(e) \/ ExecStep(e)
          PROVE  snaps' = {} /\ \A f \in Execs : pc'[f] \notin Storing
      <3>1. snaps' = {}
        BY <2>1, <2>2 DEF dbVars, ExecStep, SubmitFire, RunNow, ReadSchedule, CheckExisting,
           InsertRun, StartQuery, EndQuery, SaveSnapshot, SelectKept, SelectOld, MarkSuccess,
           CommitSuccess, MarkFailed, CommitFailure, Storing
      <3>2. /\ \A f \in Execs \ {e} : pc'[f] = pc[f]
            /\ pc'[e] \notin Storing
        BY <2>1, <2>2 DEF TypeOK, ExecStep, SubmitFire, RunNow, ReadSchedule, CheckExisting,
           InsertRun, StartQuery, EndQuery, SaveSnapshot, SelectKept, SelectOld, MarkSuccess,
           CommitSuccess, MarkFailed, CommitFailure, Storing
      <3> QED
        BY <2>1, <3>1, <3>2
    <2>3. CASE DeleteSchedule \/ Crash
      BY <2>1, <2>3 DEF DeleteSchedule, Crash, LoseLockHolders, Storing
    <2>4. CASE \/ Tick \/ SkipFire \/ Reregister \/ CommitNext
               \/ Restart \/ CommitRestore \/ UNCHANGED vars
      BY <2>1, <2>4 DEF Tick, SkipFire, Reregister, CommitNext, Restart, CommitRestore,
         vars, dbVars, execVars
    <2> QED
      BY <1>2, <2>2, <2>3, <2>4 DEF Next, Finished
  <1> QED
    BY <1>1, <1>2

(* An execution in flight never brings a snapshot of a deleted endpoint back. *)
THEOREM NoSnapshotAfterDeletion == Spec => []DeletedEndpointHasNoCache
  <1>1. Init => NothingToStore
    BY DEF Init, NothingToStore
  <1>2. NothingToStore => DeletedEndpointHasNoCache
    BY DEF NothingToStore, DeletedEndpointHasNoCache
  <1> QED
    BY <1>1, <1>2, NothingToStoreStep, TypeCorrect, PTL DEF Spec

-----------------------------------------------------------------------------
(* Refinement of LogicalRuns.                                                 *)

(* A key is in at most one of the abstract ledger's sets, once: the runs of   *)
(* the same key are the same run.                                             *)
LEMMA KeyNamesRun ==
    ASSUME IInv, NEW e \in Execs, NEW f \in Execs,
           runs[e] # None, runs[f] # None, key[e] = key[f]
    PROVE  e = f
  BY DEF IInv, KeysAreUnique

(* Steps that change no row leave the abstract state alone. *)
LEMMA QuietStepStutters ==
    ASSUME IInv, runs' = runs, snaps' = snaps,
           \A f \in Execs : runs[f] # None => key'[f] = key[f]
    PROVE  UNCHANGED Logical!vars
  <1>1. \A s \in {"running", "success", "failed"} : KeysWith(s)' = KeysWith(s)
    BY NoneAssumption DEF KeysWith
  <1>2. {key[e] : e \in snaps}' = {key[e] : e \in snaps}
    BY NoneAssumption DEF IInv, CacheIsBacked, TypeOK
  <1> QED
    BY <1>1, <1>2 DEF Logical!vars

(* Inserting the running row begins the logical run. *)
LEMMA InsertBegins ==
    ASSUME IInv, NEW e \in Execs, InsertRun(e), Insertable(e)
    PROVE  key[e] \in Key /\ Logical!Begin(key[e])
  <1>1. /\ key' = key /\ snaps' = snaps /\ runs[e] = None
        /\ runs' = [runs EXCEPT ![e] = "running"]
        /\ \A f \in Execs : runs[f] # None => key[f] # key[e]
    BY DEF InsertRun, Insertable, Taken, IInv, PcMatchesRun, Unrecorded
  <1>2. runs'[e] = "running" /\ \A f \in Execs \ {e} : runs'[f] = runs[f]
    BY <1>1 DEF IInv, TypeOK
  <1>3. key[e] \in Key
    BY DEF InsertRun, IInv, TypeOK, Working
  <1>4. key[e] \notin Logical!Begun
    BY <1>1, NoneAssumption DEF Logical!Begun, KeysWith
  <1>5. KeysWith("running")' = KeysWith("running") \cup {key[e]}
    BY <1>1, <1>2, NoneAssumption DEF KeysWith
  <1>6. /\ KeysWith("success")' = KeysWith("success")
        /\ KeysWith("failed")' = KeysWith("failed")
    BY <1>1, <1>2, NoneAssumption DEF KeysWith
  <1>7. {key[f] : f \in snaps}' = {key[f] : f \in snaps}
    BY <1>1
  <1> QED
    BY <1>3, <1>4, <1>5, <1>6, <1>7 DEF Logical!Begin

(* A commit settles it, and only a successful one touches the cache. *)
LEMMA CommitSettles ==
    ASSUME IInv, NEW e \in Execs, CommitSuccess(e) \/ CommitFailure(e)
    PROVE  key[e] \in Key /\ (Logical!Succeed(key[e]) \/ Logical!Fail(key[e]))
  <1>1. key' = key /\ runs[e] = "running"
    BY DEF CommitSuccess, CommitFailure, IInv, PcMatchesRun, Recorded
  <1>2. \A f \in Execs \ {e} : runs'[f] = runs[f]
    BY DEF CommitSuccess, CommitFailure, IInv, TypeOK
  <1>3. key[e] \in Key
    BY DEF CommitSuccess, CommitFailure, IInv, TypeOK, Working
  <1>4. key[e] \in KeysWith("running")
    BY <1>1 DEF KeysWith
  <1>5. \A f \in Execs \ {e} : runs[f] # None => key[f] # key[e]
    BY <1>1, NoneAssumption, KeyNamesRun
  <1>6. runs'[e] # "running" => KeysWith("running")' = KeysWith("running") \ {key[e]}
    BY <1>1, <1>2, <1>5, NoneAssumption DEF KeysWith
  <1>7. CASE CommitSuccess(e)
    <2>1. runs'[e] = "success"
      BY <1>7 DEF CommitSuccess, IInv, TypeOK
    <2>2. KeysWith("success")' = KeysWith("success") \cup {key[e]}
      BY <1>1, <1>2, <2>1 DEF KeysWith
    <2>3. KeysWith("failed")' = KeysWith("failed")
      BY <1>1, <1>2, <2>1 DEF KeysWith
    <2>4. {key[f] : f \in snaps}' \subseteq {key[f] : f \in snaps} \cup {key[e]}
      BY <1>1, <1>7 DEF CommitSuccess, Visible
    <2> QED
      BY <1>3, <1>4, <1>6, <2>1, <2>2, <2>3, <2>4 DEF Logical!Succeed
  <1>8. CASE CommitFailure(e)
    <2>1. runs'[e] = "failed" /\ snaps' = snaps
      BY <1>8 DEF CommitFailure, IInv, TypeOK
    <2>2. KeysWith("failed")' = KeysWith("failed") \cup {key[e]}
      BY <1>1, <1>2, <2>1 DEF KeysWith
    <2>3. KeysWith("success")' = KeysWith("success")
      BY <1>1, <1>2, <2>1 DEF KeysWith
    <2>4. {key[f] : f \in snaps}' = {key[f] : f \in snaps}
      BY <1>1, <2>1
    <2> QED
      BY <1>3, <1>4, <1>6, <2>1, <2>2, <2>3, <2>4 DEF Logical!Fail
  <1> QED
    BY <1>7, <1>8

LEMMA NextRefines == IInv /\ [Next]_vars => [Logical!Next]_(Logical!vars)
  <1> SUFFICES ASSUME IInv, [Next]_vars PROVE Logical!Next \/ UNCHANGED Logical!vars
    OBVIOUS
  <1>1. ASSUME NEW e \in Execs, ExecStep(e)
        PROVE  Logical!Next \/ UNCHANGED Logical!vars
    <2>1. CASE InsertRun(e) /\ Insertable(e)
      BY <2>1, InsertBegins DEF Logical!Next
    <2>2. CASE InsertRun(e) /\ ~Insertable(e)
      <3>1. runs' = runs /\ snaps' = snaps /\ key' = key
        BY <2>2 DEF InsertRun
      <3> QED
        BY <3>1, QuietStepStutters
    <2>3. CASE CommitSuccess(e) \/ CommitFailure(e)
      <3>1. key[e] \in Key
        BY <2>3, CommitSettles
      <3>2. Logical!Succeed(key[e]) \/ Logical!Fail(key[e])
        BY <2>3, CommitSettles
      <3> QED
        BY <3>1, <3>2 DEF Logical!Next, Logical!Succeed, Logical!Fail
    <2>4. CASE ~InsertRun(e) /\ ~CommitSuccess(e) /\ ~CommitFailure(e)
      <3>1. runs' = runs /\ snaps' = snaps
            /\ \A f \in Execs : runs[f] # None => key'[f] = key[f]
        BY <1>1, <2>4, QuietExecStepRows DEF ExecStep
      <3> QED
        BY <3>1, QuietStepStutters
    <2> QED
      BY <2>1, <2>2, <2>3, <2>4
  <1>2. ASSUME NEW e \in Execs, SubmitFire(e) \/ RunNow(e)
        PROVE  UNCHANGED Logical!vars
    BY <1>2, QuietStepStutters DEF SubmitFire, RunNow, dbVars
  <1>3. CASE Tick \/ SkipFire
    BY <1>3, QuietStepStutters DEF Tick, SkipFire, dbVars, execVars
  <1>4. CASE Reregister \/ CommitNext \/ DeleteSchedule \/ DeleteEndpoint
               \/ Crash \/ Restart \/ CommitRestore
    <2>1. runs' = runs /\ key' = key /\ snaps' \in {snaps, {}}
      BY <1>4, EnvironmentStepRows
    <2>2. CASE snaps' = snaps
      BY <2>1, <2>2, QuietStepStutters
    <2>3. CASE snaps' = {}
      <3>1. {key[e] : e \in snaps}' = {}
        BY <2>3
      <3>2. \A s \in {"running", "success", "failed"} : KeysWith(s)' = KeysWith(s)
        BY <2>1 DEF KeysWith
      <3> QED
        BY <3>1, <3>2 DEF Logical!Next, Logical!Purge
    <2> QED
      BY <2>1, <2>2, <2>3
  <1>5. CASE UNCHANGED vars
    BY <1>5, QuietStepStutters DEF vars, dbVars, execVars
  <1> QED
    BY <1>1, <1>2, <1>3, <1>4, <1>5 DEF Next, Finished

LEMMA InitRefines == Init => Logical!Init
  BY NoneAssumption DEF Init, Logical!Init, KeysWith

(* Session by session, with every interleaving, crash and delete, the         *)
(* executions implement the ledger of logical runs.                           *)
THEOREM Refinement == Spec => ImplementsLogicalRuns
  <1> QED
    BY InitRefines, NextRefines, InvHolds, PTL DEF Spec, ImplementsLogicalRuns, Logical!Spec
-----------------------------------------------------------------------------
(***************************************************************************)
(* The executions APScheduler starts, where it alone starts them:          *)
(* max_instances = 1 then serialises them, and retention and the order of  *)
(* logical run times rest on that.  With run_now in use they do not hold   *)
(* (two executions may prune, or compute a key, at once), so every theorem *)
(* from here on assumes OnlyScheduled; for any set of executions,          *)
(* retention setting, clock and number of crashes.                         *)
(***************************************************************************)

(* POST /schedules/{id}/run is not used. *)
OnlyScheduled == ~AdhocRuns /\ ReplayDates = {}

-----------------------------------------------------------------------------
(* What the steps leave alone.                                               *)

(* A step of an execution moves that execution alone, and no one else's      *)
(* clock, job, rows or call.                                                 *)
LEMMA ExecStepFrame ==
    ASSUME TypeOK, NEW e \in Execs, ExecStep(e)
    PROVE  /\ pc[e] \in Working /\ pc'[e] \in Working \cup Ended
           /\ \A f \in Execs \ {e} : pc'[f] = pc[f]
           /\ call' = call /\ now' = now /\ phase' = phase /\ crashes' = crashes /\ job' = job
           /\ scheduleRow' = scheduleRow /\ endpointRow' = endpointRow
           /\ pendingNext' = pendingNext
  <1> USE DEF TypeOK, clockVars, dbVars, Working, Ended
  <1>1. CASE ReadSchedule(e) \/ CheckExisting(e) \/ InsertRun(e) \/ StartQuery(e)
    BY <1>1 DEF ReadSchedule, CheckExisting, InsertRun, StartQuery
  <1>2. CASE EndQuery(e) \/ SaveSnapshot(e) \/ SelectKept(e) \/ SelectOld(e)
    BY <1>2 DEF EndQuery, SaveSnapshot, SelectKept, SelectOld
  <1>3. CASE MarkSuccess(e) \/ CommitSuccess(e) \/ MarkFailed(e) \/ CommitFailure(e)
    BY <1>3 DEF MarkSuccess, CommitSuccess, MarkFailed, CommitFailure
  <1> QED
    BY <1>1, <1>2, <1>3 DEF ExecStep

(* A request, a crash or a restart ends executions and computes nothing for  *)
(* them.                                                                     *)
Environment ==
    \/ Reregister \/ CommitNext \/ DeleteSchedule \/ DeleteEndpoint
    \/ Crash \/ Restart \/ CommitRestore

LEMMA EnvironmentFrame ==
    ASSUME TypeOK, Environment
    PROVE  /\ \A f \in Execs : pc'[f] = pc[f] \/ (pc[f] \in Working /\ pc'[f] = "lost")
           /\ call' = call /\ key' = key /\ loaded' = loaded /\ stamp' = stamp
           /\ kept' = kept /\ doomed' = doomed /\ newNext' = newNext
           /\ now' = now /\ runs' = runs
  BY DEF TypeOK, Environment, Reregister, CommitNext, DeleteSchedule, DeleteEndpoint, Crash,
     Restart, CommitRestore, LoseLockHolders, HoldRunLock, Working, clockVars, execVars

(* Every step is one of these. *)
LEMMA StepCases ==
    ASSUME OnlyScheduled, [Next]_vars
    PROVE  \/ \E e \in Execs : SubmitFire(e)
           \/ \E e \in Execs : ExecStep(e)
           \/ Environment
           \/ Tick \/ SkipFire
           \/ UNCHANGED vars
  BY DEF OnlyScheduled, Next, Environment, Finished, RunNow

-----------------------------------------------------------------------------
(* max_instances = 1.                                                        *)

OneAtATime ==
    /\ \A e \in Execs : pc[e] # "idle" => call[e].trigger = "scheduled"
    /\ \A e, f \in Execs : pc[e] \in Working /\ pc[f] \in Working => e = f

(* A fire is submitted only when nothing is running. *)
LEMMA SubmitsWhenIdle ==
    ASSUME OneAtATime, NEW e \in Execs, SubmitFire(e), NEW f \in Execs
    PROVE  pc[f] \notin Working
  BY DEF OneAtATime, SubmitFire, Instances, Working

LEMMA OneAtATimeStep ==
    ASSUME OnlyScheduled, TypeOK, OneAtATime, [Next]_vars
    PROVE  OneAtATime'
  <1>1. ASSUME NEW e \in Execs, SubmitFire(e) PROVE OneAtATime'
    <2>1. \A f \in Execs : pc[f] \notin Working
      BY <1>1, SubmitsWhenIdle
    <2>2. /\ pc'[e] = "submitted" /\ call'[e].trigger = "scheduled"
          /\ \A f \in Execs \ {e} : pc'[f] = pc[f] /\ call'[f] = call[f]
      BY <1>1 DEF SubmitFire, TypeOK
    <2> QED
      BY <2>1, <2>2 DEF OneAtATime
  <1>2. ASSUME NEW e \in Execs, ExecStep(e) PROVE OneAtATime'
    BY <1>2, ExecStepFrame DEF OneAtATime, Working
  <1>3. CASE Environment
    BY <1>3, EnvironmentFrame DEF OneAtATime, Working
  <1>4. CASE Tick \/ SkipFire \/ UNCHANGED vars
    <2>1. pc' = pc /\ call' = call
      BY <1>4 DEF Tick, SkipFire, vars, execVars
    <2> QED
      BY <2>1 DEF OneAtATime
  <1> QED
    BY <1>1, <1>2, <1>3, <1>4, StepCases

-----------------------------------------------------------------------------
(* Snapshots are ordered by the start of the transactions that wrote them.   *)

Started == {e \in Execs : stamp[e] # 0}

StampsGrow ==
    /\ \A e \in Execs : stamp[e] <= Cardinality(Started)
    /\ \A e, f \in Started : stamp[e] = stamp[f] => e = f
    /\ \A e \in Execs : pc[e] = "loading" => stamp[e] = 0
    /\ \A e \in Execs : pc[e] \in Storing => stamp[e] # 0
    /\ \A e \in Execs : pc[e] \in {"querying", "saving"} => stamp[e] # 0
    /\ snaps \subseteq Started

LEMMA StartedIsFinite == IsFiniteSet(Started) /\ Cardinality(Started) \in Nat
  BY ExecsAssumption, FS_Subset, FS_CardinalityType DEF Started

LEMMA StartQueryStamps ==
    ASSUME IInv, StampsGrow, NEW e \in Execs, StartQuery(e)
    PROVE  StampsGrow'
  <1>1. stamp[e] = 0 /\ snaps' = snaps /\ pc[e] = "loading"
    BY DEF StartQuery, StampsGrow, dbVars
  <1>2. CASE stamp' = [stamp EXCEPT ![e] = NextStamp] /\ pc' = [pc EXCEPT ![e] = "querying"]
    <2> DEFINE n == Cardinality(Started)
    <2>1. n \in Nat /\ NextStamp = n + 1
      BY StartedIsFinite DEF NextStamp, Started
    <2>2. Started' = Started \cup {e} /\ e \notin Started
      <3>1. stamp'[e] # 0
        BY <1>2, StampIsPositive DEF IInv, TypeOK
      <3>2. \A f \in Execs \ {e} : stamp'[f] = stamp[f]
        BY <1>2 DEF IInv, TypeOK
      <3> QED
        BY <1>1, <3>1, <3>2 DEF Started
    <2>3. Cardinality(Started') = n + 1
      BY <2>1, <2>2, StartedIsFinite, FS_AddElement
    <2>4. stamp'[e] = n + 1 /\ \A f \in Execs \ {e} : stamp'[f] = stamp[f] /\ stamp[f] \in 0 .. n
      BY <1>2, <2>1 DEF IInv, TypeOK, StampsGrow
    <2>5. pc'[e] = "querying" /\ \A f \in Execs \ {e} : pc'[f] = pc[f]
      BY <1>2 DEF IInv, TypeOK
    <2> HIDE DEF n
    <2>6. \A f \in Execs : stamp'[f] <= n + 1
      BY <2>1, <2>4
    <2>7. \A f, g \in Started' : stamp'[f] = stamp'[g] => f = g
      <3>1. \A f \in Started : f \in Execs \ {e}
        BY <2>2 DEF Started
      <3>2. \A f, g \in Started : stamp[f] = stamp[g] => f = g
        BY DEF StampsGrow
      <3>3. \A f \in Started : stamp'[f] = stamp[f] /\ stamp'[f] # n + 1
        <4>1. \A f \in Execs \ {e} : stamp'[f] = stamp[f] /\ stamp[f] \in 0 .. n
          BY <2>4
        <4> QED
          BY <2>1, <3>1, <4>1
      <3>4. stamp'[e] = n + 1
        BY <2>4
      <3> QED
        BY <2>2, <3>2, <3>3, <3>4
    <2>8. snaps' \subseteq Started'
      BY <1>1, <2>2 DEF StampsGrow
    <2> QED
      BY <2>1, <2>3, <2>4, <2>5, <2>6, <2>7, <2>8 DEF StampsGrow, Storing
  <1>3. CASE pc' = [pc EXCEPT ![e] = "failing"] /\ UNCHANGED stamp
    BY <1>1, <1>3 DEF StampsGrow, IInv, TypeOK, Started, Storing
  <1> QED
    BY <1>2, <1>3 DEF StartQuery

LEMMA StampsStep ==
    ASSUME OnlyScheduled, IInv, StampsGrow, [Next]_vars
    PROVE  StampsGrow'
  <1>1. ASSUME NEW e \in Execs, SubmitFire(e) PROVE StampsGrow'
    BY <1>1 DEF SubmitFire, dbVars, StampsGrow, Started, Storing, IInv, TypeOK
  <1>2. ASSUME NEW e \in Execs, ExecStep(e), ~StartQuery(e) PROVE StampsGrow'
    <2>1. stamp' = stamp
      BY <1>2 DEF ExecStep, ReadSchedule, CheckExisting, InsertRun, EndQuery, SaveSnapshot,
         SelectKept, SelectOld, MarkSuccess, CommitSuccess, MarkFailed, CommitFailure
    <2>2. \A f \in Execs \ {e} : pc'[f] = pc[f]
      BY <1>2, ExecStepFrame DEF IInv
    <2>3. /\ pc'[e] \in Storing \cup {"querying", "saving"} => stamp[e] # 0
          /\ pc'[e] = "loading" => stamp[e] = 0
      <3>1. CASE ReadSchedule(e) \/ CheckExisting(e) \/ EndQuery(e) \/ SaveSnapshot(e)
                   \/ SelectKept(e)
        BY <3>1 DEF ReadSchedule, CheckExisting, EndQuery, SaveSnapshot, SelectKept, Storing,
           StampsGrow, IInv, TypeOK
      <3>2. CASE InsertRun(e)
        BY <3>2 DEF InsertRun, Storing, StampsGrow, IInv, TypeOK, PcMatchesRun, Unrecorded
      <3>3. CASE SelectOld(e) \/ MarkSuccess(e) \/ CommitSuccess(e) \/ MarkFailed(e)
                   \/ CommitFailure(e)
        BY <3>3 DEF SelectOld, MarkSuccess, CommitSuccess, MarkFailed, CommitFailure, Storing,
           StampsGrow, IInv, TypeOK
      <3> QED
        BY <1>2, <3>1, <3>2, <3>3 DEF ExecStep
    <2>4. snaps' \subseteq Started
      <3>1. CASE CommitSuccess(e)
        BY <3>1 DEF CommitSuccess, Visible, StampsGrow, Storing, Started
      <3>2. CASE ~CommitSuccess(e)
        BY <1>2, <3>2 DEF ExecStep, ReadSchedule, CheckExisting, InsertRun, EndQuery,
           SaveSnapshot, SelectKept, SelectOld, MarkSuccess, MarkFailed, CommitFailure, dbVars,
           StampsGrow
      <3> QED
        BY <3>1, <3>2
    <2> QED
      BY <2>1, <2>2, <2>3, <2>4 DEF StampsGrow, Started
  <1>3. CASE Environment
    <2>1. snaps' \in {snaps, {}}
      BY <1>3, EnvironmentStepRows DEF Environment
    <2> QED
      BY <1>3, <2>1, EnvironmentFrame DEF StampsGrow, Started, Storing, IInv
  <1>4. CASE Tick \/ SkipFire \/ UNCHANGED vars
    BY <1>4 DEF StampsGrow, Started, Tick, SkipFire, vars, dbVars, execVars
  <1> QED
    BY <1>1, <1>2, <1>3, <1>4, StartQueryStamps, StepCases
-----------------------------------------------------------------------------
(* The newest n of a set of snapshots.                                       *)

(* created_at DESC LIMIT n returns at most n rows when no two snapshots were  *)
(* begun at once: all of them but the oldest are newer than the oldest.       *)
LEMMA NewestIsBounded ==
    ASSUME TypeOK, NEW S \in SUBSET Execs, NEW n \in Nat \ {0},
           \A s, t \in S : stamp[s] = stamp[t] => s = t
    PROVE  IsFiniteSet(Newest(S, n)) /\ Cardinality(Newest(S, n)) <= n
  <1> DEFINE T == Newest(S, n)
  <1>1. T \subseteq S /\ S \subseteq Execs
    BY DEF Newest
  <1>2. IsFiniteSet(S) /\ IsFiniteSet(T)
    BY <1>1, ExecsAssumption, FS_Subset
  <1>3. CASE T = {}
    BY <1>2, <1>3, FS_EmptySet
  <1>4. CASE T # {}
    <2>1. {stamp[t] : t \in T} \in SUBSET Nat /\ {stamp[t] : t \in T} # {}
      BY <1>1, <1>4 DEF TypeOK
    <2>2. PICK m \in {stamp[t] : t \in T} : \A x \in {stamp[t] : t \in T} : m <= x
      BY <2>1, LeastElement
    <2>3. PICK o \in T : m = stamp[o]
      BY <2>2
    <2> DEFINE A == {t \in S : stamp[t] > stamp[o]}
    <2>4. IsFiniteSet(A) /\ Cardinality(A) < n /\ Cardinality(A) \in Nat
      <3>1. A \subseteq S
        OBVIOUS
      <3> QED
        BY <1>2, <3>1, FS_Subset, FS_CardinalityType DEF Newest
    <2>5. T \ {o} \subseteq A
      <3> SUFFICES ASSUME NEW t \in T, t # o PROVE stamp[t] > stamp[o]
        BY <1>1
      <3>1. stamp[t] \in Nat /\ stamp[o] \in Nat
        BY <1>1 DEF TypeOK
      <3>2. stamp[o] <= stamp[t]
        BY <2>2, <2>3
      <3>3. stamp[o] # stamp[t]
        BY <1>1
      <3> QED
        BY <3>1, <3>2, <3>3
    <2> HIDE DEF A
    <2>6. Cardinality(T \ {o}) <= Cardinality(A)
      BY <2>4, <2>5, FS_Subset
    <2>7. Cardinality(T \ {o}) = Cardinality(T) - 1 /\ Cardinality(T) \in Nat
      BY <1>2, FS_RemoveElement, FS_CardinalityType
    <2> QED
      BY <1>2, <2>4, <2>6, <2>7
  <1> QED
    BY <1>3, <1>4

(* Out of at most n + 1 snapshots, one that is not among the newest n has n   *)
(* newer ones, and all of these are among the newest n.                       *)
LEMMA OldestHasNewer ==
    ASSUME TypeOK, NEW S \in SUBSET Execs, NEW n \in Nat, Cardinality(S) <= n + 1,
           NEW s \in S, s \notin Newest(S, n)
    PROVE  Cardinality({t \in Newest(S, n) : stamp[t] > stamp[s]}) >= n
  <1> DEFINE A == {t \in S : stamp[t] > stamp[s]}
  <1>1. IsFiniteSet(S)
    BY ExecsAssumption, FS_Subset
  <1>2. S \subseteq Execs /\ \A t \in S : stamp[t] \in Nat
    BY DEF TypeOK
  <1>3. A \subseteq S \ {s}
    BY <1>2
  <1>4. Cardinality(S) \in Nat /\ Cardinality(S \ {s}) = Cardinality(S) - 1
        /\ IsFiniteSet(S \ {s})
    BY <1>1, FS_RemoveElement, FS_CardinalityType
  <1>5. IsFiniteSet(A) /\ Cardinality(A) <= Cardinality(S) - 1
    BY <1>3, <1>4, FS_Subset
  <1>6. Cardinality(A) \in Nat /\ Cardinality(A) <= n
    BY <1>4, <1>5, FS_CardinalityType
  <1>7. ~(Cardinality(A) < n)
    BY DEF Newest
  <1>8. ASSUME NEW t \in A PROVE t \in Newest(S, n)
    <2> DEFINE B == {u \in S : stamp[u] > stamp[t]}
    <2>1. B \subseteq A \ {t}
      BY <1>2
    <2>2. Cardinality(A \ {t}) = Cardinality(A) - 1 /\ IsFiniteSet(A \ {t})
      BY <1>5, FS_RemoveElement
    <2>3. Cardinality(B) <= Cardinality(A) - 1 /\ Cardinality(B) \in Nat
      BY <2>1, <2>2, FS_Subset, FS_CardinalityType
    <2>4. Cardinality(B) < n
      BY <1>6, <2>3
    <2> QED
      BY <2>4 DEF Newest
  <1>9. A = {t \in Newest(S, n) : stamp[t] > stamp[s]}
    BY <1>8 DEF Newest
  <1> QED
    BY <1>6, <1>7, <1>9
-----------------------------------------------------------------------------
(* Retention.                                                                *)

(* What delete_old has read is still so when its transaction commits.        *)
PrunesRight ==
    \A e \in Execs :
        /\ pc[e] = "pruning" => kept[e] = Newest(Visible(e), Keep)
        /\ pc[e] \in {"deleting", "closing"} => doomed[e] = Visible(e) \ Newest(Visible(e), Keep)

(* The cache holds at most Keep snapshots because at every commit it is what  *)
(* Newest returned; and Newest was computed of what the commit finds because  *)
(* no other execution, and no DELETE of the endpoint, comes in between.       *)
RetentionInv == OneAtATime /\ StampsGrow /\ PrunesRight /\ RetentionBound

(* Newest reads the snapshots and their stamps alone. *)
LEMMA NewestUnchanged ==
    ASSUME NEW e \in Execs, snaps' = snaps, stamp' = stamp
    PROVE  Newest(Visible(e), Keep)' = Newest(Visible(e), Keep)
  BY DEF Newest, Visible

LEMMA PrunesRightStep ==
    ASSUME OnlyScheduled, IInv, RetentionInv, [Next]_vars
    PROVE  PrunesRight'
  <1> USE DEF RetentionInv
  <1> DEFINE Pruner == {"pruning", "deleting", "closing"}
  <1>1. ASSUME NEW e \in Execs, SubmitFire(e) PROVE PrunesRight'
    <2>1. \A f \in Execs : pc'[f] \notin Pruner
      BY <1>1, SubmitsWhenIdle DEF SubmitFire, IInv, TypeOK, Working
    <2> QED
      BY <2>1 DEF PrunesRight
  <1>2. ASSUME NEW e \in Execs, ExecStep(e) PROVE PrunesRight'
    <2>1. \A f \in Execs \ {e} : pc'[f] \notin Pruner
      BY <1>2, ExecStepFrame DEF OneAtATime, IInv, Working
    <2>2. CASE SelectKept(e)
      <3>1. /\ kept'[e] = Newest(Visible(e), Keep) /\ pc'[e] = "pruning"
            /\ snaps' = snaps /\ stamp' = stamp
        BY <2>2 DEF SelectKept, IInv, TypeOK, dbVars
      <3> QED
        BY <2>1, <3>1, NewestUnchanged DEF PrunesRight
    <2>3. CASE SelectOld(e)
      <3>1. /\ doomed'[e] = Visible(e) \ Newest(Visible(e), Keep) /\ pc'[e] = "deleting"
            /\ snaps' = snaps /\ stamp' = stamp
        BY <2>3 DEF SelectOld, IInv, TypeOK, dbVars, PrunesRight
      <3>2. Visible(e)' = Visible(e)
        BY <3>1 DEF Visible
      <3> QED
        BY <2>1, <3>1, <3>2, NewestUnchanged DEF PrunesRight
    <2>4. CASE MarkSuccess(e)
      <3>1. /\ doomed'[e] = Visible(e) \ Newest(Visible(e), Keep) /\ pc'[e] = "closing"
            /\ snaps' = snaps /\ stamp' = stamp
        BY <2>4 DEF MarkSuccess, IInv, TypeOK, dbVars, PrunesRight
      <3>2. Visible(e)' = Visible(e)
        BY <3>1 DEF Visible
      <3> QED
        BY <2>1, <3>1, <3>2, NewestUnchanged DEF PrunesRight
    <2>5. CASE ~SelectKept(e) /\ ~SelectOld(e) /\ ~MarkSuccess(e)
      <3>1. pc'[e] \notin Pruner
        BY <1>2, <2>5 DEF ExecStep, ReadSchedule, CheckExisting, InsertRun, StartQuery, EndQuery,
           SaveSnapshot, CommitSuccess, MarkFailed, CommitFailure, IInv, TypeOK
      <3> QED
        BY <2>1, <3>1 DEF PrunesRight
    <2> QED
      BY <2>2, <2>3, <2>4, <2>5
  <1>3. CASE Environment
    <2>1. /\ stamp' = stamp /\ kept' = kept /\ doomed' = doomed
          /\ \A f \in Execs : pc'[f] = pc[f] \/ pc'[f] = "lost"
      BY <1>3, EnvironmentFrame DEF IInv
    <2>2. CASE snaps' = snaps
      <3>1. \A f \in Execs : Visible(f)' = Visible(f)
        BY <2>2 DEF Visible
      <3> QED
        BY <2>1, <2>2, <3>1, NewestUnchanged DEF PrunesRight
    <2>3. CASE snaps' # snaps
      <3>1. DeleteEndpoint
        BY <1>3, <2>3 DEF Environment, Reregister, CommitNext, DeleteSchedule, Crash, Restart,
           CommitRestore
      <3>2. \A f \in Execs : pc'[f] \notin Pruner
        BY <2>1, <3>1 DEF DeleteEndpoint
      <3> QED
        BY <3>2 DEF PrunesRight
    <2> QED
      BY <2>2, <2>3
  <1>4. CASE Tick \/ SkipFire \/ UNCHANGED vars
    <2>1. snaps' = snaps /\ stamp' = stamp /\ pc' = pc /\ kept' = kept /\ doomed' = doomed
      BY <1>4 DEF Tick, SkipFire, vars, dbVars, execVars
    <2>2. \A f \in Execs : Visible(f)' = Visible(f)
      BY <2>1 DEF Visible
    <2> QED
      BY <2>1, <2>2, NewestUnchanged DEF PrunesRight
  <1> QED
    BY <1>1, <1>2, <1>3, <1>4, StepCases

(* A commit leaves what Newest returned. *)
LEMMA CommitLeavesNewest ==
    ASSUME IInv, RetentionInv, NEW e \in Execs, CommitSuccess(e)
    PROVE  /\ snaps' = Newest(Visible(e), Keep) /\ Visible(e) \in SUBSET Execs
           /\ \A s, t \in Visible(e) : stamp[s] = stamp[t] => s = t
  <1>1. pc[e] = "closing" /\ snaps' = Visible(e) \ doomed[e]
    BY DEF CommitSuccess
  <1>2. doomed[e] = Visible(e) \ Newest(Visible(e), Keep)
    BY <1>1 DEF RetentionInv, PrunesRight
  <1>3. Newest(Visible(e), Keep) \subseteq Visible(e)
    BY DEF Newest
  <1>4. Visible(e) \subseteq Started /\ Started \subseteq Execs
    BY <1>1 DEF Visible, RetentionInv, StampsGrow, Storing, Started
  <1> QED
    BY <1>1, <1>2, <1>3, <1>4 DEF RetentionInv, StampsGrow

(* Nothing else adds to or takes from the cache, save the endpoint's DELETE.  *)
LEMMA CacheChanges ==
    ASSUME IInv, OnlyScheduled, [Next]_vars, snaps' # snaps
    PROVE  (snaps' = {} /\ ~endpointRow') \/ \E e \in Execs : CommitSuccess(e)
  <1>1. CASE DeleteEndpoint
    BY <1>1 DEF DeleteEndpoint
  <1>2. CASE ~DeleteEndpoint /\ \A e \in Execs : ~CommitSuccess(e)
    BY <1>2 DEF Next, Finished, vars, clockVars, dbVars, execVars, ExecStep, Tick, SkipFire,
       SubmitFire, RunNow, ReadSchedule, CheckExisting, InsertRun, StartQuery, EndQuery,
       SaveSnapshot, SelectKept, SelectOld, MarkSuccess, MarkFailed, CommitFailure,
       Reregister, CommitNext, DeleteSchedule, Crash, Restart, CommitRestore
  <1> QED
    BY <1>1, <1>2

LEMMA RetentionBoundStep ==
    ASSUME OnlyScheduled, IInv, RetentionInv, [Next]_vars
    PROVE  RetentionBound'
  <1>1. CASE snaps' = snaps
    BY <1>1 DEF RetentionInv, RetentionBound
  <1>2. CASE snaps' = {}
    BY <1>2, FS_EmptySet, KeepAssumption DEF RetentionBound
  <1>3. ASSUME NEW e \in Execs, CommitSuccess(e) PROVE RetentionBound'
    <2>1. Cardinality(Newest(Visible(e), Keep)) <= Keep
      BY <1>3, CommitLeavesNewest, NewestIsBounded, KeepAssumption DEF IInv
    <2> QED
      BY <1>3, <2>1, CommitLeavesNewest DEF RetentionBound
  <1> QED
    BY <1>1, <1>2, <1>3, CacheChanges

LEMMA RetentionInit ==
    ASSUME Init
    PROVE  RetentionInv
  <1>1. OneAtATime /\ PrunesRight
    BY DEF Init, OneAtATime, PrunesRight, Working
  <1>2. RetentionBound
    BY FS_EmptySet, KeepAssumption DEF Init, RetentionBound
  <1>3. StampsGrow
    BY StartedIsFinite DEF Init, StampsGrow, Started, Storing
  <1> QED
    BY <1>1, <1>2, <1>3 DEF RetentionInv

LEMMA RetentionStep ==
    ASSUME OnlyScheduled, IInv, RetentionInv, [Next]_vars
    PROVE  RetentionInv'
  BY OneAtATimeStep, StampsStep, PrunesRightStep, RetentionBoundStep DEF RetentionInv, IInv

(* The cache never outgrows the setting snapshot_retention_count, however     *)
(* fires, failures, deletes, crashes and restarts follow each other.          *)
THEOREM CacheIsBounded == ASSUME OnlyScheduled PROVE Spec => []RetentionBound
  <1>1. Init => RetentionInv
    BY RetentionInit
  <1>2. IInv /\ RetentionInv /\ [Next]_vars => RetentionInv'
    BY RetentionStep
  <1>3. RetentionInv => RetentionBound
    BY DEF RetentionInv
  <1> QED
    BY <1>1, <1>2, <1>3, InvHolds, PTL DEF Spec

(* What PrunesOnlyBeyondKeep asks of one step. *)
KeepsNewest ==
    endpointRow' => \A s \in snaps \ snaps' :
        Cardinality({t \in snaps' : stamp[t] > stamp[s]}) >= Keep

LEMMA NextKeepsNewest ==
    ASSUME OnlyScheduled, IInv, RetentionInv, [Next]_vars
    PROVE  KeepsNewest
  <1> SUFFICES ASSUME endpointRow', NEW s \in snaps \ snaps'
               PROVE  Cardinality({t \in snaps' : stamp[t] > stamp[s]}) >= Keep
    BY DEF KeepsNewest
  <1>1. PICK e \in Execs : CommitSuccess(e)
    BY CacheChanges
  <1> DEFINE V == Visible(e)
  <1>2. snaps' = Newest(V, Keep) /\ V \in SUBSET Execs
    BY <1>1, CommitLeavesNewest
  <1>3. s \in V /\ s \notin Newest(V, Keep)
    BY <1>2 DEF Visible
  <1>4. Cardinality(V) <= Keep + 1
    <2>1. IsFiniteSet(snaps) /\ Cardinality(snaps) \in Nat
      BY ExecsAssumption, FS_Subset, FS_CardinalityType DEF IInv, TypeOK
    <2>2. Cardinality(V) <= Cardinality(snaps) + 1
      <3>1. V = snaps \cup {e}
        BY DEF Visible
      <3>2. \/ Cardinality(snaps \cup {e}) = Cardinality(snaps)
            \/ Cardinality(snaps \cup {e}) = Cardinality(snaps) + 1
        BY <2>1, FS_AddElement
      <3> HIDE DEF V
      <3> QED
        BY <2>1, <3>1, <3>2
    <2>3. IsFiniteSet(V) /\ Cardinality(V) \in Nat
      BY <1>2, ExecsAssumption, FS_Subset, FS_CardinalityType
    <2> QED
      BY <2>1, <2>2, <2>3, KeepAssumption DEF RetentionInv, RetentionBound
  <1> HIDE DEF V
  <1> QED
    BY <1>2, <1>3, <1>4, OldestHasNewer, KeepAssumption DEF IInv

(* delete_old deletes "beyond the keep count": a snapshot a commit removes    *)
(* leaves Keep newer ones behind.                                             *)
THEOREM PrunedBeyondKeep == ASSUME OnlyScheduled PROVE Spec => PrunesOnlyBeyondKeep
  <1>1. Init => RetentionInv
    BY RetentionInit
  <1>2. IInv /\ RetentionInv /\ [Next]_vars => RetentionInv'
    BY RetentionStep
  <1>3. IInv /\ RetentionInv /\ [Next]_vars => [KeepsNewest]_snaps
    BY NextKeepsNewest
  <1>4. [][KeepsNewest]_snaps => PrunesOnlyBeyondKeep
    BY PTL DEF PrunesOnlyBeyondKeep, KeepsNewest
  <1> QED
    BY <1>1, <1>2, <1>3, <1>4, InvHolds, PTL DEF Spec
-----------------------------------------------------------------------------
(* The order of logical run times.                                           *)

(* Nothing moves the schedule's job from under an execution but a restart,    *)
(* which ends it: a PUT or a resume may (its next_run_at is committed between *)
(* a fire and the read of next_run_at), deletes may not.                      *)
NoReregistration == OnlyScheduled /\ "reregister" \notin AdminOps

Upto(a, b) == a # None /\ b # None => a <= b

(* The persisted time, and the one a request is about to persist, never pass  *)
(* the live job's, which is never later than the next fire.                   *)
TimesAhead ==
    /\ nextRunAt # None
    /\ Upto(nextRunAt, now + 1) /\ Upto(pendingNext, now + 1) /\ Upto(job, now + 1)
    /\ Upto(nextRunAt, job) /\ Upto(pendingNext, job)
    /\ Upto(nextRunAt, pendingNext)

StoppedIsIdle == phase = "down" => job = None /\ \A e \in Execs : pc[e] \notin Working

(* Fires are submitted in the order of their times, the running one last.     *)
CallsInOrder ==
    /\ \A e \in Execs : pc[e] # "idle" =>
          call[e].time \in 0 .. now /\ (job # None => call[e].time < job)
    /\ \A e, f \in Execs : pc[e] \in Working /\ pc[f] # "idle" /\ f # e =>
          call[f].time < call[e].time

(* A running execution finds a next_run_at that is due, and is about to write *)
(* one that is not.                                                           *)
Answering ==
    \A e \in Execs : pc[e] \in Working =>
       /\ Upto(nextRunAt, call[e].time) /\ Upto(pendingNext, call[e].time)
       /\ pc[e] \in {"closing", "failclosing"} =>
             /\ Upto(newNext[e], now + 1) /\ Upto(newNext[e], job)
             /\ newNext[e] # None => call[e].time < newNext[e]

KeysInOrder ==
    /\ \A e \in Execs : runs[e] # None => key[e] # None
    /\ \A e \in Execs : key[e] # None =>
          pc[e] # "idle" /\ key[e] \in Nat /\ key[e] <= call[e].time /\ key[e] <= nextRunAt
    /\ \A e, f \in Execs : key[e] # None /\ key[f] # None /\ call[e].time < call[f].time
          => key[e] <= key[f]

(* NominalOrder compares recorded runs long after they ended.  It is kept     *)
(* because every logical time is a next_run_at, next_run_at only grows, and   *)
(* it is behind the fire that reads it.                                       *)
OrderInv == OneAtATime /\ StoppedIsIdle /\ TimesAhead /\ CallsInOrder /\ Answering /\ KeysInOrder

(* The times are natural numbers or NULL. *)
LEMMA TimesAreNaturals ==
    ASSUME TypeOK
    PROVE  /\ now \in Nat /\ None \notin Nat
           /\ job \in Nat \cup {None} /\ nextRunAt \in Nat \cup {None}
           /\ pendingNext \in Nat \cup {None}
           /\ \A e \in Execs : newNext[e] \in Nat \cup {None} /\ loaded[e] \in Nat \cup {None}
  BY BoundsAssumption, ExecsAssumption DEF TypeOK, Time

LEMMA SubmitFireOrder ==
    ASSUME IInv, OrderInv, NEW e \in Execs, SubmitFire(e)
    PROVE  OrderInv'
  <1> USE TimesAreNaturals DEF OrderInv, IInv
  <1>1. /\ now' = now /\ phase' = phase /\ nextRunAt' = nextRunAt /\ pendingNext' = pendingNext
        /\ key' = key /\ runs' = runs /\ newNext' = newNext /\ job' = now + 1
        /\ job # None /\ job <= now /\ pc[e] = "idle"
    BY DEF SubmitFire, clockVars, dbVars, Due
  <1>2. /\ pc'[e] = "submitted" /\ call'[e].time = now
        /\ \A f \in Execs \ {e} : pc'[f] = pc[f] /\ call'[f] = call[f]
    BY DEF SubmitFire, TypeOK
  <1>3. \A f \in Execs : pc[f] \notin Working
    BY SubmitsWhenIdle
  <1>4. OneAtATime'
    <2>1. call'[e].trigger = "scheduled"
      BY DEF SubmitFire, TypeOK
    <2> QED
      BY <1>2, <1>3, <2>1 DEF OneAtATime
  <1>5. StoppedIsIdle'
    BY <1>1 DEF StoppedIsIdle
  <1>6. TimesAhead'
    BY <1>1 DEF TimesAhead, Upto
  <1>7. CallsInOrder'
    <2>1. \A f \in Execs \ {e} : pc[f] # "idle" => call[f].time \in 0 .. now /\ call[f].time < now
      BY <1>1 DEF CallsInOrder
    <2>2. \A f \in Execs : pc'[f] # "idle" => call'[f].time \in 0 .. now' /\ call'[f].time < job'
      BY <1>1, <1>2, <2>1
    <2>3. \A f \in Execs : pc'[f] \in Working => f = e
      BY <1>2, <1>3
    <2> QED
      BY <1>1, <1>2, <2>1, <2>2, <2>3 DEF CallsInOrder
  <1>8. Answering'
    <2>1. \A f \in Execs : pc'[f] \in Working => f = e
      BY <1>2, <1>3
    <2>2. Upto(nextRunAt, now) /\ Upto(pendingNext, now)
      BY <1>1 DEF TimesAhead, Upto
    <2> QED
      BY <1>1, <1>2, <2>1, <2>2 DEF Answering, Upto
  <1>9. KeysInOrder'
    <2>1. key[e] = None /\ runs[e] = None
      BY <1>1 DEF KeysInOrder
    <2> QED
      BY <1>1, <1>2, <2>1 DEF KeysInOrder
  <1> QED
    BY <1>4, <1>5, <1>6, <1>7, <1>8, <1>9

(* The scheduler's logical time is the persisted next_run_at. *)
LEMMA ReadScheduleOrder ==
    ASSUME IInv, OrderInv, NEW e \in Execs, ReadSchedule(e)
    PROVE  KeysInOrder'
  <1> USE TimesAreNaturals DEF OrderInv, IInv
  <1>1. /\ pc[e] = "submitted" /\ call' = call /\ nextRunAt' = nextRunAt /\ runs' = runs
        /\ runs[e] = None
    BY DEF ReadSchedule, dbVars, PcMatchesRun, Unrecorded
  <1>2. \A f \in Execs \ {e} : pc'[f] = pc[f]
    BY DEF ReadSchedule, TypeOK
  <1>3. pc'[e] # "idle"
    BY DEF ReadSchedule, TypeOK
  <1>4. CASE scheduleRow
    <2>1. LogicalRunTime(e) = nextRunAt /\ nextRunAt \in Nat
      BY <1>1 DEF LogicalRunTime, OneAtATime, TimesAhead
    <2>2. key'[e] = nextRunAt /\ \A f \in Execs \ {e} : key'[f] = key[f]
      BY <1>4, <2>1 DEF ReadSchedule, TypeOK
    <2>3. nextRunAt <= call[e].time
      <3>1. call[e].time \in Nat
        BY <1>1 DEF CallsInOrder
      <3> QED
        BY <1>1, <2>1, <3>1 DEF Answering, Upto, Working
    <2>4. \A f \in Execs \ {e} : key[f] # None => call[f].time < call[e].time /\ key[f] <= nextRunAt
      BY <1>1 DEF CallsInOrder, KeysInOrder, Working
    <2>5. \A f \in Execs : key'[f] # None =>
             pc'[f] # "idle" /\ key'[f] \in Nat /\ key'[f] <= call'[f].time
               /\ key'[f] <= nextRunAt'
      BY <1>1, <1>2, <1>3, <2>1, <2>2, <2>3 DEF KeysInOrder
    <2>6. \A f \in Execs : pc[f] # "idle" => call[f].time \in Nat
      BY DEF CallsInOrder
    <2>7. \A f, g \in Execs : key'[f] # None /\ key'[g] # None /\ call'[f].time < call'[g].time
             => key'[f] <= key'[g]
      <3> SUFFICES ASSUME NEW f \in Execs, NEW g \in Execs, key'[f] # None, key'[g] # None,
                          call[f].time < call[g].time
                   PROVE  key'[f] <= key'[g]
        BY <1>1
      <3>1. f # g
        <4>1. pc[f] # "idle"
          BY <1>1, <2>2 DEF KeysInOrder
        <4>2. call[f].time \in Nat
          BY <2>6, <4>1
        <4> QED
          BY <4>2
      <3>2. CASE f = e
        BY <1>1, <2>2, <2>4, <2>6, <3>1, <3>2 DEF KeysInOrder
      <3>3. CASE g = e
        BY <2>2, <2>4, <3>1, <3>3
      <3>4. CASE f # e /\ g # e
        BY <2>2, <3>4 DEF KeysInOrder
      <3> QED
        BY <3>2, <3>3, <3>4
    <2>8. \A f \in Execs : runs'[f] # None => key'[f] # None
      BY <1>1, <2>1, <2>2 DEF KeysInOrder
    <2> QED
      BY <2>5, <2>7, <2>8 DEF KeysInOrder
  <1>5. CASE ~scheduleRow
    <2>1. key' = key
      BY <1>5 DEF ReadSchedule
    <2> QED
      BY <1>1, <1>2, <1>3, <2>1 DEF KeysInOrder
  <1> QED
    BY <1>4, <1>5
(* Only the two commits write next_run_at, to the job's time read before      *)
(* them.                                                                      *)
LEMMA ExecStepWrites ==
    ASSUME IInv, NEW e \in Execs, ExecStep(e)
    PROVE  /\ \/ nextRunAt' = nextRunAt
              \/ /\ pc[e] \in {"closing", "failclosing"} /\ pc'[e] = "finished"
                 /\ pendingNext = None
                 /\ newNext[e] # None /\ nextRunAt' = newNext[e]
           /\ pc'[e] \in {"closing", "failclosing"} => newNext'[e] = job
           /\ \A f \in Execs \ {e} : newNext'[f] = newNext[f]
           /\ ~ReadSchedule(e) => key' = key
           /\ \A f \in Execs : runs'[f] # None => runs[f] # None \/ (f = e /\ InsertRun(e))
  <1> USE DEF IInv, TypeOK, dbVars, WriteNext
  <1>1. CASE ReadSchedule(e) \/ CheckExisting(e) \/ InsertRun(e) \/ StartQuery(e)
    BY <1>1 DEF ReadSchedule, CheckExisting, InsertRun, StartQuery
  <1>2. CASE EndQuery(e) \/ SaveSnapshot(e) \/ SelectKept(e) \/ SelectOld(e)
    BY <1>2 DEF EndQuery, SaveSnapshot, SelectKept, SelectOld, ReadSchedule
  <1>3. CASE MarkSuccess(e) \/ MarkFailed(e)
    BY <1>3 DEF MarkSuccess, MarkFailed, ReadSchedule
  <1>4. CASE CommitSuccess(e)
    BY <1>4, NoneAssumption DEF CommitSuccess, ReadSchedule, PcMatchesRun, Recorded
  <1>5. CASE CommitFailure(e)
    BY <1>5, NoneAssumption DEF CommitFailure, ReadSchedule, PcMatchesRun, Recorded
  <1> QED
    BY <1>1, <1>2, <1>3, <1>4, <1>5 DEF ExecStep

(* A step that neither calls an execution nor computes a logical time keeps   *)
(* the order if next_run_at does not go back.                                 *)
LEMMA QuietStepKeepsOrder ==
    ASSUME TypeOK, KeysInOrder, call' = call, key' = key,
           nextRunAt' \in Nat, \A n \in Nat : n <= nextRunAt => n <= nextRunAt',
           \A f \in Execs : pc[f] # "idle" => pc'[f] # "idle",
           \A f \in Execs : runs'[f] # None => key[f] # None
    PROVE  KeysInOrder'
  BY DEF KeysInOrder

LEMMA ExecStepOrder ==
    ASSUME IInv, OrderInv, NEW e \in Execs, ExecStep(e)
    PROVE  OrderInv'
  <1> USE TimesAreNaturals DEF OrderInv, IInv
  <1>1. /\ pc[e] \in Working /\ pc'[e] \in Working \cup Ended
        /\ \A f \in Execs \ {e} : pc'[f] = pc[f]
        /\ call' = call /\ now' = now /\ phase' = phase /\ job' = job
        /\ pendingNext' = pendingNext
    BY ExecStepFrame
  <1>2. \A f \in Execs \ {e} : pc[f] \notin Working /\ pc'[f] \notin Working
    BY <1>1 DEF OneAtATime
  <1>3. pc[e] # "idle" /\ pc'[e] # "idle" /\ call[e].time \in Nat /\ call[e].time <= now
    BY <1>1 DEF Working, Ended, CallsInOrder
  <1>4. \/ nextRunAt' = nextRunAt
        \/ /\ pc[e] \in {"closing", "failclosing"} /\ pc'[e] = "finished"
           /\ pendingNext = None
           /\ newNext[e] # None /\ nextRunAt' = newNext[e]
    BY ExecStepWrites
  <1>5. nextRunAt \in Nat /\ nextRunAt <= call[e].time
    BY <1>1, <1>3 DEF TimesAhead, Answering, Upto
  <1>6. \/ nextRunAt' = nextRunAt
        \/ /\ pc'[e] = "finished" /\ pendingNext = None
           /\ nextRunAt' \in Nat /\ call[e].time < nextRunAt'
           /\ Upto(nextRunAt', now + 1) /\ Upto(nextRunAt', job)
    BY <1>1, <1>4 DEF Answering
  <1>7. OneAtATime'
    BY <1>1, <1>2, <1>3 DEF OneAtATime
  <1>8. StoppedIsIdle'
    BY <1>1 DEF StoppedIsIdle
  <1>9. TimesAhead'
    BY <1>1, <1>6 DEF TimesAhead, Upto
  <1>10. CallsInOrder'
    BY <1>1, <1>2, <1>3 DEF CallsInOrder
  <1>11. Answering'
    <2>1. CASE nextRunAt' = nextRunAt
      <3>1. pc'[e] \in {"closing", "failclosing"} => newNext'[e] = job
        BY ExecStepWrites
      <3>2. /\ Upto(nextRunAt, call[e].time) /\ Upto(pendingNext, call[e].time)
            /\ Upto(job, now + 1) /\ Upto(job, job)
            /\ job # None => call[e].time < job
        BY <1>1, <1>3 DEF Answering, TimesAhead, CallsInOrder, Upto
      <3> QED
        BY <1>1, <1>2, <2>1, <3>1, <3>2 DEF Answering
    <2>2. CASE nextRunAt' # nextRunAt
      <3>1. pc'[e] \notin Working
        BY <1>6, <2>2 DEF Working
      <3> QED
        BY <1>2, <3>1 DEF Answering
    <2> QED
      BY <2>1, <2>2
  <1>12. KeysInOrder'
    <2>1. CASE ReadSchedule(e)
      BY <2>1, ReadScheduleOrder
    <2>2. CASE ~ReadSchedule(e)
      <3>1. key' = key
        BY <2>2, ExecStepWrites
      <3>2. \A f \in Execs : runs'[f] # None => key[f] # None
        <4>1. InsertRun(e) => key[e] # None
          BY DEF InsertRun, TypeOK, Working
        <4> QED
          BY <4>1, ExecStepWrites DEF KeysInOrder
      <3>3. nextRunAt' \in Nat /\ \A n \in Nat : n <= nextRunAt => n <= nextRunAt'
        BY <1>3, <1>5, <1>6
      <3> QED
        BY <1>1, <1>3, <3>1, <3>2, <3>3, QuietStepKeepsOrder
    <2> QED
      BY <2>1, <2>2
  <1> QED
    BY <1>7, <1>8, <1>9, <1>10, <1>11, <1>12

LEMMA EnvironmentOrder ==
    ASSUME NoReregistration, IInv, OrderInv, Environment
    PROVE  OrderInv'
  <1> USE TimesAreNaturals DEF OrderInv, IInv
  <1>1. /\ \A f \in Execs : pc'[f] = pc[f] \/ (pc[f] \in Working /\ pc'[f] = "lost")
        /\ call' = call /\ key' = key /\ newNext' = newNext /\ now' = now /\ runs' = runs
    BY EnvironmentFrame
  <1>2. \A f \in Execs : pc'[f] \in Working => pc'[f] = pc[f]
    BY <1>1 DEF Working
  <1>3. \A f \in Execs : (pc[f] # "idle" <=> pc'[f] # "idle")
    BY <1>1 DEF Working
  <1>4. OneAtATime'
    BY <1>1, <1>2, <1>3 DEF OneAtATime
  <1>5. /\ nextRunAt' # None /\ nextRunAt' \in Nat
        /\ nextRunAt' \in {nextRunAt, pendingNext}
        /\ \A n \in Nat : n <= nextRunAt => n <= nextRunAt'
    BY DEF Environment, Reregister, NoReregistration, CommitNext, DeleteSchedule,
       DeleteEndpoint, Crash, Restart, CommitRestore, TimesAhead, Upto
  <1>6. KeysInOrder'
    BY <1>1, <1>3, <1>5, QuietStepKeepsOrder DEF KeysInOrder
  <1>7. CASE Restart
    <2>1. /\ phase = "down" /\ phase' = "restoring" /\ nextRunAt' = nextRunAt
          /\ job' \in {now + 1, None} /\ pendingNext' \in {now + 1, None} /\ pc' = pc
      BY <1>7 DEF Restart, execVars
    <2>2. \A f \in Execs : pc'[f] \notin Working
      BY <2>1 DEF StoppedIsIdle
    <2>3. StoppedIsIdle' /\ Answering'
      BY <2>1, <2>2 DEF StoppedIsIdle, Answering
    <2>4. TimesAhead'
      BY <1>1, <2>1 DEF TimesAhead, Upto
    <2>5. CallsInOrder'
      BY <1>1, <2>1, <2>2 DEF CallsInOrder
    <2> QED
      BY <1>4, <1>6, <2>3, <2>4, <2>5
  <1>8. CASE ~Restart
    <2>1. /\ job' \in {job, None} /\ pendingNext' \in {pendingNext, None}
          /\ nextRunAt' # nextRunAt => pendingNext' = None
      BY <1>8 DEF Environment, Reregister, NoReregistration, CommitNext, DeleteSchedule,
         DeleteEndpoint, Crash, CommitRestore
    <2>2. StoppedIsIdle'
      <3>1. CASE Crash
        BY <3>1 DEF Crash, StoppedIsIdle, TypeOK, Working
      <3>2. CASE ~Crash
        <4>1. phase' = "down" => phase = "down"
          BY <1>8, <3>2 DEF Environment, Reregister, CommitNext, DeleteSchedule,
             DeleteEndpoint, CommitRestore, clockVars
        <4> QED
          BY <1>2, <2>1, <4>1 DEF StoppedIsIdle
      <3> QED
        BY <3>1, <3>2
    <2>3. TimesAhead'
      BY <1>1, <1>5, <2>1 DEF TimesAhead, Upto
    <2>4. CallsInOrder'
      BY <1>1, <1>2, <1>3, <2>1 DEF CallsInOrder
    <2>5. Answering'
      BY <1>1, <1>2, <1>5, <2>1 DEF Answering, Upto
    <2> QED
      BY <1>4, <1>6, <2>2, <2>3, <2>4, <2>5
  <1> QED
    BY <1>7, <1>8

LEMMA ClockOrder ==
    ASSUME IInv, OrderInv, Tick \/ SkipFire
    PROVE  OrderInv'
  <1> USE TimesAreNaturals DEF OrderInv, IInv
  <1>1. /\ pc' = pc /\ call' = call /\ key' = key /\ newNext' = newNext /\ runs' = runs
        /\ nextRunAt' = nextRunAt /\ pendingNext' = pendingNext /\ phase' = phase
    BY DEF Tick, SkipFire, clockVars, dbVars, execVars
  <1>2. \/ now' = now + 1 /\ job' = job
        \/ now' = now /\ job # None /\ job <= now /\ job' = now + 1
    BY DEF Tick, SkipFire, Due, clockVars
  <1>3. OneAtATime' /\ StoppedIsIdle' /\ KeysInOrder'
    BY <1>1, <1>2 DEF OneAtATime, StoppedIsIdle, KeysInOrder
  <1>4. TimesAhead'
    BY <1>1, <1>2 DEF TimesAhead, Upto
  <1>5. CallsInOrder'
    BY <1>1, <1>2 DEF CallsInOrder
  <1>6. Answering'
    BY <1>1, <1>2 DEF Answering, Upto
  <1> QED
    BY <1>3, <1>4, <1>5, <1>6

LEMMA OrderInit ==
    ASSUME Init
    PROVE  OrderInv
  <1>1. TimesAhead
    BY ExecsAssumption DEF Init, TimesAhead, Upto
  <1>2. OneAtATime /\ StoppedIsIdle /\ CallsInOrder /\ Answering /\ KeysInOrder
    BY DEF Init, OneAtATime, StoppedIsIdle, CallsInOrder, Answering, KeysInOrder, Working
  <1> QED
    BY <1>1, <1>2 DEF OrderInv

LEMMA OrderStep ==
    ASSUME NoReregistration, IInv, OrderInv, [Next]_vars
    PROVE  OrderInv'
  <1>1. CASE UNCHANGED vars
    BY <1>1 DEF vars, clockVars, dbVars, execVars, OrderInv, OneAtATime, StoppedIsIdle,
       TimesAhead, CallsInOrder, Answering, KeysInOrder
  <1> QED
    BY <1>1, SubmitFireOrder, ExecStepOrder, EnvironmentOrder, ClockOrder, StepCases
       DEF NoReregistration

(* A recorded run is never later than the fire it answers, and a later fire   *)
(* is recorded under a later time, across failures, overruns, misfires,       *)
(* deletes, crashes and restarts.                                             *)
THEOREM RunsInNominalOrder == ASSUME NoReregistration PROVE Spec => []NominalOrder
  <1>1. Init => OrderInv
    BY OrderInit
  <1>2. IInv /\ OrderInv /\ [Next]_vars => OrderInv'
    BY OrderStep
  <1>3. IInv /\ OrderInv => NominalOrder
    <2> SUFFICES ASSUME IInv, OrderInv, NEW e \in Execs, NEW f \in Execs,
                        runs[e] # None, runs[f] # None
                 PROVE  /\ key[e] <= call[e].time
                        /\ call[e].time < call[f].time => key[e] < key[f]
      BY DEF NominalOrder
    <2>1. /\ key[e] # None /\ key[e] \in Nat /\ key[e] <= call[e].time
          /\ key[f] # None /\ key[f] \in Nat /\ pc[e] # "idle"
      BY DEF OrderInv, KeysInOrder
    <2>2. call[e].time < call[f].time => key[e] <= key[f] /\ e # f
      <3>1. call[e].time \in Nat
        BY <2>1 DEF OrderInv, CallsInOrder
      <3> QED
        BY <2>1, <3>1 DEF OrderInv, KeysInOrder
    <2>3. e # f => key[e] # key[f]
      BY DEF IInv, KeysAreUnique
    <2> QED
      BY <2>1, <2>2, <2>3
  <1> QED
    BY <1>1, <1>2, <1>3, InvHolds, PTL DEF Spec
-----------------------------------------------------------------------------
(* No fire is lost to a logical time that is already taken.                  *)

(* No administrator's request interferes: a PUT may bring next_run_at back to *)
(* a time that has a run, and a delete refuses the INSERT of one in flight.   *)
Undisturbed == OnlyScheduled /\ AdminOps = {}

(* Before the process first stops, the running execution's logical time is    *)
(* the persisted next_run_at, and every earlier run's is behind it, because   *)
(* each commit moves next_run_at past the run it records: the value written   *)
(* is the live job's, never the one the session loaded.                       *)
FreshInv ==
    crashes = 0 =>
        /\ phase = "up" /\ pendingNext = None /\ scheduleRow /\ endpointRow /\ job # None
        /\ \A e \in Execs : pc[e] \notin {"skipped", "missing", "lost"}
        /\ \A e \in Execs : pc[e] \in Working \ {"submitted"} =>
              key[e] = nextRunAt /\ loaded[e] = nextRunAt
        /\ \A e \in Execs : key[e] # None =>
              pc[e] \in Working \ {"submitted"} \/ key[e] < nextRunAt
        /\ \A e \in Execs : pc[e] \in {"closing", "failclosing"} => newNext[e] # None

(* The key of an execution that has not inserted its row is free. *)
LEMMA KeyIsFree ==
    ASSUME IInv, OrderInv, FreshInv, crashes = 0, NEW e \in Execs,
           pc[e] \in {"checking", "inserting"}
    PROVE  ~Taken(key[e])
  <1> USE TimesAreNaturals DEF OrderInv, IInv
  <1>1. key[e] = nextRunAt /\ runs[e] = None /\ pc[e] \in Working
    BY DEF FreshInv, Working, PcMatchesRun, Unrecorded
  <1>2. ASSUME NEW f \in Execs, runs[f] # None PROVE key[f] # key[e]
    <2>1. f # e /\ key[f] # None /\ key[f] \in Nat
      BY <1>1, <1>2 DEF KeysInOrder
    <2>2. pc[f] \notin Working
      BY <1>1, <2>1 DEF OneAtATime
    <2>3. key[f] < nextRunAt
      BY <2>1, <2>2 DEF FreshInv
    <2> QED
      BY <1>1, <2>1, <2>3
  <1> QED
    BY <1>2 DEF Taken

LEMMA SubmitFireFresh ==
    ASSUME IInv, OrderInv, FreshInv, NEW e \in Execs, SubmitFire(e)
    PROVE  FreshInv'
  <1> USE TimesAreNaturals DEF OrderInv, IInv
  <1>1. /\ now' = now /\ phase' = phase /\ crashes' = crashes /\ job' = now + 1
        /\ nextRunAt' = nextRunAt /\ pendingNext' = pendingNext
        /\ scheduleRow' = scheduleRow /\ endpointRow' = endpointRow
        /\ key' = key /\ loaded' = loaded /\ newNext' = newNext /\ pc[e] = "idle"
    BY DEF SubmitFire, clockVars, dbVars
  <1>2. pc'[e] = "submitted" /\ \A f \in Execs \ {e} : pc'[f] = pc[f]
    BY DEF SubmitFire, TypeOK
  <1>3. key[e] = None
    BY <1>1 DEF KeysInOrder
  <1> QED
    BY <1>1, <1>2, <1>3 DEF FreshInv

(* The steps of an execution, before the first crash. *)
LEMMA ExecStepFresh ==
    ASSUME IInv, OrderInv, FreshInv, NEW e \in Execs, ExecStep(e)
    PROVE  FreshInv'
  <1> USE TimesAreNaturals DEF OrderInv, IInv
  <1>1. /\ pc[e] \in Working /\ pc'[e] \in Working \cup Ended
        /\ \A f \in Execs \ {e} : pc'[f] = pc[f]
        /\ call' = call /\ now' = now /\ phase' = phase /\ crashes' = crashes /\ job' = job
        /\ scheduleRow' = scheduleRow /\ endpointRow' = endpointRow
        /\ pendingNext' = pendingNext
    BY ExecStepFrame
  <1> SUFFICES ASSUME crashes = 0 PROVE FreshInv'
    BY <1>1 DEF FreshInv
  <1>2. \A f \in Execs \ {e} : pc[f] \notin Working /\ pc'[f] \notin Working
    BY <1>1 DEF OneAtATime
  <1>3. /\ phase = "up" /\ pendingNext = None /\ scheduleRow /\ endpointRow
        /\ job # None /\ job \in Nat
    BY DEF FreshInv
  <1>4. /\ \A f \in Execs \ {e} : pc'[f] \notin {"skipped", "missing", "lost"}
        /\ \A f \in Execs \ {e} : key[f] # None => key[f] < nextRunAt
    BY <1>1, <1>2 DEF FreshInv
  <1>5. CASE ReadSchedule(e)
    <2>1. LogicalRunTime(e) = nextRunAt
      BY <1>5 DEF ReadSchedule, LogicalRunTime, OneAtATime, TimesAhead
    <2>2. /\ nextRunAt' = nextRunAt /\ pc'[e] = "checking"
          /\ key'[e] = nextRunAt /\ \A f \in Execs \ {e} : key'[f] = key[f]
          /\ loaded'[e] = nextRunAt /\ \A f \in Execs \ {e} : loaded'[f] = loaded[f]
      BY <1>3, <1>5, <2>1 DEF ReadSchedule, TypeOK, dbVars
    <2> QED
      BY <1>1, <1>2, <1>3, <1>4, <2>2 DEF FreshInv, Working
  <1>6. CASE CommitSuccess(e) \/ CommitFailure(e)
    <2>1. /\ pc[e] \in {"closing", "failclosing"} /\ pc'[e] = "finished"
          /\ nextRunAt' = WriteNext(e) /\ key' = key /\ loaded' = loaded
          /\ newNext' = newNext
      BY <1>6 DEF CommitSuccess, CommitFailure, TypeOK
    <2>2. key[e] = nextRunAt /\ loaded[e] = nextRunAt /\ newNext[e] # None
      BY <2>1 DEF FreshInv, Working
    <2>3. nextRunAt \in Nat /\ newNext[e] \in Nat /\ call[e].time \in Nat
          /\ nextRunAt <= call[e].time /\ call[e].time < newNext[e]
      <3>1. call[e].time \in Nat /\ nextRunAt \in Nat
        BY <2>1 DEF CallsInOrder, TimesAhead
      <3> QED
        BY <1>1, <2>1, <2>2, <3>1 DEF Answering, Upto
    <2>4. nextRunAt' = newNext[e] /\ nextRunAt < nextRunAt'
      BY <1>3, <2>1, <2>2, <2>3 DEF WriteNext
    <2>5. \A f \in Execs : key[f] # None => key[f] \in Nat
      BY DEF KeysInOrder
    <2>6. \A f \in Execs : key'[f] # None => key'[f] < nextRunAt'
      BY <1>4, <2>1, <2>2, <2>3, <2>4, <2>5
    <2>7. \A f \in Execs : pc'[f] \notin Working
      BY <1>2, <2>1 DEF Working
    <2> QED
      BY <1>1, <1>3, <1>4, <2>1, <2>6, <2>7 DEF FreshInv
  <1>7. CASE ~ReadSchedule(e) /\ ~CommitSuccess(e) /\ ~CommitFailure(e)
    <2>1. nextRunAt' = nextRunAt /\ key' = key /\ loaded' = loaded
      BY <1>7 DEF ExecStep, CheckExisting, InsertRun, StartQuery, EndQuery, SaveSnapshot,
         SelectKept, SelectOld, MarkSuccess, MarkFailed, dbVars
    <2>2. pc[e] # "submitted" /\ pc'[e] \in Working \ {"submitted"}
      <3>1. CASE CheckExisting(e) \/ InsertRun(e)
        <4>1. ~Taken(key[e])
          BY <3>1, KeyIsFree DEF CheckExisting, InsertRun
        <4> QED
          BY <1>3, <3>1, <4>1 DEF CheckExisting, InsertRun, Insertable, TypeOK, Working
      <3>2. CASE SaveSnapshot(e)
        BY <1>3, <3>2 DEF SaveSnapshot, TypeOK, Working
      <3>3. CASE StartQuery(e) \/ EndQuery(e) \/ SelectKept(e) \/ SelectOld(e)
        BY <3>3 DEF StartQuery, EndQuery, SelectKept, SelectOld, TypeOK, Working
      <3>4. CASE MarkSuccess(e) \/ MarkFailed(e)
        BY <3>4 DEF MarkSuccess, MarkFailed, TypeOK, Working
      <3> QED
        BY <1>7, <3>1, <3>2, <3>3, <3>4 DEF ExecStep
    <2>3. key[e] = nextRunAt /\ loaded[e] = nextRunAt
      BY <1>1, <2>2 DEF FreshInv
    <2>4. pc'[e] \in {"closing", "failclosing"} => newNext'[e] # None
      BY <1>3, ExecStepWrites
    <2>5. pc'[e] \notin {"skipped", "missing", "lost"}
      BY <2>2 DEF Working
    <2>6. \A f \in Execs : pc'[f] \in Working => f = e
      BY <1>2
    <2>7. {"closing", "failclosing"} \subseteq Working
      BY DEF Working
    <2> QED
      BY <1>1, <1>3, <1>4, <2>1, <2>2, <2>3, <2>4, <2>5, <2>6, <2>7 DEF FreshInv
  <1> QED
    BY <1>5, <1>6, <1>7

(* Undisturbed, the environment's only step is the first crash. *)
LEMMA EnvironmentFresh ==
    ASSUME Undisturbed, IInv, FreshInv, Environment
    PROVE  FreshInv'
  <1> SUFFICES ASSUME crashes' = 0 PROVE FALSE
    BY DEF FreshInv
  <1>1. CASE Crash
    BY <1>1 DEF Crash, IInv, TypeOK
  <1>2. CASE ~Crash
    <2>1. crashes = 0
      BY <1>2 DEF Undisturbed, Environment, Reregister, CommitNext, DeleteSchedule,
         DeleteEndpoint, Restart, CommitRestore, clockVars
    <2>2. phase = "up" /\ pendingNext = None
      BY <2>1 DEF FreshInv
    <2> QED
      BY <1>2, <2>2 DEF Undisturbed, Environment, Reregister, CommitNext, DeleteSchedule,
         DeleteEndpoint, Restart, CommitRestore
  <1> QED
    BY <1>1, <1>2

LEMMA ClockFresh ==
    ASSUME IInv, FreshInv, Tick \/ SkipFire
    PROVE  FreshInv'
  <1>1. /\ pc' = pc /\ key' = key /\ loaded' = loaded /\ newNext' = newNext
        /\ nextRunAt' = nextRunAt /\ pendingNext' = pendingNext /\ phase' = phase
        /\ crashes' = crashes /\ scheduleRow' = scheduleRow /\ endpointRow' = endpointRow
    BY DEF Tick, SkipFire, clockVars, dbVars, execVars
  <1>2. job # None => job' # None
    <2>1. now + 1 # None
      BY TimesAreNaturals DEF IInv
    <2> QED
      BY <2>1 DEF Tick, SkipFire
  <1> QED
    BY <1>1, <1>2 DEF FreshInv

LEMMA FreshStep ==
    ASSUME Undisturbed, IInv, OrderInv, FreshInv, [Next]_vars
    PROVE  FreshInv'
  <1>1. CASE UNCHANGED vars
    BY <1>1 DEF vars, clockVars, dbVars, execVars, FreshInv
  <1> QED
    BY <1>1, SubmitFireFresh, ExecStepFresh, EnvironmentFresh, ClockFresh, StepCases
       DEF Undisturbed

(* Until the process first stops, no fire that reaches the code is dropped as *)
(* a duplicate, however executions before it failed, overran or misfired.     *)
THEOREM FiresAreNotSkipped == ASSUME Undisturbed PROVE Spec => []NoSkippedFire
  <1>1. Init => OrderInv /\ FreshInv
    <2>1. ASSUME Init PROVE FreshInv
      BY <2>1, ExecsAssumption DEF Init, FreshInv, Working
    <2> QED
      BY <2>1, OrderInit
  <1>2. IInv /\ OrderInv /\ [Next]_vars => OrderInv'
    BY OrderStep DEF Undisturbed, NoReregistration
  <1>3. IInv /\ OrderInv /\ FreshInv /\ [Next]_vars => FreshInv'
    BY FreshStep
  <1>4. FreshInv => NoSkippedFire
    BY DEF FreshInv, NoSkippedFire
  <1> QED
    BY <1>1, <1>2, <1>3, <1>4, InvHolds, PTL DEF Spec
=============================================================================
