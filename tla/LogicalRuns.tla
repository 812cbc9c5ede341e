----------------------------- MODULE LogicalRuns -----------------------------
(***************************************************************************)
(* What the scheduler promises about logical runs and the snapshot cache,  *)
(* without sessions, transactions or the APScheduler job.  A logical run   *)
(* is a (schedule, scheduled_for) key.  It begins at most once, its result *)
(* is final, and the cache gains a snapshot only in the step that makes    *)
(* the run a success; a failing run leaves the cache as it was.            *)
(***************************************************************************)
CONSTANT Key

VARIABLES
    running, succeeded, failed,   \* the keys with a job_runs row, by status
    cache                         \* the keys with a retained snapshot

vars == <<running, succeeded, failed, cache>>

Begun == running \cup succeeded \cup failed

Init == running = {} /\ succeeded = {} /\ failed = {} /\ cache = {}

Begin(k) ==
    /\ k \notin Begun
    /\ running' = running \cup {k}
    /\ UNCHANGED <<succeeded, failed, cache>>

(* Retention may drop any of the older snapshots, or this one. *)
Succeed(k) ==
    /\ k \in running
    /\ running' = running \ {k}
    /\ succeeded' = succeeded \cup {k}
    /\ cache' \subseteq cache \cup {k}
    /\ UNCHANGED failed

Fail(k) ==
    /\ k \in running
    /\ running' = running \ {k}
    /\ failed' = failed \cup {k}
    /\ UNCHANGED <<succeeded, cache>>

(* The endpoint is deleted. *)
Purge == cache' = {} /\ UNCHANGED <<running, succeeded, failed>>

Next == Purge \/ \E k \in Key : Begin(k) \/ Succeed(k) \/ Fail(k)

Spec == Init /\ [][Next]_vars
=============================================================================
