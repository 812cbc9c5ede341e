--------------------------- MODULE ConnectionPool ---------------------------
(***************************************************************************)
(* The pool of connections to the metadata database                        *)
(* (backend/app/database.py).  A session takes a connection with its first *)
(* statement and gives it back when it commits or is closed; a task that   *)
(* opens a second session while its first is in use holds two.  A task     *)
(* that finds every connection taken waits, and gives up after the pool's  *)
(* timeout with an exception.                                              *)
(***************************************************************************)
EXTENDS Naturals, Functions

CONSTANTS
    Tasks,      \* requests and jobs in progress
    PoolSize    \* pool_size and max_overflow together

ASSUME PoolAssumption == PoolSize \in Nat \ {0}

VARIABLE held   \* connections each task holds

PoolInit == held = [t \in Tasks |-> 0]

InUse == FoldFunction(LAMBDA n, sum : n + sum, 0, held)

Checkout(t) == InUse < PoolSize /\ held' = [held EXCEPT ![t] = @ + 1]

GivesUpNever(t) == FALSE

(* After 30 seconds without a free connection. *)
GivesUp(t) == InUse >= PoolSize

Close(t) == held' = [held EXCEPT ![t] = 0]
=============================================================================
