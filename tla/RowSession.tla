----------------------------- MODULE RowSession -----------------------------
(***************************************************************************)
(* What the database session of an admin request holds between its read    *)
(* and its commit, and the UPDATE it emits (backend/app/repositories/      *)
(* base.py): the columns that differ from what the session loaded, on the  *)
(* row as it is when the UPDATE gets its lock.                             *)
(***************************************************************************)
CONSTANT None   \* SQL NULL / Python None

Idle == [op |-> "idle", id |-> None, set |-> [c \in {} |-> None], read |-> None]
Session(op, id, set, row) == [op |-> op, id |-> id, set |-> set, read |-> row]

(* The row a request makes of the one it read. *)
Overlay(changes, row) ==
    [c \in DOMAIN row |-> IF c \in DOMAIN changes THEN changes[c] ELSE row[c]]

(* The row after its UPDATE. *)
Merged(q, row) ==
    [c \in DOMAIN row |-> IF Overlay(q.set, q.read)[c] # q.read[c]
                          THEN Overlay(q.set, q.read)[c] ELSE row[c]]
=============================================================================
