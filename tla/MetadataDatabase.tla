-------------------------- MODULE MetadataDatabase --------------------------
(***************************************************************************)
(* The settings requests (SettingsStore) and the tasks with two sessions   *)
(* (AccessLogging) on one pool of connections.                             *)
(***************************************************************************)
EXTENDS SettingsStore, AccessLogging

ASSUME TasksAssumption == Editors \cap Callers = {}

vars == <<held, settingsVars, callVars>>

Init == PoolInit /\ SettingsInit /\ CallsInit

Next == \/ SettingsNext /\ UNCHANGED callVars
        \/ CallsNext /\ UNCHANGED settingsVars

(* The event loop runs every task that can run, a query ends, the pool's     *)
(* timeout and PostgreSQL's deadlock detector fire.  Nothing makes a client  *)
(* send a request.                                                           *)
Fairness ==
    /\ \A e \in Editors : WF_vars(EditStep(e) /\ UNCHANGED callVars)
    /\ \A c \in Callers : WF_vars(CallStep(c) /\ UNCHANGED settingsVars)

Spec == Init /\ [][Next]_vars /\ Fairness

-----------------------------------------------------------------------------
InProgress == {e \in Editors : edit[e].at \notin {"waiting", "answered"}}
              \cup {c \in Callers : call[c].at \notin {"waiting", "ended"}}

(* No request or job is stuck for ever: however the connections and the row  *)
(* locks are shared out, those in progress end.  (Each is received once, so  *)
(* only one that never ends could keep the set from being empty again.)      *)
RequestsEnd == []<>(InProgress = {})
=============================================================================
