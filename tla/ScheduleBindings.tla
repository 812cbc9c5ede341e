-------------------------- MODULE ScheduleBindings --------------------------
(***************************************************************************)
(* One schedule's parameter bindings and its endpoint's parameter schema:  *)
(* validated when either is saved, resolved by every run against the date  *)
(* the run is for (backend/app/services/schedule_bindings.py, as called by *)
(* services/schedule.py, services/endpoint.py and services/scheduler.py).  *)
(*                                                                         *)
(* A run loads the schedule when it starts and the endpoint after it has   *)
(* committed its job_runs row; a replay's request has read the schedule    *)
(* before that, in a session of its own, to turn the date into an instant. *)
(* The administrator may save schedule and endpoint at any point between.  *)
(* Saves are whole here (ScheduleRegistry interleaves their statements),   *)
(* and runs follow one another (ScheduleRuns interleaves them, and skips   *)
(* one whose logical time has a run).  A schema maps a parameter to        *)
(* [date, required, accepts]: is its type date, may it not be NULL, which  *)
(* literals the type coerces.  A binding is [source, value].               *)
(***************************************************************************)
EXTENDS CalendarWindows

CONSTANTS
    None,       \* SQL NULL / Python None
    Schemas,    \* parameter schemas the endpoint may have
    Bindings,   \* parameter_bindings a request may carry
    Windows,    \* its window
    Zones,      \* its timezone
    FirstDay,   \* bound: the first logical date
    LastDay,    \* bound: the last logical date
    Minutes,    \* minutes of the UTC day at which fires may fall
    Cadences    \* days from one fire to the next

Sources == {"literal", "null", "run_date", "relative_date", "window_start", "window_end"}
DateSources == Sources \ {"literal", "null"}
WindowSources == {"window_start", "window_end"}

ASSUME ZonesAssumption == \A z \in Zones : IsZone(z)
ASSUME NoneAssumption == None \notin [bindings : Bindings, window : Windows, zone : Zones]
ASSUME WindowsAssumption ==
    \A w \in Windows \ {None} :
        /\ w.preset \in Presets
        /\ w.preset = "last_n_complete_days" => w.days \in Nat \ {0}
ASSUME BindingsAssumption ==
    \A b \in Bindings : \A p \in DOMAIN b :
        /\ b[p].source \in Sources
        /\ b[p].source = "relative_date" => b[p].value \in Int
ASSUME RangeAssumption ==
    /\ FirstDay \in Day /\ LastDay \in Day
    /\ Minutes \subseteq 0 .. 1439 /\ Cadences \subseteq Nat \ {0}

VARIABLES
    schema,     \* the endpoint's committed parameter schema
    schedule,   \* the committed [bindings, window, zone], None without a row
    due,        \* the logical date of the next fire
    run,        \* the last run: what was read for it, when it is for, its result
    overtaken,  \* history: the schedule was saved or deleted since the run loaded it
    previous    \* history: the last fire that succeeded

vars == <<schema, schedule, due, run, overtaken, previous>>

-----------------------------------------------------------------------------
(***************************************************************************)
(* resolve_schedule_parameters.                                            *)
(***************************************************************************)

(* The conditions on one binding. *)
Bound(sch, s, p) ==
    LET b == s.bindings[p]
    IN  /\ b.source = "null" => ~sch[p].required
        /\ b.source \in DateSources => sch[p].date
        /\ b.source = "literal" => b.value \in sch[p].accepts
        /\ b.source \in WindowSources => s.window # None

Covered(sch, s) == DOMAIN s.bindings = DOMAIN sch /\ \A p \in DOMAIN sch : Bound(sch, s, p)

NoWindow == Span(None, None)
WindowAt(s, d) == IF s.window = None THEN NoWindow ELSE ResolveWindow(d, s.window)

Value(b, d, w) ==
    CASE b.source = "literal" -> b.value
      [] b.source = "null" -> None
      [] b.source = "run_date" -> d
      [] b.source = "relative_date" -> d + b.value
      [] b.source = "window_start" -> w.start
      [] b.source = "window_end" -> w.end

Values(s, d) == [p \in DOMAIN s.bindings |-> Value(s.bindings[p], d, WindowAt(s, d))]

(* Mutant: only the window is kept inside the calendar. *)
InCalendarWindow(s, d) == d \in Day /\ (s.window # None => WindowAt(s, d).start \in Day)

(* Date arithmetic stays between date.min and date.max. *)
InCalendar(s, d) ==
    /\ d \in Day
    /\ s.window # None => WindowAt(s, d).start \in Day
    /\ \A p \in DOMAIN s.bindings :
           s.bindings[p].source = "relative_date" => d + s.bindings[p].value \in Day

Resolves(sch, s, d) == Covered(sch, s) /\ InCalendar(s, d)

-----------------------------------------------------------------------------
(***************************************************************************)
(* The administrator.                                                      *)
(***************************************************************************)

Idle == [stage |-> "none"]

Init ==
    /\ schema \in Schemas /\ schedule = None
    /\ due = FirstDay /\ run = Idle /\ overtaken = FALSE /\ previous = None

(* Instants at which it is this date in the zone. *)
Instants(z, d) ==
    {t \in {1440 * x + m : x \in {d - 1, d, d + 1}, m \in Minutes} : LocalDate(z, t) = d}

(* Mutant: only the names are compared. *)
SaveScheduleNames ==
    /\ \E b \in Bindings, w \in Windows, z \in Zones :
          /\ DOMAIN b = DOMAIN schema
          /\ schedule' = [bindings |-> b, window |-> w, zone |-> z]
    /\ overtaken' = (overtaken \/ run.stage = "started")
    /\ previous' = None
    /\ UNCHANGED <<schema, due, run>>

(* POST, or PUT of any part of it: the effective configuration is resolved   *)
(* as of now, which is here the date of the next fire.                       *)
SaveSchedule ==
    /\ \E b \in Bindings, w \in Windows, z \in Zones :
          LET s == [bindings |-> b, window |-> w, zone |-> z]
          IN  Resolves(schema, s, due) /\ schedule' = s
    /\ overtaken' = (overtaken \/ run.stage = "started")
    /\ previous' = None
    /\ UNCHANGED <<schema, due, run>>

DeleteSchedule ==
    /\ schedule # None /\ schedule' = None
    /\ overtaken' = (overtaken \/ run.stage = "started")
    /\ previous' = None
    /\ UNCHANGED <<schema, due, run>>

(* Mutant: the attached bindings are not resolved again. *)
SaveEndpointBlind ==
    /\ \E sch \in Schemas : schema' = sch
    /\ UNCHANGED <<schedule, due, run, overtaken, previous>>

(* PUT /endpoints/{id}: an attached schedule must still resolve. *)
SaveEndpoint ==
    /\ \E sch \in Schemas :
          /\ schedule # None => Resolves(sch, schedule, due)
          /\ schema' = sch
    /\ UNCHANGED <<schedule, due, run, overtaken, previous>>

-----------------------------------------------------------------------------
(***************************************************************************)
(* Runs.                                                                   *)
(***************************************************************************)

InFlight == run.stage \in {"asked", "started"}

(* execute_scheduled_job loads the schedule: the timezone it resolves the    *)
(* instant with is this row's, and need not be the one it was made with.     *)
Start(kind, at, date, zone) ==
    /\ schedule # None
    /\ run' = [stage |-> "started", kind |-> kind, at |-> at, date |-> date, zone |-> zone,
               schedule |-> schedule]
    /\ overtaken' = FALSE
    /\ UNCHANGED <<schema, schedule, previous>>

(* A fire: its instant, next_run_at, is a column of the row it loads.  The   *)
(* next fire is some days later.                                             *)
Fire ==
    /\ schedule # None /\ ~InFlight /\ due <= LastDay
    /\ \E at \in Instants(schedule.zone, due), step \in Cadences :
          Start("scheduled", at, due, schedule.zone) /\ due' = due + step

(* run_now of a logical date, past or not: its midnight in the timezone of   *)
(* the row that the request's session reads.                                 *)
AskReplay ==
    /\ schedule # None /\ ~InFlight
    /\ \E d \in FirstDay .. LastDay :
          run' = [stage |-> "asked", date |-> d, zone |-> schedule.zone,
                  at |-> Midnight(schedule.zone, d)]
    /\ UNCHANGED <<schema, schedule, due, overtaken, previous>>

Replay ==
    /\ run.stage = "asked"
    /\ Start("replay", run.at, run.date, run.zone)
    /\ UNCHANGED due

(* The job finds no schedule and returns. *)
ReplayMissing ==
    /\ run.stage = "asked" /\ schedule = None
    /\ run' = Idle
    /\ UNCHANGED <<schema, schedule, due, overtaken, previous>>

(* The endpoint is loaded and the parameters resolved, or the run fails. *)
Resolve ==
    LET s == run.schedule
        logical == LocalDate(s.zone, run.at)
        ok == Resolves(schema, s, logical)
        done == [stage |-> IF ok THEN "resolved" ELSE "failed", kind |-> run.kind,
                 date |-> run.date, zone |-> run.zone, schedule |-> s, logical |-> logical,
                 window |-> IF ok THEN WindowAt(s, logical) ELSE NoWindow,
                 values |-> IF ok THEN Values(s, logical) ELSE <<>>]
    IN  /\ run.stage = "started"
        /\ run' = done
        /\ previous' = IF ok /\ run.kind = "scheduled" /\ ~overtaken THEN done ELSE previous
        /\ UNCHANGED <<schema, schedule, due, overtaken>>

Next == \/ SaveSchedule \/ DeleteSchedule \/ SaveEndpoint
        \/ Fire \/ AskReplay \/ Replay \/ ReplayMissing \/ Resolve

Spec == Init /\ [][Next]_vars

-----------------------------------------------------------------------------
(***************************************************************************)
(* Properties.                                                             *)
(***************************************************************************)

Configs == [bindings : Bindings, window : Windows, zone : Zones]

(* Every date a run binds is a date of the calendar. *)
TypeOK ==
    /\ schema \in Schemas /\ schedule \in Configs \cup {None}
    /\ due \in Int /\ due >= FirstDay /\ overtaken \in BOOLEAN
    /\ run.stage \in {"none", "asked", "started", "resolved", "failed"}
    /\ run.stage # "none" => run.date \in FirstDay .. LastDay /\ run.zone \in Zones
    /\ InFlight => run.at \in Int
    /\ run.stage \in {"started", "resolved", "failed"} =>
           run.kind \in {"scheduled", "replay"} /\ run.schedule \in Configs
    /\ run.stage = "resolved" =>
           \A p \in DOMAIN run.values :
               run.schedule.bindings[p].source \in DateSources => run.values[p] \in Day

(* The rows fit together: whatever is saved, in whatever order, the endpoint *)
(* accepts the bindings of its schedule.                                     *)
SavedFits == schedule # None => Covered(schema, schedule)

(* A run resolves its parameters unless the schedule was saved or deleted    *)
(* under it (and the endpoint then changed) or its date is at the edge of    *)
(* the calendar: what the administrator saved on one date resolves on all.   *)
SavedResolves ==
    run.stage = "failed" => overtaken \/ ~InCalendar(run.schedule, run.logical)

(* A run is for the date it was asked for, the fire's own or the replayed    *)
(* one, although that travels as an instant and midnight may be skipped or   *)
(* repeated on it; unless the timezone in which the request made the instant *)
(* is not the one of the row the run then loads.                             *)
RunIsOfItsDate ==
    run.stage \in {"resolved", "failed"} /\ run.zone = run.schedule.zone
        => run.logical = run.date

(* The window resolved for a date is the one its preset is documented to be. *)
WindowIsCalendar ==
    run.stage = "resolved" /\ run.schedule.window # None =>
        \A x \in Day : InWindow(x, run.logical, run.schedule.window)
                          <=> run.window.start <= x /\ x <= run.window.end

(* The date e is in the period after d's. *)
NextPeriod(preset, d, e) ==
    \/ preset = "previous_day" /\ e = d + 1
    \/ preset = "previous_week" /\ Week(e) = Week(d) + 1
    \/ preset = "previous_month" /\ MonthBefore(d, e)

(* Fires that follow each other by a day, or into the next week or month,    *)
(* load windows of complete days that neither overlap nor leave a day out.   *)
WindowsTile ==
    [][ /\ previous # None /\ previous' # None /\ previous' # previous
        /\ previous.schedule.window # None
        /\ NextPeriod(previous.schedule.window.preset, previous.date, previous'.date)
        => previous'.window.start = previous.window.end + 1 ]_vars
=============================================================================
