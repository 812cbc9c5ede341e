--------------------------- MODULE CalendarWindows ---------------------------
(***************************************************************************)
(* The dates a schedule binds: backend/app/services/schedule_bindings.py   *)
(* over Python's date and ZoneInfo.                                        *)
(*                                                                         *)
(* A date is its ordinal: day 1 is a Monday, and Firsts are the first days *)
(* of the months.  An instant is a number of minutes; 1440 * d is midnight *)
(* UTC of day d.  A zone is its UTC offset before and after one transition:    *)
(* [at, before, after].                                                    *)
(***************************************************************************)
EXTENDS Integers

CONSTANTS
    MinDay,  \* date.min
    MaxDay,  \* date.max
    Firsts   \* the first days of the months in between

Day == MinDay .. MaxDay

ASSUME CalendarAssumption ==
    /\ MinDay \in Int /\ MaxDay \in Int /\ MinDay <= MaxDay
    /\ Firsts \subseteq Day
(* Every date has a first day of its month. *)
ASSUME MonthsAssumption ==
    \A d \in Day : \E f \in Firsts : f <= d /\ \A g \in Firsts : g <= d => g <= f

-----------------------------------------------------------------------------
(***************************************************************************)
(* Zones.                                                                  *)
(***************************************************************************)

(* A local date is never skipped altogether. *)
IsZone(z) ==
    /\ z.at \in Int /\ z.before \in Int /\ z.after \in Int
    /\ z.after - z.before < 1440

Offset(z, instant) == IF instant < z.at THEN z.before ELSE z.after

(* Mutant: the date in UTC. *)
LocalDateUtc(z, instant) == instant \div 1440

(* scheduled_for.astimezone(ZoneInfo(timezone)).date() *)
LocalDate(z, instant) == (instant + Offset(z, instant)) \div 1440

(* Mutant: midnight UTC. *)
MidnightUtc(z, d) == 1440 * d

(* datetime.combine(d, time.min, tzinfo=zone): fold is 0, so a midnight the  *)
(* transition skips or repeats takes the offset from before it.              *)
Midnight(z, d) ==
    LET larger == IF z.before > z.after THEN z.before ELSE z.after
    IN  IF 1440 * d < z.at + larger THEN 1440 * d - z.before ELSE 1440 * d - z.after

-----------------------------------------------------------------------------
(***************************************************************************)
(* Windows, with inclusive bounds.                                         *)
(***************************************************************************)

Presets == {"previous_day", "last_n_complete_days", "week_to_date", "previous_week",
            "month_to_date", "previous_month"}

(* Mutant: weeks from Sunday on. *)
WeekdaySunday(d) == d % 7

(* date.weekday(): 0 is Monday. *)
Weekday(d) == (d + 6) % 7

(* d.replace(day=1) *)
FirstOfMonth(d) == CHOOSE f \in Firsts : f <= d /\ \A g \in Firsts : g <= d => g <= f

Span(start, end) == [start |-> start, end |-> end]

(* Mutant: the previous month is the 30 days before this one. *)
ResolveWindowThirty(d, window) ==
    CASE window.preset = "previous_day" -> Span(d - 1, d - 1)
      [] window.preset = "last_n_complete_days" -> Span(d - window.days, d - 1)
      [] window.preset = "week_to_date" -> Span(d - Weekday(d), d)
      [] window.preset = "previous_week" -> Span(d - Weekday(d) - 7, d - Weekday(d) - 1)
      [] window.preset = "month_to_date" -> Span(FirstOfMonth(d), d)
      [] window.preset = "previous_month" -> Span(FirstOfMonth(d) - 30, FirstOfMonth(d) - 1)

(* _resolve_window.  Before date.min there is no month to go back to. *)
ResolveWindow(d, window) ==
    CASE window.preset = "previous_day" -> Span(d - 1, d - 1)
      [] window.preset = "last_n_complete_days" -> Span(d - window.days, d - 1)
      [] window.preset = "week_to_date" -> Span(d - Weekday(d), d)
      [] window.preset = "previous_week" -> Span(d - Weekday(d) - 7, d - Weekday(d) - 1)
      [] window.preset = "month_to_date" -> Span(FirstOfMonth(d), d)
      [] window.preset = "previous_month" ->
             LET end == FirstOfMonth(d) - 1
             IN  Span(IF end \in Day THEN FirstOfMonth(end) ELSE end, end)

-----------------------------------------------------------------------------
(***************************************************************************)
(* What the documentation calls these windows, as sets of dates.           *)
(***************************************************************************)

Week(d) == (d + 6) \div 7

SameMonth(x, d) == \A f \in Firsts : f <= x <=> f <= d

(* One month begins after x and up to d. *)
MonthBefore(x, d) ==
    \E f \in Firsts : /\ x < f /\ f <= d
                      /\ \A g \in Firsts : x < g /\ g <= d => g = f

InWindow(x, d, window) ==
    CASE window.preset = "previous_day" -> x = d - 1
      [] window.preset = "last_n_complete_days" -> d - window.days <= x /\ x < d
      [] window.preset = "week_to_date" -> Week(x) = Week(d) /\ x <= d
      [] window.preset = "previous_week" -> Week(x) = Week(d) - 1
      [] window.preset = "month_to_date" -> SameMonth(x, d) /\ x <= d
      [] window.preset = "previous_month" -> MonthBefore(x, d)
=============================================================================
