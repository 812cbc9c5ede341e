----------------------- MODULE ScheduleBindingsProofs -----------------------
(***************************************************************************)
(* The calendar facts and the invariants of ScheduleBindings, for every    *)
(* calendar, zone, configuration and bound.                                *)
(***************************************************************************)
EXTENDS ScheduleBindings, TLAPS

-----------------------------------------------------------------------------
(***************************************************************************)
(* The calendar.                                                           *)
(***************************************************************************)

(* Midnight of a date, computed from the zone's rules, is an instant of that *)
(* date: also if midnight does not exist on it, or exists twice.             *)
THEOREM MidnightIsOfItsDate ==
    ASSUME NEW z, IsZone(z), NEW d \in Int
    PROVE  Midnight(z, d) \in Int /\ LocalDate(z, Midnight(z, d)) = d
<1> DEFINE larger == IF z.before > z.after THEN z.before ELSE z.after
           m == Midnight(z, d)
<1>1. /\ z.at \in Int /\ z.before \in Int /\ z.after \in Int /\ larger \in Int
      /\ z.after - z.before < 1440
  BY DEF IsZone
<1>2. m = IF 1440 * d < z.at + larger THEN 1440 * d - z.before ELSE 1440 * d - z.after
  BY DEF Midnight
<1>3. m \in Int
  BY <1>1, <1>2
<1>4. m + Offset(z, m) \in 1440 * d .. 1440 * d + 1439
  BY <1>1, <1>2, <1>3 DEF Offset
<1>5. \A n \in 1440 * d .. 1440 * d + 1439 : n \div 1440 = d
  OBVIOUS
<1> QED
  BY <1>3, <1>4, <1>5 DEF LocalDate

(* The first of a date's month. *)
LEMMA FirstOfMonthType ==
    ASSUME NEW d \in Day
    PROVE  /\ FirstOfMonth(d) \in Firsts /\ FirstOfMonth(d) \in Day /\ FirstOfMonth(d) <= d
           /\ \A g \in Firsts : g <= d => g <= FirstOfMonth(d)
<1>1. \E f \in Firsts : f <= d /\ \A g \in Firsts : g <= d => g <= f
  BY MonthsAssumption
<1> QED
  BY <1>1, CalendarAssumption DEF FirstOfMonth

(* Days and weeks. *)
LEMMA WeekArithmetic ==
    ASSUME NEW d \in Int, NEW x \in Int
    PROVE  /\ Weekday(d) \in 0 .. 6 /\ Week(d) \in Int
           /\ Week(x) = Week(d) <=> d - Weekday(d) <= x /\ x <= d - Weekday(d) + 6
           /\ Week(x) = Week(d) - 1 <=> d - Weekday(d) - 7 <= x /\ x <= d - Weekday(d) - 1
<1>1. /\ Week(d) \in Int /\ Weekday(d) \in 0 .. 6 /\ d + 6 = 7 * Week(d) + Weekday(d)
  BY DEF Week, Weekday
<1>2. \A w \in Int : Week(x) = w <=> 7 * w <= x + 6 /\ x + 6 <= 7 * w + 6
  BY DEF Week
<1> QED
  BY <1>1, <1>2

(* The month of a date is the days from its first up to the next first. *)
LEMMA MonthToDate ==
    ASSUME NEW d \in Day, NEW x \in Day, x <= d
    PROVE  SameMonth(x, d) <=> FirstOfMonth(d) <= x
<1>1. Firsts \subseteq Int /\ x \in Int /\ d \in Int
  BY CalendarAssumption DEF Day
<1>2. /\ FirstOfMonth(d) \in Firsts /\ FirstOfMonth(d) <= d
      /\ \A g \in Firsts : g <= d => g <= FirstOfMonth(d)
  BY FirstOfMonthType
<1>3. ASSUME SameMonth(x, d) PROVE FirstOfMonth(d) <= x
  BY <1>2, <1>3 DEF SameMonth
<1>4. ASSUME FirstOfMonth(d) <= x PROVE SameMonth(x, d)
  <2>1. ASSUME NEW f \in Firsts PROVE f <= x <=> f <= d
    <3>1. f \in Int /\ FirstOfMonth(d) \in Int
      BY <1>1, <1>2
    <3>2. f <= d => f <= FirstOfMonth(d)
      BY <1>2
    <3> HIDE DEF FirstOfMonth
    <3> QED
      BY <1>1, <1>4, <3>1, <3>2
  <2> QED
    BY <2>1 DEF SameMonth
<1> QED
  BY <1>3, <1>4

(* The month before is the days from the previous first up to this one. *)
LEMMA PreviousMonth ==
    ASSUME NEW d \in Day, NEW x \in Day, FirstOfMonth(d) - 1 \in Day
    PROVE  MonthBefore(x, d) <=>
             FirstOfMonth(FirstOfMonth(d) - 1) <= x /\ x <= FirstOfMonth(d) - 1
<1> DEFINE this == FirstOfMonth(d)
           last == FirstOfMonth(this - 1)
<1>1. Firsts \subseteq Int /\ x \in Int /\ d \in Int /\ this \in Int /\ last \in Int
  BY CalendarAssumption, FirstOfMonthType DEF Day
<1>2. this \in Firsts /\ this <= d /\ \A g \in Firsts : g <= d => g <= this
  BY FirstOfMonthType
<1>3. last \in Firsts /\ last <= this - 1 /\ \A g \in Firsts : g <= this - 1 => g <= last
  BY FirstOfMonthType
<1> HIDE DEF this, last
<1>4. ASSUME MonthBefore(x, d) PROVE last <= x /\ x <= this - 1
  <2>1. PICK f \in Firsts : x < f /\ f <= d /\ \A g \in Firsts : x < g /\ g <= d => g = f
    BY <1>4 DEF MonthBefore
  <2>2. f = this
    BY <1>1, <1>2, <2>1
  <2> QED
    BY <1>1, <1>2, <1>3, <2>1, <2>2
<1>5. ASSUME last <= x, x <= this - 1 PROVE MonthBefore(x, d)
  <2>1. x < this /\ this <= d
    BY <1>1, <1>2, <1>5
  <2>2. \A g \in Firsts : x < g /\ g <= d => g = this
    BY <1>1, <1>2, <1>3, <1>5
  <2> QED
    BY <1>2, <2>1, <2>2 DEF MonthBefore
<1> QED
  BY <1>4, <1>5 DEF this, last

WindowOK(w) ==
    w.preset \in Presets /\ (w.preset = "last_n_complete_days" => w.days \in Nat \ {0})

(* Every preset resolves to the dates its documentation names, on every date *)
(* for which the calendar goes back far enough.                              *)
THEOREM WindowsAreCalendar ==
    ASSUME NEW d \in Day, NEW w, WindowOK(w), ResolveWindow(d, w).start \in Day
    PROVE  /\ ResolveWindow(d, w).end \in Day
           /\ \A x \in Day : InWindow(x, d, w)
                 <=> ResolveWindow(d, w).start <= x /\ x <= ResolveWindow(d, w).end
<1> DEFINE r == ResolveWindow(d, w)
<1>1. Day \subseteq Int /\ \A x \in Int : x \in Day <=> MinDay <= x /\ x <= MaxDay
  BY CalendarAssumption DEF Day
<1>2. CASE w.preset = "previous_day"
  <2>1. r.start = d - 1 /\ r.end = d - 1
    BY <1>2 DEF ResolveWindow, Span
  <2>2. \A x \in Day : InWindow(x, d, w) <=> x = d - 1
    BY <1>2 DEF InWindow
  <2> QED
    BY <1>1, <2>1, <2>2
<1>3. CASE w.preset = "last_n_complete_days"
  <2>1. r.start = d - w.days /\ r.end = d - 1 /\ w.days \in Nat \ {0}
    BY <1>3 DEF ResolveWindow, Span, WindowOK
  <2>2. \A x \in Day : InWindow(x, d, w) <=> d - w.days <= x /\ x < d
    BY <1>3 DEF InWindow
  <2>3. r.start \in Day
    OBVIOUS
  <2>4. MinDay \in Int /\ MaxDay \in Int
    BY CalendarAssumption
  <2> HIDE DEF r
  <2>5. r.end \in Day
    BY <1>1, <2>1, <2>3, <2>4
  <2>6. \A x \in Day : InWindow(x, d, w) <=> r.start <= x /\ x <= r.end
    BY <1>1, <2>1, <2>2
  <2> QED
    BY <2>5, <2>6 DEF r
<1>4. CASE w.preset = "week_to_date"
  <2>1. r.start = d - Weekday(d) /\ r.end = d
    BY <1>4 DEF ResolveWindow, Span
  <2>2. \A x \in Day : InWindow(x, d, w) <=> Week(x) = Week(d) /\ x <= d
    BY <1>4 DEF InWindow
  <2>3. d \in Int /\ Weekday(d) \in 0 .. 6
    BY <1>1, WeekArithmetic
  <2>4. \A x \in Day : Week(x) = Week(d) <=> r.start <= x /\ x <= d - Weekday(d) + 6
    BY <1>1, <2>1, <2>3, WeekArithmetic
  <2> HIDE DEF r
  <2>5. \A x \in Day : InWindow(x, d, w) <=> r.start <= x /\ x <= r.end
    BY <1>1, <2>1, <2>2, <2>3, <2>4
  <2> QED
    BY <2>1, <2>5 DEF r
<1>5. CASE w.preset = "previous_week"
  <2>1. r.start = d - Weekday(d) - 7 /\ r.end = d - Weekday(d) - 1
    BY <1>5 DEF ResolveWindow, Span
  <2>2. \A x \in Day : InWindow(x, d, w) <=> Week(x) = Week(d) - 1
    BY <1>5 DEF InWindow
  <2>3. Weekday(d) \in 0 .. 6
    BY <1>1, WeekArithmetic
  <2>4. r.start \in Day
    OBVIOUS
  <2>5. MinDay \in Int /\ MaxDay \in Int
    BY CalendarAssumption
  <2> HIDE DEF r
  <2>6. r.end \in Day
    BY <1>1, <2>1, <2>3, <2>4, <2>5
  <2>7. \A x \in Day : InWindow(x, d, w) <=> r.start <= x /\ x <= r.end
    BY <1>1, <2>1, <2>2, WeekArithmetic
  <2> QED
    BY <2>6, <2>7 DEF r
<1>6. CASE w.preset = "month_to_date"
  <2>1. r.start = FirstOfMonth(d) /\ r.end = d
    BY <1>6 DEF ResolveWindow, Span
  <2>2. \A x \in Day : InWindow(x, d, w) <=> SameMonth(x, d) /\ x <= d
    BY <1>6 DEF InWindow
  <2> QED
    BY <2>1, <2>2, MonthToDate
<1>7. CASE w.preset = "previous_month"
  <2>1. /\ r.end = FirstOfMonth(d) - 1
        /\ r.start = IF r.end \in Day THEN FirstOfMonth(r.end) ELSE r.end
    BY <1>7 DEF ResolveWindow, Span
  <2>2. \A x \in Day : InWindow(x, d, w) <=> MonthBefore(x, d)
    BY <1>7 DEF InWindow
  <2>3. r.end \in Day
    BY <2>1
  <2> QED
    BY <2>1, <2>2, <2>3, PreviousMonth
<1> QED
  BY <1>2, <1>3, <1>4, <1>5, <1>6, <1>7 DEF WindowOK, Presets

(* Windows of complete days on dates of successive periods adjoin. *)
LEMMA WindowsAdjoin ==
    ASSUME NEW d \in Day, NEW e \in Day, NEW w, NextPeriod(w.preset, d, e),
           ResolveWindow(e, w).start \in Day
    PROVE  ResolveWindow(e, w).start = ResolveWindow(d, w).end + 1
<1>1. Firsts \subseteq Int /\ d \in Int /\ e \in Int
  BY CalendarAssumption DEF Day
<1>2. CASE w.preset = "previous_day"
  BY <1>1, <1>2 DEF NextPeriod, ResolveWindow, Span
<1>3. CASE w.preset = "previous_week"
  <2>1. Week(e) = Week(d) + 1
    BY <1>3 DEF NextPeriod
  <2>2. \A x \in Int : /\ Week(x) \in Int /\ Weekday(x) \in Int
                       /\ x + 6 = 7 * Week(x) + Weekday(x)
    BY DEF Week, Weekday
  <2>3. e - Weekday(e) - 7 = d - Weekday(d)
    <3>1. /\ Week(e) \in Int /\ Weekday(e) \in Int /\ e + 6 = 7 * Week(e) + Weekday(e)
          /\ Week(d) \in Int /\ Weekday(d) \in Int /\ d + 6 = 7 * Week(d) + Weekday(d)
      BY <1>1, <2>2
    <3> QED
      BY <1>1, <2>1, <3>1
  <2>4. /\ ResolveWindow(e, w).start = e - Weekday(e) - 7
        /\ ResolveWindow(d, w).end = d - Weekday(d) - 1
    BY <1>3 DEF ResolveWindow, Span
  <2> QED
    BY <1>1, <2>2, <2>3, <2>4
<1>4. CASE w.preset = "previous_month"
  <2> DEFINE next == FirstOfMonth(e)
             last == FirstOfMonth(next - 1)
             this == FirstOfMonth(d)
  <2>1. MonthBefore(d, e)
    BY <1>4 DEF NextPeriod
  <2>2. /\ next - 1 \in Day /\ ResolveWindow(e, w).start = last
        /\ ResolveWindow(d, w).end = this - 1
    BY <1>4 DEF ResolveWindow, Span
  <2>3. last <= d /\ d <= next - 1
    BY <2>1, <2>2, PreviousMonth
  <2>4. last \in Firsts /\ \A g \in Firsts : g <= next - 1 => g <= last
    BY <2>2, FirstOfMonthType
  <2>5. this \in Firsts /\ this <= d /\ \A g \in Firsts : g <= d => g <= this
    BY FirstOfMonthType
  <2>6. next \in Firsts
    BY FirstOfMonthType
  <2> HIDE DEF next, last, this
  <2>7. last \in Int /\ this \in Int /\ next \in Int
    BY <1>1, <2>4, <2>5, <2>6
  <2>8. this <= next - 1
    BY <1>1, <2>3, <2>5, <2>7
  <2>9. this <= last /\ last <= this
    BY <2>3, <2>4, <2>5, <2>8
  <2> QED
    BY <2>2, <2>7, <2>9
<1> QED
  BY <1>2, <1>3, <1>4 DEF NextPeriod

(* A configured window is one of the presets. *)
LEMMA ConfiguredWindow ==
    ASSUME NEW s \in Configs, s.window # None
    PROVE  WindowOK(s.window)
  BY WindowsAssumption DEF Configs, WindowOK

-----------------------------------------------------------------------------
(***************************************************************************)
(* The invariant.                                                          *)
(***************************************************************************)

(* A run that nobody overtook still holds the committed schedule.  Its       *)
(* instant is of its date in the timezone it was made in, and a fire's is    *)
(* made in the timezone of the row it loads.                                 *)
RunInFlight ==
    /\ InFlight => LocalDate(run.zone, run.at) = run.date
    /\ run.stage = "started" =>
          /\ ~overtaken => run.schedule = schedule
          /\ run.kind = "scheduled" => run.zone = run.schedule.zone

(* A resolved run was inside the calendar and has its schedule's window. *)
RunResolved ==
    run.stage = "resolved" =>
        /\ InCalendar(run.schedule, run.logical)
        /\ run.window = WindowAt(run.schedule, run.logical)

(* The fire remembered is one of the committed schedule. *)
PreviousFire ==
    previous # None =>
        /\ schedule # None /\ previous.schedule = schedule /\ previous.date \in Day
        /\ InCalendar(schedule, previous.date)
        /\ previous.window = WindowAt(schedule, previous.date)

IInv ==
    /\ TypeOK /\ SavedFits /\ SavedResolves /\ RunIsOfItsDate
    /\ RunInFlight /\ RunResolved /\ PreviousFire

(* Configurations, and what they bind. *)
LEMMA ConfigParts ==
    ASSUME NEW s \in Configs
    PROVE  /\ s # None /\ IsZone(s.zone) /\ s.bindings \in Bindings /\ s.window \in Windows
           /\ \A p \in DOMAIN s.bindings : s.bindings[p].source \in Sources
  BY ZonesAssumption, NoneAssumption, BindingsAssumption DEF Configs

(* Every date bound for a date inside the calendar is inside it too. *)
LEMMA BoundDatesInCalendar ==
    ASSUME NEW sch, NEW s \in Configs, NEW d, Resolves(sch, s, d),
           NEW p \in DOMAIN s.bindings, s.bindings[p].source \in DateSources
    PROVE  Value(s.bindings[p], d, WindowAt(s, d)) \in Day
<1> DEFINE b == s.bindings[p]
           w == WindowAt(s, d)
<1>1. d \in Day /\ Bound(sch, s, p)
  BY DEF Resolves, Covered, InCalendar
<1>2. CASE b.source = "run_date"
  BY <1>1, <1>2 DEF Value
<1>3. CASE b.source = "relative_date"
  <2>1. d + b.value \in Day
    BY <1>3 DEF Resolves, InCalendar
  <2> QED
    BY <1>3, <2>1 DEF Value
<1>4. CASE b.source \in WindowSources
  <2>1. s.window # None
    BY <1>1, <1>4 DEF Bound
  <2>2. w = ResolveWindow(d, s.window) /\ w.start \in Day
    BY <2>1 DEF WindowAt, Resolves, InCalendar
  <2>3. w.end \in Day
    BY <1>1, <2>1, <2>2, ConfiguredWindow, WindowsAreCalendar
  <2> HIDE DEF w
  <2>4. b.source = "window_start" \/ b.source = "window_end"
    BY <1>4 DEF WindowSources
  <2> QED
    BY <2>2, <2>3, <2>4 DEF Value, w
<1> QED
  BY <1>2, <1>3, <1>4 DEF DateSources, Sources, WindowSources

LEMMA InitIInv == Init => IInv
<1>1. FirstDay \in Int
  BY RangeAssumption, CalendarAssumption DEF Day
<1>2. SUFFICES ASSUME Init PROVE IInv
  OBVIOUS
<1>3. /\ schema \in Schemas /\ schedule = None /\ due = FirstDay /\ run.stage = "none"
      /\ overtaken = FALSE /\ previous = None
  BY <1>2 DEF Init, Idle
<1>4. TypeOK
  <2>1. overtaken \in BOOLEAN
    BY <1>3, Zenon
  <2>2. due \in Int /\ due >= FirstDay
    BY <1>1, <1>3
  <2> QED
    BY <1>3, <2>1, <2>2 DEF TypeOK, InFlight
<1> QED
  BY <1>3, <1>4 DEF IInv, SavedFits, SavedResolves, RunIsOfItsDate, RunInFlight, RunResolved,
     PreviousFire, InFlight

(* Neither save touches the run. *)
LEMMA SaveScheduleStep == ASSUME IInv, SaveSchedule PROVE IInv'
<1>1. PICK s \in Configs : Resolves(schema, s, due) /\ schedule' = s
  BY DEF SaveSchedule, Configs
<1>2. /\ UNCHANGED <<schema, due, run>> /\ previous' = None
      /\ overtaken' = (overtaken \/ run.stage = "started")
  BY DEF SaveSchedule
<1> QED
  BY <1>1, <1>2 DEF IInv, TypeOK, SavedFits, SavedResolves, RunIsOfItsDate, RunInFlight,
     RunResolved, PreviousFire, InFlight, Resolves

LEMMA DeleteScheduleStep == ASSUME IInv, DeleteSchedule PROVE IInv'
  BY DEF DeleteSchedule, IInv, TypeOK, SavedFits, SavedResolves, RunIsOfItsDate, RunInFlight,
     RunResolved, PreviousFire, InFlight

LEMMA SaveEndpointStep == ASSUME IInv, SaveEndpoint PROVE IInv'
  BY DEF SaveEndpoint, IInv, TypeOK, SavedFits, SavedResolves, RunIsOfItsDate, RunInFlight,
     RunResolved, PreviousFire, InFlight, Resolves

(* A run starts at an instant of its date. *)
LEMMA StartStep ==
    ASSUME IInv, NEW kind \in {"scheduled", "replay"}, NEW at \in Int,
           NEW date \in FirstDay .. LastDay, NEW zone \in Zones, LocalDate(zone, at) = date,
           kind = "scheduled" => zone = schedule.zone,
           Start(kind, at, date, zone), due' \in Int, due' >= FirstDay
    PROVE  IInv'
<1>1. run' = [stage |-> "started", kind |-> kind, at |-> at, date |-> date, zone |-> zone,
              schedule |-> schedule]
  BY DEF Start
<1>2. schedule # None /\ overtaken' = FALSE /\ UNCHANGED <<schema, schedule, previous>>
  BY DEF Start
<1> QED
  BY <1>1, <1>2 DEF IInv, TypeOK, SavedFits, SavedResolves, RunIsOfItsDate, RunInFlight,
     RunResolved, PreviousFire, InFlight

LEMMA FireStep == ASSUME IInv, Fire PROVE IInv'
<1>1. /\ schedule # None /\ due \in Int /\ due >= FirstDay /\ due <= LastDay
      /\ FirstDay \in Int /\ LastDay \in Int /\ schedule.zone \in Zones
  BY RangeAssumption, CalendarAssumption DEF Fire, IInv, TypeOK, Day, Configs
<1>2. PICK at \in Instants(schedule.zone, due), step \in Cadences :
        Start("scheduled", at, due, schedule.zone) /\ due' = due + step
  BY DEF Fire
<1>3. at \in Int /\ LocalDate(schedule.zone, at) = due
  BY <1>1, <1>2, RangeAssumption DEF Instants
<1>4. due' \in Int /\ due' >= FirstDay
  BY <1>1, <1>2, RangeAssumption
<1> QED
  BY <1>1, <1>2, <1>3, <1>4, StartStep

(* The request makes an instant of the date that was asked for. *)
LEMMA AskReplayStep == ASSUME IInv, AskReplay PROVE IInv'
<1>1. PICK d \in FirstDay .. LastDay :
        run' = [stage |-> "asked", date |-> d, zone |-> schedule.zone,
                at |-> Midnight(schedule.zone, d)]
  BY DEF AskReplay
<1>2. schedule # None /\ schedule \in Configs /\ UNCHANGED <<schema, schedule, due, overtaken, previous>>
  BY DEF AskReplay, IInv, TypeOK
<1>3. d \in Int /\ IsZone(schedule.zone) /\ schedule.zone \in Zones
  BY <1>1, <1>2, ConfigParts, RangeAssumption, CalendarAssumption DEF Day, Configs
<1>4. /\ Midnight(schedule.zone, d) \in Int
      /\ LocalDate(schedule.zone, Midnight(schedule.zone, d)) = d
  BY <1>3, MidnightIsOfItsDate
<1> QED
  BY <1>1, <1>2, <1>3, <1>4 DEF IInv, TypeOK, SavedFits, SavedResolves, RunIsOfItsDate,
     RunInFlight, RunResolved, PreviousFire, InFlight

LEMMA ReplayStep == ASSUME IInv, Replay PROVE IInv'
<1>1. /\ run.at \in Int /\ run.date \in FirstDay .. LastDay /\ run.zone \in Zones
      /\ LocalDate(run.zone, run.at) = run.date /\ due \in Int /\ due >= FirstDay
  BY DEF Replay, IInv, TypeOK, RunInFlight, InFlight
<1>2. Start("replay", run.at, run.date, run.zone) /\ due' = due
  BY DEF Replay
<1> QED
  BY <1>1, <1>2, StartStep

LEMMA ReplayMissingStep == ASSUME IInv, ReplayMissing PROVE IInv'
  BY DEF ReplayMissing, Idle, IInv, TypeOK, SavedFits, SavedResolves, RunIsOfItsDate,
     RunInFlight, RunResolved, PreviousFire, InFlight

(* Resolving: what was saved is covered, so only a run overtaken by a save   *)
(* or at the edge of the calendar can fail. *)
LEMMA ResolveStep == ASSUME IInv, Resolve PROVE IInv'
<1> DEFINE s == run.schedule
           logical == LocalDate(s.zone, run.at)
           ok == Resolves(schema, s, logical)
<1>1. /\ run.stage = "started" /\ s \in Configs /\ run.zone \in Zones
      /\ run.date \in FirstDay .. LastDay /\ run.kind \in {"scheduled", "replay"}
      /\ run.zone = s.zone => logical = run.date
      /\ run.kind = "scheduled" => run.zone = s.zone
      /\ ~overtaken => s = schedule
  BY DEF Resolve, IInv, TypeOK, RunInFlight, InFlight
<1>2. /\ run'.stage = IF ok THEN "resolved" ELSE "failed"
      /\ run'.kind = run.kind /\ run'.date = run.date /\ run'.zone = run.zone
      /\ run'.schedule = s
      /\ run'.logical = logical /\ run'.window = (IF ok THEN WindowAt(s, logical) ELSE NoWindow)
      /\ run'.values = (IF ok THEN Values(s, logical) ELSE <<>>)
      /\ previous' = IF ok /\ run.kind = "scheduled" /\ ~overtaken THEN run' ELSE previous
      /\ UNCHANGED <<schema, schedule, due, overtaken>>
  BY DEF Resolve
<1>3. run.date \in Day
  BY <1>1, RangeAssumption, CalendarAssumption DEF Day
<1> HIDE DEF ok
<1>4. ok => /\ InCalendar(s, logical)
            /\ \A p \in DOMAIN s.bindings : s.bindings[p].source \in DateSources =>
                   Values(s, logical)[p] \in Day
  BY <1>1, BoundDatesInCalendar DEF ok, Resolves, Values
<1>5. DOMAIN Values(s, logical) = DOMAIN s.bindings
  BY DEF Values
<1> HIDE DEF s, logical
<1>6. TypeOK'
  BY <1>1, <1>2, <1>4, <1>5 DEF IInv, TypeOK, InFlight, s
<1>7. SavedFits'
  BY <1>2 DEF IInv, SavedFits, Covered, Bound
<1>8. SavedResolves'
  <2>1. SUFFICES ASSUME ~ok, ~overtaken PROVE ~InCalendar(s, logical)
    BY <1>2 DEF SavedResolves
  <2>2. Covered(schema, s)
    BY <1>1, <2>1, ConfigParts DEF IInv, SavedFits
  <2> QED
    BY <2>1, <2>2 DEF ok, Resolves
<1>9. RunIsOfItsDate' /\ RunInFlight' /\ RunResolved'
  BY <1>1, <1>2, <1>4 DEF RunIsOfItsDate, RunInFlight, RunResolved, InFlight
<1>10. PreviousFire'
  BY <1>1, <1>2, <1>3, <1>4, ConfigParts DEF IInv, PreviousFire
<1> QED
  BY <1>6, <1>7, <1>8, <1>9, <1>10 DEF IInv

LEMMA StepIInv == IInv /\ [Next]_vars => IInv'
<1>1. CASE UNCHANGED vars
  BY <1>1 DEF vars, IInv, TypeOK, SavedFits, SavedResolves, RunIsOfItsDate, RunInFlight,
     RunResolved, PreviousFire, InFlight
<1> QED
  BY <1>1, SaveScheduleStep, DeleteScheduleStep, SaveEndpointStep, FireStep, AskReplayStep,
     ReplayStep, ReplayMissingStep, ResolveStep DEF Next

LEMMA Invariance == Spec => []IInv
  BY InitIInv, StepIInv, PTL DEF Spec

-----------------------------------------------------------------------------
(***************************************************************************)
(* The theorems.                                                           *)
(***************************************************************************)

(* Every reachable state is well typed; every date a run binds is a date of  *)
(* the calendar.                                                             *)
THEOREM TypeCorrect == Spec => []TypeOK
<1>1. IInv => TypeOK
  BY DEF IInv
<1> QED
  BY <1>1, Invariance, PTL

(* The endpoint accepts the bindings of its schedule, whatever is saved in   *)
(* whatever order: create_schedule, update_schedule and update_endpoint.     *)
THEOREM Fitting == Spec => []SavedFits
<1>1. IInv => SavedFits
  BY DEF IInv
<1> QED
  BY <1>1, Invariance, PTL

(* What the administrator saved on one date resolves on every date, unless   *)
(* the schedule is saved again under the run.                                *)
THEOREM Resolving == Spec => []SavedResolves
<1>1. IInv => SavedResolves
  BY DEF IInv
<1> QED
  BY <1>1, Invariance, PTL

(* A fire resolves its own date, and a replay the date it was asked for      *)
(* unless it loads another timezone than the request read (run_now and       *)
(* execute_scheduled_job each read the schedule).                            *)
THEOREM OfItsDate == Spec => []RunIsOfItsDate
<1>1. IInv => RunIsOfItsDate
  BY DEF IInv
<1> QED
  BY <1>1, Invariance, PTL

(* The window of every run is the documented one of the date it resolves,    *)
(* for any calendar.                                                         *)
THEOREM Documented == Spec => []WindowIsCalendar
<1>1. IInv => WindowIsCalendar
  <2>1. SUFFICES ASSUME IInv, run.stage = "resolved", run.schedule.window # None
                 PROVE  \A x \in Day : InWindow(x, run.logical, run.schedule.window)
                                          <=> run.window.start <= x /\ x <= run.window.end
    BY DEF WindowIsCalendar
  <2>2. /\ run.schedule \in Configs /\ run.logical \in Day
        /\ run.window = ResolveWindow(run.logical, run.schedule.window)
        /\ ResolveWindow(run.logical, run.schedule.window).start \in Day
    BY <2>1 DEF IInv, TypeOK, RunResolved, InCalendar, WindowAt
  <2> QED
    BY <2>1, <2>2, ConfiguredWindow, WindowsAreCalendar
<1> QED
  BY <1>1, Invariance, PTL

(* Consecutive fires leave no day out and load none twice.                   *)
THEOREM Tiling == Spec => WindowsTile
<1> DEFINE Tile ==
        previous # None /\ previous' # None /\ previous' # previous
        /\ previous.schedule.window # None
        /\ NextPeriod(previous.schedule.window.preset, previous.date, previous'.date)
        => previous'.window.start = previous.window.end + 1
<1>1. ASSUME IInv, IInv', [Next]_vars PROVE Tile
  <2>1. SUFFICES ASSUME previous # None, previous' # None, previous' # previous,
                        previous.schedule.window # None,
                        NextPeriod(previous.schedule.window.preset, previous.date, previous'.date)
                 PROVE  previous'.window.start = previous.window.end + 1
    OBVIOUS
  <2>2. schedule' = schedule
    BY <1>1, <2>1 DEF Next, vars, SaveSchedule, DeleteSchedule, SaveEndpoint, Fire, Replay,
       AskReplay, ReplayMissing, Start, Resolve
  <2>3. /\ previous.schedule = schedule /\ previous.date \in Day
        /\ previous.window = WindowAt(schedule, previous.date)
    BY <1>1, <2>1 DEF IInv, PreviousFire
  <2>4. /\ previous'.schedule = schedule /\ previous'.date \in Day
        /\ InCalendar(schedule, previous'.date)
        /\ previous'.window = WindowAt(schedule, previous'.date)
    BY <1>1, <2>1, <2>2 DEF IInv, PreviousFire, InCalendar, WindowAt
  <2>5. /\ previous.window = ResolveWindow(previous.date, schedule.window)
        /\ previous'.window = ResolveWindow(previous'.date, schedule.window)
        /\ ResolveWindow(previous'.date, schedule.window).start \in Day
    BY <2>1, <2>3, <2>4 DEF WindowAt, InCalendar
  <2> QED
    BY <2>1, <2>3, <2>4, <2>5, WindowsAdjoin
<1>2. IInv /\ IInv' /\ [Next]_vars => [Tile]_vars
  BY <1>1
<1> QED
  BY <1>2, Invariance, PTL DEF Spec, WindowsTile
=============================================================================
