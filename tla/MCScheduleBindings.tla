------------------------- MODULE MCScheduleBindings -------------------------
(* ScheduleBindings around 29 February 2032, with two kinds of midnight.     *)
EXTENDS ScheduleBindings

Dec2031 == 741807
MCMinDay == Dec2031 + 1                                     \* 1 January
MCMaxDay == Dec2031 + 67                                    \* 7 March 2032
MCFirsts == {Dec2031 + 1, Dec2031 + 32, Dec2031 + 61}
Feb(n) == Dec2031 + 31 + n
MCFirstDay == Feb(28)                                       \* a Saturday
MCLastDay == Feb(30)                                        \* Monday, 1 March

Zone(at, before, after) == [at |-> at, before |-> before, after |-> after]
(* Midnight of 1 March skipped, or repeated.                                 *)
MCZones == {Zone(1440 * Feb(30) - 120, 120, 180), Zone(1440 * Feb(30) + 300, -240, -300)}

Window(preset) == [preset |-> preset, days |-> None]
MCWindows == {None, [preset |-> "last_n_complete_days", days |-> 3]}
    \cup {Window(p) : p \in Presets \ {"last_n_complete_days"}}

Binding(source, value) == [source |-> source, value |-> value]
Between(store) == [from |-> Binding("window_start", None), to |-> Binding("window_end", None),
                   store |-> store]
MCBindings ==
    {Between(Binding("null", None)), Between(Binding("literal", 1)),
     [from |-> Binding("relative_date", -7), to |-> Binding("relative_date", 7)]}

Param(date, required, accepts) == [date |-> date, required |-> required, accepts |-> accepts]
Date == Param(TRUE, TRUE, {})
MCSchemas ==
    {[from |-> Date, to |-> Date],
     [from |-> Date, to |-> Date, store |-> Param(FALSE, TRUE, {1})],
     [from |-> Date, to |-> Date, store |-> Param(FALSE, FALSE, {1})]}
=============================================================================
