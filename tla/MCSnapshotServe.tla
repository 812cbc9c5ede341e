-------------------------- MODULE MCSnapshotServe --------------------------
(* SnapshotServe on two raw columns, rows with a NULL and with a cell no     *)
(* parameter type accepts, and six endpoint configurations.                 *)
EXTENDS SnapshotServe

MCRawColumns == {"day", "store"}

Row(day, store) == [day |-> day, store |-> store]

MCRows == {Row(1, 1), Row(1, 2), Row(2, 1), Row(Null, 1), Row(9, 2)}
MCSources == {{Row(1, 1), Row(1, 2), Row(2, 1)}, MCRows \ {Row(1, 1)}}

Filter(column, operator, nullMeansAll) ==
    [column |-> column, operator |-> operator, nullMeansAll |-> nullMeansAll, accepts |-> {1, 2}]
Predicate(column, operator, nullSelects) ==
    [column |-> column, operator |-> operator, nullSelects |-> nullSelects]

SameNames == [x \in MCRawColumns |-> x]
Renamed == [SameNames EXCEPT !["day"] = "DT"]

(* From a day on, of one store or of all. *)
FromDay == [params |-> {"from", "store"},
    sql |-> [from |-> Predicate("day", "gte", {}), store |-> Predicate("store", "eq", MCRows)],
    filters |-> [from |-> Filter("day", "gte", FALSE), store |-> Filter("store", "eq", TRUE)],
    columnMap |-> SameNames]
(* The same after a rename that kept the mapping of the old column name. *)
StaleMapping == [FromDay EXCEPT !.columnMap = Renamed]
(* The same parameters, the day now an upper bound. *)
UpToDay == [FromDay EXCEPT !.sql = [@ EXCEPT !["from"].operator = "lte"],
                           !.filters = [@ EXCEPT !["from"].operator = "lte"]]
(* Between two days, under a renamed column. *)
Between == [params |-> {"from", "to"},
    sql |-> [from |-> Predicate("day", "gte", {}), to |-> Predicate("day", "lte", {})],
    filters |-> [from |-> Filter("DT", "gte", FALSE), to |-> Filter("DT", "lte", FALSE)],
    columnMap |-> Renamed]
(* Every row. *)
Unparameterized == [params |-> {}, sql |-> [p \in {} |-> 0], filters |-> [p \in {} |-> 0],
    columnMap |-> SameNames]
(* From before the mappings were required. *)
Legacy == [FromDay EXCEPT !.filters = [p \in {"from"} |-> FromDay.filters[p]]]

MCEndpoints == {FromDay, StaleMapping, UpToDay, Between, Unparameterized, Legacy}

ASSUME InstanceAssumption == Discriminating
=============================================================================
