--------------------------- MODULE SnapshotFilter ---------------------------
(***************************************************************************)
(* Typed request filtering for persisted snapshot rows:                    *)
(* backend/app/services/snapshot_filtering.py, as operators.               *)
(*                                                                         *)
(* A cell is an integer or SQL NULL.  A row is a function from columns to  *)
(* cells.  The compiled filters of an endpoint are a function from its     *)
(* mapped parameters to records                                            *)
(*   [column, operator, nullMeansAll, accepts]                             *)
(* where `accepts` is the set of values the parameter's declared type      *)
(* coerces: any other stored value or cell raises ValidationError (the     *)
(* year 0026 of a DATE, a string over max_length).  Parameters are a       *)
(* function from names to accepted values or Null, and a name outside its  *)
(* domain is a key missing from the dictionary.                            *)
(***************************************************************************)
EXTENDS Integers

CONSTANT Null   \* SQL NULL / Python None

(* dict.get *)
Lookup(params, p) == IF p \in DOMAIN params THEN params[p] ELSE Null

Compare(operator, cell, bound) ==
    \/ operator = "eq" /\ cell = bound
    \/ operator = "gte" /\ cell >= bound
    \/ operator = "lte" /\ cell <= bound

(* One cached row against one non-null parameter: a missing column, a NULL   *)
(* and a cell the type does not coerce all fail to match.                    *)
Satisfies(row, f, value) ==
    /\ f.column \in DOMAIN row
    /\ row[f.column] # Null /\ row[f.column] \in f.accepts
    /\ Compare(f.operator, row[f.column], value)

(* filter_snapshot_rows *)
FilterRows(rows, filters, params) ==
    {r \in rows : \A p \in DOMAIN filters :
        Lookup(params, p) # Null => Satisfies(r, filters[p], Lookup(params, p))}

(* Mutants of one parameter's coverage: the bounds compared the wrong way    *)
(* round; an omitted parameter covered by any run; equal bounds rejected.    *)
CoversBackwards(f, resolved, requested) ==
    IF requested = Null THEN resolved = Null
    ELSE IF resolved = Null THEN f.operator = "eq" /\ f.nullMeansAll
    ELSE resolved \in f.accepts /\ Compare(f.operator, resolved, requested)
CoversOmitted(f, resolved, requested) ==
    IF requested = Null THEN TRUE
    ELSE IF resolved = Null THEN f.operator = "eq" /\ f.nullMeansAll
    ELSE resolved \in f.accepts /\ Compare(f.operator, requested, resolved)
CoversStrictly(f, resolved, requested) ==
    IF requested = Null THEN resolved = Null
    ELSE IF resolved = Null THEN f.operator = "eq" /\ f.nullMeansAll
    ELSE /\ resolved \in f.accepts /\ Compare(f.operator, requested, resolved)
         /\ f.operator # "eq" => requested # resolved

(* One parameter: the same NULL for NULL; for a value, the same value, a     *)
(* bound at least as wide, or a NULL declared to mean all values.            *)
CoversParameter(f, resolved, requested) ==
    IF requested = Null THEN resolved = Null
    ELSE IF resolved = Null THEN f.operator = "eq" /\ f.nullMeansAll
    ELSE resolved \in f.accepts /\ Compare(f.operator, requested, resolved)

(* snapshot_covers_request *)
Covers(filters, request, resolved) ==
    \A p \in DOMAIN filters :
        /\ p \in DOMAIN resolved
        /\ CoversParameter(filters[p], resolved[p], Lookup(request, p))

(* validate_snapshot_parameter_ranges: on each column, the greatest lower    *)
(* bound asked for does not exceed the least upper bound.                    *)
RangesValid(filters, request) ==
    \A p, q \in DOMAIN filters :
        /\ filters[p].column = filters[q].column
        /\ filters[p].operator = "gte" /\ Lookup(request, p) # Null
        /\ filters[q].operator = "lte" /\ Lookup(request, q) # Null
        => Lookup(request, p) <= Lookup(request, q)

(* unavailable_snapshot_filter_columns *)
Unavailable(rows, filters) ==
    /\ rows # {}
    /\ \E p \in DOMAIN filters : \A r \in rows : filters[p].column \notin DOMAIN r

(* validate_snapshot_rows_match_resolved_parameters *)
RowsMatchResolved(rows, filters, resolved) ==
    rows # {} =>
        /\ ~Unavailable(rows, filters)
        /\ \A p \in DOMAIN filters :
               Lookup(resolved, p) # Null => resolved[p] \in filters[p].accepts
        /\ FilterRows(rows, filters, resolved) = rows
=============================================================================
