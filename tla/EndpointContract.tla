-------------------------- MODULE EndpointContract --------------------------
(***************************************************************************)
(* The contract of an endpoint: its SQL text, the descriptors of its bind  *)
(* parameters and its data strategy, kept consistent by the validators of  *)
(* backend/app/schemas/endpoint.py and by update_endpoint                  *)
(* (services/endpoint.py), and relied on by every request                  *)
(* (sql/param_models.py, services/data.py) and by every SQL preview.       *)
(*                                                                         *)
(* A PUT reads the row, is validated against it and commits later, so two  *)
(* of them may be validated against the same row.  A schedule is here only *)
(* whether there is one (ScheduleRegistry has its rows and its races).     *)
(*                                                                         *)
(* A value is named after what it is: the string "digits" is coerced to a  *)
(* number, "isodate" to a date; number and truth are JSON values.          *)
(***************************************************************************)
EXTENDS SqlScanner, RowSession

CONSTANTS
    Previews,      \* payloads of POST /endpoints/preview: [sql, schema, given]
    NewEndpoints,  \* payloads of POST /endpoints: [sql, schema, strategy]
    Updates,       \* payloads of PUT /endpoints/{id}: column -> value
    Givens,        \* query strings of requests: name -> string
    Admins,        \* admin requests that may be in flight together
    MaxRequests    \* bound: admin requests sent

Missing == "missing"   \* Python's ..., a value that must be given

Types == {"string", "integer", "float", "boolean", "date"}
StringValues == {"word", "digits", "isodate", "yes"}
JsonValues == StringValues \cup {"number", "truth"}
Descriptors ==
    [type : Types, required : BOOLEAN, default : JsonValues \cup {None}, null : BOOLEAN,
     expression : {None, "today", "yesterday"}, max : Nat \cup {None},
     filter : {None} \cup [column : STRING, operator : {"eq", "gte", "lte"}, all : BOOLEAN]]

(* The texts, schemas and rows there may be. *)
Possible(column) == {new[column] : new \in NewEndpoints}
                \cup {u[column] : u \in {u \in Updates : column \in DOMAIN u}}
Rows == [sql : Possible("sql"), schema : Possible("schema"), strategy : {"live", "snapshot"}]

ASSUME PayloadsAssumption ==
    /\ NewEndpoints \subseteq Rows
    /\ \A u \in Updates : \E r \in Rows :
          DOMAIN u \subseteq DOMAIN r /\ \A c \in DOMAIN u : u[c] = r[c]
    /\ \A schema \in Possible("schema") : \A n \in DOMAIN schema : schema[n] \in Descriptors
    /\ \A p \in Previews : p.sql \in Text
ASSUME ContractBoundsAssumption == MaxRequests \in Nat /\ None # Missing /\ None \notin Rows

VARIABLES
    row,       \* the committed endpoints row [sql, schema, strategy], None before and after
    scheduled, \* the endpoint has a schedules row
    admin,     \* what the session of each admin request holds
    served,    \* the last data request: what it was answered and what it bound
    preview,   \* the last SQL preview
    sent,      \* admin requests sent (bounded by MaxRequests)
    loose,     \* history: SQL and schema may differ (see BindsAreBound)
    raced      \* history: the last PUT was committed over a changed row

vars == <<row, scheduled, admin, served, preview, sent, loose, raced>>

-----------------------------------------------------------------------------
(***************************************************************************)
(* Parameter models.                                                       *)
(***************************************************************************)
Length(value) == CASE value = "word" -> 4 [] value = "digits" -> 1
                   [] value = "isodate" -> 10 [] value = "yes" -> 3

(* What pydantic's annotation of a type takes, and what it makes of it. *)
Coercible(type) ==
    CASE type = "string"  -> StringValues
      [] type = "integer" -> {"digits", "number", "truth"}
      [] type = "float"   -> {"digits", "number", "truth"}
      [] type = "boolean" -> {"yes", "truth"}
      [] type = "date"    -> {"isodate"}

Accepts(d, value) ==
    IF value = None THEN ~d.required \/ d.null
    ELSE /\ value \in Coercible(d.type)
         /\ d.type = "string" /\ d.max # None => Length(value) <= d.max

(* _build_field: a default_expression resolves to a date. *)
FieldDefault(d, enforceRequired) ==
    IF enforceRequired /\ d.required THEN Missing
    ELSE IF d.null THEN None
    ELSE IF d.expression # None THEN "isodate"
    ELSE IF d.default # None \/ ~d.required THEN d.default
    ELSE Missing

(* build_param_model and its model_validate: what is bound, and whether a    *)
(* value is refused.                                                         *)
ValueOf(schema, given, n) ==
    IF n \in DOMAIN given THEN given[n] ELSE FieldDefault(schema[n], TRUE)

Validate(schema, given) == [n \in DOMAIN schema |-> ValueOf(schema, given, n)]

Refuses(schema, given) ==
    \E n \in DOMAIN schema :
        \/ ValueOf(schema, given, n) = Missing
        \/ ~Accepts(schema[n], ValueOf(schema, given, n))

-----------------------------------------------------------------------------
(***************************************************************************)
(* Validation of payloads.                                                 *)
(***************************************************************************)
ConfiguredDefaults(d) ==
    {what \in {"default", "null", "expression"} :
        \/ what = "default" /\ d.default # None
        \/ what = "null" /\ d.null
        \/ what = "expression" /\ d.expression # None}

(* optional_must_have_default, validate_null_coverage. *)
ConsistentDescriptor(d) ==
    /\ d.filter # None /\ d.filter.all => ~d.required /\ d.filter.operator = "eq"
    /\ Cardinality(ConfiguredDefaults(d)) <= 1
    /\ ~(d.null /\ d.required)
    /\ d.expression # None => d.type = "date"

(* Mutant: only required parameters have their default tried. *)
ValidDescriptorUntried(d) ==
    /\ ConsistentDescriptor(d)
    /\ ConfiguredDefaults(d) # {} /\ d.required => Accepts(d, FieldDefault(d, FALSE))

(* A configured default is tried on the parameter's own model. *)
ValidDescriptor(d) ==
    /\ ConsistentDescriptor(d)
    /\ ConfiguredDefaults(d) # {} => Accepts(d, FieldDefault(d, FALSE))

ValidSchema(schema) == \A n \in DOMAIN schema : ValidDescriptor(schema[n])

(* Mutant: a parameter the SQL does not use is let through. *)
MatchesDeclared(sql, schema) == ExtractBindParams(sql) \subseteq DOMAIN schema

(* bind_params_match_schema: none undeclared, none unused. *)
Matches(sql, schema) == ExtractBindParams(sql) = DOMAIN schema

(* require_snapshot_filter_mappings: every parameter is mapped to a column,  *)
(* and the bounds of one column have one type.                               *)
RangeTypes(schema, column, operator) ==
    {schema[n].type : n \in {n \in DOMAIN schema :
        schema[n].filter.column = column /\ schema[n].filter.operator = operator}}

Mapped(schema) ==
    /\ \A n \in DOMAIN schema : schema[n].filter # None
    /\ \A n \in DOMAIN schema :
           LET column == schema[n].filter.column
               lower == RangeTypes(schema, column, "gte")
               upper == RangeTypes(schema, column, "lte")
           IN  lower # {} /\ upper # {} => Cardinality(lower \cup upper) = 1

FilterMappings(strategy, schema) == strategy = "snapshot" => Mapped(schema)

ValidNew(new) ==
    /\ SafeSql(new.sql) /\ ValidSchema(new.schema) /\ Matches(new.sql, new.schema)
    /\ FilterMappings(new.strategy, new.schema)

(* EndpointUpdate: SQL and schema are compared when both are in the payload. *)
ValidUpdate(u) ==
    /\ "sql" \in DOMAIN u => SafeSql(u.sql)
    /\ "schema" \in DOMAIN u => ValidSchema(u.schema)
    /\ {"sql", "schema"} \subseteq DOMAIN u => Matches(u.sql, u.schema)

(* Mutant: the payload's strategy alone decides. *)
FitsRowByPayload(u, old) ==
    LET new == Overlay(u, old)
    IN  /\ scheduled => new.strategy = "snapshot" /\ Matches(new.sql, new.schema)
        /\ "strategy" \in DOMAIN u => FilterMappings(u.strategy, new.schema)

(* update_endpoint on the row it would make. *)
FitsRow(u, old) ==
    LET new == Overlay(u, old)
    IN  /\ scheduled => new.strategy = "snapshot" /\ Matches(new.sql, new.schema)
        /\ FilterMappings(new.strategy, new.schema)

-----------------------------------------------------------------------------
NoAnswer == [status |-> "none", sql |-> <<>>, bound |-> {}, excused |-> FALSE, loose |-> FALSE]

Init ==
    /\ row = None /\ scheduled = FALSE
    /\ admin = [a \in Admins |-> Idle]
    /\ served = NoAnswer /\ preview = NoAnswer
    /\ sent = 0 /\ loose = FALSE /\ raced = FALSE

(* SqlPreviewRequest and preview_sql.  A preview reads the connection alone  *)
(* and leaves nothing, so it is enough to preview, and to take the answer,   *)
(* before there is an endpoint.  Without a schema the values are passed on   *)
(* as they are.                                                              *)
Preview ==
    /\ sent = 0 /\ preview.status = "none"
    /\ \E p \in Previews :
          /\ SafeSql(p.sql) /\ ValidSchema(p.schema)
          /\ Matches(p.sql, p.schema)
          /\ LET refused == Refuses(p.schema, p.given)
                 values == IF DOMAIN p.schema = {} THEN p.given ELSE Validate(p.schema, p.given)
             IN  preview' = [status |-> IF refused THEN "refused" ELSE "executed", sql |-> p.sql,
                             bound |-> IF refused THEN {} ELSE DOMAIN values,
                             excused |-> FALSE, loose |-> DOMAIN p.schema = {}]
    /\ UNCHANGED <<row, scheduled, admin, served, sent, loose, raced>>

TakePreview ==
    /\ preview.status # "none" /\ preview' = NoAnswer
    /\ UNCHANGED <<row, scheduled, admin, served, sent, loose, raced>>

Send == sent < MaxRequests /\ sent' = sent + 1

(* create_endpoint. *)
CreateEndpoint ==
    /\ sent = 0 /\ preview.status = "none" /\ Send
    /\ \E new \in NewEndpoints : ValidNew(new) /\ row' = new
    /\ UNCHANGED <<scheduled, admin, served, preview, loose, raced>>

(* update_endpoint up to its flush. *)
ReadEndpoint(a) ==
    /\ Send
    /\ admin[a].op = "idle" /\ row # None
    /\ \E u \in Updates :
          /\ ValidUpdate(u) /\ FitsRow(u, row)
          /\ admin' = [admin EXCEPT
                ![a] = Session(IF scheduled THEN "matched" ELSE "free", None, u, row)]
    /\ UNCHANGED <<row, scheduled, served, preview, loose, raced>>

(* The UPDATE and the commit.  A PUT of both SQL and schema, or of a         *)
(* scheduled endpoint, leaves them equal unless it raced.                    *)
WriteEndpoint(a) ==
    LET q == admin[a]
        contract == {"sql", "schema"} \cap DOMAIN q.set
    IN  /\ q.op # "idle"
        /\ admin' = [admin EXCEPT ![a] = Idle]
        /\ IF row = None THEN UNCHANGED <<row, loose, raced>>
           ELSE /\ row' = Merged(q, row)
                /\ raced' = (q.read # row)
                /\ loose' = IF q.read # row THEN TRUE
                            ELSE IF Cardinality(contract) = 2 \/ q.op = "matched" THEN FALSE
                            ELSE loose \/ contract # {}
        /\ UNCHANGED <<scheduled, served, preview, sent>>

(* Mutant: the schedule outlives its endpoint. *)
DeleteEndpointAlone ==
    /\ Send
    /\ row # None /\ row' = None
    /\ UNCHANGED <<scheduled, admin, served, preview, loose, raced>>

(* delete_endpoint; the schedule goes with it (ON DELETE CASCADE). *)
DeleteEndpoint ==
    /\ Send
    /\ row # None /\ row' = None /\ scheduled' = FALSE
    /\ UNCHANGED <<admin, served, preview, loose, raced>>

(* create_schedule asks for the snapshot strategy and compares the bindings  *)
(* with the schema, not the SQL.                                             *)
Attach ==
    /\ Send
    /\ row # None /\ row.strategy = "snapshot"
    /\ ~scheduled /\ scheduled' = TRUE
    /\ UNCHANGED <<row, admin, served, preview, loose, raced>>

Detach ==
    /\ Send
    /\ scheduled /\ scheduled' = FALSE
    /\ UNCHANGED <<row, admin, served, preview, loose, raced>>

(* A data request: parameters it does not declare are left out, those it     *)
(* declares are coerced (422 when one is refused), and a live endpoint's     *)
(* query is executed with what results.                                      *)
Serve ==
    /\ row # None
    /\ \E given \in Givens :
          LET refused == Refuses(row.schema, given)
          IN  served' = [status |-> IF refused THEN "refused"
                                    ELSE IF row.strategy = "live" THEN "executed" ELSE "cached",
                         sql |-> row.sql,
                         bound |-> IF refused THEN {} ELSE DOMAIN Validate(row.schema, given),
                         excused |-> \E n \in DOMAIN row.schema :
                             IF n \in DOMAIN given THEN ~Accepts(row.schema[n], given[n])
                             ELSE row.schema[n].required,
                         loose |-> loose]
    /\ UNCHANGED <<row, scheduled, admin, preview, sent, loose, raced>>

Next ==
    \/ Preview \/ TakePreview \/ CreateEndpoint \/ DeleteEndpoint \/ Attach \/ Detach \/ Serve
    \/ \E a \in Admins : ReadEndpoint(a) \/ WriteEndpoint(a)

Spec == Init /\ [][Next]_vars

-----------------------------------------------------------------------------
(***************************************************************************)
(* Properties.                                                             *)
(***************************************************************************)

(* The stored schema has valid descriptors only, a schedule has its          *)
(* endpoint, and no request bound anything without an answer.                *)
TypeOK ==
    /\ row \in Rows \cup {None} /\ (row # None => ValidSchema(row.schema))
    /\ scheduled => row # None
    /\ \A a \in Admins : admin[a].op \in {"idle", "free", "matched"}
    /\ \A answer \in {served, preview} :
          /\ answer.status \in {"none", "refused", "executed", "cached"}
          /\ answer.status \in {"none", "refused"} => answer.bound = {}
    /\ sent \in 0..MaxRequests /\ loose \in BOOLEAN /\ raced \in BOOLEAN

(* The scanner blanks exactly what Oracle does not read as code: literals    *)
(* with doubled quotes, Q and NQ literals, quoted identifiers and comments,  *)
(* closed or not, next to and inside each other.                             *)
MaskIsLexical == preview.status # "none" => MasksLexically(preview.sql)

(* A query is executed with exactly the binds its text has.  For a live      *)
(* endpoint this holds from each PUT of both SQL and schema, or PUT of a     *)
(* scheduled endpoint, up to the first PUT that sends one of the two alone   *)
(* while there is no schedule, or is committed over a changed row.           *)
BindsAreBound ==
    \A answer \in {served, preview} :
        answer.status = "executed" /\ ~answer.loose
            => answer.bound = ExtractBindParams(answer.sql)

(* A snapshot endpoint has a filter for every parameter, of one type for the *)
(* two bounds of a column, whatever PUTs of strategy and schema brought it   *)
(* there, unless the last of them was committed over a changed row.          *)
SnapshotIsMapped ==
    row # None /\ ~raced => FilterMappings(row.strategy, row.schema)

(* A request is refused exactly when it omits a required parameter or gives  *)
(* a value the parameter does not accept: a stored default is never refused, *)
(* and never "weakens their public required-parameter contract"              *)
(* (sql/param_models.py:125).                                                *)
RefusalIsExact ==
    served.status # "none" => (served.status = "refused" <=> served.excused)
=============================================================================
