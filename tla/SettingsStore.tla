---------------------------- MODULE SettingsStore ----------------------------
(***************************************************************************)
(* The runtime settings (backend/app/services/settings.py): a table with   *)
(* one row per key, which GET /settings fills with the defaults of the     *)
(* known settings it misses, and PUT changes, one key or several in one    *)
(* transaction.                                                            *)
(*                                                                         *)
(* Every key goes through the repository's upsert: a SELECT, then an       *)
(* INSERT if there was no row, otherwise an UPDATE, which the ORM leaves   *)
(* out when the row it loaded has that value.  A row written and not yet   *)
(* committed, or a key inserted, makes the writers after it wait; an       *)
(* INSERT that finds the key committed fails the request; of the writers   *)
(* that wait in a circle PostgreSQL fails one.                             *)
(***************************************************************************)
EXTENDS Sequences, FiniteSets, ConnectionPool

CONSTANTS
    Missing,        \* no row
    Refused,        \* a value that validation refuses
    Default,        \* KNOWN_SETTINGS: key -> default value
    Known,          \* the known keys, in KNOWN_SETTINGS' order
    Keys,
    Values,         \* values administrators write, other than Refused
    Editors,        \* settings requests, each received once
    Bulks           \* payloads of PUT, in order: sequences of [key, value]

Edited(payload) == {payload[i].key : i \in DOMAIN payload}

ASSUME SettingsAssumption ==
    /\ Editors \subseteq Tasks
    /\ Known \in Seq(Keys) /\ \A k \in Keys : Default[k] \in Values
    /\ Missing \notin Values /\ Refused \notin Values
    /\ \A p \in Bulks : /\ p \in Seq([key : Keys, value : Values \cup {Refused}])
                        /\ Len(p) = Cardinality(Edited(p))

VARIABLES
    stored,   \* app_settings: key -> value, or Missing
    edit      \* what each settings request is about to do

settingsVars == <<stored, edit>>

Waiting == [at |-> "waiting", all |-> <<>>, todo |-> <<>>,
            read |-> Missing, wrote |-> [k \in {} |-> Missing], same |-> {}]
Answered == [Waiting EXCEPT !.at = "answered"]

SettingsInit ==
    /\ stored \in [Keys -> {Missing}] \cup {[k \in Keys |-> Default[k]]}
    /\ edit = [e \in Editors |-> Waiting]

Item(e) == Head(edit[e].todo)

(* Taken with the first statement, kept until the end of the request. *)
Connected(t) == (held[t] = 1 /\ UNCHANGED held) \/ (held[t] = 0 /\ Checkout(t))

(* The request is over; what it wrote and did not commit is rolled back. *)
EndEdit(e) == edit' = [edit EXCEPT ![e] = Answered] /\ Close(e)

(* GET /settings *)
BeginList(e) ==
    /\ edit[e] = Waiting
    /\ edit' = [edit EXCEPT ![e] = [Waiting EXCEPT !.at = "list"]]
    /\ UNCHANGED <<stored, held>>

(* PUT /settings and PUT /settings/{key} *)
BeginUpdate(e, payload) ==
    /\ edit[e] = Waiting
    /\ edit' = [edit EXCEPT ![e] = [Waiting EXCEPT !.at = "item", !.all = payload, !.todo = payload]]
    /\ UNCHANGED <<stored, held>>

(* The known settings without a row are to be seeded, in their order. *)
MissingDefaults ==
    LET seeds[n \in 0..Len(Known)] ==
            IF n = 0 THEN <<>>
            ELSE IF stored[Known[n]] # Missing THEN seeds[n - 1]
            ELSE Append(seeds[n - 1], [key |-> Known[n], value |-> Default[Known[n]]])
    IN  seeds[Len(Known)]

ReadAll(e) ==
    /\ edit[e].at = "list"
    /\ Connected(e)
    /\ edit' = [edit EXCEPT ![e].at = "item",
                            ![e].all = MissingDefaults, ![e].todo = MissingDefaults]
    /\ UNCHANGED stored

Valid(item) == item.value # Refused

(* The table after the request's commit. *)
After(e) == [k \in Keys |-> IF k \in DOMAIN edit[e].wrote THEN edit[e].wrote[k] ELSE stored[k]]

RefuseItemCommits(e) ==
    /\ edit[e].at = "item" /\ edit[e].todo # <<>>
    /\ ~Valid(Item(e))
    /\ EndEdit(e)
    /\ stored' = After(e)

(* ValueError: 422, whatever the request wrote before. *)
RefuseItem(e) ==
    /\ edit[e].at = "item" /\ edit[e].todo # <<>>
    /\ ~Valid(Item(e))
    /\ EndEdit(e)
    /\ UNCHANGED stored

Select(e) ==
    /\ edit[e].at = "item" /\ edit[e].todo # <<>>
    /\ Valid(Item(e))
    /\ Connected(e)
    /\ edit' = [edit EXCEPT ![e].at = "write", ![e].read = stored[Item(e).key]]
    /\ UNCHANGED stored

NoConnection(e) ==
    /\ edit[e].at \in {"list", "item"} /\ held[e] = 0
    /\ edit[e].at = "item" => edit[e].todo # <<>> /\ Valid(Item(e))
    /\ GivesUp(e)
    /\ EndEdit(e)
    /\ UNCHANGED stored

(* The ORM emits no UPDATE for a row that has the value already. *)
Unchanged(e) == edit[e].read = Item(e).value

Advanced(e) == [edit[e] EXCEPT !.at = "item", !.todo = Tail(@), !.read = Missing]

Keep(e) ==
    /\ edit[e].at = "write" /\ Unchanged(e)
    /\ edit' = [edit EXCEPT ![e] = [Advanced(e) EXCEPT !.same = @ \cup {Item(e).key}]]
    /\ UNCHANGED <<stored, held>>

(* Who holds the lock the writer needs. *)
Blockers(e) ==
    IF edit[e].at = "write" /\ ~Unchanged(e)
    THEN {x \in Editors \ {e} : Item(e).key \in DOMAIN edit[x].wrote} ELSE {}

Duplicate(e) == edit[e].read = Missing /\ stored[Item(e).key] # Missing

Write(e) ==
    /\ edit[e].at = "write" /\ ~Unchanged(e)
    /\ Blockers(e) = {} /\ ~Duplicate(e)
    /\ LET item == Item(e)
       IN edit' = [edit EXCEPT ![e] = [Advanced(e) EXCEPT !.wrote =
              [k \in DOMAIN @ \cup {item.key} |-> IF k = item.key THEN item.value ELSE @[k]]]]
    /\ UNCHANGED <<stored, held>>

(* IntegrityError: 500. *)
WriteFails(e) ==
    /\ edit[e].at = "write"
    /\ Blockers(e) = {} /\ ~Unchanged(e) /\ Duplicate(e)
    /\ EndEdit(e)
    /\ UNCHANGED stored

(* PostgreSQL's deadlock detector: 500 for one of a circle of writers. *)
Circle(S) == /\ \A x \in S : Blockers(x) \cap S # {}
             /\ \A x \in S : \E y \in S : x \in Blockers(y)

DeadlockFails(e) ==
    /\ \E S \in SUBSET Editors : e \in S /\ Circle(S)
    /\ EndEdit(e)
    /\ UNCHANGED stored

CommitEdit(e) ==
    /\ edit[e].at = "item" /\ edit[e].todo = <<>>
    /\ stored' = After(e)
    /\ EndEdit(e)

EditStep(e) == \/ ReadAll(e) \/ RefuseItem(e) \/ Select(e) \/ NoConnection(e)
               \/ Keep(e) \/ Write(e) \/ WriteFails(e) \/ DeadlockFails(e) \/ CommitEdit(e)

SettingsNext ==
    \E e \in Editors : BeginList(e) \/ (\E p \in Bulks : BeginUpdate(e, p)) \/ EditStep(e)

-----------------------------------------------------------------------------
(***************************************************************************)
(* Properties.                                                             *)
(***************************************************************************)

(* A request changes the table as a whole or not at all: whatever it meets - *)
(* a value refused after others were written, a key inserted by another      *)
(* request, a deadlock, no connection - each step that changes the table is  *)
(* a request's end, after which every value it asked for is stored, but for  *)
(* those it found stored and so did not write.                               *)
WholeOrNothing ==
    [][stored' # stored =>
        \E e \in Editors :
            /\ edit[e] # Answered /\ edit'[e] = Answered
            /\ \A i \in DOMAIN edit[e].all :
                  LET item == edit[e].all[i]
                  IN stored'[item.key] = item.value \/ item.key \in edit[e].same]_settingsVars
=============================================================================
