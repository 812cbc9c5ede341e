------------------------- MODULE MCEndpointContract -------------------------
(* EndpointContract with up to two parameters, and with previews of every    *)
(* text of up to four of the fragments on which the scanner decides.         *)
EXTENDS EndpointContract, SequencesExt

MCFragments ==
    {<<":", "a">>, <<":", "n">>, <<"'">>, <<"\"">>, <<"-", "-">>, <<"\n">>, <<"/", "*">>,
     <<"*", "/">>, <<"q", "'", "[">>, <<"]", "'">>, <<"n">>, <<"q", "'">>}
MCTexts == {FlattenSeq(t) : t \in SeqOf(MCFragments, 4)} \ {<<>>}

Plain == [type |-> "string", required |-> TRUE, default |-> None, null |-> FALSE,
          expression |-> None, max |-> None, filter |-> None]
On(operator) == [column |-> "x", operator |-> operator, all |-> FALSE]

MCPreviews ==
    {[sql |-> t, schema |-> [n \in ExtractBindParams(t) |-> Plain],
      given |-> [n \in ExtractBindParams(t) |-> "word"]] : t \in MCTexts}

(* One parameter described in every way. *)
AnyDescriptor ==
    [type : Types, required : BOOLEAN, default : JsonValues \cup {None}, null : BOOLEAN,
     expression : {None, "today"}, max : {None, 4}, filter : {None, On("eq")}]

A == <<"a">>
N == <<"n">>
One == <<":", "a">>
Two == <<":", "a", " ", ":", "n">>
Bound(operator, type) == [Plain EXCEPT !.type = type, !.filter = On(operator)]
Interval(type) == (A :> Bound("gte", "date")) @@ (N :> Bound("lte", type))

MCNewEndpoints ==
    {[sql |-> One, schema |-> A :> d, strategy |-> s] :
        d \in AnyDescriptor, s \in {"live", "snapshot"}}
    \cup {[sql |-> Two, schema |-> Interval(type), strategy |-> "live"] : type \in {"date", "string"}}

MCUpdates ==
    {[strategy |-> s] : s \in {"live", "snapshot"}}
    \cup {[sql |-> Two], [schema |-> Interval("date")], [schema |-> Interval("string")],
          [sql |-> One, schema |-> A :> Plain], [sql |-> Two, schema |-> Interval("date")],
          [sql |-> One, schema |-> Interval("date")]}

MCGivens == UNION {[names -> {"word", "isodate"}] : names \in {{}, {A}, {A, N}}}
Symmetry == Permutations(Admins)
=============================================================================
