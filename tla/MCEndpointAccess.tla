-------------------------- MODULE MCEndpointAccess --------------------------
(* EndpointAccess with one method of any kind and two values of its label. *)
EXTENDS EndpointAccess, TLC

MCLabels == {"x", "y"}
MCMethodRows == [kind : Kinds, active : {TRUE}, label : {"x"}]
MCMethodUpdates == {[active |-> FALSE], [active |-> TRUE], [label |-> "y"]}

MCEndpointRows == {[active |-> TRUE, method |-> None, fallback |-> TRUE]}
MCEndpointUpdates ==
    {[method |-> m] : m \in Methods} \cup {[fallback |-> FALSE]}
    \cup {[method |-> None, fallback |-> TRUE], [method |-> None], [active |-> FALSE]}

Symmetry == Permutations(Admins)
=============================================================================
