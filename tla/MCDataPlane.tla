---------------------------- MODULE MCDataPlane ----------------------------
(* DataPlane for TLC: three nodes in a ring.  A hears B on its first       *)
(* interface, which B does not hear, so that what A sends to B goes by C;   *)
(* A's second interface also hears the first.                               *)
EXTENDS DataPlane

MCNodes == {"A", "B", "C"}

MCIfs == [A |-> <<"a1", "a2">>, B |-> <<"b1">>, C |-> <<"c1">>]

MCLinks ==
    {<<"a2", "c1">>, <<"c1", "a2">>, <<"b1", "c1">>, <<"c1", "b1">>, <<"b1", "a1">>, <<"a1", "a2">>}

MCTraffic ==
    {<< <<k, n>> >> : k \in {"unicast", "icmp"}, n \in MCNodes} \cup
    {<< <<"bcast", "A">>, <<"bcast", "A">> >>, << <<"bcast", "B">> >>}
=============================================================================
