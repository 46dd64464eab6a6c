---------------------------- MODULE MCOriginator ----------------------------
(* Originator for TLC. *)
EXTENDS Originator

CONSTANTS a, b, c, eth

\* The originator itself and a relay.
MCLinks == {<<a, eth>>, <<b, eth>>}

\* The relay passes on a weaker OGM, whose ttl has wrapped around.
MCOgms == {[link |-> <<a, eth>>, tq |-> 4, ttl |-> 4], [link |-> <<b, eth>>, tq |-> 2, ttl |-> 7],
           [link |-> <<a, eth>>, tq |-> 0, ttl |-> 4]}

\* All our OGMs are echoed, except that only one is by n.
MCEchoes == {[x \in Nodes \X Ifs |-> IF x[1] = n THEN 1 ELSE W] : n \in {a, b}}
=============================================================================
