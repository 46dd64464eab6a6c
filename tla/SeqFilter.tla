----------------------------- MODULE SeqFilter -----------------------------
(***************************************************************************)
(* What a loop over a list leaves of it when it unlinks some of the        *)
(* elements.  (SelectSeq of Sequences, in a form the prover can unfold.)   *)
(***************************************************************************)
EXTENDS Integers, Sequences

\* The elements of list that are in S, in their order.
Keep(list, S) ==
    LET kept[n \in 0..Len(list)] ==
            IF n = 0 THEN <<>>
            ELSE IF list[n] \in S THEN Append(kept[n - 1], list[n]) ELSE kept[n - 1]
    IN  kept[Len(list)]
=============================================================================
