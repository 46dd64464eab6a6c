---------------------------- MODULE MCHashTable ----------------------------
(* HashTable for TLC: keys that share a chain at every size, keys that are *)
(* parted when the table grows, and a lone one.                            *)
EXTENDS HashTable

MCKeys == 0..5

MCHash == [k \in MCKeys |-> <<0, 64, 128, 8, 16, 5>>[k + 1]]
=============================================================================
