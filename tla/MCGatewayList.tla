--------------------------- MODULE MCGatewayList ---------------------------
(* GatewayList for TLC: two originators, memory for three, so that one may *)
(* come back at the address the other had.                                 *)
EXTENDS GatewayList, TLC

MCSymmetry == Permutations(Origs) \cup Permutations(Ptrs) \cup Permutations(Cells)
=============================================================================
