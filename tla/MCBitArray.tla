----------------------------- MODULE MCBitArray -----------------------------
(* BitArray for TLC. *)
EXTENDS BitArray

\* Every distance inside the window, the whole window, and beyond it.
GapsAll == -5..7

\* Late and early copies, all inside a window of eight.
GapsInWindow == {-7, -6, -5, -4, -1, 1, 4, 7}
=============================================================================
