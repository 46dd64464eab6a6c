--------------------------- MODULE MCFloodHistory ---------------------------
(* FloodHistory for TLC: a window of four sequence numbers in two words.   *)
EXTENDS FloodHistory

\* Late copies stay inside the window; gaps are below it or beyond it.
GapsInWindow == (-3..3) \cup {5, 6}
=============================================================================
