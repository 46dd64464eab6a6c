----------------------------- MODULE MCSchedule -----------------------------
(* Schedule for TLC. *)
EXTENDS Schedule

\* Every interface hears the echoes of its own messages only.
SeparateCells == {<<i, i>> : i \in Ifs}
=============================================================================
