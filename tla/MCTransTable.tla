---------------------------- MODULE MCTransTable ----------------------------
(* TransTable for TLC. *)
EXTENDS TransTable

CONSTANTS self, h1, h2, mcast

\* Nobody announces our own address.
MCAnnouncements == {<<>>, <<h1>>, <<h2>>, <<h1, h2>>, <<h2, mcast>>}
=============================================================================
