------------------------------ MODULE MCDaemon ------------------------------
(* Daemon for TLC: the two threads, and a daemon that logs errors to a     *)
(* terminal and one that does not but sends vis packets.                   *)
EXTENDS Daemon

MCThreads == {"main", "listen"}

MCOptions == {<<1, FALSE>>, <<0, TRUE>>}
=============================================================================
