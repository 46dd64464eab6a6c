--------------------------- MODULE MCUnixClients ---------------------------
(* UnixClients for TLC: the debug levels 3 and 4, which the code itself    *)
(* writes connections and errors to.                                       *)
EXTENDS UnixClients

MCLevels == {3, 4}
=============================================================================
