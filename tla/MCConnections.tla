--------------------------- MODULE MCConnections ---------------------------
(* One manager's request at a time, besides connects, and up to two sockets *)
(* at a time: enough for a session and an orphan, for a reconnect timer     *)
(* that races a request, and for an unlink that overlaps a connect.         *)
EXTENDS Connections

CONSTANTS m1, s1, s2
=============================================================================
