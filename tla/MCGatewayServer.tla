-------------------------- MODULE MCGatewayServer --------------------------
(* Two requests, two clock readings a second, a window of three and a half *)
(* seconds.  Four operations of q1 fit into the window, those of q2 do not. *)
EXTENDS GatewayServer

CONSTANTS q1, q2
MCLimit == [r \in {q1, q2} |-> IF r = q1 THEN 1 ELSE 2]
=============================================================================
