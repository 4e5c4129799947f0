------------------------- MODULE MCClientConnection -------------------------
(* ClientConnection on small instances. *)
EXTENDS ClientConnection

CONSTANTS r1, r2
=============================================================================
