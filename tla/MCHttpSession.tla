--------------------------- MODULE MCHttpSession ---------------------------
(* HttpSession on small instances. *)
EXTENDS HttpSession

CONSTANTS r1, r2
=============================================================================
