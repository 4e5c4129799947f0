--------------------------- MODULE MCContextHost ---------------------------
(* ContextHost on small instances: each server has tools of its own.          *)
EXTENDS ContextHost

CONSTANTS k, i1, i2, i3, s, t, c1, c2

MCOffers == [i \in Instances |-> IF i = i1 THEN {s} ELSE {t}]
=============================================================================
