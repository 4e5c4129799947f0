--------------------------- MODULE MCSubscriptionHub ---------------------------
(* SubscriptionHub on small instances: two listens. *)
EXTENDS SubscriptionHub

CONSTANTS l1, l2
=============================================================================
