------------------------- MODULE MCSubscriptionDriver -------------------------
(* SubscriptionDriver on small instances: two resources, calls that add one, *)
(* add the other and take the first away.                                   *)
EXTENDS SubscriptionDriver, TLC

CONSTANTS a, b, add, addOther, drop, g1, g2, g3

MCChange ==
    (add      :> [kind |-> "subscribe",   uri |-> a]) @@
    (addOther :> [kind |-> "subscribe",   uri |-> b]) @@
    (drop     :> [kind |-> "unsubscribe", uri |-> a])

=============================================================================
