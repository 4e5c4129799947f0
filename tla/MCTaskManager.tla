----------------------------- MODULE MCTaskManager -----------------------------
(* TaskManager on small instances.  "ab" asks for two keys, "a" for one.          *)
(* Operations, and calls of recover(), are interchangeable.                       *)
EXTENDS TaskManager, TLC

CONSTANTS a, ab, ka, kb, v, none, o1, o2, o3, r1, r2

MCKeysOne   == ab :> {ka, kb}
MCKeySingle == a :> {ka}

\* Any slot holds any operation; or the work's calls and its outcome, the client's calls and
\* the work's second call, and the withdrawals have a slot each.
MCHoldsAll  == [o \in Ops |-> Kinds]
MCHoldsEach == o1 :> {"ask", "cancelFromHandle", "complete", "fail"}
               @@ o2 :> {"ask", "answer", "cancel"} @@ o3 :> {"withdraw"}

Slots == Permutations(Ops) \cup Permutations(Recoverers)
=============================================================================
