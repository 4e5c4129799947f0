---------------------------- MODULE TaskLifecycle ----------------------------
(***************************************************************************)
(* What a task promises to the work that runs it and to the client that    *)
(* polls it, with every operation one indivisible step: the life of the    *)
(* task, the fate of each input request it ever made, and the answers      *)
(* stored for each key.  TaskManager is shown to implement this although   *)
(* each of its operations is a read, a computation and a conditional write *)
(* that others interleave with.                                            *)
(***************************************************************************)
EXTENDS Integers, FiniteSets

CONSTANTS Payloads,   \* input requests the work may make
          Keys,       \* keys of the single requests in a payload
          KeysOf,     \* the keys of each payload
          Values,     \* answers a client may send for a key
          NoValue     \* a key without an answer

VARIABLES
    life,      \* absent, active, one of the terminal statuses, or expired
    fate,      \* what became of each payload: never asked, open, answered, withdrawn
    replies    \* the answer stored for each key

lifeVars == <<life, fate, replies>>

Terminal == {"completed", "failed", "cancelled"}

LifecycleInit ==
    /\ life = "absent"
    /\ fate = [p \in Payloads |-> "never"]
    /\ replies = [k \in Keys |-> NoValue]

Create ==
    /\ life = "absent"
    /\ life' = "active"
    /\ UNCHANGED <<fate, replies>>

\* At most one request is open at a time, and a key is asked once in a task's life.
Ask(p) ==
    /\ life = "active"
    /\ \A q \in Payloads :
         /\ fate[q] # "open"
         /\ fate[q] # "never" => KeysOf[q] \cap KeysOf[p] = {}
    /\ fate' = [fate EXCEPT ![p] = "open"]
    /\ UNCHANGED <<life, replies>>

\* Answers arrive in any number of parts; the part that completes the request closes it.
Reply(p, given) ==
    /\ life = "active"
    /\ fate[p] = "open"
    /\ \A k \in Keys : given[k] # NoValue => k \in KeysOf[p] /\ replies[k] = NoValue
    /\ replies' = [k \in Keys |-> IF given[k] # NoValue THEN given[k] ELSE replies[k]]
    /\ fate' = [fate EXCEPT ![p] = IF \A k \in KeysOf[p] : replies'[k] # NoValue
                                   THEN "answered" ELSE @]
    /\ UNCHANGED life

Withdraw(p) ==
    /\ life = "active"
    /\ fate[p] = "open"
    /\ fate' = [fate EXCEPT ![p] = "withdrawn"]
    /\ UNCHANGED <<life, replies>>

\* The first of the work, a cancellation and a restart to end the task decides how.
End(status) ==
    /\ life = "active"
    /\ life' = status
    /\ UNCHANGED <<fate, replies>>

\* Nothing of an expired task is kept, and it never comes back.
Expire ==
    /\ life \notin {"absent", "expired"}
    /\ life' = "expired"
    /\ fate' = [p \in Payloads |-> "never"]
    /\ replies' = [k \in Keys |-> NoValue]

Given == {g \in [Keys -> Values \cup {NoValue}] : \E k \in Keys : g[k] # NoValue}

LifecycleNext ==
    \/ Create
    \/ \E p \in Payloads : Ask(p) \/ Withdraw(p) \/ \E given \in Given : Reply(p, given)
    \/ \E status \in Terminal : End(status)
    \/ Expire

LifecycleSpec == LifecycleInit /\ [][LifecycleNext]_lifeVars
=============================================================================
