---------------------------- MODULE ContextHost ----------------------------
(***************************************************************************)
(* The registry of contexts of a host and the calls that add to it:        *)
(* ContextHost (packages/host/src/host.ts), NodeContextHost                *)
(* (packages/host-node/src/node-host.ts), and the add and remove calls of  *)
(* Session and NodeSession.                                                *)
(*                                                                         *)
(* An instance is one client with its transport, and its child process     *)
(* when it was spawned; each belongs to one add call.  The registry knows  *)
(* instances by key, and a key is reused after a removal, while what was   *)
(* started for the removed instance is still under way.  Tools are known   *)
(* by name; prompts and resources have no state at the host; spans,        *)
(* metrics, local tools and the elicitation override are left out (the     *)
(* override is in AgentSession).                                           *)
(***************************************************************************)
EXTENDS Naturals, FiniteSets

CONSTANTS
    Keys,       \* context keys
    Instances,  \* clients, one for each add call
    Tools,      \* names of tools
    Offers,     \* of each instance: the tools its server ever lists
    Changes,    \* changes of a server's tool list, each signalled once
    Nobody      \* no instance

ASSUME HostAssumption ==
    /\ IsFiniteSet(Keys) /\ IsFiniteSet(Instances) /\ Nobody \notin Instances
    /\ IsFiniteSet(Tools) /\ IsFiniteSet(Changes)
    /\ Offers \in [Instances -> SUBSET Tools]

VARIABLES
    contexts,     \* k -> the instance registered under k
    pendingKeys,  \* keys a child is being spawned for
    inst,         \* i -> its stage, kind and key
    call,         \* i -> how far the add call of i is
    aborted,      \* i -> the signal of that call fired
    swept,        \* i -> the call cleaned up after the abort
    snap,         \* i -> the list that setup() got, while tools are chosen
    tools,        \* i -> the listed tools and, of these, the disabled ones
    server,       \* i -> the tools its server has
    change,       \* c -> a change and the refresh it causes
    disposed,     \* the host was disposed of
    taken         \* ghost: instances removed on purpose or lost

setupVars == <<call, aborted, swept, snap>>
hostVars  == <<contexts, pendingKeys, inst>>
vars == <<hostVars, setupVars, tools, server, change, disposed, taken>>

Key(i) == inst[i].key
Current(i) == contexts[Key(i)] = i
Live == {i \in Instances : inst[i].is = "live"}

HostInit ==
    /\ contexts = [k \in Keys |-> Nobody] /\ pendingKeys = {}
    /\ inst \in [Instances -> {[is |-> "none", kind |-> "none", key |-> k] : k \in Keys}]
    /\ call = [i \in Instances |-> "none"] /\ aborted = [i \in Instances |-> FALSE]
    /\ swept = [i \in Instances |-> FALSE] /\ snap = [i \in Instances |-> {}]
    /\ tools = [i \in Instances |-> [listed |-> {}, off |-> {}]]
    /\ server \in {lists \in [Instances -> SUBSET Tools] : \A i \in Instances : lists[i] \subseteq Offers[i]}
    /\ change = [c \in Changes |-> [is |-> "none", inst |-> Nobody, list |-> {}]]
    /\ disposed = FALSE /\ taken = {}

-----------------------------------------------------------------------------
(* Registering and removing. *)

\* remove(): the key is free before the instance has been disposed of.
Without(gone) == [k \in Keys |-> IF contexts[k] \in gone THEN Nobody ELSE contexts[k]]
Closing(gone) == [i \in Instances |-> IF i \in gone THEN [inst[i] EXCEPT !.is = "closing"]
                                      ELSE inst[i]]
Remove(gone) == contexts' = Without(gone) /\ inst' = Closing(gone)

\* Client, transport and child are gone: SIGTERM, or SIGKILL after a while.
InstanceGone(i) ==
    /\ inst[i].is = "closing" /\ inst' = [inst EXCEPT ![i].is = "gone"]
    /\ call' = [call EXCEPT ![i] = IF @ = "failing" THEN "failed" ELSE @]
    /\ UNCHANGED <<contexts, pendingKeys, aborted, swept, snap, tools, server, change, disposed,
                   taken>>

RemoveContext(k) ==
    /\ contexts[k] # Nobody
    /\ Remove({contexts[k]}) /\ taken' = taken \cup {contexts[k]}
    /\ UNCHANGED <<pendingKeys, setupVars, tools, server, change, disposed>>

\* The child exits, its output cannot be framed, or the connection closes.
Lost(i) ==
    /\ i \in Live /\ Current(i)
    /\ Remove({i}) /\ taken' = taken \cup {i}
    /\ UNCHANGED <<pendingKeys, setupVars, tools, server, change, disposed>>

Dispose ==
    /\ ~disposed /\ disposed' = TRUE
    /\ LET all == {contexts[k] : k \in Keys} \ {Nobody}
       IN  Remove(all) /\ taken' = taken \cup all
    /\ UNCHANGED <<pendingKeys, setupVars, tools, server, change>>

-----------------------------------------------------------------------------
(* Adding.  Callers do not add to a disposed host. *)

AddLocalContext(i) ==
    /\ call[i] = "none" /\ ~disposed
    /\ contexts[Key(i)] = Nobody /\ Key(i) \notin pendingKeys
    /\ inst' = [inst EXCEPT ![i].is = "spawning", ![i].kind = "stdio"]
    /\ pendingKeys' = pendingKeys \cup {Key(i)}
    /\ call' = [call EXCEPT ![i] = "spawning"]
    /\ UNCHANGED <<contexts, aborted, swept, snap, tools, server, change, disposed, taken>>

\* The child runs: it is registered, unless the key was taken meanwhile.
Register(i, keeps) ==
    /\ inst[i].is = "spawning"
    /\ pendingKeys' = pendingKeys \ {Key(i)}
    /\ IF contexts[Key(i)] = Nobody
       THEN /\ contexts' = [contexts EXCEPT ![Key(i)] = i]
            /\ inst' = [inst EXCEPT ![i].is = "live"]
            /\ call' = [call EXCEPT ![i] = "listing"]
       ELSE /\ inst' = [inst EXCEPT ![i].is = IF keeps THEN "live" ELSE "closing"]
            /\ call' = [call EXCEPT ![i] = "failing"]
            /\ UNCHANGED contexts
    /\ UNCHANGED <<aborted, swept, snap, tools, server, change, disposed, taken>>
\* Fault: the child of a refused registration is forgotten.
RegisterOrForget(i) == Register(i, TRUE)
RegisterHostedContext(i) == Register(i, FALSE)

SpawnFails(i) ==
    /\ inst[i].is = "spawning" /\ inst' = [inst EXCEPT ![i].is = "gone"]
    /\ pendingKeys' = pendingKeys \ {Key(i)}
    /\ call' = [call EXCEPT ![i] = "failed"]
    /\ UNCHANGED <<contexts, aborted, swept, snap, tools, server, change, disposed, taken>>

\* Registered at once; a child being spawned for the key is not asked about.
AddHTTPContext(i) ==
    /\ call[i] = "none" /\ ~disposed /\ contexts[Key(i)] = Nobody
    /\ contexts' = [contexts EXCEPT ![Key(i)] = i]
    /\ inst' = [inst EXCEPT ![i].is = "live", ![i].kind = "http"]
    /\ call' = [call EXCEPT ![i] = "listing"]
    /\ UNCHANGED <<pendingKeys, aborted, swept, snap, tools, server, change, disposed, taken>>

-----------------------------------------------------------------------------
(* setup() and the failure of an add call. *)

\* Fault: by key alone.
RemoveByKey(i) == Remove({contexts[Key(i)]} \ {Nobody})
\* The catch of an add call: what the key stands for now is removed when it is
\* the instance of this call.
RemoveIfOurs(i) == Remove(IF Current(i) THEN {i} ELSE {})
AfterFailure(i) == IF Current(i) THEN "failing" ELSE "failed"

SetupListed(i) ==
    /\ call[i] = "listing" /\ i \in Live /\ ~aborted[i]
    /\ snap' = [snap EXCEPT ![i] = server[i]]
    /\ call' = [call EXCEPT ![i] = "choosing"]
    /\ UNCHANGED <<hostVars, aborted, swept, tools, server, change, disposed, taken>>

\* The request fails, is aborted, or its client was disposed of.
SetupFails(i) ==
    /\ call[i] = "listing"
    /\ RemoveIfOurs(i)
    /\ call' = [call EXCEPT ![i] = AfterFailure(i)]
    /\ UNCHANGED <<pendingKeys, aborted, swept, snap, tools, server, change, disposed, taken>>

\* enableTools has chosen; the instance may have been removed meanwhile.
SetupChosen(i, enabled) ==
    /\ call[i] = "choosing" /\ snap' = [snap EXCEPT ![i] = {}]
    /\ IF Current(i)
       THEN /\ tools' = [tools EXCEPT ![i] = [listed |-> snap[i], off |-> snap[i] \ enabled]]
            /\ call' = [call EXCEPT ![i] = "ok"]
       ELSE call' = [call EXCEPT ![i] = "failed"] /\ UNCHANGED tools
    /\ UNCHANGED <<hostVars, aborted, swept, server, change, disposed, taken>>

ChoiceFails(i) ==
    /\ call[i] = "choosing" /\ snap' = [snap EXCEPT ![i] = {}]
    /\ RemoveIfOurs(i)
    /\ call' = [call EXCEPT ![i] = AfterFailure(i)]
    /\ UNCHANGED <<pendingKeys, aborted, swept, tools, server, change, disposed, taken>>

\* raceSignal: the caller is told; the call goes on.
AbortAdd(i) ==
    /\ call[i] \in {"spawning", "listing", "choosing"} /\ ~aborted[i]
    /\ aborted' = [aborted EXCEPT ![i] = TRUE]
    /\ UNCHANGED <<hostVars, call, swept, snap, tools, server, change, disposed, taken>>

\* NodeSession waits for the registration of an aborted call and removes it.
Sweep(i, removes) ==
    /\ aborted[i] /\ ~swept[i] /\ inst[i].kind = "stdio" /\ call[i] # "spawning"
    /\ swept' = [swept EXCEPT ![i] = TRUE]
    /\ IF removes THEN RemoveIfOurs(i) ELSE UNCHANGED <<contexts, inst>>
    /\ UNCHANGED <<pendingKeys, call, aborted, snap, tools, server, change, disposed, taken>>
\* Fault: left to the failure of setup().
SweepNothing(i) == Sweep(i, FALSE)
SweepAborted(i) == Sweep(i, TRUE)

-----------------------------------------------------------------------------
(* Tool lists. *)

Toggle(i, t) ==
    /\ i \in Live /\ Current(i) /\ t \in tools[i].listed
    /\ tools' = [tools EXCEPT ![i].off = IF t \in @ THEN @ \ {t} ELSE @ \cup {t}]
    /\ UNCHANGED <<hostVars, setupVars, server, change, disposed, taken>>

\* The server changes its list and signals it.
ServerChanges(c, i, list) ==
    /\ change[c].is = "none" /\ i \in Live
    /\ list \subseteq Offers[i] /\ list # server[i]
    /\ server' = [server EXCEPT ![i] = list]
    /\ change' = [change EXCEPT ![c].is = "signalled", ![c].inst = i]
    /\ UNCHANGED <<hostVars, setupVars, tools, disposed, taken>>

\* onListChanged: the listener is there while the instance is registered.
OnListChanged(c) ==
    /\ change[c].is = "signalled"
    /\ change' = [change EXCEPT ![c].is = IF Current(change[c].inst) THEN "listing" ELSE "done"]
    /\ UNCHANGED <<hostVars, setupVars, tools, server, disposed, taken>>

ServerLists(c) ==
    /\ change[c].is = "listing" /\ change[c].inst \in Live
    /\ change' = [change EXCEPT ![c].is = "listed", ![c].list = server[change[c].inst]]
    /\ UNCHANGED <<hostVars, setupVars, tools, server, disposed, taken>>

\* refreshContextTools: the choices made so far stay with the tools they were
\* made for; it asks whether the key is there, not whose it is.
Refresh(c, i) ==
    /\ change[c].is = "listed" /\ change' = [change EXCEPT ![c].is = "done"]
    /\ tools' = IF contexts[Key(change[c].inst)] = Nobody THEN tools
                ELSE [tools EXCEPT ![i] = [listed |-> change[c].list, off |-> @.off \cap change[c].list]]
    /\ UNCHANGED <<hostVars, setupVars, server, disposed, taken>>
\* Fault: the list goes to the context that has the key by now.
RefreshByKey(c) == Refresh(c, contexts[Key(change[c].inst)])
RefreshContextTools(c) == Refresh(c, change[c].inst)

RefreshFails(c) ==
    /\ change[c].is = "listing" /\ change' = [change EXCEPT ![c].is = "done"]
    /\ UNCHANGED <<hostVars, setupVars, tools, server, disposed, taken>>

-----------------------------------------------------------------------------
Next ==
    \/ \E k \in Keys : RemoveContext(k)
    \/ \E i \in Instances :
        \/ InstanceGone(i) \/ Lost(i) \/ AddLocalContext(i) \/ RegisterHostedContext(i)
        \/ SpawnFails(i) \/ AddHTTPContext(i) \/ SetupListed(i) \/ SetupFails(i) \/ ChoiceFails(i)
        \/ AbortAdd(i) \/ SweepAborted(i)
        \/ \E enabled \in SUBSET Tools : SetupChosen(i, enabled)
        \/ \E t \in Tools : Toggle(i, t)
    \/ \E c \in Changes :
        \/ OnListChanged(c) \/ ServerLists(c) \/ RefreshContextTools(c) \/ RefreshFails(c)
        \/ \E i \in Instances, list \in SUBSET Tools : ServerChanges(c, i, list)
    \/ Dispose

Spec == HostInit /\ [][Next]_vars

\* A spawn ends, a disposal ends (SIGKILL), an aborted request fails, and the
\* catch of an aborted call runs.  Servers and users owe nothing.
Fairness ==
    \A i \in Instances :
        /\ WF_vars(RegisterHostedContext(i) \/ SpawnFails(i)) /\ WF_vars(InstanceGone(i))
        /\ WF_vars((aborted[i] \/ i \notin Live) /\ SetupFails(i)) /\ WF_vars(SweepAborted(i))
FairSpec == Spec /\ Fairness

-----------------------------------------------------------------------------
(* Properties. *)

\* Nothing runs that the registry does not know: a child or a connection that
\* no key leads to could never be removed.
\* About registerHostedContext, remove and the late registration of a child.
NoOrphan == \A i \in Live : Current(i)

\* A context whose add call succeeded stays until somebody removes it or it is
\* lost: no other call under the same key takes it down with its own failure.
\* About the identity checks of the catch blocks in session.ts, node-session.ts.
AddedContextStays ==
    \A i \in Instances : call[i] = "ok" /\ ~aborted[i] /\ i \notin taken => Current(i)

\* A failed or aborted addContext leaves no child behind, wherever the abort
\* came: while the child was spawned, listed its tools, or had them chosen.
\* About the race of the signal in NodeSession.addContext.
FailedAddLeavesNothing ==
    \A i \in Instances :
        (aborted[i] \/ call[i] = "failed") /\ inst[i].kind = "stdio"
            ~> inst[i].is = "gone"

\* A context offers the tools of its own server, also when it took the key of a
\* context that was removed while its list was chosen from, or fetched again.
\* About the context that setup and refreshContextTools hold over their awaits.
OffersOwnTools == \A i \in Instances : tools[i].listed \subseteq Offers[i]

=============================================================================
