--------------------------- MODULE ContextHostProofs ---------------------------
(***************************************************************************)
(* What the registry of a host guarantees for every number of keys, add    *)
(* calls, tools and changes: nothing runs that no key leads to, and no add *)
(* call takes down the context of another.                                 *)
(***************************************************************************)
EXTENDS ContextHost, TLAPS

Stages == {"none", "spawning", "live", "closing", "gone"}

\* The types the arguments below rest on: what an instance is, and the
\* functions that are updated in one place.
HostTypes ==
    /\ contexts \in [Keys -> Instances \cup {Nobody}]
    /\ inst \in [Instances -> [is : Stages, kind : {"none", "stdio", "http"}, key : Keys]]
    /\ call \in [Instances -> {"none", "spawning", "listing", "choosing", "ok", "failing",
                               "failed"}]
    /\ aborted \in [Instances -> BOOLEAN]

\* An entry of the registry is an instance that lives, under its own key.
EntriesLive ==
    \A k \in Keys : contexts[k] # Nobody =>
        inst[contexts[k]].is = "live" /\ inst[contexts[k]].key = k

\* An add call that has not begun has started nothing.
NotStarted == \A i \in Instances : call[i] = "none" => inst[i].is = "none"

\* Neither property is inductive alone: that a registration overwrites nobody
\* needs EntriesLive, and that a removal takes one instance needs both.
HostInv == HostTypes /\ EntriesLive /\ NotStarted /\ NoOrphan /\ AddedContextStays

LEMMA HostInitially == HostAssumption /\ HostInit => HostInv
  BY DEF HostAssumption, HostInit, HostInv, HostTypes, Stages, EntriesLive, NotStarted,
         NoOrphan, AddedContextStays, Live, Current, Key

\* Removing takes the removed instances out of the registry and leaves the
\* others where they were.
LEMMA RemoveKeeps ==
  ASSUME HostAssumption, HostTypes, EntriesLive, NoOrphan,
         NEW gone \in SUBSET Live, Remove(gone)
  PROVE  /\ contexts' \in [Keys -> Instances \cup {Nobody}]
         /\ inst' \in [Instances -> [is : Stages, kind : {"none", "stdio", "http"}, key : Keys]]
         /\ EntriesLive' /\ NoOrphan'
         /\ \A i \in Instances : inst[i].is = "none" => inst'[i] = inst[i]
         /\ \A i \in Instances \ gone : Current(i) => Current(i)'
<1>1. contexts' \in [Keys -> Instances \cup {Nobody}]
  BY DEF HostTypes, Remove, Without
<1>2. \A i \in Instances :
         /\ inst'[i] \in [is : Stages, kind : {"none", "stdio", "http"}, key : Keys]
         /\ inst'[i].key = inst[i].key
         /\ i \notin gone => inst'[i] = inst[i]
         /\ i \in gone => inst'[i].is = "closing"
  BY DEF HostTypes, Remove, Closing, Stages
<1>3. inst' \in [Instances -> [is : Stages, kind : {"none", "stdio", "http"}, key : Keys]]
  BY <1>2 DEF Remove, Closing
<1>4. \A k \in Keys : contexts'[k] = IF contexts[k] \in gone THEN Nobody ELSE contexts[k]
  BY DEF HostTypes, Remove, Without
<1>5. EntriesLive'
  BY <1>1, <1>2, <1>4 DEF EntriesLive, HostTypes, HostAssumption
<1>6. \A i \in Instances \ gone : Current(i) => Current(i)'
  BY <1>2, <1>4 DEF Current, Key, HostTypes
<1>7. NoOrphan'
  <2>1. SUFFICES ASSUME NEW i \in Instances, inst'[i].is = "live" PROVE Current(i)'
    BY DEF NoOrphan, Live
  <2>2. i \in Instances \ gone /\ i \in Live
    BY <1>2, <2>1 DEF Live
  <2>3. Current(i)
    BY <2>2 DEF NoOrphan
  <2> QED BY <2>2, <2>3, <1>6
<1>8. \A i \in Instances : inst[i].is = "none" => inst'[i] = inst[i]
  BY <1>2 DEF Live
<1> QED BY <1>1, <1>3, <1>5, <1>6, <1>7, <1>8
-----------------------------------------------------------------------------
(* The steps. *)

\* What a removal does to the invariant when the calls of the removed
\* instances did not succeed, were aborted, or had them taken away.
LEMMA RemovalStep ==
  ASSUME HostAssumption, HostInv, NEW gone \in SUBSET Live, Remove(gone), HostTypes',
         \A i \in Instances : call'[i] = "none" => call[i] = "none",
         \A i \in Instances : call'[i] = "ok" /\ ~aborted'[i] /\ i \notin taken' =>
             call[i] = "ok" /\ ~aborted[i] /\ i \notin taken /\ i \notin gone
  PROVE  HostInv'
<1>1. HostTypes /\ EntriesLive /\ NotStarted /\ NoOrphan /\ AddedContextStays
  BY DEF HostInv
<1>2. /\ EntriesLive' /\ NoOrphan'
      /\ \A i \in Instances : inst[i].is = "none" => inst'[i] = inst[i]
      /\ \A i \in Instances \ gone : Current(i) => Current(i)'
  BY <1>1, RemoveKeeps
<1>3. NotStarted'
  BY <1>1, <1>2 DEF NotStarted
<1>4. AddedContextStays'
  BY <1>1, <1>2 DEF AddedContextStays
<1> QED BY <1>2, <1>3, <1>4 DEF HostInv

\* An instance of a call that has not registered anything changes by itself.
LEMMA OwnStep ==
  ASSUME HostInv, NEW i \in Instances, inst[i].is # "live", contexts' = contexts,
         \A j \in Instances \ {i} : inst'[j] = inst[j] /\ call'[j] = call[j],
         inst'[i].key = inst[i].key, inst'[i].is \notin {"live", "none"},
         call'[i] \notin {"none", "ok"} \/ (call'[i] = call[i] /\ call[i] # "none"),
         HostTypes', aborted' = aborted, taken' = taken
  PROVE  HostInv'
<1>1. HostTypes /\ EntriesLive /\ NotStarted /\ NoOrphan /\ AddedContextStays
  BY DEF HostInv
<1>2. EntriesLive'
  BY <1>1 DEF EntriesLive, HostTypes
<1>3. \A j \in Instances : inst'[j].key = inst[j].key
  BY DEF HostTypes
<1>4. \A j \in Instances : Current(j) <=> Current(j)'
  BY <1>3 DEF Current, Key
<1>5. NotStarted' /\ NoOrphan' /\ AddedContextStays'
  BY <1>1, <1>4 DEF NotStarted, NoOrphan, AddedContextStays, Live
<1> QED BY <1>2, <1>5 DEF HostInv

\* An instance takes a key that nobody has.
LEMMA RegistrationStep ==
  ASSUME HostAssumption, HostInv, NEW i \in Instances, contexts[Key(i)] = Nobody,
         contexts' = [contexts EXCEPT ![Key(i)] = i],
         \A j \in Instances \ {i} : inst'[j] = inst[j] /\ call'[j] = call[j],
         inst'[i].key = inst[i].key, inst'[i].is = "live", call'[i] = "listing",
         HostTypes', aborted' = aborted, taken' = taken
  PROVE  HostInv'
<1>1. HostTypes /\ EntriesLive /\ NotStarted /\ NoOrphan /\ AddedContextStays
  BY DEF HostInv
<1>2. Key(i) \in Keys /\ Key(i)' = Key(i)
  BY <1>1 DEF Key, HostTypes
<1>3. \A k \in Keys : contexts'[k] = IF k = Key(i) THEN i ELSE contexts[k]
  BY <1>1 DEF HostTypes
<1>4. \A k \in Keys : contexts[k] # i
  BY <1>1 DEF EntriesLive, Key, HostAssumption
<1>5. EntriesLive'
  BY <1>1, <1>2, <1>3, <1>4 DEF EntriesLive, HostTypes, Key
<1>6. Current(i)' /\ \A j \in Instances \ {i} : Current(j) => Current(j)'
  BY <1>1, <1>2, <1>3 DEF Current, Key, HostTypes, HostAssumption
<1>7. NotStarted' /\ NoOrphan' /\ AddedContextStays'
  BY <1>1, <1>6 DEF NotStarted, NoOrphan, AddedContextStays, Live
<1> QED BY <1>5, <1>7 DEF HostInv

\* The registry and its instances stay; a call may only end well for an
\* instance that is registered.
LEMMA CallStep ==
  ASSUME HostInv, contexts' = contexts, inst' = inst, HostTypes', taken' = taken,
         \A i \in Instances : call'[i] = "none" => call[i] = "none",
         \A i \in Instances : ~aborted'[i] => ~aborted[i],
         \A i \in Instances : call'[i] = "ok" => call[i] = "ok" \/ Current(i)
  PROVE  HostInv'
  BY DEF HostInv, EntriesLive, NotStarted, NoOrphan, AddedContextStays, Live, Current, Key

-----------------------------------------------------------------------------
LEMMA HostStep == HostAssumption /\ HostInv /\ [Next]_vars => HostInv'
<1> SUFFICES ASSUME HostAssumption, HostInv, [Next]_vars PROVE HostInv'
  OBVIOUS
<1> USE DEF hostVars, setupVars
<1>0. HostTypes /\ EntriesLive /\ NotStarted /\ NoOrphan /\ AddedContextStays
  BY DEF HostInv
<1>1. \A k \in Keys : contexts[k] # Nobody => contexts[k] \in Live
  BY <1>0 DEF EntriesLive, HostTypes, Live
<1>2. ASSUME NEW k \in Keys, RemoveContext(k) PROVE HostInv'
  <2>1. {contexts[k]} \in SUBSET Live /\ Remove({contexts[k]})
    BY <1>1, <1>2 DEF RemoveContext
  <2>2. HostTypes'
    BY <1>0, <1>2, <2>1, RemoveKeeps DEF HostTypes, RemoveContext
  <2> QED BY <1>2, <2>1, <2>2, RemovalStep DEF RemoveContext
<1>3. CASE Dispose
  <2> DEFINE all == {contexts[k] : k \in Keys} \ {Nobody}
  <2>1. all \in SUBSET Live /\ Remove(all)
    BY <1>1, <1>3 DEF Dispose
  <2>2. HostTypes'
    BY <1>0, <1>3, <2>1, RemoveKeeps DEF HostTypes, Dispose
  <2>3. call' = call /\ aborted' = aborted /\ taken' = taken \cup all
    BY <1>3 DEF Dispose
  <2> QED
    <3> HIDE DEF all
    <3> QED BY <2>1, <2>2, <2>3, RemovalStep
<1>4. ASSUME NEW i \in Instances, Lost(i) PROVE HostInv'
  <2>1. {i} \in SUBSET Live /\ Remove({i})
    BY <1>4 DEF Lost
  <2>2. HostTypes'
    BY <1>0, <1>4, <2>1, RemoveKeeps DEF HostTypes, Lost
  <2> QED BY <1>4, <2>1, <2>2, RemovalStep DEF Lost
<1>5. ASSUME NEW i \in Instances PROVE (IF Current(i) THEN {i} ELSE {}) \in SUBSET Live
  BY <1>0, <1>1 DEF Current, Key, HostTypes, HostAssumption
<1>6. ASSUME NEW i \in Instances, SetupFails(i) \/ ChoiceFails(i) PROVE HostInv'
  <2> DEFINE ours == IF Current(i) THEN {i} ELSE {}
  <2>1. ours \in SUBSET Live /\ Remove(ours)
    BY <1>5, <1>6 DEF SetupFails, ChoiceFails, RemoveIfOurs
  <2>2. /\ call' = [call EXCEPT ![i] = AfterFailure(i)]
        /\ aborted' = aborted /\ taken' = taken
    BY <1>6 DEF SetupFails, ChoiceFails
  <2>3. AfterFailure(i) \in {"failing", "failed"}
    BY DEF AfterFailure
  <2>4. HostTypes'
    BY <1>0, <2>1, <2>2, <2>3, RemoveKeeps DEF HostTypes
  <2>5. \A j \in Instances : call'[j] \in {"none", "ok"} => call'[j] = call[j] /\ j # i
    BY <1>0, <2>2, <2>3 DEF HostTypes
  <2>6. ours \subseteq {i}
    OBVIOUS
  <2> QED
    <3> HIDE DEF ours
    <3> QED BY <2>1, <2>2, <2>4, <2>5, <2>6, RemovalStep
<1>7. ASSUME NEW i \in Instances, SweepAborted(i) PROVE HostInv'
  <2> DEFINE ours == IF Current(i) THEN {i} ELSE {}
  <2>1. ours \in SUBSET Live /\ Remove(ours) /\ ours \subseteq {i}
    BY <1>5, <1>7 DEF SweepAborted, Sweep, RemoveIfOurs
  <2>2. call' = call /\ aborted' = aborted /\ taken' = taken /\ aborted[i]
    BY <1>7 DEF SweepAborted, Sweep
  <2>3. HostTypes'
    BY <1>0, <2>1, <2>2, RemoveKeeps DEF HostTypes
  <2> QED
    <3> HIDE DEF ours
    <3> QED BY <2>1, <2>2, <2>3, RemovalStep
<1>8. ASSUME NEW i \in Instances,
             InstanceGone(i) \/ AddLocalContext(i) \/ SpawnFails(i)
      PROVE HostInv'
  <2>1. inst[i].is # "live" /\ contexts' = contexts /\ aborted' = aborted /\ taken' = taken
    BY <1>0, <1>8 DEF InstanceGone, AddLocalContext, SpawnFails, NotStarted
  <2>2. HostTypes'
    <3>1. CASE InstanceGone(i)
      BY <1>0, <3>1 DEF HostTypes, Stages, InstanceGone
    <3>2. CASE AddLocalContext(i)
      BY <1>0, <3>2 DEF HostTypes, Stages, AddLocalContext
    <3>3. CASE SpawnFails(i)
      BY <1>0, <3>3 DEF HostTypes, Stages, SpawnFails
    <3> QED BY <1>8, <3>1, <3>2, <3>3
  <2>3. /\ inst'[i].key = inst[i].key /\ inst'[i].is \notin {"live", "none"}
        /\ \A j \in Instances \ {i} : inst'[j] = inst[j] /\ call'[j] = call[j]
    BY <1>0, <1>8 DEF HostTypes, InstanceGone, AddLocalContext, SpawnFails
  <2>4. call'[i] \notin {"none", "ok"} \/ (call'[i] = call[i] /\ call[i] # "none")
    BY <1>0, <1>8 DEF HostTypes, InstanceGone, AddLocalContext, SpawnFails, NotStarted
  <2> QED BY <2>1, <2>2, <2>3, <2>4, OwnStep
<1>9. ASSUME NEW i \in Instances, RegisterHostedContext(i) PROVE HostInv'
  <2>1. /\ inst[i].is = "spawning" /\ aborted' = aborted /\ taken' = taken
    BY <1>9 DEF RegisterHostedContext, Register
  <2>2. HostTypes'
    BY <1>0, <1>9 DEF HostTypes, Stages, RegisterHostedContext, Register, Key
  <2>3. /\ inst'[i].key = inst[i].key
        /\ \A j \in Instances \ {i} : inst'[j] = inst[j] /\ call'[j] = call[j]
    BY <1>0, <1>9 DEF HostTypes, RegisterHostedContext, Register
  <2>4. CASE contexts[Key(i)] = Nobody
    <3>1. /\ contexts' = [contexts EXCEPT ![Key(i)] = i]
          /\ inst'[i].is = "live" /\ call'[i] = "listing"
      BY <1>0, <1>9, <2>4 DEF HostTypes, RegisterHostedContext, Register
    <3> QED BY <2>1, <2>2, <2>3, <2>4, <3>1, RegistrationStep
  <2>5. CASE contexts[Key(i)] # Nobody
    <3>1. contexts' = contexts /\ inst'[i].is = "closing" /\ call'[i] = "failing"
      BY <1>0, <1>9, <2>5 DEF HostTypes, RegisterHostedContext, Register
    <3> QED BY <2>1, <2>2, <2>3, <3>1, OwnStep
  <2> QED BY <2>4, <2>5
<1>10. ASSUME NEW i \in Instances, AddHTTPContext(i) PROVE HostInv'
  <2>1. /\ contexts[Key(i)] = Nobody /\ contexts' = [contexts EXCEPT ![Key(i)] = i]
        /\ aborted' = aborted /\ taken' = taken
    BY <1>10 DEF AddHTTPContext
  <2>2. HostTypes'
    BY <1>0, <1>10 DEF HostTypes, Stages, AddHTTPContext, Key
  <2>3. /\ inst'[i].key = inst[i].key /\ inst'[i].is = "live" /\ call'[i] = "listing"
        /\ \A j \in Instances \ {i} : inst'[j] = inst[j] /\ call'[j] = call[j]
    BY <1>0, <1>10 DEF HostTypes, AddHTTPContext
  <2> QED BY <2>1, <2>2, <2>3, RegistrationStep
<1>11. ASSUME NEW i \in Instances, SetupListed(i) \/ AbortAdd(i) PROVE HostInv'
  <2>1. HostTypes' /\ contexts' = contexts /\ inst' = inst /\ taken' = taken
    BY <1>0, <1>11 DEF HostTypes, SetupListed, AbortAdd
  <2>2. \A j \in Instances : /\ call'[j] = "none" => call[j] = "none"
                             /\ ~aborted'[j] => ~aborted[j]
                             /\ call'[j] = "ok" => call[j] = "ok" \/ Current(j)
    BY <1>0, <1>11 DEF HostTypes, SetupListed, AbortAdd
  <2> QED BY <2>1, <2>2, CallStep
<1>12. ASSUME NEW i \in Instances, NEW enabled \in SUBSET Tools, SetupChosen(i, enabled)
       PROVE HostInv'
  <2>1. HostTypes' /\ contexts' = contexts /\ inst' = inst /\ taken' = taken
    BY <1>0, <1>12 DEF HostTypes, SetupChosen
  <2>2. \A j \in Instances : /\ call'[j] = "none" => call[j] = "none"
                             /\ ~aborted'[j] => ~aborted[j]
                             /\ call'[j] = "ok" => call[j] = "ok" \/ Current(j)
    BY <1>0, <1>12 DEF HostTypes, SetupChosen
  <2> QED BY <2>1, <2>2, CallStep
<1>13. CASE UNCHANGED <<contexts, inst, call, aborted, taken>>
  BY <1>13, CallStep, <1>0 DEF HostTypes
<1>14. CASE UNCHANGED vars
  BY <1>13, <1>14 DEF vars
<1>15. ASSUME NEW i \in Instances, NEW t \in Tools, Toggle(i, t) PROVE HostInv'
  BY <1>13, <1>15 DEF Toggle
<1>16. ASSUME NEW c \in Changes,
              \/ OnListChanged(c) \/ ServerLists(c) \/ RefreshContextTools(c) \/ RefreshFails(c)
              \/ \E i \in Instances, list \in SUBSET Tools : ServerChanges(c, i, list)
       PROVE HostInv'
  BY <1>13, <1>16 DEF OnListChanged, ServerLists, RefreshContextTools, Refresh, RefreshFails,
                      ServerChanges
<1> QED
  BY <1>2, <1>3, <1>4, <1>6, <1>7, <1>8, <1>9, <1>10, <1>11, <1>12, <1>14, <1>15, <1>16 DEF Next

THEOREM HostInvariant == Spec => []HostInv
<1>1. HostInit => HostInv
  BY HostInitially, HostAssumption
<1>2. HostInv /\ [Next]_vars => HostInv'
  BY HostStep, HostAssumption
<1> QED BY <1>1, <1>2, PTL DEF Spec

\* Whatever add, remove, abort and exit follow one another, every client that
\* lives is the one its key leads to.
THEOREM NothingIsOrphaned == Spec => []NoOrphan
<1>1. HostInv => NoOrphan
  BY DEF HostInv
<1> QED BY <1>1, HostInvariant, PTL

\* The context of an add call that succeeded leaves the registry only when it
\* is removed or lost, whatever the other calls under its key do.
THEOREM AddedContextsStay == Spec => []AddedContextStays
<1>1. HostInv => AddedContextStays
  BY DEF HostInv
<1> QED BY <1>1, HostInvariant, PTL

-----------------------------------------------------------------------------
(* What an add call leaves behind, and what a refresh does to the choices. *)

\* How far an add call is says what has become of its instance: one that failed is
\* on its way out, or out.
StagesAgree ==
    \A i \in Instances :
        /\ call[i] = "spawning" <=> inst[i].is = "spawning"
        /\ call[i] \in {"listing", "choosing", "ok"} => inst[i].is \in {"live", "closing", "gone"}
        /\ call[i] \in {"failing", "failed"} => inst[i].is \in {"closing", "gone"}

\* What is switched off is listed; what a context or a call holds of a list comes from the
\* server of its own instance.
ToolsTypes ==
    /\ tools \in [Instances -> [listed : SUBSET Tools, off : SUBSET Tools]]
    /\ server \in [Instances -> SUBSET Tools] /\ snap \in [Instances -> SUBSET Tools]
    /\ change \in [Changes -> [is : {"none", "signalled", "listing", "listed", "done"},
                               inst : Instances \cup {Nobody}, list : SUBSET Tools]]
OffIsListed == \A i \in Instances : tools[i].off \subseteq tools[i].listed
SignalsHaveSource == \A c \in Changes : change[c].is # "none" => change[c].inst \in Instances
ListsAreOwn ==
    /\ \A i \in Instances : server[i] \cup snap[i] \subseteq Offers[i]
    /\ \A c \in Changes : change[c].is = "listed" => change[c].list \subseteq Offers[change[c].inst]

AddInv  == HostInv /\ StagesAgree
ToolInv == ToolsTypes /\ OffIsListed /\ SignalsHaveSource /\ ListsAreOwn /\ OffersOwnTools

\* A removal closes what lives; a call that goes on keeps what was started for it.
LEMMA RemovalStages ==
  ASSUME AddInv, NEW gone \in SUBSET Live, Remove(gone),
         \A i \in Instances : call'[i] = call[i] \/
             (/\ call[i] \in {"listing", "choosing"} /\ call'[i] \in {"failing", "failed"}
              /\ i \in Live => i \in gone)
  PROVE  StagesAgree'
<1>1. \A i \in Instances : IF i \in gone THEN inst[i].is = "live" /\ inst'[i].is = "closing"
                           ELSE inst'[i].is = inst[i].is
  BY DEF AddInv, HostInv, HostTypes, Remove, Closing, Live
<1> QED BY <1>1 DEF AddInv, StagesAgree, Live

LEMMA StagesStep == HostAssumption /\ AddInv /\ [Next]_vars => StagesAgree'
<1> SUFFICES ASSUME HostAssumption, AddInv, [Next]_vars PROVE StagesAgree'
  OBVIOUS
<1> USE DEF hostVars, setupVars
<1>0. HostTypes /\ EntriesLive /\ NotStarted /\ NoOrphan /\ StagesAgree
  BY DEF AddInv, HostInv
<1>1. \A k \in Keys : contexts[k] # Nobody => contexts[k] \in Live
  BY <1>0 DEF EntriesLive, HostTypes, Live
<1>2. ASSUME NEW i \in Instances
      PROVE  /\ (IF Current(i) THEN {i} ELSE {}) \in SUBSET Live
             /\ i \in Live => Current(i)
  BY <1>0, <1>1 DEF Current, Key, HostTypes, HostAssumption, NoOrphan
<1>3. CASE Dispose \/ \E k \in Keys : RemoveContext(k)
  <2>1. PICK gone \in SUBSET Live : Remove(gone)
    <3>1. {contexts[k] : k \in Keys} \ {Nobody} \in SUBSET Live
      BY <1>1
    <3> QED BY <1>1, <1>3, <3>1 DEF Dispose, RemoveContext
  <2>2. call' = call
    BY <1>3 DEF Dispose, RemoveContext
  <2> QED BY <2>1, <2>2, RemovalStages
<1>4. ASSUME NEW i \in Instances, Lost(i) PROVE StagesAgree'
  BY <1>4, RemovalStages DEF Lost
<1>5. ASSUME NEW i \in Instances, SweepAborted(i) PROVE StagesAgree'
  BY <1>2, <1>5, RemovalStages DEF SweepAborted, Sweep, RemoveIfOurs
<1>6. ASSUME NEW i \in Instances, SetupFails(i) \/ ChoiceFails(i) PROVE StagesAgree'
  <2> DEFINE ours == IF Current(i) THEN {i} ELSE {}
  <2>1. ours \in SUBSET Live /\ Remove(ours) /\ (i \in Live => i \in ours)
    BY <1>2, <1>6 DEF SetupFails, ChoiceFails, RemoveIfOurs
  <2>2. \A j \in Instances : call'[j] = call[j] \/
          (j = i /\ call[j] \in {"listing", "choosing"} /\ call'[j] \in {"failing", "failed"})
    BY <1>0, <1>6 DEF SetupFails, ChoiceFails, AfterFailure, HostTypes
  <2> HIDE DEF ours
  <2> QED BY <2>1, <2>2, RemovalStages
<1>7. ASSUME NEW i \in Instances,
             \/ InstanceGone(i) \/ AddLocalContext(i) \/ SpawnFails(i) \/ AddHTTPContext(i)
             \/ RegisterHostedContext(i)
      PROVE StagesAgree'
  <2>1. \A j \in Instances \ {i} : inst'[j] = inst[j] /\ call'[j] = call[j]
    BY <1>0, <1>7 DEF HostTypes, InstanceGone, AddLocalContext, SpawnFails, AddHTTPContext,
                      RegisterHostedContext, Register
  <2>2. /\ call'[i] = "spawning" <=> inst'[i].is = "spawning"
        /\ call'[i] \in {"listing", "choosing", "ok"} => inst'[i].is \in {"live", "closing", "gone"}
        /\ call'[i] \in {"failing", "failed"} => inst'[i].is \in {"closing", "gone"}
    <3>1. CASE InstanceGone(i)
      BY <1>0, <3>1 DEF HostTypes, StagesAgree, InstanceGone
    <3>2. CASE AddLocalContext(i)
      BY <1>0, <3>2 DEF HostTypes, StagesAgree, AddLocalContext
    <3>3. CASE SpawnFails(i)
      BY <1>0, <3>3 DEF HostTypes, StagesAgree, SpawnFails
    <3>4. CASE AddHTTPContext(i)
      BY <1>0, <3>4 DEF HostTypes, StagesAgree, AddHTTPContext
    <3>5. CASE RegisterHostedContext(i)
      BY <1>0, <3>5 DEF HostTypes, StagesAgree, RegisterHostedContext, Register
    <3> QED BY <1>7, <3>1, <3>2, <3>3, <3>4, <3>5
  <2> QED BY <1>0, <2>1, <2>2 DEF StagesAgree
<1>8. ASSUME NEW i \in Instances,
             SetupListed(i) \/ \E enabled \in SUBSET Tools : SetupChosen(i, enabled)
      PROVE StagesAgree'
  <2>1. inst' = inst /\ call[i] \in {"listing", "choosing"}
    BY <1>8 DEF SetupListed, SetupChosen
  <2>2. \A j \in Instances \ {i} : call'[j] = call[j]
    BY <1>0, <1>8 DEF HostTypes, SetupListed, SetupChosen
  <2>3. \/ call'[i] \in {"listing", "choosing", "ok"}
        \/ call'[i] = "failed" /\ i \notin Live
    BY <1>0, <1>2, <1>8 DEF HostTypes, SetupListed, SetupChosen
  <2> QED BY <1>0, <2>1, <2>2, <2>3 DEF StagesAgree, Live
<1>9. CASE UNCHANGED <<inst, call>>
  BY <1>0, <1>9 DEF StagesAgree
<1>10. ASSUME NEW i \in Instances, AbortAdd(i) \/ \E t \in Tools : Toggle(i, t) PROVE StagesAgree'
  BY <1>9, <1>10 DEF AbortAdd, Toggle
<1>11. ASSUME NEW c \in Changes,
              \/ OnListChanged(c) \/ ServerLists(c) \/ RefreshContextTools(c) \/ RefreshFails(c)
              \/ \E i \in Instances, list \in SUBSET Tools : ServerChanges(c, i, list)
       PROVE StagesAgree'
  BY <1>9, <1>11 DEF OnListChanged, ServerLists, RefreshContextTools, Refresh, RefreshFails,
                     ServerChanges
<1>12. CASE UNCHANGED vars
  BY <1>9, <1>12 DEF vars
<1> QED
  BY <1>3, <1>4, <1>5, <1>6, <1>7, <1>8, <1>10, <1>11, <1>12 DEF Next

\* An add call that failed has left nothing that lives: its client, transport and
\* child are being disposed of, or gone.
FailedAddIsClosing ==
    \A i \in Instances : call[i] \in {"failing", "failed"} => inst[i].is \in {"closing", "gone"}

\* However an add call fails, and whatever has happened to its key meanwhile, nothing of it
\* lives on.  About the catch blocks of session.ts and node-session.ts and
\* registerHostedContext.
THEOREM FailedAddsClose == Spec => []FailedAddIsClosing
<1>1. HostInit => StagesAgree
  BY DEF HostInit, StagesAgree
<1>2. HostInv /\ StagesAgree /\ [Next]_vars => StagesAgree'
  BY StagesStep, HostAssumption DEF AddInv
<1>3. StagesAgree => FailedAddIsClosing
  BY DEF StagesAgree, FailedAddIsClosing
<1> QED BY <1>1, <1>2, <1>3, HostInvariant, PTL DEF Spec

-----------------------------------------------------------------------------
LEMMA ToolStep == ToolInv /\ [Next]_vars => ToolInv'
<1> SUFFICES ASSUME ToolInv, [Next]_vars PROVE ToolInv'
  OBVIOUS
<1> USE DEF hostVars, setupVars
<1>0. ToolsTypes /\ OffIsListed /\ SignalsHaveSource /\ ListsAreOwn /\ OffersOwnTools
  BY DEF ToolInv
<1>1. CASE UNCHANGED <<snap, tools, server, change>>
  BY <1>0, <1>1 DEF ToolInv, ToolsTypes, OffIsListed, SignalsHaveSource, ListsAreOwn, OffersOwnTools
<1>2. ASSUME NEW i \in Instances, SetupListed(i) \/ ChoiceFails(i) PROVE ToolInv'
  <2>1. UNCHANGED <<tools, server, change>> /\ snap' \in [Instances -> SUBSET Tools]
    BY <1>0, <1>2 DEF ToolsTypes, SetupListed, ChoiceFails
  <2>2. ListsAreOwn'
    BY <1>0, <1>2, <2>1 DEF ToolsTypes, ListsAreOwn, SetupListed, ChoiceFails
  <2> QED BY <1>0, <2>1, <2>2 DEF ToolInv, ToolsTypes, OffIsListed, SignalsHaveSource, OffersOwnTools
<1>3. ASSUME NEW i \in Instances, NEW enabled \in SUBSET Tools, SetupChosen(i, enabled)
      PROVE ToolInv'
  <2>1. UNCHANGED <<server, change>> /\ snap' \in [Instances -> SUBSET Tools]
    BY <1>0, <1>3 DEF ToolsTypes, SetupChosen
  <2>2. \/ tools' = tools
        \/ tools' = [tools EXCEPT ![i] = [listed |-> snap[i], off |-> snap[i] \ enabled]]
    BY <1>3 DEF SetupChosen
  <2>3. /\ tools' \in [Instances -> [listed : SUBSET Tools, off : SUBSET Tools]]
        /\ OffIsListed' /\ OffersOwnTools'
    <3>1. CASE tools' = tools
      BY <1>0, <3>1 DEF ToolsTypes, OffIsListed, OffersOwnTools
    <3>2. CASE tools' = [tools EXCEPT ![i] = [listed |-> snap[i], off |-> snap[i] \ enabled]]
      <4>1. snap[i] \in SUBSET Tools /\ snap[i] \subseteq Offers[i]
        BY <1>0 DEF ToolsTypes, ListsAreOwn
      <4>2. PICK e : e = [listed |-> snap[i], off |-> snap[i] \ enabled]
        OBVIOUS
      <4>3. /\ e \in [listed : SUBSET Tools, off : SUBSET Tools]
            /\ e.off \subseteq e.listed /\ e.listed \subseteq Offers[i]
        BY <4>1, <4>2
      <4> QED BY <1>0, <3>2, <4>2, <4>3 DEF ToolsTypes, OffIsListed, OffersOwnTools
    <3> QED BY <2>2, <3>1, <3>2
  <2>4. ListsAreOwn'
    BY <1>0, <1>3, <2>1 DEF ToolsTypes, ListsAreOwn, SetupChosen
  <2> QED BY <1>0, <2>1, <2>3, <2>4 DEF ToolInv, ToolsTypes, SignalsHaveSource
<1>4. ASSUME NEW i \in Instances, NEW t \in Tools, Toggle(i, t) PROVE ToolInv'
  <2>1. UNCHANGED <<snap, server, change>> /\ t \in tools[i].listed
    BY <1>4 DEF Toggle
  <2>2. /\ tools' \in [Instances -> [listed : SUBSET Tools, off : SUBSET Tools]]
        /\ OffIsListed' /\ OffersOwnTools'
    <3>1. tools' = [tools EXCEPT ![i].off = IF t \in @ THEN @ \ {t} ELSE @ \cup {t}]
      BY <1>4 DEF Toggle
    <3> QED BY <1>0, <2>1, <3>1 DEF ToolsTypes, OffIsListed, OffersOwnTools
  <2> QED BY <1>0, <2>1, <2>2 DEF ToolInv, ToolsTypes, SignalsHaveSource, ListsAreOwn
<1>5. ASSUME NEW c \in Changes, OnListChanged(c) \/ ServerLists(c) \/ RefreshFails(c)
      PROVE ToolInv'
  <2>1. UNCHANGED <<snap, tools, server>> /\ change[c].is # "none"
    BY <1>5 DEF OnListChanged, ServerLists, RefreshFails
  <2>2. change' \in [Changes -> [is : {"none", "signalled", "listing", "listed", "done"},
                                 inst : Instances \cup {Nobody}, list : SUBSET Tools]]
    BY <1>0, <1>5 DEF ToolsTypes, SignalsHaveSource, OnListChanged, ServerLists, RefreshFails
  <2>3. SignalsHaveSource'
    BY <1>0, <1>5 DEF ToolsTypes, SignalsHaveSource, OnListChanged, ServerLists, RefreshFails
  <2>4. ListsAreOwn'
    <3>1. ASSUME NEW d \in Changes, change'[d].is = "listed"
          PROVE  change'[d].list \subseteq Offers[change'[d].inst]
      <4>1. CASE d # c
        BY <1>0, <1>5, <3>1, <4>1
           DEF ToolsTypes, ListsAreOwn, OnListChanged, ServerLists, RefreshFails
      <4>2. CASE d = c
        <5>1. /\ change'[c].inst = change[c].inst /\ change[c].inst \in Instances
              /\ change'[c].list = server[change[c].inst]
          BY <1>0, <1>5, <3>1, <4>2
             DEF ToolsTypes, SignalsHaveSource, OnListChanged, ServerLists, RefreshFails
        <5> QED BY <1>0, <4>2, <5>1 DEF ListsAreOwn
      <4> QED BY <4>1, <4>2
    <3> QED BY <1>0, <2>1, <3>1 DEF ListsAreOwn
  <2> QED BY <1>0, <2>1, <2>2, <2>3, <2>4 DEF ToolInv, ToolsTypes, OffIsListed, OffersOwnTools
<1>6. ASSUME NEW c \in Changes, NEW i \in Instances, NEW list \in SUBSET Tools,
             ServerChanges(c, i, list)
      PROVE ToolInv'
  <2>1. UNCHANGED <<snap, tools>> /\ change[c].is = "none" /\ list \subseteq Offers[i]
        /\ server' = [server EXCEPT ![i] = list]
        /\ change' = [change EXCEPT ![c].is = "signalled", ![c].inst = i]
    BY <1>6 DEF ServerChanges
  <2>2. ToolsTypes' /\ SignalsHaveSource'
    BY <1>0, <2>1 DEF ToolsTypes, SignalsHaveSource
  <2>3. ListsAreOwn'
    BY <1>0, <2>1 DEF ToolsTypes, ListsAreOwn
  <2> QED BY <1>0, <2>1, <2>2, <2>3 DEF ToolInv, OffIsListed, OffersOwnTools
<1>7. ASSUME NEW c \in Changes, RefreshContextTools(c) PROVE ToolInv'
  <2>1. UNCHANGED <<snap, server>> /\ change[c].is # "none"
    BY <1>7 DEF RefreshContextTools, Refresh
  <2>2. change' \in [Changes -> [is : {"none", "signalled", "listing", "listed", "done"},
                                 inst : Instances \cup {Nobody}, list : SUBSET Tools]]
        /\ SignalsHaveSource'
    BY <1>0, <1>7 DEF ToolsTypes, SignalsHaveSource, RefreshContextTools, Refresh
  <2>3. change[c].list \subseteq Offers[change[c].inst] /\ change[c].inst \in Instances
        /\ change[c].list \in SUBSET Tools
    BY <1>0, <1>7, <2>1 DEF ToolsTypes, SignalsHaveSource, ListsAreOwn, RefreshContextTools, Refresh
  <2>4. /\ tools' \in [Instances -> [listed : SUBSET Tools, off : SUBSET Tools]]
        /\ OffIsListed' /\ OffersOwnTools'
    BY <1>0, <1>7, <2>3 DEF ToolsTypes, OffIsListed, OffersOwnTools, RefreshContextTools, Refresh
  <2>5. ListsAreOwn'
    BY <1>0, <1>7, <2>1 DEF ToolsTypes, ListsAreOwn, RefreshContextTools, Refresh
  <2> QED BY <1>0, <2>1, <2>2, <2>4, <2>5 DEF ToolInv, ToolsTypes
<1>8. ASSUME NEW i \in Instances,
             \/ InstanceGone(i) \/ Lost(i) \/ AddLocalContext(i) \/ RegisterHostedContext(i)
             \/ SpawnFails(i) \/ AddHTTPContext(i) \/ SetupFails(i) \/ AbortAdd(i) \/ SweepAborted(i)
      PROVE ToolInv'
  BY <1>1, <1>8 DEF InstanceGone, Lost, AddLocalContext, RegisterHostedContext, Register,
                    SpawnFails, AddHTTPContext, SetupFails, AbortAdd, SweepAborted, Sweep
<1>9. CASE Dispose \/ \E k \in Keys : RemoveContext(k)
  BY <1>1, <1>9 DEF Dispose, RemoveContext
<1>10. CASE UNCHANGED vars
  BY <1>1, <1>10 DEF vars
<1> QED BY <1>2, <1>3, <1>4, <1>5, <1>6, <1>7, <1>8, <1>9, <1>10 DEF Next

\* What is switched off is listed, a refresh belongs to an instance, and whatever of a list is
\* held over an await (by a call that chooses, or by a refresh) is its own server's.
THEOREM ToolsInvariant == Spec => []ToolInv
<1>1. HostInit => ToolInv
  BY DEF HostInit, ToolInv, ToolsTypes, OffIsListed, SignalsHaveSource, ListsAreOwn, OffersOwnTools
<1> QED BY <1>1, ToolStep, PTL DEF Spec

\* A context offers the tools of its own server only, however often its key changed hands while
\* lists were fetched and chosen from.  About the context held over the awaits of setup and
\* refreshContextTools.
THEOREM OffersStayOwn == Spec => []OffersOwnTools
<1>1. ToolInv => OffersOwnTools
  BY DEF ToolInv
<1> QED BY <1>1, ToolsInvariant, PTL

=============================================================================
