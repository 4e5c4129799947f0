-------------------------- MODULE SubscriptionProofs --------------------------
(***************************************************************************)
(* The subscriptions of a client (SubscriptionDriver) and the streams of a *)
(* server (SubscriptionHub).  Of the driver, for every set of callers,     *)
(* resources and generations: what is open is known, the active stream     *)
(* carries what the callers were promised, and a dropped stream is         *)
(* retried.  Of the hub, for every set of listens and events and any bound *)
(* of the backlog: an entry is served, and nothing owed is lost silently.  *)
(***************************************************************************)
EXTENDS SubscriptionDriver, SubscriptionHub, TLAPS, SequenceTheorems

(***************************************************************************)
(*                               The driver                                *)
(***************************************************************************)

Generation == [filter : SUBSET Uris, open : BOOLEAN, retired : BOOLEAN,
               ack : {"waiting", "acked", "lost", "refused"}]

DriverTypes ==
    /\ desired \in SUBSET Uris /\ promised \in SUBSET Uris
    /\ gens \in [Gens -> Generation]
    /\ active \in Gens \cup {NoGen} /\ candidate \in Gens \cup {NoGen}
    /\ queue \in Seq(Callers \cup {Reconnect})
    /\ running \in Callers \cup {Reconnect, Nobody}
    /\ delays \in Nat /\ disposed \in BOOLEAN /\ lost \in BOOLEAN

\* A generation that is given up has its exchange aborted, no other has, and
\* one that failed is given up.
OpenUnlessRetired ==
    \A g \in Gens : /\ gens[g].open <=> ~gens[g].retired
                    /\ gens[g].ack \in {"lost", "refused"} => gens[g].retired

\* A candidate is there while a task waits for it, and asks for the filter
\* that task wants: nothing changes the filter while the task runs.
CandidateOfTask ==
    /\ running = Nobody <=> candidate = NoGen
    /\ candidate # NoGen =>
          candidate # active /\ gens[candidate].filter = Target(running)

\* The filter the driver wants is the one its callers were promised.
KeepsPromise == desired = promised

\* A driver that was disposed of, or that has lost its stream, has none.
NotListening == disposed \/ lost => ~Listening
LostWhileInUse == lost => ~disposed

\* The invariant proved: the three properties, and what they rest on.
DriverInv ==
    /\ DriverTypes /\ OpenUnlessRetired /\ CandidateOfTask /\ KeepsPromise
    /\ NotListening /\ LostWhileInUse
    /\ NoOrphanListen /\ ListenMatchesCallers /\ DropIsRetried

RetryQueued == \E i \in DOMAIN queue : queue[i] = Reconnect

LEMMA DriverInitially == DriverAssumption /\ Init => DriverInv
<1> SUFFICES ASSUME DriverAssumption, Init PROVE DriverInv
  OBVIOUS
<1>1. DriverTypes
  <2>1. Unused \in Generation
    BY DEF Unused, Generation
  <2>2. <<>> \in Seq(Callers \cup {Reconnect})
    OBVIOUS
  <2> QED BY <2>1, <2>2 DEF Init, DriverTypes
<1> QED
  BY <1>1 DEF DriverAssumption, Init, DriverInv, OpenUnlessRetired, CandidateOfTask, KeepsPromise,
              NotListening, LostWhileInUse, NoOrphanListen, ListenMatchesCallers, DropIsRetried,
              Listening, Unused

\* What a task makes of a filter is a filter.
LEMMA ChangedIsFilter ==
  ASSUME DriverAssumption, NEW c \in Callers, NEW resources \in SUBSET Uris
  PROVE  Changed(c, resources) \in SUBSET Uris
  BY DEF DriverAssumption, Changed, Kinds

-----------------------------------------------------------------------------
(* Steps that change one thing. *)

\* A generation that waits is acknowledged or given up.
LEMMA WaitingStep ==
  ASSUME DriverAssumption, DriverInv, NEW g \in Gens, Waiting(g), NEW new \in Generation,
         gens' = [gens EXCEPT ![g] = new], new.filter = gens[g].filter, new.open <=> ~new.retired,
         new.ack \in {"lost", "refused"} => new.retired,
         UNCHANGED <<desired, active, candidate, queueVars, disposed, history>>
  PROVE  DriverInv'
<1> USE DEF queueVars, history
<1>1. DriverTypes'
  BY DEF DriverInv, DriverTypes
<1>2. active # g
  BY DEF DriverInv, ListenMatchesCallers, Delivers, Waiting, Listening, DriverTypes,
         DriverAssumption
<1>3. \A h \in Gens : gens'[h] = IF h = g THEN new ELSE gens[h]
  BY DEF DriverInv, DriverTypes
<1>4. OpenUnlessRetired' /\ NoOrphanListen'
  BY <1>3 DEF DriverInv, OpenUnlessRetired, NoOrphanListen, Waiting
<1>5. CandidateOfTask'
  BY <1>3 DEF DriverInv, CandidateOfTask, DriverTypes, Target, Changed
<1>6. ListenMatchesCallers'
  BY <1>2, <1>3 DEF DriverInv, ListenMatchesCallers, Listening, Delivers, DriverTypes
<1>7. KeepsPromise' /\ NotListening' /\ LostWhileInUse' /\ DropIsRetried'
  BY DEF DriverInv, KeepsPromise, NotListening, LostWhileInUse, DropIsRetried, Listening
<1> QED BY <1>1, <1>4, <1>5, <1>6, <1>7 DEF DriverInv

\* The queue moves and no reconnect that is needed gets lost.
LEMMA QueueStep ==
  ASSUME DriverInv, queue' \in Seq(Callers \cup {Reconnect}), delays' \in Nat,
         lost /\ (delays > 0 \/ RetryQueued) => delays' > 0 \/ RetryQueued',
         UNCHANGED <<desired, gens, active, candidate, running, disposed, history>>
  PROVE  DriverInv'
<1> USE DEF history
<1>1. DriverTypes'
  BY DEF DriverInv, DriverTypes
<1>2. DropIsRetried'
  BY DEF DriverInv, DropIsRetried, RetryQueued
<1>3. /\ OpenUnlessRetired' /\ CandidateOfTask' /\ KeepsPromise' /\ NotListening'
      /\ LostWhileInUse' /\ NoOrphanListen' /\ ListenMatchesCallers'
  BY DEF DriverInv, OpenUnlessRetired, CandidateOfTask, KeepsPromise, NotListening,
         LostWhileInUse, NoOrphanListen, ListenMatchesCallers, Listening, Delivers, Target, Changed
<1> QED BY <1>1, <1>2, <1>3 DEF DriverInv

LEMMA AppendKeeps ==
  ASSUME NEW T, queue \in Seq(T), NEW t \in T, queue' = Append(queue, t)
  PROVE  queue' \in Seq(T) /\ (RetryQueued \/ t = Reconnect => RetryQueued')
<1>1. Len(queue') = Len(queue) + 1 /\ queue'[Len(queue) + 1] = t
  OBVIOUS
<1>2. \A i \in DOMAIN queue : i \in DOMAIN queue' /\ queue'[i] = queue[i]
  OBVIOUS
<1>3. Len(queue) + 1 \in DOMAIN queue'
  OBVIOUS
<1> QED BY <1>1, <1>2, <1>3 DEF RetryQueued

LEMMA TailKeeps ==
  ASSUME NEW T, queue \in Seq(T), queue # <<>>, queue' = Tail(queue)
  PROVE  /\ queue' \in Seq(T)
         /\ Head(queue) \in T
         /\ RetryQueued /\ Head(queue) # Reconnect => RetryQueued'
<1>1. queue' \in Seq(T) /\ Head(queue) \in T
  BY HeadTailProperties
<1>2. \A i \in DOMAIN queue : i # 1 => i - 1 \in DOMAIN queue' /\ queue'[i - 1] = queue[i]
  OBVIOUS
<1>3. Head(queue) = queue[1]
  OBVIOUS
<1> QED BY <1>1, <1>2, <1>3 DEF RetryQueued

-----------------------------------------------------------------------------
(* The steps of the queue and of the candidate. *)

LEMMA QueueSteps ==
  ASSUME DriverAssumption, DriverInv,
         (\E c \in Callers : Ask(c)) \/ SkipTask \/ AbortedBeforeTurn \/ DelayElapses
  PROVE  DriverInv'
<1>1. DriverTypes
  BY DEF DriverInv
<1>2. ASSUME NEW c \in Callers, Ask(c) PROVE DriverInv'
  BY <1>1, <1>2, AppendKeeps, QueueStep DEF Ask, DriverTypes, history
<1>3. CASE SkipTask
  <2>1. ~lost
    <3>1. Head(queue) = Reconnect /\ lost => ~Listening
      BY DEF DriverInv, NotListening
    <3> QED BY <1>3, <3>1 DEF SkipTask, DriverInv, NotListening, LostWhileInUse
  <2> QED BY <1>1, <1>3, <2>1, TailKeeps, QueueStep DEF SkipTask, DriverTypes, history
<1>4. CASE AbortedBeforeTurn
  BY <1>1, <1>4, TailKeeps, QueueStep DEF AbortedBeforeTurn, DriverTypes, history
<1>5. CASE DelayElapses
  <2>1. delays' \in Nat
    BY <1>1, <1>5 DEF DelayElapses, DriverTypes
  <2>2. CASE disposed
    <3>1. ~lost
      BY <2>2 DEF DriverInv, LostWhileInUse
    <3> QED BY <1>1, <1>5, <2>1, <2>2, <3>1, QueueStep DEF DelayElapses, DriverTypes, history
  <2>3. CASE ~disposed
    BY <1>1, <1>5, <2>1, <2>3, AppendKeeps, QueueStep DEF DelayElapses, DriverTypes, history
  <2> QED BY <2>2, <2>3
<1> QED BY <1>2, <1>3, <1>4, <1>5

\* A task opens a candidate with the filter it wants.
LEMMA OpenStep ==
  ASSUME DriverAssumption, DriverInv, NEW g \in Gens, Open(g)
  PROVE  DriverInv'
<1> DEFINE new == [filter |-> Target(Head(queue)), open |-> TRUE, ack |-> "waiting",
                   retired |-> FALSE]
<1> USE DEF history
<1>1. DriverTypes /\ running = Nobody /\ candidate = NoGen
  BY DEF DriverInv, Open, CandidateOfTask
<1>2. /\ queue' \in Seq(Callers \cup {Reconnect}) /\ running' = Head(queue)
      /\ running' \in Callers \cup {Reconnect}
      /\ RetryQueued => running' = Reconnect \/ RetryQueued'
  BY <1>1, TailKeeps DEF Open, DriverTypes
<1>3. Target(Head(queue)) \in SUBSET Uris
  BY <1>1, <1>2, ChangedIsFilter DEF Target, DriverTypes
<1>4. /\ \A h \in Gens : gens'[h] = IF h = g THEN new ELSE gens[h]
      /\ gens' \in [Gens -> Generation]
  BY <1>1, <1>3 DEF Open, DriverTypes, Generation
<1>5. /\ candidate' = g /\ active # g /\ ~gens[g].open
      /\ UNCHANGED <<desired, active, delays, disposed, promised, lost>>
  BY DEF Open, Free
<1>6. DriverTypes'
  BY <1>1, <1>2, <1>4, <1>5 DEF DriverTypes
<1>7. OpenUnlessRetired' /\ NoOrphanListen'
  BY <1>1, <1>4, <1>5 DEF DriverInv, OpenUnlessRetired, NoOrphanListen, DriverAssumption
<1>8. CandidateOfTask'
  <2>1. running' # Nobody /\ candidate' # NoGen
    BY <1>2, <1>5 DEF DriverAssumption
  <2>2. gens'[g].filter = Target(running)'
    <3>1. gens'[g].filter = Target(Head(queue))
      BY <1>4
    <3>2. Target(running)' = IF running' = Reconnect THEN desired' ELSE Changed(running', desired')
      BY DEF Target
    <3> QED BY <1>2, <1>5, <3>1, <3>2 DEF Target
  <2> QED BY <1>5, <2>1, <2>2 DEF CandidateOfTask
<1>9. ListenMatchesCallers'
  BY <1>1, <1>4, <1>5 DEF DriverInv, ListenMatchesCallers, Listening, Delivers, DriverTypes
<1>10. DropIsRetried'
  <2>1. DropIsRetried' <=> (lost' => delays' > 0 \/ running' = Reconnect \/ RetryQueued')
    BY DEF DropIsRetried, RetryQueued
  <2>2. lost => delays > 0 \/ RetryQueued
    BY <1>1 DEF DriverInv, DropIsRetried, RetryQueued, DriverAssumption
  <2> QED BY <1>2, <1>5, <2>1, <2>2
<1>11. KeepsPromise' /\ NotListening' /\ LostWhileInUse'
  BY <1>5 DEF DriverInv, KeepsPromise, NotListening, LostWhileInUse, Listening
<1> QED BY <1>6, <1>7, <1>8, <1>9, <1>10, <1>11 DEF DriverInv

LEMMA WaitingSteps ==
  ASSUME DriverAssumption, DriverInv, NEW g \in Gens,
         Acknowledge(g) \/ OtherFrameFirst(g) \/ AckTimesOut(g) \/ CallerAborts(g)
  PROVE  DriverInv'
<1>1. gens[g] \in Generation /\ Waiting(g)
  BY DEF DriverInv, DriverTypes, Acknowledge, OtherFrameFirst, AckTimesOut, CallerAborts
<1>2. PICK ack \in {"lost", "refused", "acked"} :
         gens' = [gens EXCEPT ![g] = IF ack = "acked" THEN [gens[g] EXCEPT !.ack = "acked"]
                                     ELSE Retired(gens[g], ack)]
  BY DEF Acknowledge, OtherFrameFirst, AckTimesOut, CallerAborts
<1> DEFINE new == IF ack = "acked" THEN [gens[g] EXCEPT !.ack = "acked"]
                  ELSE Retired(gens[g], ack)
<1>3. new \in Generation /\ new.filter = gens[g].filter
  BY <1>1 DEF Retired, Generation
<1>4. (new.open <=> ~new.retired) /\ (new.ack \in {"lost", "refused"} => new.retired)
  BY <1>1 DEF Retired, Generation, Waiting
<1>5. gens' = [gens EXCEPT ![g] = new]
  BY <1>2
<1>6. UNCHANGED <<desired, active, candidate, queueVars, disposed, history>>
  BY DEF Acknowledge, OtherFrameFirst, AckTimesOut, CallerAborts
<1> HIDE DEF new
<1> QED BY <1>1, <1>3, <1>4, <1>5, <1>6, WaitingStep

\* The peer ends a stream: a reconnect is scheduled when it was the active one.
LEMMA SettlesStep ==
  ASSUME DriverAssumption, DriverInv, NEW g \in Gens, NEW reason \in {"closed", "result", "error"},
         PeerSettles(g, reason)
  PROVE  DriverInv'
<1>1. DriverTypes /\ gens[g] \in Generation
  BY DEF DriverInv, DriverTypes
<1>2. PICK ack \in {"waiting", "acked", "lost", "refused"} :
         gens' = [gens EXCEPT ![g] = Retired(gens[g], ack)]
  BY <1>1 DEF PeerSettles, Generation
<1>3. /\ \A h \in Gens : h # g => gens'[h] = gens[h]
      /\ gens'[g].filter = gens[g].filter /\ gens'[g].open = FALSE /\ gens'[g].retired = TRUE
      /\ gens' \in [Gens -> Generation]
  BY <1>1, <1>2 DEF DriverTypes, Retired, Generation
<1>4. /\ UNCHANGED <<desired, candidate, queue, running, disposed, promised>>
      /\ active = g => active' = NoGen /\ (lost' => reason = "closed" /\ ~disposed)
      /\ active # g => UNCHANGED <<active, delays, lost>>
  BY DEF PeerSettles
<1>5. /\ delays' \in Nat /\ lost' \in BOOLEAN
      /\ active = g /\ lost' => delays' > 0
  <2>1. CASE active = g
    <3>1. delays' = IF reason = "closed" THEN Scheduled ELSE delays
      BY <2>1 DEF PeerSettles
    <3>2. lost' \in BOOLEAN
      BY <2>1 DEF PeerSettles
    <3>3. delays' \in Nat
      BY <1>1, <3>1 DEF Scheduled, DriverTypes
    <3>4. lost' => delays' > 0
      BY <1>1, <1>4, <2>1, <3>1 DEF Scheduled, DriverTypes
    <3> QED BY <3>2, <3>3, <3>4
  <2>2. CASE active # g
    BY <1>1, <1>4, <2>2 DEF DriverTypes
  <2> QED BY <2>1, <2>2
<1>6. DriverTypes'
  BY <1>1, <1>3, <1>4, <1>5 DEF DriverTypes
<1>7. OpenUnlessRetired' /\ NoOrphanListen'
  BY <1>3, <1>4 DEF DriverInv, OpenUnlessRetired, NoOrphanListen
<1>8. CandidateOfTask'
  BY <1>3, <1>4 DEF DriverInv, CandidateOfTask, Target, Changed, DriverTypes
<1>9. ListenMatchesCallers'
  BY <1>3, <1>4 DEF DriverInv, ListenMatchesCallers, Listening, Delivers, DriverTypes
<1>10. KeepsPromise' /\ NotListening' /\ LostWhileInUse'
  BY <1>4 DEF DriverInv, KeepsPromise, NotListening, LostWhileInUse, Listening
<1>11. DropIsRetried'
  BY <1>4, <1>5 DEF DriverInv, DropIsRetried
<1> QED BY <1>6, <1>7, <1>8, <1>9, <1>10, <1>11 DEF DriverInv

\* The candidate takes the place of the stream before it.
LEMMA PromoteStep ==
  ASSUME DriverAssumption, DriverInv, Promote
  PROVE  DriverInv'
<1>1. /\ DriverTypes /\ running # Nobody /\ candidate \in Gens /\ candidate # active
      /\ gens[candidate].filter = Target(running) /\ ~disposed
      /\ gens[candidate].ack = "acked" /\ ~gens[candidate].retired
  BY DEF DriverInv, CandidateOfTask, Promote, Promotable, DriverTypes
<1>2. /\ active' = candidate /\ desired' = gens[candidate].filter /\ candidate' = NoGen
      /\ running' = Nobody /\ lost' = FALSE /\ UNCHANGED <<queue, delays, disposed>>
  BY DEF Promote, Forget
<1>3. promised' = Target(running)
  BY DEF Promote, DriverInv, KeepsPromise, Target
<1>4. /\ gens' \in [Gens -> Generation] /\ gens'[candidate] = gens[candidate]
      /\ \A g \in Gens \ {active} : gens'[g] = gens[g]
      /\ active \in Gens => ~gens'[active].open /\ gens'[active].retired
  <2>1. CASE active = NoGen
    BY <1>1, <2>1 DEF Promote, PreviousRetired, Listening, DriverTypes, DriverAssumption
  <2>2. CASE active \in Gens
    <3> DEFINE old == Retired(gens[active], gens[active].ack)
    <3>1. old \in Generation /\ ~old.open /\ old.retired
      <4>1. PICK gen \in Generation : gen = gens[active]
        BY <1>1, <2>2 DEF DriverTypes
      <4>2. old = [gen EXCEPT !.retired = TRUE, !.open = FALSE, !.ack = gen.ack]
        BY <4>1 DEF Retired
      <4> HIDE DEF old
      <4> QED BY <4>2 DEF Generation
    <3>2. gens' = [gens EXCEPT ![active] = old]
      BY <2>2 DEF Promote, PreviousRetired, Listening, DriverAssumption
    <3> HIDE DEF old
    <3> QED BY <1>1, <2>2, <3>1, <3>2 DEF DriverTypes
  <2> QED BY <1>1, <2>1, <2>2 DEF DriverTypes
<1>5. gens[candidate].filter \in SUBSET Uris
  BY <1>1 DEF DriverTypes, Generation
<1>6. DriverTypes'
  BY <1>1, <1>2, <1>3, <1>4, <1>5 DEF DriverTypes
<1>7. OpenUnlessRetired'
  BY <1>4 DEF DriverInv, OpenUnlessRetired
<1>8. NoOrphanListen'
  BY <1>1, <1>2, <1>4 DEF DriverInv, NoOrphanListen
<1>9. CandidateOfTask' /\ KeepsPromise'
  BY <1>1, <1>2, <1>3 DEF CandidateOfTask, KeepsPromise
<1>10. ListenMatchesCallers'
  BY <1>1, <1>2, <1>3, <1>4 DEF ListenMatchesCallers, Delivers, DriverInv, OpenUnlessRetired
<1>11. NotListening' /\ LostWhileInUse' /\ DropIsRetried'
  BY <1>1, <1>2 DEF NotListening, LostWhileInUse, DropIsRetried
<1> QED BY <1>6, <1>7, <1>8, <1>9, <1>10, <1>11 DEF DriverInv

\* A candidate that died is forgotten; a reconnect is scheduled again.
LEMMA ForgetStep ==
  ASSUME DriverAssumption, DriverInv, DeadBeforePromotion \/ CandidateFailed
  PROVE  DriverInv'
<1>1. DriverTypes /\ running # Nobody /\ candidate \in Gens /\ candidate # active
  BY DEF DriverInv, CandidateOfTask, DeadBeforePromotion, CandidateFailed, DriverTypes
<1>2. /\ candidate' = NoGen /\ running' = Nobody
      /\ UNCHANGED <<desired, active, queue, disposed, promised>>
  BY DEF DeadBeforePromotion, CandidateFailed, Forget, history
<1>3. /\ gens' \in [Gens -> Generation]
      /\ \A g \in Gens \ {candidate} : gens'[g] = gens[g]
      /\ ~gens'[candidate].open /\ gens'[candidate].retired
  <2>1. CASE DeadBeforePromotion
    BY <1>1, <2>1 DEF DeadBeforePromotion, Retired, DriverTypes, Generation
  <2>2. CASE CandidateFailed
    BY <1>1, <2>2 DEF CandidateFailed, DriverInv, DriverTypes, OpenUnlessRetired
  <2> QED BY <2>1, <2>2
<1>4. /\ delays' \in Nat /\ lost' \in BOOLEAN /\ (lost' => lost)
      /\ lost' => delays' > 0 \/ (running # Reconnect /\ delays' = delays)
  BY <1>1 DEF DeadBeforePromotion, CandidateFailed, Scheduled, Retries, DriverTypes, history,
              DriverInv, LostWhileInUse
<1>5. DriverTypes'
  BY <1>1, <1>2, <1>3, <1>4 DEF DriverTypes
<1>6. OpenUnlessRetired' /\ NoOrphanListen'
  BY <1>1, <1>2, <1>3 DEF DriverInv, OpenUnlessRetired, NoOrphanListen
<1>7. CandidateOfTask' /\ KeepsPromise'
  BY <1>2 DEF DriverInv, CandidateOfTask, KeepsPromise
<1>8. ListenMatchesCallers' /\ NotListening' /\ LostWhileInUse'
  BY <1>1, <1>2, <1>3, <1>4 DEF DriverInv, ListenMatchesCallers, NotListening, LostWhileInUse,
                                Listening, Delivers, DriverTypes
<1>9. DropIsRetried'
  BY <1>2, <1>4 DEF DriverInv, DropIsRetried
<1> QED BY <1>5, <1>6, <1>7, <1>8, <1>9 DEF DriverInv

LEMMA DisposeStep ==
  ASSUME DriverAssumption, DriverInv, Dispose
  PROVE  DriverInv'
<1>1. DriverTypes
  BY DEF DriverInv
<1>2. /\ disposed' = TRUE /\ active' = NoGen /\ lost' = FALSE
      /\ UNCHANGED <<desired, candidate, queue, running, delays, promised>>
  BY DEF Dispose, queueVars
<1>3. \A g \in Gens :
         /\ gens'[g] \in Generation /\ gens'[g].filter = gens[g].filter
         /\ gens'[g] # gens[g] => ~gens'[g].open /\ gens'[g].retired
         /\ g = active => ~gens'[g].open /\ gens'[g].retired
  <2> TAKE g \in Gens
  <2>1. gens[g] \in Generation
    BY <1>1 DEF DriverTypes
  <2>2. CASE g = candidate /\ Waiting(g)
    <3>1. gens'[g] = Retired(gens[g], "refused")
      BY <2>2 DEF Dispose
    <3> QED BY <2>1, <3>1 DEF Retired, Generation
  <2>3. CASE ~(g = candidate /\ Waiting(g)) /\ g = active
    <3>1. gens'[g] = Retired(gens[g], "acked")
      BY <2>3 DEF Dispose
    <3> QED BY <2>1, <3>1 DEF Retired, Generation
  <2>4. CASE ~(g = candidate /\ Waiting(g)) /\ g # active
    BY <2>1, <2>4 DEF Dispose
  <2> QED BY <2>2, <2>3, <2>4
<1>4. gens' \in [Gens -> Generation]
  BY <1>3 DEF Dispose
<1>5. DriverTypes'
  BY <1>1, <1>2, <1>4 DEF DriverTypes
<1>6. OpenUnlessRetired' /\ NoOrphanListen'
  BY <1>2, <1>3 DEF DriverInv, OpenUnlessRetired, NoOrphanListen
<1>7. CandidateOfTask' /\ KeepsPromise'
  BY <1>1, <1>2, <1>3 DEF DriverInv, CandidateOfTask, KeepsPromise, Target, Changed, DriverTypes
<1>8. ListenMatchesCallers' /\ NotListening' /\ LostWhileInUse' /\ DropIsRetried'
  BY <1>2 DEF ListenMatchesCallers, NotListening, LostWhileInUse, DropIsRetried, Listening
<1> QED BY <1>5, <1>6, <1>7, <1>8 DEF DriverInv

-----------------------------------------------------------------------------
LEMMA DriverStep == DriverAssumption /\ DriverInv /\ [Next]_vars => DriverInv'
<1> SUFFICES ASSUME DriverAssumption, DriverInv, [Next]_vars PROVE DriverInv'
  OBVIOUS
<1>1. CASE UNCHANGED vars
  BY <1>1, QueueStep DEF vars, history, DriverInv, DriverTypes, RetryQueued
<1> QED
  BY <1>1, QueueSteps, OpenStep, WaitingSteps, SettlesStep, PromoteStep, ForgetStep, DisposeStep
     DEF Next, Resume

THEOREM DriverInvariant == Spec => []DriverInv
<1>1. Init => DriverInv
  BY DriverInitially, DriverAssumption
<1>2. DriverInv /\ [Next]_vars => DriverInv'
  BY DriverStep, DriverAssumption
<1> QED BY <1>1, <1>2, PTL DEF Spec

\* However calls, drops, timeouts and dispose() interleave, every listen that
\* is open is one the driver still knows and can end.
THEOREM NoListenIsOrphaned == Spec => []NoOrphanListen
<1>1. DriverInv => NoOrphanListen
  BY DEF DriverInv
<1> QED BY <1>1, DriverInvariant, PTL

\* The stream in use carries what the calls that resolved asked for.
THEOREM ListenKeepsPromises == Spec => []ListenMatchesCallers
<1>1. DriverInv => ListenMatchesCallers
  BY DEF DriverInv
<1> QED BY <1>1, DriverInvariant, PTL

\* A dropped stream is never forgotten.
THEOREM DropsAreRetried == Spec => []DropIsRetried
<1>1. DriverInv => DropIsRetried
  BY DEF DriverInv
<1> QED BY <1>1, DriverInvariant, PTL

(***************************************************************************)
(*                                 The hub                                 *)
(***************************************************************************)

Listen == [stage : Stages, wants : SUBSET Events, entry : {"none", "registered", "removed"},
           terminal : {"pending", "resolved", "rejected"}, aborted : BOOLEAN,
           completing : BOOLEAN, queue : Seq(Events), flight : Events \cup {Ack, None},
           failed : BOOLEAN, checking : SUBSET Events,
           sent : Seq(Events \cup {Ack, Terminal}), owed : SUBSET Events]

\* Only the acknowledgement is written before a stream is registered, and its
\* writer cannot have failed without the stage saying so.
Unregistered(x) ==
    /\ x.entry = "none" <=> x.stage \in {"none", "acking", "acked", "refused"}
    /\ x.flight = Ack <=> x.stage = "acking"
    /\ x.stage \in {"none", "acking", "acked"} => ~x.failed /\ x.queue = <<>> /\ x.terminal = "pending"
    /\ x.stage \in {"none", "acked"} => x.flight = None

\* The two properties, for one listen.
Served(x) ==
    x.entry = "registered" =>
        /\ x.stage \in {"returning", "held"}
        /\ x.terminal = "pending"
        /\ ~x.aborted /\ ~x.failed
Kept(x) ==
    /\ ~x.failed => x.owed \subseteq ToSet(x.sent) \cup ToSet(x.queue) \cup {x.flight}
    /\ Pending(x) <= MaxPending

Sound(x) == x \in Listen /\ Unregistered(x) /\ Served(x) /\ Kept(x)

HubInv == /\ sub \in [Listens -> Listen] /\ emitted \in Nat
          /\ \A l \in Listens : Sound(sub[l])

-----------------------------------------------------------------------------
(* Sequences. *)

LEMMA ToSetAppend ==
  ASSUME NEW S, NEW s \in Seq(S), NEW e \in S
  PROVE  Append(s, e) \in Seq(S) /\ ToSet(Append(s, e)) = ToSet(s) \cup {e}
<1>1. DOMAIN Append(s, e) = DOMAIN s \cup {Len(s) + 1} /\ Append(s, e)[Len(s) + 1] = e
  BY LenProperties
<1>2. \A i \in DOMAIN s : Append(s, e)[i] = s[i]
  OBVIOUS
<1> QED BY <1>1, <1>2 DEF ToSet

LEMMA ToSetTail ==
  ASSUME NEW S, NEW s \in Seq(S), s # <<>>
  PROVE  /\ Head(s) \in S /\ Tail(s) \in Seq(S)
         /\ Len(Tail(s)) = Len(s) - 1 /\ Len(s) \in Nat
         /\ ToSet(s) = ToSet(Tail(s)) \cup {Head(s)}
<1>1. /\ Head(s) \in S /\ Tail(s) \in Seq(S) /\ Len(Tail(s)) = Len(s) - 1 /\ Len(s) \in Nat
      /\ \A i \in 1 .. Len(Tail(s)) : Tail(s)[i] = s[i + 1]
  BY HeadTailProperties, LenProperties
<1>2. Head(s) = s[1] /\ Len(s) > 0
  BY EmptySeq
<1>3. \A i \in DOMAIN s : i = 1 \/ (i - 1 \in DOMAIN Tail(s) /\ Tail(s)[i - 1] = s[i])
  BY <1>1
<1>4. \A i \in DOMAIN Tail(s) : i + 1 \in DOMAIN s /\ Tail(s)[i] = s[i + 1]
  BY <1>1
<1>5. 1 \in DOMAIN s
  BY <1>1, <1>2
<1>6. ToSet(s) = ToSet(Tail(s)) \cup {Head(s)}
  <2>1. ASSUME NEW e \in ToSet(s) PROVE e \in ToSet(Tail(s)) \cup {Head(s)}
    BY <1>2, <1>3, <2>1 DEF ToSet
  <2>2. ASSUME NEW e \in ToSet(Tail(s)) PROVE e \in ToSet(s)
    BY <1>4, <2>2 DEF ToSet
  <2>3. Head(s) \in ToSet(s)
    BY <1>2, <1>5 DEF ToSet
  <2> QED BY <2>1, <2>2, <2>3
<1> QED BY <1>1, <1>6

LEMMA ToSetEmpty == ToSet(<<>>) = {} /\ Len(<<>>) = 0 /\ \A S : <<>> \in Seq(S)
  BY DEF ToSet

-----------------------------------------------------------------------------
(* What the operations on one listen do to it. *)

\* The frames a listen has: written, queued or in flight.
Holding(x) == ToSet(x.sent) \cup ToSet(x.queue) \cup {x.flight}

\* Nothing but the backlog differs.
OnlyBacklog(x, y) ==
    /\ y.stage = x.stage /\ y.entry = x.entry /\ y.terminal = x.terminal
    /\ y.aborted = x.aborted /\ y.failed = x.failed /\ y.sent = x.sent /\ y.owed = x.owed

LEMMA FrameFacts ==
  HubAssumption => /\ Ack \notin Events /\ None \notin Events /\ Terminal \notin Events
                   /\ Ack # None /\ Ack # Terminal /\ None # Terminal
  BY DEF HubAssumption, Ack, None, Terminal, Events

\* #drain moves the first frame of the queue into flight and loses none.
LEMMA DrainedKeeps ==
  ASSUME HubAssumption, NEW x \in Listen
  PROVE  /\ Drained(x) \in Listen /\ OnlyBacklog(x, Drained(x))
         /\ Pending(Drained(x)) = Pending(x)
         /\ \A e \in Events : e \in Holding(x) => e \in Holding(Drained(x))
         /\ Drained(x).flight \in {x.flight} \cup Events
         /\ x.queue = <<>> => Drained(x) = x
<1>1. CASE x.flight = None /\ ~x.failed /\ x.queue # <<>>
  <2> DEFINE y == [x EXCEPT !.flight = Head(x.queue), !.queue = Tail(x.queue)]
  <2>1. Drained(x) = y
    BY <1>1 DEF Drained
  <2>2. x.queue \in Seq(Events)
    BY DEF Listen
  <2>3. /\ Head(x.queue) \in Events /\ Tail(x.queue) \in Seq(Events)
        /\ Len(Tail(x.queue)) = Len(x.queue) - 1 /\ Len(x.queue) \in Nat
        /\ ToSet(x.queue) = ToSet(Tail(x.queue)) \cup {Head(x.queue)}
    BY <1>1, <2>2, ToSetTail
  <2>4. y \in Listen
    BY <2>3 DEF Listen
  <2>5. /\ OnlyBacklog(x, y) /\ y.flight = Head(x.queue) /\ y.queue = Tail(x.queue)
    BY DEF OnlyBacklog, Listen
  <2> HIDE DEF y
  <2>6. Pending(y) = Pending(x)
    <3>1. Pending(x) = Len(x.queue)
      BY <1>1, <2>3 DEF Pending
    <3>2. y.flight # None
      BY <2>3, <2>5, FrameFacts
    <3>3. Pending(y) = Len(Tail(x.queue)) + 1
      BY <2>5, <3>2 DEF Pending
    <3> QED BY <2>3, <3>1, <3>3
  <2>7. \A e \in Events : e \in Holding(x) => e \in Holding(y)
    BY <1>1, <2>3, <2>5, FrameFacts DEF Holding, OnlyBacklog
  <2> QED BY <1>1, <2>1, <2>3, <2>4, <2>5, <2>6, <2>7 DEF y
<1>2. CASE ~(x.flight = None /\ ~x.failed /\ x.queue # <<>>)
  <2>1. Drained(x) = x
    BY <1>2 DEF Drained
  <2> QED BY <2>1 DEF OnlyBacklog
<1> QED BY <1>1, <1>2

LEMMA PendingIsNat ==
  ASSUME NEW x \in Listen
  PROVE  Pending(x) \in Nat /\ (x.queue = <<>> => Pending(x) <= 1)
<1>1. x.queue \in Seq(Events)
  BY DEF Listen
<1>2. Len(x.queue) \in Nat
  BY <1>1, LenProperties
<1>3. x.queue = <<>> => Len(x.queue) = 0
  BY ToSetEmpty
<1>4. Pending(x) = Len(x.queue) \/ Pending(x) = Len(x.queue) + 1
  <2>1. CASE x.flight = None
    BY <1>2, <2>1 DEF Pending
  <2>2. CASE x.flight # None
    BY <1>2, <2>2 DEF Pending
  <2> QED BY <2>1, <2>2
<1> QED BY <1>2, <1>3, <1>4

\* The first of complete() and close() decides; both unregister the entry.
LEMMA TornDownFields ==
  ASSUME NEW x \in Listen
  PROVE  /\ TornDown(x) \in Listen
         /\ TornDown(x).entry = IF x.entry = "none" THEN "none" ELSE "removed"
         /\ x.entry = "none" => TornDown(x) = x
         /\ TornDown(x).stage = x.stage /\ TornDown(x).failed = x.failed
         /\ TornDown(x).queue = x.queue /\ TornDown(x).flight = x.flight
         /\ TornDown(x).sent = x.sent /\ TornDown(x).owed = x.owed
  BY DEF TornDown, Listen

\* Unregistering a listen makes it sound, whatever unregisters it.
LEMMA TornDownSound ==
  ASSUME NEW x \in Listen, Unregistered(x), Kept(x)
  PROVE  Sound(TornDown(x))
<1>2. Unregistered(TornDown(x))
  BY TornDownFields DEF Unregistered
<1>3. Served(TornDown(x)) /\ Kept(TornDown(x))
  BY TornDownFields DEF Served, Kept, Pending
<1> QED BY <1>2, <1>3, TornDownFields DEF Sound

LEMMA CompletedSound ==
  ASSUME NEW x \in Listen, Unregistered(x), Kept(x)
  PROVE  Sound(Completed(x)) /\ Completed(x).aborted = x.aborted
<1>2. CASE x.entry # "registered"
  BY <1>2 DEF Completed, Sound, Served
<1>3. CASE x.entry = "registered"
  <2> DEFINE y == [x EXCEPT !.entry = "removed", !.terminal = "resolved", !.completing = TRUE]
  <2>1. /\ Completed(x) = y /\ y \in Listen /\ y.entry = "removed"
        /\ y.stage = x.stage /\ y.failed = x.failed /\ y.queue = x.queue /\ y.aborted = x.aborted
        /\ y.flight = x.flight /\ y.sent = x.sent /\ y.owed = x.owed
    BY <1>3 DEF Completed, Listen
  <2> HIDE DEF y
  <2>2. Unregistered(y)
    BY <1>3, <2>1 DEF Unregistered
  <2>3. Served(y) /\ Kept(y)
    BY <2>1 DEF Served, Kept, Pending
  <2> QED BY <2>1, <2>2, <2>3 DEF Sound
<1> QED BY <1>2, <1>3

\* A writer that fails rejects its queue and unregisters its stream.
LEMMA FailedFields ==
  ASSUME NEW x \in Listen
  PROVE  /\ Failed(x) \in Listen /\ Failed(x).failed
         /\ Failed(x).stage = x.stage /\ Failed(x).flight = x.flight
         /\ ~x.failed => Failed(x).entry # "registered" /\ Failed(x).queue = <<>>
         /\ x.failed => Failed(x) = x
         /\ Failed(x).entry = "none" <=> x.entry = "none"
<1>1. CASE x.failed
  BY <1>1 DEF Failed, Listen
<1>2. CASE ~x.failed
  <2> DEFINE z == [x EXCEPT !.failed = TRUE, !.queue = <<>>]
  <2>1. <<>> \in Seq(Events)
    OBVIOUS
  <2>2. /\ Failed(x) = TornDown(z)
    BY <1>2 DEF Failed, Stopped
  <2>3. /\ z \in Listen /\ z.failed = TRUE /\ z.queue = <<>> /\ z.stage = x.stage
        /\ z.flight = x.flight /\ z.entry = x.entry
    BY <2>1 DEF Listen
  <2> HIDE DEF z
  <2> QED BY <1>2, <2>2, <2>3, TornDownFields
<1> QED BY <1>1, <1>2

\* Delivering an event to a registered stream: it is queued, or the backlog is
\* full and the writer gives up.
LEMMA DeliveredSound ==
  ASSUME HubAssumption, NEW x, Sound(x), x.entry = "registered", NEW e \in Events
  PROVE  Sound(Delivered(x, e))
<1> DEFINE z == [x EXCEPT !.owed = @ \cup {e}]
<1>1. x \in Listen /\ ~x.failed /\ x.stage \in {"returning", "held"}
  BY DEF Sound, Served
<1>2. /\ z \in Listen /\ z.owed = x.owed \cup {e} /\ z.stage = x.stage /\ z.entry = x.entry
      /\ z.terminal = x.terminal /\ z.aborted = x.aborted /\ z.failed = x.failed
      /\ z.queue = x.queue /\ z.flight = x.flight /\ z.sent = x.sent
  BY <1>1 DEF Listen
<1>3. Delivered(x, e) = Enqueued(z, e)
  BY DEF Delivered
<1> HIDE DEF z
<1>4. CASE Full(z)
  <2>1. Delivered(x, e) = Failed(z)
    BY <1>1, <1>2, <1>3, <1>4 DEF Enqueued
  <2>2. /\ Failed(z) \in Listen /\ Failed(z).failed /\ Failed(z).stage = x.stage
        /\ Failed(z).flight = x.flight /\ Failed(z).entry \notin {"registered", "none"}
        /\ Failed(z).queue = <<>>
    BY <1>1, <1>2, FailedFields
  <2>3. Unregistered(Failed(z)) /\ Served(Failed(z))
    BY <1>1, <2>2 DEF Sound, Unregistered, Served
  <2>4. Pending(Failed(z)) <= MaxPending
    BY <2>2, PendingIsNat DEF HubAssumption
  <2> QED BY <2>1, <2>2, <2>3, <2>4 DEF Sound, Kept
<1>5. CASE ~Full(z)
  <2> DEFINE w == [z EXCEPT !.queue = Append(@, e)]
  <2>1. Delivered(x, e) = Drained(w)
    BY <1>1, <1>2, <1>3, <1>5 DEF Enqueued
  <2>2. /\ z.queue \in Seq(Events) /\ Append(z.queue, e) \in Seq(Events)
        /\ ToSet(Append(z.queue, e)) = ToSet(z.queue) \cup {e}
        /\ Len(Append(z.queue, e)) = Len(z.queue) + 1
    BY <1>2, ToSetAppend, AppendProperties DEF Listen
  <2>3. /\ w \in Listen /\ w.queue = Append(z.queue, e) /\ OnlyBacklog(z, w)
        /\ w.flight = z.flight
    BY <1>2, <2>2 DEF Listen, OnlyBacklog
  <2> HIDE DEF w
  <2>4. Pending(w) = Pending(z) + 1 /\ Pending(z) < MaxPending
    <3>1. Len(z.queue) \in Nat /\ Pending(z) \in Nat
      BY <1>2, <2>2, PendingIsNat, LenProperties
    <3>2. Pending(z) < MaxPending
      BY <1>5, <3>1 DEF Full, HubAssumption
    <3>3. Pending(w) = Pending(z) + 1
      <4>1. Len(w.queue) = Len(z.queue) + 1 /\ w.flight = z.flight
        BY <2>2, <2>3
      <4>2. CASE z.flight = None
        BY <3>1, <4>1, <4>2 DEF Pending
      <4>3. CASE z.flight # None
        BY <3>1, <4>1, <4>3 DEF Pending
      <4> QED BY <4>2, <4>3
    <3> QED BY <3>2, <3>3
  <2>5. \A f \in z.owed : f \in Holding(w)
    BY <1>1, <1>2, <2>2, <2>3 DEF Sound, Kept, Holding, OnlyBacklog
  <2> DEFINE y == Drained(w)
  <2>6. /\ y \in Listen /\ OnlyBacklog(w, y) /\ Pending(y) = Pending(w)
        /\ \A f \in Events : f \in Holding(w) => f \in Holding(y)
        /\ y.flight \in {w.flight} \cup Events
    BY <2>3, DrainedKeeps
  <2> HIDE DEF y
  <2>7. Unregistered(y) /\ Served(y)
    BY <1>1, <1>2, <2>3, <2>6, FrameFacts DEF Sound, Unregistered, Served, OnlyBacklog
  <2>8. y.owed \subseteq Holding(y)
    BY <1>2, <2>3, <2>5, <2>6 DEF OnlyBacklog, Listen
  <2>9. Pending(y) <= MaxPending
    BY <1>2, <2>4, <2>6, PendingIsNat DEF HubAssumption
  <2> QED BY <2>1, <2>6, <2>7, <2>8, <2>9 DEF Sound, Kept, Holding, y
<1> QED BY <1>4, <1>5

\* What the owner check has decided is nothing the properties ask for.
LEMMA CheckingSound ==
  ASSUME NEW x, Sound(x), NEW C \in SUBSET Events
  PROVE  Sound([x EXCEPT !.checking = C]) /\ [x EXCEPT !.checking = C].entry = x.entry
<1> DEFINE y == [x EXCEPT !.checking = C]
<1>1. /\ y \in Listen /\ y.stage = x.stage /\ y.entry = x.entry /\ y.terminal = x.terminal
      /\ y.aborted = x.aborted /\ y.failed = x.failed /\ y.queue = x.queue
      /\ y.flight = x.flight /\ y.sent = x.sent /\ y.owed = x.owed
  BY DEF Sound, Listen
<1> HIDE DEF y
<1>2. Sound(y) /\ y.entry = x.entry
  BY <1>1 DEF Sound, Unregistered, Served, Kept, Pending
<1> QED BY <1>2 DEF y

-----------------------------------------------------------------------------
(* The steps of one listen. *)

LEMMA OneListen ==
  ASSUME HubInv, NEW l \in Listens, NEW x, Sound(x), Update(l, x), emitted' \in Nat
  PROVE  HubInv'
<1>1. \A k \in Listens : sub'[k] = IF k = l THEN x ELSE sub[k]
  BY DEF HubInv, Update
<1>2. sub' \in [Listens -> Listen]
  BY <1>1 DEF HubInv, Update, Sound
<1>3. \A k \in Listens : Sound(sub'[k])
  BY <1>1 DEF HubInv
<1> QED BY <1>2, <1>3 DEF HubInv, Sound, Unregistered, Served, Kept

\* The acknowledgement goes straight into flight.
LEMMA BeginStep ==
  ASSUME HubAssumption, HubInv, NEW l \in Listens, NEW wants \in Filters, BeginListen(l, wants)
  PROVE  HubInv'
<1> DEFINE x == sub[l]
           z == [x EXCEPT !.stage = "acking", !.wants = wants]
           w == [z EXCEPT !.queue = Append(@, Ack)]
           y == [w EXCEPT !.flight = Head(w.queue), !.queue = Tail(w.queue)]
<1>1. /\ x \in Listen /\ Unregistered(x) /\ Kept(x) /\ x.stage = "none" /\ emitted' \in Nat
  BY DEF HubInv, Sound, BeginListen
<1>2. ~x.failed /\ x.queue = <<>> /\ x.flight = None /\ x.entry = "none" /\ x.terminal = "pending"
  BY <1>1 DEF Unregistered
<1> HIDE DEF x
<1>3. /\ z.stage = "acking" /\ z.wants = wants /\ z.entry = "none" /\ z.terminal = "pending"
      /\ z.queue = <<>> /\ z.flight = None /\ ~z.failed /\ z.sent = x.sent /\ z.owed = x.owed
      /\ z \in Listen
  BY <1>1, <1>2 DEF Listen, Stages, HubAssumption
<1> HIDE DEF z
<1>4. /\ w.queue = <<Ack>> /\ w.flight = None /\ ~w.failed
  <2>1. w.queue = Append(z.queue, Ack) /\ w.flight = z.flight /\ w.failed = z.failed
    BY <1>3 DEF Listen
  <2>2. Append(<<>>, Ack) = <<Ack>>
    OBVIOUS
  <2> QED BY <1>3, <2>1, <2>2
<1>5. w.queue # <<>> /\ Head(w.queue) = Ack /\ Tail(w.queue) = <<>>
  <2>1. <<Ack>> # <<>> /\ Head(<<Ack>>) = Ack
    OBVIOUS
  <2>2. Tail(<<Ack>>) = <<>>
    OBVIOUS
  <2> QED BY <1>4, <2>1, <2>2
<1>6. /\ y.stage = "acking" /\ y.entry = "none" /\ y.terminal = "pending"
      /\ y.queue = <<>> /\ y.flight = Ack /\ ~y.failed /\ y.sent = x.sent /\ y.owed = x.owed
      /\ y \in Listen
  BY <1>3, <1>5, ToSetEmpty DEF Listen
<1>7. ~Full(z)
  BY <1>3, ToSetEmpty DEF Full, Pending, HubAssumption
<1>8. Enqueued(z, Ack) = y
  BY <1>3, <1>4, <1>5, <1>7 DEF Enqueued, Drained
<1>9. Update(l, y)
  BY <1>8 DEF BeginListen, x, z
<1> HIDE DEF w, y
<1>10. Unregistered(y) /\ Served(y)
  BY <1>6, FrameFacts DEF Unregistered, Served
<1>11. y.owed \subseteq ToSet(y.sent) \cup ToSet(y.queue) \cup {y.flight}
  BY <1>1, <1>2, <1>6, FrameFacts DEF Kept, Listen
<1>12. Pending(y) <= MaxPending
  BY <1>6, PendingIsNat DEF HubAssumption
<1> QED BY <1>1, <1>6, <1>9, <1>10, <1>11, <1>12, OneListen DEF Sound, Kept

\* A frame is written: nothing owed is lost on the way from flight to sent.
LEMMA WrittenStep ==
  ASSUME HubAssumption, HubInv, NEW l \in Listens, FrameWritten(l)
  PROVE  HubInv'
<1> DEFINE x == sub[l]
           z == [x EXCEPT !.sent = Append(@, x.flight), !.flight = None,
                          !.stage = IF x.flight = Ack THEN "acked" ELSE @]
           y == Drained(z)
<1>1. /\ x \in Listen /\ Unregistered(x) /\ Served(x) /\ Kept(x) /\ x.flight # None
      /\ emitted' \in Nat
  BY DEF HubInv, Sound, FrameWritten
<1>2. Update(l, y)
  BY DEF FrameWritten
<1> HIDE DEF x
<1>3. /\ x.sent \in Seq(Events \cup {Ack, Terminal}) /\ x.flight \in Events \cup {Ack}
  BY <1>1 DEF Listen
<1>4. /\ Append(x.sent, x.flight) \in Seq(Events \cup {Ack, Terminal})
      /\ ToSet(Append(x.sent, x.flight)) = ToSet(x.sent) \cup {x.flight}
  BY <1>3, ToSetAppend
<1>5. /\ z \in Listen /\ z.sent = Append(x.sent, x.flight) /\ z.flight = None
      /\ z.stage = (IF x.flight = Ack THEN "acked" ELSE x.stage) /\ z.entry = x.entry
      /\ z.terminal = x.terminal /\ z.aborted = x.aborted /\ z.failed = x.failed
      /\ z.queue = x.queue /\ z.owed = x.owed
  BY <1>1, <1>4 DEF Listen, Stages
<1> HIDE DEF z
<1>6. /\ y \in Listen /\ OnlyBacklog(z, y) /\ Pending(y) = Pending(z)
      /\ \A e \in Events : e \in Holding(z) => e \in Holding(y)
      /\ y.flight \in {None} \cup Events
      /\ z.queue = <<>> => y = z
  BY <1>5, DrainedKeeps
<1> HIDE DEF y
<1>7. Unregistered(y)
  BY <1>1, <1>5, <1>6, FrameFacts DEF Unregistered, OnlyBacklog
<1>8. Served(y)
  BY <1>1, <1>5, <1>6 DEF Served, Unregistered, OnlyBacklog
<1>9. ~y.failed => y.owed \subseteq Holding(y)
  BY <1>1, <1>4, <1>5, <1>6 DEF Kept, Holding, OnlyBacklog, Listen
<1>10. Pending(y) <= MaxPending
  <2>1. Pending(x) = Pending(z) + 1 /\ Pending(z) \in Nat
    <3>1. Len(x.queue) \in Nat
      BY <1>1, LenProperties DEF Listen
    <3> QED BY <1>1, <1>5, <3>1 DEF Pending
  <2> QED BY <1>1, <1>6, <2>1 DEF Kept, HubAssumption
<1> QED BY <1>1, <1>2, <1>6, <1>7, <1>8, <1>9, <1>10, OneListen DEF Sound, Kept, Holding

\* A write that is rejected fails the writer.
LEMMA RejectedStep ==
  ASSUME HubAssumption, HubInv, NEW l \in Listens, FrameRejected(l)
  PROVE  HubInv'
<1> DEFINE x == sub[l]
           z == [x EXCEPT !.flight = None, !.stage = IF x.flight = Ack THEN "refused" ELSE @]
           y == Failed(z)
<1>1. /\ x \in Listen /\ Unregistered(x) /\ Served(x) /\ Kept(x) /\ x.flight # None
      /\ emitted' \in Nat
  BY DEF HubInv, Sound, FrameRejected
<1>2. Update(l, y)
  BY DEF FrameRejected
<1> HIDE DEF x
<1>3. /\ z \in Listen /\ z.flight = None
      /\ z.stage = (IF x.flight = Ack THEN "refused" ELSE x.stage) /\ z.entry = x.entry
      /\ z.failed = x.failed /\ z.queue = x.queue
  BY <1>1 DEF Listen, Stages
<1> HIDE DEF z
<1>4. /\ y \in Listen /\ y.failed /\ y.stage = z.stage /\ y.flight = z.flight
      /\ ~z.failed => y.entry # "registered" /\ y.queue = <<>>
      /\ z.failed => y = z
      /\ y.entry = "none" <=> z.entry = "none"
  BY <1>3, FailedFields
<1> HIDE DEF y
<1>5. Unregistered(y) /\ Served(y)
  BY <1>1, <1>3, <1>4, FrameFacts DEF Unregistered, Served
<1>6. Pending(y) <= MaxPending
  <2>1. CASE z.failed
    <3>1. Len(x.queue) \in Nat
      BY <1>1, LenProperties DEF Listen
    <3>2. Pending(x) = Pending(z) + 1 /\ Pending(z) \in Nat
      BY <1>1, <1>3, <3>1 DEF Pending
    <3> QED BY <1>1, <1>4, <2>1, <3>2 DEF Kept, HubAssumption
  <2>2. CASE ~z.failed
    BY <1>4, <2>2, PendingIsNat DEF HubAssumption
  <2> QED BY <2>1, <2>2
<1> QED BY <1>1, <1>2, <1>4, <1>5, <1>6, OneListen DEF Sound, Kept

\* The entry is registered, completed if the hub is ending, and torn down if
\* the request was aborted while the acknowledgement was written.
LEMMA RegisterStep ==
  ASSUME HubAssumption, HubInv, NEW l \in Listens, Register(l)
  PROVE  HubInv'
<1> DEFINE x == sub[l]
           z == [x EXCEPT !.entry = "registered", !.stage = "returning"]
           late == IF ending THEN Completed(z) ELSE z
           y == IF late.aborted THEN TornDown(late) ELSE late
<1>1. /\ x \in Listen /\ Unregistered(x) /\ Kept(x) /\ x.stage = "acked" /\ emitted' \in Nat
  BY DEF HubInv, Sound, Register
<1>2. Update(l, y)
  BY DEF Register
<1> HIDE DEF x
<1>3. /\ z \in Listen /\ z.entry = "registered" /\ z.stage = "returning"
      /\ z.terminal = "pending" /\ z.flight = x.flight /\ ~z.failed /\ z.queue = x.queue
      /\ z.sent = x.sent /\ z.owed = x.owed
  BY <1>1 DEF Unregistered, Listen, Stages
<1> HIDE DEF z
<1>4. Unregistered(z) /\ Kept(z)
  BY <1>1, <1>3 DEF Unregistered, Kept, Pending
<1>5. Sound(Completed(z)) /\ Completed(z).aborted = z.aborted /\ Sound(TornDown(z))
  BY <1>3, <1>4, CompletedSound, TornDownSound
<1>6. ~z.aborted => Sound(z)
  BY <1>3, <1>4 DEF Sound, Served
<1>7. Sound(TornDown(Completed(z)))
  BY <1>5, TornDownSound DEF Sound
<1>8. Sound(y)
  BY <1>5, <1>6, <1>7
<1> HIDE DEF y
<1> QED BY <1>1, <1>2, <1>8, OneListen

\* A listen moves from one stage to the next, or ends.
LEMMA StageStep ==
  ASSUME HubAssumption, HubInv, NEW l \in Listens,
         Hold(l) \/ TerminalWins(l) \/ TerminalRejects(l)
  PROVE  HubInv'
<1> DEFINE x == sub[l]
<1>1. /\ x \in Listen /\ Unregistered(x) /\ Served(x) /\ Kept(x) /\ emitted' \in Nat
      /\ x.stage \in {"returning", "held"}
  BY DEF HubInv, Sound, Hold, TerminalWins, TerminalRejects
<1>2. ASSUME NEW y \in Listen, Update(l, y), y.stage \in {"held", "claimed", "over"},
             x.entry = "registered" => y.stage = "held",
             y.entry = x.entry, y.terminal = x.terminal, y.aborted = x.aborted,
             y.failed = x.failed, y.queue = x.queue, y.flight = x.flight, y.sent = x.sent,
             y.owed = x.owed
      PROVE  HubInv'
  <2> HIDE DEF x
  <2>1. Unregistered(y) /\ Served(y) /\ Kept(y)
    BY <1>1, <1>2 DEF Unregistered, Served, Kept, Pending
  <2> QED BY <1>1, <1>2, <2>1, OneListen DEF Sound
<1>3. CASE Hold(l)
  <2> DEFINE y == [x EXCEPT !.stage = IF x.aborted THEN "over" ELSE "held"]
  <2>1. Update(l, y)
    BY <1>3 DEF Hold
  <2> HIDE DEF x
  <2>2. /\ y \in Listen /\ y.stage = (IF x.aborted THEN "over" ELSE "held")
        /\ y.entry = x.entry /\ y.terminal = x.terminal /\ y.aborted = x.aborted
        /\ y.failed = x.failed /\ y.queue = x.queue /\ y.flight = x.flight /\ y.sent = x.sent
        /\ y.owed = x.owed
    BY <1>1 DEF Listen, Stages
  <2>3. x.entry = "registered" => y.stage = "held"
    BY <1>1, <2>2 DEF Served
  <2> HIDE DEF y
  <2> QED BY <1>2, <2>1, <2>2, <2>3
<1>4. CASE TerminalWins(l)
  <2> DEFINE y == [x EXCEPT !.stage = "claimed"]
  <2>1. Update(l, y) /\ x.terminal = "resolved"
    BY <1>4 DEF TerminalWins
  <2> HIDE DEF x
  <2>2. /\ y \in Listen /\ y.stage = "claimed"
        /\ y.entry = x.entry /\ y.terminal = x.terminal /\ y.aborted = x.aborted
        /\ y.failed = x.failed /\ y.queue = x.queue /\ y.flight = x.flight /\ y.sent = x.sent
        /\ y.owed = x.owed
    BY <1>1 DEF Listen, Stages
  <2>3. x.entry # "registered"
    BY <1>1, <2>1 DEF Served
  <2> HIDE DEF y
  <2> QED BY <1>2, <2>1, <2>2, <2>3
<1>5. CASE TerminalRejects(l)
  <2> DEFINE y == Released(x)
  <2>1. Update(l, y) /\ x.terminal = "rejected"
    BY <1>5 DEF TerminalRejects
  <2> HIDE DEF x
  <2>2. /\ y \in Listen /\ y.stage = "over"
        /\ y.entry = x.entry /\ y.terminal = x.terminal /\ y.aborted = x.aborted
        /\ y.failed = x.failed /\ y.queue = x.queue /\ y.flight = x.flight /\ y.sent = x.sent
        /\ y.owed = x.owed
    BY <1>1 DEF Listen, Stages, Released
  <2>3. x.entry # "registered"
    BY <1>1, <2>1 DEF Served
  <2> HIDE DEF y
  <2> QED BY <1>2, <2>1, <2>2, <2>3
<1> QED BY <1>3, <1>4, <1>5

\* Letting go of the held response of a listen that is no longer registered.
LEMMA ReleasedSound ==
  ASSUME NEW x, Sound(x), x.entry = "removed"
  PROVE  Sound(Released(x))
<1> DEFINE y == Released(x)
<1>1. /\ x \in Listen /\ y \in Listen /\ y.stage = "over" /\ y.entry = x.entry
      /\ y.failed = x.failed /\ y.queue = x.queue /\ y.flight = x.flight /\ y.sent = x.sent
      /\ y.owed = x.owed
  BY DEF Sound, Listen, Stages, Released
<1> HIDE DEF y
<1>2. Unregistered(y) /\ Served(y) /\ Kept(y)
  BY <1>1 DEF Sound, Unregistered, Served, Kept, Pending
<1> QED BY <1>1, <1>2 DEF Sound, y

LEMMA WriteTerminalStep ==
  ASSUME HubAssumption, HubInv, NEW l \in Listens, WriteTerminal(l)
  PROVE  HubInv'
<1> DEFINE x == sub[l]
           z == [x EXCEPT !.sent = Append(@, Terminal)]
<1>1. /\ x \in Listen /\ Unregistered(x) /\ Served(x) /\ Kept(x) /\ x.stage = "claimed"
      /\ Update(l, Released(z)) /\ emitted' \in Nat
  BY DEF HubInv, Sound, WriteTerminal
<1> HIDE DEF x
<1>2. /\ Append(x.sent, Terminal) \in Seq(Events \cup {Ack, Terminal})
      /\ ToSet(Append(x.sent, Terminal)) = ToSet(x.sent) \cup {Terminal}
  <2>1. x.sent \in Seq(Events \cup {Ack, Terminal})
    BY <1>1 DEF Listen
  <2> QED BY <2>1, ToSetAppend
<1>3. x.entry = "removed"
  BY <1>1 DEF Unregistered, Served, Listen
<1>4. /\ z \in Listen /\ z.stage = "claimed" /\ z.entry = "removed" /\ z.failed = x.failed
      /\ z.queue = x.queue /\ z.flight = x.flight /\ z.sent = Append(x.sent, Terminal)
      /\ z.owed = x.owed
  BY <1>1, <1>2, <1>3 DEF Listen
<1> HIDE DEF z
<1>5. Unregistered(z) /\ Served(z) /\ Kept(z)
  BY <1>1, <1>2, <1>3, <1>4 DEF Unregistered, Served, Kept, Pending
<1>6. Sound(Released(z))
  BY <1>4, <1>5, ReleasedSound DEF Sound
<1> QED BY <1>1, <1>6, OneListen

\* A cancellation leaves nothing registered.
LEMMA CancelStep ==
  ASSUME HubAssumption, HubInv, NEW l \in Listens, Cancel(l)
  PROVE  HubInv'
<1> DEFINE x == sub[l]
           z == [x EXCEPT !.aborted = TRUE]
           y == CASE x.stage = "held" -> Released(TornDown(z))
                  [] x.stage = "returning" -> TornDown(z)
                  [] OTHER -> z
<1>1. /\ x \in Listen /\ Unregistered(x) /\ Served(x) /\ Kept(x) /\ emitted' \in Nat
      /\ Update(l, y) /\ x.stage \in {"acking", "acked", "returning", "held", "claimed"}
  BY DEF HubInv, Sound, Cancel
<1> HIDE DEF x
<1>2. /\ z \in Listen /\ z.stage = x.stage /\ z.entry = x.entry /\ z.terminal = x.terminal
      /\ z.failed = x.failed /\ z.queue = x.queue /\ z.flight = x.flight /\ z.sent = x.sent
      /\ z.owed = x.owed
  BY <1>1 DEF Listen
<1> HIDE DEF z
<1>3. Unregistered(z) /\ Kept(z)
  BY <1>1, <1>2 DEF Unregistered, Kept, Pending
<1>4. Sound(TornDown(z)) /\ (z.entry # "none" => TornDown(z).entry = "removed")
  BY <1>2, <1>3, TornDownSound, TornDownFields
<1>5. CASE x.stage = "held"
  <2>1. Sound(y)
    BY <1>1, <1>2, <1>4, <1>5, ReleasedSound DEF Unregistered
  <2> HIDE DEF y
  <2> QED BY <1>1, <2>1, OneListen
<1>6. CASE x.stage = "returning"
  BY <1>1, <1>4, <1>6, OneListen
<1>7. CASE x.stage \in {"acking", "acked", "claimed"}
  <2>1. Sound(z)
    BY <1>1, <1>2, <1>3, <1>7 DEF Sound, Served
  <2> QED BY <1>1, <1>7, <2>1, OneListen
<1> QED BY <1>1, <1>5, <1>6, <1>7

LEMMA ExpireStep ==
  ASSUME HubAssumption, HubInv, NEW l \in Listens, Expire(l)
  PROVE  HubInv'
<1> DEFINE x == sub[l]
           z == [x EXCEPT !.failed = TRUE, !.queue = <<>>]
<1>1. /\ x \in Listen /\ Unregistered(x) /\ Served(x) /\ x.entry = "registered"
      /\ Update(l, TornDown(z)) /\ emitted' \in Nat
  BY DEF HubInv, Sound, Expire, Stopped
<1> HIDE DEF x
<1>2. /\ z \in Listen /\ z.stage = x.stage /\ z.entry = x.entry /\ z.failed = TRUE
      /\ z.queue = <<>> /\ z.flight = x.flight
  BY <1>1, ToSetEmpty DEF Listen
<1> HIDE DEF z
<1>3. Unregistered(z)
  BY <1>1, <1>2 DEF Unregistered, Served
<1>4. Kept(z)
  BY <1>2, PendingIsNat DEF Kept, HubAssumption
<1> QED BY <1>1, <1>2, <1>3, <1>4, TornDownSound, OneListen

\* The owner check of a task status ends.
LEMMA AccessStep ==
  ASSUME HubAssumption, HubInv, NEW l \in Listens, NEW e \in TaskEvents,
         AccessGranted(l, e) \/ AccessDenied(l, e)
  PROVE  HubInv'
<1> DEFINE x == sub[l]
           z == [x EXCEPT !.checking = x.checking \ {e}]
<1>1. Sound(x) /\ x \in Listen /\ emitted' \in Nat /\ e \in Events
  BY DEF HubInv, Sound, AccessGranted, AccessDenied, HubAssumption
<1>2. \/ Update(l, IF z.entry = "registered" THEN Delivered(z, e) ELSE z)
      \/ Update(l, z)
  BY DEF AccessGranted, AccessDenied
<1> HIDE DEF x
<1>3. x.checking \ {e} \in SUBSET Events
  BY <1>1 DEF Listen
<1>4. Sound(z)
  BY <1>1, <1>3, CheckingSound
<1> HIDE DEF z
<1>5. z.entry = "registered" => Sound(Delivered(z, e))
  BY <1>1, <1>4, DeliveredSound
<1> QED BY <1>1, <1>2, <1>4, <1>5, OneListen

-----------------------------------------------------------------------------
(* The steps of the hub. *)

LEMMA HubSteps ==
  ASSUME HubAssumption, HubInv, EmitChange \/ EmitStatus \/ EndAll
  PROVE  HubInv'
<1>1. \A l \in Listens : Sound(sub[l]) /\ sub[l] \in Listen /\ Unregistered(sub[l]) /\ Kept(sub[l])
  BY DEF HubInv, Sound
<1>2. emitted \in Nat /\ MaxEvents \in Nat /\ TaskEvents \subseteq Events
  BY DEF HubInv, HubAssumption
<1>3. ASSUME \A l \in Listens : Sound(sub'[l]), sub' \in [Listens -> Listen], emitted' \in Nat
      PROVE  HubInv'
  BY <1>3 DEF HubInv, Sound, Unregistered, Served, Kept
<1>4. CASE EmitChange
  <2>1. emitted' \in Events /\ emitted' \in Nat
    BY <1>2, <1>4 DEF EmitChange, Events
  <2>2. \A l \in Listens :
           sub'[l] = IF l \in Targets(emitted') THEN Delivered(sub[l], emitted') ELSE sub[l]
    BY <1>4 DEF EmitChange
  <2>3. \A l \in Listens : Sound(sub'[l])
    BY <1>1, <2>1, <2>2, DeliveredSound DEF Targets
  <2>4. sub' \in [Listens -> Listen]
    BY <1>4, <2>2, <2>3 DEF EmitChange, Sound
  <2> QED BY <1>3, <2>1, <2>3, <2>4
<1>5. CASE EmitStatus
  <2>1. emitted' \in Events /\ emitted' \in Nat
    BY <1>2, <1>5 DEF EmitStatus, Events
  <2>2. \A l \in Listens :
           sub'[l] = IF l \in Targets(emitted')
                     THEN [sub[l] EXCEPT !.checking = sub[l].checking \cup {emitted'}]
                     ELSE sub[l]
    BY <1>5 DEF EmitStatus
  <2>3. \A l \in Listens : sub[l].checking \cup {emitted'} \in SUBSET Events
    BY <1>1, <2>1 DEF Listen
  <2>4. ASSUME NEW l \in Listens PROVE Sound(sub'[l])
    <3> DEFINE checked == sub[l].checking \cup {emitted'}
    <3>1. Sound([sub[l] EXCEPT !.checking = checked])
      <4> HIDE DEF checked
      <4> QED BY <1>1, <2>3, CheckingSound DEF checked
    <3>2. CASE l \in Targets(emitted')
      BY <2>2, <3>1, <3>2
    <3>3. CASE l \notin Targets(emitted')
      BY <1>1, <2>2, <3>3
    <3> QED BY <3>2, <3>3
  <2>5. sub' \in [Listens -> Listen]
    BY <1>5, <2>2, <2>4 DEF EmitStatus, Sound
  <2> QED BY <1>3, <2>1, <2>4, <2>5
<1>6. CASE EndAll
  <2>1. \A l \in Listens : sub'[l] = Completed(sub[l])
    BY <1>6 DEF EndAll
  <2>2. \A l \in Listens : Sound(sub'[l])
    BY <1>1, <2>1, CompletedSound
  <2>3. sub' \in [Listens -> Listen]
    BY <1>6, <2>1, <2>2 DEF EndAll, Sound
  <2> QED BY <1>2, <1>3, <1>6, <2>2, <2>3 DEF EndAll
<1> QED BY <1>4, <1>5, <1>6

-----------------------------------------------------------------------------
LEMMA HubInitially == HubAssumption /\ HubInit => HubInv
<1> SUFFICES ASSUME HubAssumption, HubInit PROVE HubInv
  OBVIOUS
<1>1. NoListen \in Listen
  BY ToSetEmpty DEF NoListen, Listen, Stages
<1>2. Unregistered(NoListen) /\ Served(NoListen)
  BY FrameFacts DEF NoListen, Unregistered, Served
<1>3. Kept(NoListen)
  <2>1. NoListen.owed = {} /\ NoListen.queue = <<>>
    BY DEF NoListen
  <2> QED BY <1>1, <2>1, PendingIsNat DEF Kept, HubAssumption
<1> QED BY <1>1, <1>2, <1>3 DEF HubInit, HubInv, Sound

LEMMA HubStep == HubAssumption /\ HubInv /\ [HubNext]_hubVars => HubInv'
<1> SUFFICES ASSUME HubAssumption, HubInv, [HubNext]_hubVars PROVE HubInv'
  OBVIOUS
<1>1. CASE UNCHANGED hubVars
  BY <1>1 DEF hubVars, HubInv, Sound, Unregistered, Served, Kept
<1>2. CASE HubNext
  BY <1>2, BeginStep, WrittenStep, RejectedStep, RegisterStep, StageStep, WriteTerminalStep,
     CancelStep, ExpireStep, AccessStep, HubSteps DEF HubNext
<1> QED BY <1>1, <1>2

THEOREM HubInvariant == HubSpec => []HubInv
<1>1. HubInit => HubInv
  BY HubInitially, HubAssumption
<1>2. HubInv /\ [HubNext]_hubVars => HubInv'
  BY HubStep, HubAssumption
<1> QED BY <1>1, <1>2, PTL DEF HubSpec

\* However cancellations, expiry, shutdown and failed writes fall between the
\* acknowledgement and the hold, the hub delivers to no dead stream.
THEOREM EntriesAreServed == HubSpec => []EntryIsServed
<1>1. HubInv => EntryIsServed
  BY DEF HubInv, Sound, Served, EntryIsServed
<1> QED BY <1>1, HubInvariant, PTL

\* What a stream owes is written or waits in a backlog within its bound.
THEOREM NothingIsLostSilently == HubSpec => []NothingLostSilently
<1>1. HubInv => NothingLostSilently
  BY DEF HubInv, Sound, Kept, NothingLostSilently
<1> QED BY <1>1, HubInvariant, PTL

===============================================================================
