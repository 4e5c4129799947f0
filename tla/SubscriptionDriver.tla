-------------------------- MODULE SubscriptionDriver --------------------------
(***************************************************************************)
(* The resource subscriptions of a client: SubscriptionDriver keeps the    *)
(* filter its callers want open as one subscriptions/listen stream.  Every *)
(* change of the filter, and every reconnect, opens a candidate stream (a  *)
(* GENERATION), waits for the peer to acknowledge it, promotes it and      *)
(* retires the stream before it; a queue admits one candidate at a time.   *)
(*                                                                         *)
(* Between the acknowledgement and the promotion lies a turn of the event  *)
(* loop, in which the peer, a timer, a caller or dispose() may act.        *)
(* Generations are drawn from the slots Gens: a slot is free again once    *)
(* its exchange has ended and the driver has forgotten it.  How long a     *)
(* reconnect waits (the backoff) is left out.  MaxDrops bounds how often   *)
(* the peer ends a stream.                                                 *)
(***************************************************************************)
EXTENDS Integers, FiniteSets, Sequences

CONSTANTS Uris,          \* resources
          Callers,       \* calls of subscribeResource, unsubscribeResource and open
          Change,        \* what each of them asks: [kind, uri]
          Gens, NoGen,   \* slots for generations
          Reconnect, Nobody,   \* the driver's own task in the queue; no task
          AckTimeout,    \* ackTimeoutMs is set (ContextClient sets it)
          MaxDrops

Kinds == {"subscribe", "unsubscribe", "open"}

ASSUME DriverAssumption ==
    /\ Change \in [Callers -> [kind : Kinds, uri : Uris]]
    /\ NoGen \notin Gens
    /\ Reconnect \notin Callers /\ Nobody \notin Callers \cup {Reconnect}
    /\ AckTimeout \in BOOLEAN
    /\ MaxDrops \in Nat

VARIABLES
    desired,     \* #desiredResources
    gens,        \* the generations
    active,      \* #activeGeneration
    candidate,   \* the generation #openAndPromote is opening; #pendingGeneration until dispose()
    queue,       \* tasks chained to #mutationTail and not yet started
    running,     \* the task that waits for the candidate
    delays,      \* reconnects whose backoff has not elapsed
    disposed,
    honored,     \* ContextClient.#honoredFilter: no filter, or the one last acknowledged
    answer,      \* what each call came to
    promised,    \* history: the resources the calls that resolved asked for, in their order
    lost,        \* history: the peer closed the active stream and nothing has replaced it
    drops

vars == <<desired, gens, active, candidate, queue, running, delays, disposed, honored, answer,
          promised, lost, drops>>
queueVars == <<queue, running, delays>>
history   == <<promised, lost, drops>>

Answers == {"none", "queued", "resolved", "rejected"}

Unused     == [filter |-> {}, open |-> FALSE, ack |-> "refused", retired |-> TRUE]

NoFilter == <<>>

Init ==
    /\ desired = {}
    /\ gens = [g \in Gens |-> Unused]
    /\ active = NoGen /\ candidate = NoGen
    /\ queue = <<>> /\ running = Nobody /\ delays = 0
    /\ disposed = FALSE
    /\ honored = NoFilter
    /\ answer = [c \in Callers |-> "none"]
    /\ promised = {} /\ lost = FALSE /\ drops = 0

Listening == active # NoGen

\* A generation that can still fail or be acknowledged.
Waiting(g) == gens[g].open /\ gens[g].ack = "waiting" /\ ~gens[g].retired

\* A generation whose frames reach the listeners.
Delivers(g) == gens[g].open /\ gens[g].ack = "acked" /\ ~gens[g].retired

\* The generation is given up and its exchange aborted.
Retired(gen, ack) == [gen EXCEPT !.retired = TRUE, !.open = FALSE, !.ack = ack]

-----------------------------------------------------------------------------
(* The queue. *)

\* subscribeResource, unsubscribeResource, open: the task joins the queue.
Ask(c) ==
    /\ answer[c] = "none"
    /\ answer' = [answer EXCEPT ![c] = "queued"]
    /\ queue' = Append(queue, c)
    /\ UNCHANGED <<desired, gens, active, candidate, running, delays, disposed, honored, history>>

Changed(c, resources) ==
    CASE Change[c].kind = "subscribe"   -> resources \cup {Change[c].uri}
      [] Change[c].kind = "unsubscribe" -> resources \ {Change[c].uri}
      [] OTHER -> resources

\* Fault: a change applies to the filter on the wire, not to the one wanted.
ActiveTarget(t) ==
    LET wire == IF Listening THEN gens[active].filter ELSE {}
    IN  IF t = Reconnect THEN wire ELSE Changed(t, wire)

\* The filter a task opens, computed when its turn comes.
Target(t) == IF t = Reconnect THEN desired ELSE Changed(t, desired)

Answered(t, how) == IF t = Reconnect THEN answer ELSE [answer EXCEPT ![t] = how]

\* A task whose turn comes after dispose(), or a reconnect that is no longer needed.
SkipTask ==
    /\ running = Nobody /\ queue # <<>>
    /\ disposed \/ (Head(queue) = Reconnect /\ Listening)
    /\ queue' = Tail(queue)
    /\ answer' = Answered(Head(queue), "rejected")
    /\ UNCHANGED <<desired, gens, active, candidate, running, delays, disposed, honored, history>>

\* The caller's signal was aborted before its turn: nothing is opened.
AbortedBeforeTurn ==
    /\ running = Nobody /\ queue # <<>>
    /\ ~disposed /\ Head(queue) # Reconnect
    /\ queue' = Tail(queue)
    /\ answer' = Answered(Head(queue), "rejected")
    /\ UNCHANGED <<desired, gens, active, candidate, running, delays, disposed, honored, history>>

Free(g) == ~gens[g].open /\ g \notin {active, candidate}

\* #openAndPromote up to its first await.
Open(g) ==
    /\ running = Nobody /\ queue # <<>>
    /\ ~disposed /\ ~(Head(queue) = Reconnect /\ Listening)
    /\ Free(g)
    /\ gens' = [gens EXCEPT ![g] = [filter |-> Target(Head(queue)), open |-> TRUE,
                                    ack |-> "waiting", retired |-> FALSE]]
    /\ candidate' = g
    /\ running' = Head(queue)
    /\ queue' = Tail(queue)
    /\ UNCHANGED <<desired, active, delays, disposed, honored, answer, history>>

-----------------------------------------------------------------------------
(* The candidate is acknowledged, or fails. *)

\* #onFrame on the acknowledged frame; the client notes the filter it carries.
Acknowledge(g) ==
    /\ Waiting(g)
    /\ gens' = [gens EXCEPT ![g].ack = "acked"]
    /\ honored' = <<gens[g].filter>>
    /\ UNCHANGED <<desired, active, candidate, queueVars, disposed, answer, history>>

\* #onFrame on any other first frame: a protocol error.
OtherFrameFirst(g) ==
    /\ Waiting(g)
    /\ gens' = [gens EXCEPT ![g] = Retired(@, "refused")]
    /\ UNCHANGED <<desired, active, candidate, queueVars, disposed, honored, answer, history>>

\* Fault: only a call has a timeout, a reconnect waits for ever.
CallsTimeOut(g) ==
    /\ AckTimeout /\ Waiting(g) /\ running # Reconnect
    /\ gens' = [gens EXCEPT ![g] = Retired(@, "lost")]
    /\ UNCHANGED <<desired, active, candidate, queueVars, disposed, honored, answer, history>>

\* #failGeneration, from the acknowledgement timer or the caller's signal.
AckTimesOut(g) ==
    /\ AckTimeout /\ Waiting(g)
    /\ gens' = [gens EXCEPT ![g] = Retired(@, "lost")]
    /\ UNCHANGED <<desired, active, candidate, queueVars, disposed, honored, answer, history>>

CallerAborts(g) ==
    /\ running \in Callers /\ g = candidate /\ Waiting(g)
    /\ gens' = [gens EXCEPT ![g] = Retired(@, "refused")]
    /\ UNCHANGED <<desired, active, candidate, queueVars, disposed, honored, answer, history>>

\* #scheduleReconnect
Scheduled == IF disposed THEN delays ELSE delays + 1

\* #onSettle: the peer ends a stream, or the transport drops it.
PeerSettles(g, reason) ==
    /\ gens[g].open
    /\ drops < MaxDrops
    /\ drops' = drops + 1
    /\ gens' = [gens EXCEPT ![g] = Retired(@, IF @.ack # "waiting" THEN @.ack
                                             ELSE IF reason = "closed" THEN "lost" ELSE "refused")]
    /\ IF active = g
       THEN /\ active' = NoGen
            /\ delays' = IF reason = "closed" THEN Scheduled ELSE delays
            /\ lost' = (reason = "closed" /\ ~disposed)
       ELSE UNCHANGED <<active, delays, lost>>
    /\ UNCHANGED <<desired, candidate, queue, running, disposed, honored, answer, promised>>

-----------------------------------------------------------------------------
(* The task that awaited the acknowledgement goes on. *)

Forget == candidate' = NoGen /\ running' = Nobody

Promotable ==
    /\ running # Nobody
    /\ gens[candidate].ack = "acked" /\ ~gens[candidate].retired /\ ~disposed

\* Fault: the stream replaced is forgotten and not aborted.
PreviousForgotten == gens

\* The stream that is replaced is retired and its exchange aborted.
PreviousRetired ==
    IF Listening THEN [gens EXCEPT ![active] = Retired(@, @.ack)] ELSE gens

Promote ==
    /\ Promotable
    /\ gens' = PreviousRetired
    /\ active' = candidate
    /\ desired' = gens[candidate].filter
    /\ Forget
    /\ answer' = Answered(running, "resolved")
    /\ promised' = IF running = Reconnect THEN promised ELSE Changed(running, promised)
    /\ lost' = FALSE
    /\ UNCHANGED <<queue, delays, disposed, honored, drops>>

\* Acknowledged, and retired or the driver disposed since: never promoted.
DeadBeforePromotion ==
    /\ running # Nobody
    /\ gens[candidate].ack = "acked" /\ (gens[candidate].retired \/ disposed)
    /\ gens' = [gens EXCEPT ![candidate] = Retired(@, "acked")]
    /\ Forget
    /\ answer' = Answered(running, "rejected")
    /\ delays' = IF running = Reconnect THEN Scheduled ELSE delays
    /\ UNCHANGED <<desired, active, queue, disposed, honored, history>>

\* Fault: a reconnect that failed is not tried again.
RetriesNothing == FALSE

\* #runReconnect tries again after a failure that may pass.
Retries == running = Reconnect /\ gens[candidate].ack = "lost"

CandidateFailed ==
    /\ running # Nobody
    /\ gens[candidate].ack \in {"lost", "refused"}
    /\ Forget
    /\ answer' = Answered(running, "rejected")
    /\ delays' = IF Retries THEN Scheduled ELSE delays
    /\ lost' = (lost /\ ~(running = Reconnect /\ gens[candidate].ack = "refused"))
    /\ UNCHANGED <<desired, gens, active, queue, disposed, honored, promised, drops>>

DelayElapses ==
    /\ delays > 0
    /\ delays' = delays - 1
    /\ queue' = IF disposed THEN queue ELSE Append(queue, Reconnect)
    /\ UNCHANGED <<desired, gens, active, candidate, running, disposed, honored, answer, history>>

\* dispose(): a candidate that waits is failed, so that the queue behind it goes on.
Dispose ==
    /\ ~disposed
    /\ disposed' = TRUE
    /\ gens' = [g \in Gens |->
                  IF g = candidate /\ Waiting(g) THEN Retired(gens[g], "refused")
                  ELSE IF g = active THEN Retired(gens[g], "acked") ELSE gens[g]]
    /\ active' = NoGen
    /\ lost' = FALSE
    /\ UNCHANGED <<desired, candidate, queueVars, honored, answer, promised, drops>>

-----------------------------------------------------------------------------

Resume == Promote \/ DeadBeforePromotion \/ CandidateFailed

Next ==
    \/ \E c \in Callers : Ask(c)
    \/ SkipTask
    \/ AbortedBeforeTurn
    \/ \E g \in Gens :
          \/ Open(g)
          \/ Acknowledge(g)
          \/ OtherFrameFirst(g)
          \/ AckTimesOut(g)
          \/ CallerAborts(g)
          \/ \E reason \in {"closed", "result", "error"} : PeerSettles(g, reason)
    \/ Resume
    \/ DelayElapses
    \/ Dispose

Spec == Init /\ [][Next]_vars

\* Promise turns and the reconnect timer run.  Nothing is assumed of the peer or of the
\* callers, nor of the acknowledgement timer, which the host may leave out.
Fairness ==
    /\ WF_vars(SkipTask) /\ WF_vars(\E g \in Gens : Open(g)) /\ WF_vars(Resume)
    /\ WF_vars(DelayElapses)

AckTimersRun == \A g \in Gens : WF_vars(AckTimesOut(g))

FairSpec == Spec /\ Fairness

-----------------------------------------------------------------------------
(* Properties. *)

\* No exchange is left open behind the driver's back: a listen that is open is the
\* candidate or the active one, and is not retired.
NoOrphanListen ==
    \A g \in Gens : gens[g].open => g \in {candidate, active} /\ ~gens[g].retired

\* A stream the driver calls active is open and acknowledged, and carries exactly what
\* the calls that resolved asked for, in the order they resolved, however failures,
\* drops and reconnects fell in between.
ListenMatchesCallers ==
    Listening => Delivers(active) /\ gens[active].filter = promised

\* A stream the transport dropped is not forgotten: until another is promoted, or a
\* reconnect is refused for good, a reconnect is waiting, queued or being opened.
DropIsRetried ==
    lost => \/ delays > 0 \/ running = Reconnect
            \/ \E i \in DOMAIN queue : queue[i] = Reconnect

\* With acknowledgement timers a silent peer cannot wedge the queue: every call settles.
CallsSettle ==
    AckTimersRun =>
        \A c \in Callers : answer[c] = "queued" ~> answer[c] \in {"resolved", "rejected"}

=============================================================================
