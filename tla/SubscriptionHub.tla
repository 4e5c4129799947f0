---------------------------- MODULE SubscriptionHub ----------------------------
(***************************************************************************)
(* The subscriptions/listen streams of a server: ContextServer.#listen,    *)
(* the hub that fans producer events out to the registered streams, one    *)
(* SubscriptionWriter per stream, and the held response each stream rides  *)
(* on.  The hub is the durable one the HTTP handler lends to the server it *)
(* builds for each listen.                                                 *)
(*                                                                         *)
(* The acknowledgement is written before the stream is registered, and the *)
(* response is held only once #listen has returned; in the turns between,  *)
(* events fire, the request is cancelled, the hub ends its streams.        *)
(* MaxFaults bounds rejected writes, MaxEvents the producer's events.      *)
(***************************************************************************)
EXTENDS Integers, FiniteSets, SequencesExt

CONSTANTS Listens,       \* listen requests, each with an id of its own
          MaxEvents,     \* producer events are 1..MaxEvents
          TaskEvents,    \* those that are task statuses
          Filters,       \* sets of events a listen may ask for
          MaxPending,    \* frames a writer accepts before it gives up (maxPendingFrames)
          MaxFaults

Events == 1..MaxEvents

ASSUME HubAssumption ==
    /\ MaxEvents \in Nat /\ MaxFaults \in Nat
    /\ TaskEvents \subseteq Events
    /\ Filters \subseteq SUBSET Events
    /\ MaxPending \in Nat \ {0}

\* What is written to a stream besides events; no frame.
Ack      == 0
Terminal == MaxEvents + 1
None     == 0 - 1

VARIABLES
    sub,       \* the state of each listen
    emitted,   \* the producer's last event
    ending,    \* the handler is shutting down: endAllGracefully was called
    faults

hubVars == <<sub, emitted, ending, faults>>

\* none; acking: the acknowledgement is being written; acked; returning: registered, and
\* #listen has not returned to the RPC layer; held; claimed: the terminal has won and the
\* writer is flushed; over: answered, or ended without an answer; refused: the
\* acknowledgement could not be written.
Stages == {"none", "acking", "acked", "returning", "held", "claimed", "over", "refused"}

NoListen == [stage |-> "none", wants |-> {}, entry |-> "none", terminal |-> "pending",
             aborted |-> FALSE, completing |-> FALSE, queue |-> <<>>, flight |-> None,
             failed |-> FALSE, checking |-> {}, sent |-> <<>>, owed |-> {}]

HubInit ==
    /\ sub = [l \in Listens |-> NoListen]
    /\ emitted = 0
    /\ ending = FALSE
    /\ faults = 0

-----------------------------------------------------------------------------
(* The writer, the hub's handle and the held terminal, on the state x of one listen. *)

\* #pending: the frames queued and the one in flight.
Pending(x) == Len(x.queue) + (IF x.flight = None THEN 0 ELSE 1)

\* #drain
Drained(x) ==
    IF x.flight = None /\ ~x.failed /\ x.queue # <<>>
    THEN [x EXCEPT !.flight = Head(x.queue), !.queue = Tail(x.queue)]
    ELSE x

\* handle.close, then terminal.reject: the first of complete() and close() wins.
TornDown(x) ==
    IF x.entry = "none" THEN x
    ELSE [x EXCEPT !.entry = "removed",
                   !.terminal = IF @ = "pending" THEN "rejected" ELSE @]

\* Fault: what waits in the queue is rejected without being counted down.
StoppedUncounted(x) == [x EXCEPT !.failed = TRUE]

\* #fail: what waits in the queue is rejected; onFailure tears the stream down.
Stopped(x) == [x EXCEPT !.failed = TRUE, !.queue = <<>>]
Failed(x)  == IF x.failed THEN x ELSE TornDown(Stopped(x))

Full(x) == Pending(x) >= MaxPending

\* enqueue
Enqueued(x, frame) ==
    IF x.failed THEN x
    ELSE IF Full(x) THEN Failed(x)
    ELSE Drained([x EXCEPT !.queue = Append(@, frame)])

\* entry.deliver
Delivered(x, e) == Enqueued([x EXCEPT !.owed = @ \cup {e}], e)

\* handle.complete: the terminal is resolved and its write awaited.
Completed(x) ==
    IF x.entry # "registered" THEN x
    ELSE [x EXCEPT !.entry = "removed", !.terminal = "resolved", !.completing = TRUE]

\* #removeHeld and written.resolve()
Released(x) == [x EXCEPT !.stage = "over", !.completing = FALSE]

Update(l, x) == sub' = [sub EXCEPT ![l] = x]

-----------------------------------------------------------------------------
(* One listen. *)

\* A listen request arrives; the acknowledgement is the writer's first frame.
BeginListen(l, wants) ==
    /\ sub[l].stage = "none"
    /\ Update(l, Enqueued([sub[l] EXCEPT !.stage = "acking", !.wants = wants], Ack))
    /\ UNCHANGED <<emitted, ending, faults>>

\* Fault: the writer takes the next frame only when another is enqueued.
FrameWrittenStalls(l) ==
    /\ sub[l].flight # None
    /\ Update(l, [sub[l] EXCEPT !.sent = Append(@, sub[l].flight),
                                !.flight = None,
                                !.stage = IF sub[l].flight = Ack THEN "acked" ELSE @])
    /\ UNCHANGED <<emitted, ending, faults>>

\* The transport has written the frame in flight.
FrameWritten(l) ==
    /\ sub[l].flight # None
    /\ Update(l, Drained([sub[l] EXCEPT
                   !.sent = Append(@, sub[l].flight),
                   !.flight = None,
                   !.stage = IF sub[l].flight = Ack THEN "acked" ELSE @]))
    /\ UNCHANGED <<emitted, ending, faults>>

\* Fault: a rejected write is passed over and the next frame written.
FramePassedOver(l) ==
    /\ sub[l].flight # None
    /\ faults < MaxFaults
    /\ faults' = faults + 1
    /\ Update(l, Drained([sub[l] EXCEPT !.flight = None]))
    /\ UNCHANGED <<emitted, ending>>

\* The write is rejected: the writer fails, and #listen throws if it was the acknowledgement.
FrameRejected(l) ==
    /\ sub[l].flight # None
    /\ faults < MaxFaults
    /\ faults' = faults + 1
    /\ Update(l, Failed([sub[l] EXCEPT
                   !.flight = None,
                   !.stage = IF sub[l].flight = Ack THEN "refused" ELSE @]))
    /\ UNCHANGED <<emitted, ending>>

\* Fault: the abort during the acknowledgement is not looked at.
RegisterUnchecked(l) ==
    /\ sub[l].stage = "acked"
    /\ LET registered == [sub[l] EXCEPT !.entry = "registered", !.stage = "returning"]
       IN  Update(l, IF ending THEN Completed(registered) ELSE registered)
    /\ UNCHANGED <<emitted, ending, faults>>

\* The entry is registered, completed at once if the handler is shutting down, and torn
\* down if the request was aborted while the acknowledgement was written.
Register(l) ==
    /\ sub[l].stage = "acked"
    /\ LET registered == [sub[l] EXCEPT !.entry = "registered", !.stage = "returning"]
           late       == IF ending THEN Completed(registered) ELSE registered
       IN  Update(l, IF late.aborted THEN TornDown(late) ELSE late)
    /\ UNCHANGED <<emitted, ending, faults>>

\* #listen has returned: the response is held, unless the request was aborted.
Hold(l) ==
    /\ sub[l].stage = "returning"
    /\ Update(l, [sub[l] EXCEPT !.stage = IF sub[l].aborted THEN "over" ELSE "held"])
    /\ UNCHANGED <<emitted, ending, faults>>

TerminalWins(l) ==
    /\ sub[l].stage = "held" /\ sub[l].terminal = "resolved"
    /\ Update(l, [sub[l] EXCEPT !.stage = "claimed"])
    /\ UNCHANGED <<emitted, ending, faults>>

TerminalRejects(l) ==
    /\ sub[l].stage = "held" /\ sub[l].terminal = "rejected"
    /\ Update(l, Released(sub[l]))
    /\ UNCHANGED <<emitted, ending, faults>>

\* writer.flush(): no accepted frame is still to settle.
Flushed(x) == Pending(x) = 0

WriteTerminal(l) ==
    /\ sub[l].stage = "claimed"
    /\ Flushed(sub[l])
    /\ Update(l, Released([sub[l] EXCEPT !.sent = Append(@, Terminal)]))
    /\ UNCHANGED <<emitted, ending, faults>>

\* The client cancels, or the connection closes.  A terminal that was claimed is still
\* written; frames the writer has accepted are too.
Cancel(l) ==
    /\ sub[l].stage \in {"acking", "acked", "returning", "held", "claimed"}
    /\ ~sub[l].aborted
    /\ LET aborted == [sub[l] EXCEPT !.aborted = TRUE]
       IN  Update(l, CASE sub[l].stage = "held" -> Released(TornDown(aborted))
                       [] sub[l].stage = "returning" -> TornDown(aborted)
                       [] OTHER -> aborted)
    /\ UNCHANGED <<emitted, ending, faults>>

\* The expiry timer of the listen's authentication: the writer is aborted as well.
Expire(l) ==
    /\ sub[l].entry = "registered"
    /\ Update(l, TornDown(Stopped(sub[l])))
    /\ UNCHANGED <<emitted, ending, faults>>

-----------------------------------------------------------------------------
(* The hub. *)

Targets(e) == {l \in Listens : sub[l].entry = "registered" /\ e \in sub[l].wants}

\* A list or resource event reaches every matching stream in one turn.
EmitChange ==
    /\ emitted < MaxEvents /\ emitted + 1 \notin TaskEvents
    /\ emitted' = emitted + 1
    /\ sub' = [l \in Listens |->
                 IF l \in Targets(emitted') THEN Delivered(sub[l], emitted') ELSE sub[l]]
    /\ UNCHANGED <<ending, faults>>

\* A task status is first checked against the owner of each stream.
EmitStatus ==
    /\ emitted + 1 \in TaskEvents
    /\ emitted' = emitted + 1
    /\ sub' = [l \in Listens |-> IF l \in Targets(emitted')
                                 THEN [sub[l] EXCEPT !.checking = @ \cup {emitted'}]
                                 ELSE sub[l]]
    /\ UNCHANGED <<ending, faults>>

\* canAccess resolved: the status is delivered if the stream is still the one registered.
AccessGranted(l, e) ==
    /\ e \in sub[l].checking
    /\ LET checked == [sub[l] EXCEPT !.checking = @ \ {e}]
       IN  Update(l, IF checked.entry = "registered" THEN Delivered(checked, e) ELSE checked)
    /\ UNCHANGED <<emitted, ending, faults>>

AccessDenied(l, e) ==
    /\ e \in sub[l].checking
    /\ Update(l, [sub[l] EXCEPT !.checking = @ \ {e}])
    /\ UNCHANGED <<emitted, ending, faults>>

\* endAllGracefully, on the shutdown of the handler.
EndAll ==
    /\ ~ending
    /\ ending' = TRUE
    /\ sub' = [l \in Listens |-> Completed(sub[l])]
    /\ UNCHANGED <<emitted, faults>>

-----------------------------------------------------------------------------

HubNext ==
    \/ \E l \in Listens :
          \/ \E wants \in Filters : BeginListen(l, wants)
          \/ FrameWritten(l)
          \/ FrameRejected(l)
          \/ Register(l)
          \/ Hold(l)
          \/ TerminalWins(l)
          \/ TerminalRejects(l)
          \/ WriteTerminal(l)
          \/ Cancel(l)
          \/ Expire(l)
          \/ \E e \in TaskEvents : AccessGranted(l, e) \/ AccessDenied(l, e)
    \/ EmitChange
    \/ EmitStatus
    \/ EndAll

HubSpec == HubInit /\ [][HubNext]_hubVars

\* The transport settles every write and promise turns run.  Nothing is assumed of the
\* producer, of the client or of the shutdown.
HubFairness ==
    \A l \in Listens :
        /\ WF_hubVars(FrameWritten(l)) /\ WF_hubVars(Register(l)) /\ WF_hubVars(Hold(l))
        /\ WF_hubVars(TerminalWins(l)) /\ WF_hubVars(TerminalRejects(l)) /\ WF_hubVars(WriteTerminal(l))

HubFairSpec == HubSpec /\ HubFairness

-----------------------------------------------------------------------------
(* Properties. *)

\* A stream the hub delivers to has a request behind it that someone can still end: not
\* aborted, its terminal undecided, its writer alive.
EntryIsServed ==
    \A l \in Listens :
        sub[l].entry = "registered" =>
            /\ sub[l].stage \in {"returning", "held"}
            /\ sub[l].terminal = "pending"
            /\ ~sub[l].aborted /\ ~sub[l].failed

\* An event that fired while a matching stream was registered is written to it, or waits to
\* be in a backlog that never exceeds its bound, the frame being written included, unless the
\* writer gave up.
NothingLostSilently ==
    \A l \in Listens :
        LET x == sub[l]
            held == ToSet(x.sent) \cup ToSet(x.queue) \cup {x.flight}
        IN  /\ ~x.failed => x.owed \subseteq held
            /\ Pending(x) <= MaxPending

\* What a stream owes and has not written.
Outstanding(l) == sub[l].owed \ ToSet(sub[l].sent)

\* One slow or broken subscriber does not stop the others: an event that fired while a
\* matching stream was registered is written to it in the end, even if the stream is
\* completed or torn down meanwhile, or its own writer has given up.
ChangesArrive ==
    \A l \in Listens :
        Outstanding(l) # {} ~> Outstanding(l) = {} \/ sub[l].failed

\* A graceful end waits for every stream's last frame and ends, unless the client
\* cancels in between.
GracefulEndSettles ==
    \A l \in Listens : sub[l].completing ~> ~sub[l].completing \/ sub[l].aborted

=============================================================================
