------------------------------ MODULE RpcServing ------------------------------
(***************************************************************************)
(* The serving side of ContextRPC: the read loop of one connection, the    *)
(* RequestScheduler that bounds concurrent handlers, responses held open   *)
(* by subscriptions/listen, the response writes in flight, and disposal.   *)
(*                                                                         *)
(* A request is an INSTANCE received on the wire; IdOf gives the JSON-RPC  *)
(* id it carries, so that a peer which reuses an id is two instances with  *)
(* one id.  The Maps of the scheduler, keyed by id, are sets and sequences *)
(* of instances; OneInFlightPerId is what makes the two views agree.       *)
(* The promise callbacks that follow one another without an intervening    *)
(* await on the outside world are one step.                                *)
(***************************************************************************)
EXTENDS Integers, FiniteSets, SequencesExt

CONSTANTS Requests,               \* request instances the peer may send
          Ids,                    \* JSON-RPC request ids
          IdOf,                   \* the id each instance carries
          MaxConcurrentRequests,  \* handlers allowed to run at once
          MaxQueuedRequests       \* requests allowed to wait for a slot

ASSUME ServingAssumption ==
    /\ IsFiniteSet(Requests)
    /\ IdOf \in [Requests -> Ids]
    /\ MaxConcurrentRequests \in Nat \ {0}
    /\ MaxQueuedRequests \in Nat

VARIABLES
    seen,           \* instances the read loop has taken off the wire
    queued,         \* RequestScheduler.#queued: a Map in insertion order
    running,        \* RequestScheduler.#running
    detached,       \* RequestScheduler.#detached
    aborted,        \* instances whose AbortSignal has fired
    heldOpen,       \* #heldRequests whose race between terminal and abort is undecided
    heldClaimed,    \* #heldRequests won by their terminal, not yet written
    settling,       \* responses decided but not yet handed to #writeResponse: promises between
    answers,        \* how many times #writeResponse was called for an instance
    pendingWrites,  \* #pendingWrites
    blockedOn,      \* the response whose write the read loop itself awaits
    readEnded,      \* the read loop has seen the end of the transport
    closed,         \* #closed
    stage,          \* where #dispose stands
    heldAwaited,    \* the held responses #flushBeforeClose waits for
    writesAwaited,  \* the snapshot #flushPendingWrites waits for
    deadlineHit     \* a deadline of the disposal has fired

schedVars == <<queued, running, detached>>
heldVars  == <<heldOpen, heldClaimed>>
writeVars == <<settling, answers, pendingWrites>>
flushVars == <<heldAwaited, writesAwaited, deadlineHit>>
vars == <<seen, queued, running, detached, aborted, heldOpen, heldClaimed, settling,
          answers, pendingWrites, blockedOn, readEnded, closed, stage, heldAwaited,
          writesAwaited, deadlineHit>>

\* "hook", "held" and "flush" are the three awaits of #flushBeforeClose; "drain"
\* is #awaitPendingWritesWithDeadline; "disposed" follows transport.dispose().
Stages == {"open", "hook", "held", "flush", "drain", "disposed"}

Waiting     == Range(queued)
InFlight    == Waiting \cup running \cup detached
Held        == heldOpen \cup heldClaimed
Disposing   == stage # "open"

TypeOK ==
    /\ seen \subseteq Requests
    /\ queued \in Seq(Requests)
    /\ running \subseteq Requests
    /\ detached \subseteq Requests
    /\ aborted \subseteq Requests
    /\ heldOpen \subseteq Requests
    /\ heldClaimed \subseteq Requests
    /\ settling \subseteq Requests
    /\ answers \in [Requests -> Nat]
    /\ pendingWrites \subseteq Requests
    /\ blockedOn \subseteq Requests
    /\ \A r, s \in blockedOn : r = s
    /\ readEnded \in BOOLEAN
    /\ closed \in BOOLEAN
    /\ stage \in Stages
    /\ heldAwaited \subseteq Requests
    /\ writesAwaited \subseteq Requests
    /\ deadlineHit \in BOOLEAN

Init ==
    /\ seen = {}
    /\ queued = <<>>
    /\ running = {}
    /\ detached = {}
    /\ aborted = {}
    /\ heldOpen = {}
    /\ heldClaimed = {}
    /\ settling = {}
    /\ answers = [r \in Requests |-> 0]
    /\ pendingWrites = {}
    /\ blockedOn = {}
    /\ readEnded = FALSE
    /\ closed = FALSE
    /\ stage = "open"
    /\ heldAwaited = {}
    /\ writesAwaited = {}
    /\ deadlineHit = FALSE

-----------------------------------------------------------------------------
(* Helpers of the scheduler. *)

\* #drain: how many queued requests a run set with this many free slots takes.
Drainable(run, q) ==
    LET free == MaxConcurrentRequests - Cardinality(run)
    IN  IF free <= 0 THEN 0 ELSE IF free < Len(q) THEN free ELSE Len(q)

\* #drain: the oldest queued requests move into the free slots.
Drain(run, q) ==
    LET n == Drainable(run, q)
    IN  /\ running' = run \cup {q[i] : i \in 1..n}
        /\ queued' = SubSeq(q, n + 1, Len(q))

\* #writeResponse: the write is started and tracked until it settles.
BeginWrite(r) ==
    /\ answers' = [answers EXCEPT ![r] = @ + 1]
    /\ pendingWrites' = pendingWrites \cup {r}

\* The read loop can take the next frame: it is not ended, and it is not
\* awaiting the write of a response it produced itself.
CanRead == ~readEnded /\ stage # "disposed" /\ blockedOn = {}

Read(r) == CanRead /\ r \notin seen /\ seen' = seen \cup {r}

\* Fault: a held request is not looked up, as if detaching gave its id back.
SameIdSlotsOnly(r) == {x \in Waiting \cup running : IdOf[x] = IdOf[r]}

SameId(r) == {x \in InFlight : IdOf[x] = IdOf[r]}

-----------------------------------------------------------------------------
(* The read loop: #readLoop, _handleMessage and RequestScheduler.schedule. *)

\* A response produced synchronously by _handleMessage is awaited by the loop.
RefuseInLoop(r) ==
    /\ BeginWrite(r)
    /\ blockedOn' = blockedOn \cup {r}
    /\ UNCHANGED <<schedVars, heldVars, settling, aborted, readEnded, closed, stage, flushVars>>

\* Fault: the refusal of an invalid request does not keep it from the scheduler.
InvalidStillRuns(r) ==
    /\ Read(r)
    /\ IF SameId(r) = {} /\ Cardinality(running) < MaxConcurrentRequests
       THEN running' = running \cup {r} ELSE UNCHANGED running
    /\ BeginWrite(r)
    /\ blockedOn' = blockedOn \cup {r}
    /\ UNCHANGED <<queued, detached, heldVars, settling, aborted, readEnded, closed, stage,
                   flushVars>>

\* A frame with a method and an id that fails validation is answered INVALID_REQUEST.
InvalidRequest(r) == Read(r) /\ RefuseInLoop(r)

\* A request read while disposing is answered SERVER_SHUTTING_DOWN.
RefuseWhileDisposing(r) == Read(r) /\ Disposing /\ RefuseInLoop(r)

\* schedule() resolves at once to an error, which #settleRequest goes on to write.
RefuseByScheduler(r) ==
    /\ settling' = settling \cup {r}
    /\ UNCHANGED <<schedVars, heldVars, answers, pendingWrites, aborted, blockedOn, readEnded, closed, stage, flushVars>>

RefuseDuplicate(r) ==
    /\ Read(r) /\ ~Disposing
    /\ SameId(r) # {}
    /\ RefuseByScheduler(r)

RefuseBusy(r) ==
    /\ Read(r) /\ ~Disposing
    /\ SameId(r) = {}
    /\ Cardinality(running) >= MaxConcurrentRequests
    /\ Len(queued) >= MaxQueuedRequests
    /\ RefuseByScheduler(r)

StartAtOnce(r) ==
    /\ Read(r) /\ ~Disposing
    /\ SameId(r) = {}
    /\ Cardinality(running) < MaxConcurrentRequests
    /\ running' = running \cup {r}
    /\ UNCHANGED <<queued, detached, heldVars, aborted, writeVars, blockedOn, readEnded,
                   closed, stage, flushVars>>

Enqueue(r) ==
    /\ Read(r) /\ ~Disposing
    /\ SameId(r) = {}
    /\ Cardinality(running) >= MaxConcurrentRequests
    /\ Len(queued) < MaxQueuedRequests
    /\ queued' = Append(queued, r)
    /\ UNCHANGED <<running, detached, heldVars, aborted, writeVars, blockedOn, readEnded,
                   closed, stage, flushVars>>

\* notifications/cancelled names a queued request: it is dropped unrun.
CancelQueued(r) ==
    /\ CanRead
    /\ \E i \in DOMAIN queued : queued[i] = r /\ queued' = RemoveAt(queued, i)
    /\ aborted' = aborted \cup {r}
    /\ UNCHANGED <<seen, running, detached, heldVars, writeVars, blockedOn, readEnded, closed,
                   stage, flushVars>>

\* It names a running or a held request: the signal fires, and a held response
\* whose terminal has not won yet is removed (onAbort, #removeHeld).
CancelStarted(r) ==
    /\ CanRead
    /\ r \in running \cup detached
    /\ aborted' = aborted \cup {r}
    /\ heldOpen' = heldOpen \ {r}
    /\ detached' = IF r \in heldOpen THEN detached \ {r} ELSE detached
    /\ UNCHANGED <<seen, queued, running, heldClaimed, writeVars, blockedOn, readEnded,
                   closed, stage, flushVars>>

-----------------------------------------------------------------------------
(* Handlers, and the held responses they may return. *)

\* The handler settles with a result or an error: a request whose signal has
\* fired answers nothing.  reclaim() frees the slot and drains the queue.
HandlerSettles(r) ==
    /\ r \in running
    /\ settling' = IF r \in aborted THEN settling ELSE settling \cup {r}
    /\ Drain(running \ {r}, queued)
    /\ UNCHANGED <<seen, detached, heldVars, answers, pendingWrites, aborted, blockedOn,
                   readEnded, closed, stage, flushVars>>

\* #settleRequest resumes with the decided response, some promise turns later: the
\* read loop may have run in between, and a cancellation now comes too late.
SettleRequest(r) ==
    /\ r \in settling
    /\ settling' = settling \ {r}
    /\ BeginWrite(r)
    /\ UNCHANGED <<seen, schedVars, heldVars, aborted, blockedOn, readEnded, closed, stage,
                   flushVars>>

\* Fault: the slot is given back but nobody drains the queue.
HoldsWithoutDrain(r) ==
    /\ r \in running
    /\ r \notin aborted
    /\ heldOpen' = heldOpen \cup {r}
    /\ detached' = detached \cup {r}
    /\ running' = running \ {r}
    /\ UNCHANGED <<seen, queued, heldClaimed, aborted, writeVars, blockedOn, readEnded, closed,
                   stage, flushVars>>

\* The handler returns a held response: #holdRequest registers it and detach
\* frees its slot while the request keeps its identity.
HandlerHolds(r) ==
    /\ r \in running
    /\ r \notin aborted
    /\ heldOpen' = heldOpen \cup {r}
    /\ detached' = detached \cup {r}
    /\ Drain(running \ {r}, queued)
    /\ UNCHANGED <<seen, heldClaimed, aborted, writeVars, blockedOn, readEnded, closed, stage,
                   flushVars>>

\* terminal resolves first: the race is claimed before beforeTerminal is awaited.
TerminalWins(r) ==
    /\ r \in heldOpen
    /\ heldOpen' = heldOpen \ {r}
    /\ heldClaimed' = heldClaimed \cup {r}
    /\ UNCHANGED <<seen, schedVars, aborted, writeVars, blockedOn, readEnded, closed, stage,
                   flushVars>>

\* terminal rejects first: nothing is written and both records are removed.
TerminalRejects(r) ==
    /\ r \in heldOpen
    /\ heldOpen' = heldOpen \ {r}
    /\ detached' = detached \ {r}
    /\ UNCHANGED <<seen, queued, running, heldClaimed, aborted, writeVars, blockedOn,
                   readEnded, closed, stage, flushVars>>

\* beforeTerminal has returned: the held response is written.
WriteHeld(r) ==
    /\ r \in heldClaimed
    /\ answers[r] = 0
    /\ BeginWrite(r)
    /\ UNCHANGED <<seen, schedVars, heldVars, settling, aborted, blockedOn, readEnded, closed, stage,
                   flushVars>>

\* A write settles, delivered or failed (failures are swallowed); the read loop
\* resumes if it was its own, and a held request is removed.
WriteSettles(r) ==
    /\ r \in pendingWrites
    /\ pendingWrites' = pendingWrites \ {r}
    /\ writesAwaited' = writesAwaited \ {r}
    /\ blockedOn' = blockedOn \ {r}
    /\ heldClaimed' = heldClaimed \ {r}
    /\ detached' = detached \ {r}
    /\ UNCHANGED <<seen, queued, running, aborted, heldOpen, settling, answers, readEnded, closed,
                   stage, heldAwaited, deadlineHit>>

-----------------------------------------------------------------------------
(* Closing and disposal. *)

\* Fault: abortAll forgets the running handlers.
CloseQuietly ==
    IF closed
    THEN UNCHANGED <<closed, schedVars, heldVars, aborted>>
    ELSE /\ closed' = TRUE
         /\ aborted' = aborted \cup Waiting \cup detached
         /\ queued' = <<>>
         /\ detached' = detached \ heldOpen
         /\ heldOpen' = {}
         /\ UNCHANGED <<running, heldClaimed>>

\* #close, once: abortAll drops the queue and fires every started signal, and
\* the abort removes every held response whose terminal has not won.
Close ==
    IF closed
    THEN UNCHANGED <<closed, schedVars, heldVars, aborted>>
    ELSE /\ closed' = TRUE
         /\ aborted' = aborted \cup InFlight
         /\ queued' = <<>>
         /\ detached' = detached \ heldOpen
         /\ heldOpen' = {}
         /\ UNCHANGED <<running, heldClaimed>>

\* The transport ends or fails under the read loop.
TransportEnds ==
    /\ CanRead
    /\ readEnded' = TRUE
    /\ Close
    /\ UNCHANGED <<seen, writeVars, blockedOn, stage, flushVars>>

\* dispose() is called: _beforeTransportClose runs first, under the deadline.
Dispose ==
    /\ stage = "open"
    /\ stage' = "hook"
    /\ UNCHANGED <<seen, schedVars, heldVars, aborted, writeVars, blockedOn, readEnded, closed,
                   flushVars>>

\* The hook has returned (or thrown): the held responses of the moment are awaited.
HookReturns ==
    /\ stage = "hook"
    /\ stage' = "held"
    /\ heldAwaited' = Held
    /\ UNCHANGED <<seen, schedVars, heldVars, aborted, writeVars, blockedOn, readEnded, closed,
                   writesAwaited, deadlineHit>>

\* They have all settled: the writes in flight at this moment are awaited.
HeldFlushed ==
    /\ stage = "held"
    /\ heldAwaited \cap Held = {}
    /\ stage' = "flush"
    /\ writesAwaited' = pendingWrites
    /\ UNCHANGED <<seen, schedVars, heldVars, aborted, writeVars, blockedOn, readEnded, closed,
                   heldAwaited, deadlineHit>>

\* #flushBeforeClose is over: #close, then the backstop takes its own snapshot.
CloseAndDrain ==
    /\ Close
    /\ stage' = "drain"
    /\ writesAwaited' = pendingWrites
    /\ UNCHANGED <<seen, writeVars, blockedOn, readEnded, heldAwaited>>

WritesFlushed ==
    /\ stage = "flush"
    /\ writesAwaited = {}
    /\ CloseAndDrain
    /\ UNCHANGED deadlineHit

\* Fault: the deadline starts only once the hook has returned.
FlushDeadlineAfterHook ==
    /\ stage \in {"held", "flush"}
    /\ CloseAndDrain
    /\ deadlineHit' = TRUE

FlushDeadline ==
    /\ stage \in {"hook", "held", "flush"}
    /\ CloseAndDrain
    /\ deadlineHit' = TRUE

\* transport.dispose(): the reader and the writer are gone.
DisposeTransport ==
    /\ stage' = "disposed"
    /\ UNCHANGED <<seen, schedVars, heldVars, aborted, writeVars, blockedOn, readEnded, closed,
                   heldAwaited, writesAwaited>>

Drained ==
    /\ stage = "drain"
    /\ writesAwaited = {}
    /\ DisposeTransport
    /\ UNCHANGED deadlineHit

DrainDeadline ==
    /\ stage = "drain"
    /\ writesAwaited # {}
    /\ DisposeTransport
    /\ deadlineHit' = TRUE

-----------------------------------------------------------------------------

Receive(r) ==
    \/ InvalidRequest(r)
    \/ RefuseWhileDisposing(r)
    \/ RefuseDuplicate(r)
    \/ RefuseBusy(r)
    \/ StartAtOnce(r)
    \/ Enqueue(r)
    \/ CancelQueued(r)
    \/ CancelStarted(r)

HandlerStep(r) ==
    \/ HandlerSettles(r)
    \/ SettleRequest(r)
    \/ HandlerHolds(r)
    \/ TerminalWins(r)
    \/ TerminalRejects(r)
    \/ WriteHeld(r)
    \/ WriteSettles(r)

ConnectionStep ==
    \/ TransportEnds
    \/ Dispose
    \/ HookReturns
    \/ HeldFlushed
    \/ WritesFlushed
    \/ FlushDeadline
    \/ Drained
    \/ DrainDeadline

Next == (\E r \in Requests : Receive(r) \/ HandlerStep(r)) \/ ConnectionStep

Spec == Init /\ [][Next]_vars

\* Promise reactions and timers fire: every step the runtime owes is weakly
\* fair.  An application handler is assumed to settle; that a held terminal
\* resolves, or that the peer sends anything, is not assumed.
Fairness ==
    /\ \A r \in Requests :
         /\ WF_vars(HandlerSettles(r))
         /\ WF_vars(SettleRequest(r))
         /\ WF_vars(WriteHeld(r))
         /\ WF_vars(WriteSettles(r))
    /\ WF_vars(FlushDeadline)
    /\ WF_vars(Drained)
    /\ WF_vars(DrainDeadline)

FairSpec == Spec /\ Fairness

-----------------------------------------------------------------------------
(* Properties. *)

\* An id names one request at a time: over queued, running and held requests no
\* two carry the same id, so the scheduler's Maps keyed by id never lose an
\* entry to a reused id (scheduler.ts schedule, detach, completeDetached).
OneInFlightPerId ==
    \A x, y \in InFlight : IdOf[x] = IdOf[y] => x = y

\* No slot is left idle while a request waits: whatever mix of cancellations,
\* detachments and settlements freed one, #drain has refilled it; and the bounds
\* on running handlers and on the queue hold throughout.
NoIdleSlot ==
    /\ Cardinality(running) <= MaxConcurrentRequests
    /\ Len(queued) <= MaxQueuedRequests
    /\ queued # <<>> => Cardinality(running) = MaxConcurrentRequests

\* The two records of a held request, the RPC's and the scheduler's, come and go
\* together (#removeHeld is the single cleanup path), so a held id is reusable
\* exactly when its response is over.
HeldRecordsAgree == Held = detached /\ heldOpen \cap heldClaimed = {}

\* No request is answered twice: not by its handler and its refusal, nor by a held
\* response whose terminal and whose cancellation race, nor by a write that
\* disposal overtakes (rpc.ts #settleRequest, #holdRequest, #writeResponse).
AnsweredOnce ==
    \A r \in Requests : answers[r] <= 1

\* Once the connection is closed nothing is left queued or undecided, and every
\* handler still running has been told through its signal.
ClosedTellsEveryone ==
    closed => /\ queued = <<>>
              /\ heldOpen = {}
              /\ running \subseteq aborted

\* A request whose signal fired while its response was undecided is never
\* answered: only a response already decided, by its handler or by the terminal
\* of a held one, may still be written after a cancellation (rpc.ts
\* _handleMessage, #holdRequest).
CancelledAnswersNothing ==
    [][\A r \in Requests :
          (r \in aborted /\ r \notin heldClaimed \cup settling)
             => answers'[r] = answers[r] /\ r \notin heldClaimed' \cup settling']_vars

\* Disposal is bounded: once dispose() is called the transport is disposed of,
\* even if a held terminal never resolves and a write never settles.
DisposeCompletes == Disposing ~> stage = "disposed"

\* A request that waits for a slot eventually leaves the queue: started, or
\* dropped by a cancellation or by the close.  Held responses take no slot.
NoStarvation == \A r \in Requests : r \in Waiting ~> r \notin Waiting

=============================================================================
