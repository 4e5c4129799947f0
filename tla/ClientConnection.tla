-------------------------- MODULE ClientConnection --------------------------
(***************************************************************************)
(* How a client gets to speak with its server, and what becomes of its     *)
(* requests: the setup of ContextClient (context-client/src/client.ts),    *)
(* SetupReader (setup-reader.ts), ExchangeRegistry and request(), close    *)
(* and dispose of ContextRPC (context-rpc/src/exchange.ts, rpc.ts).        *)
(*                                                                         *)
(* The setup exchange and, later, the read loop read the same transport.   *)
(* A frame is a notification or the answer to one id; the server answers   *)
(* what it received in any order, or never.  Two revisions exist: "old"    *)
(* needs the initialize handshake, "new" does not.  Left out: validation   *)
(* and tracing, the requests of the server (RpcServing has them), and what *)
(* a result is used for.                                                   *)
(***************************************************************************)
EXTENDS Naturals, Sequences, FiniteSets

CONSTANTS
    Requests,  \* calls of request()
    NoteCount  \* notifications the server sends at most

ASSUME ConnectionAssumption ==
    /\ IsFiniteSet(Requests) /\ NoteCount \in Nat
    /\ Requests \cap {"probe", "discover", "init"} = {}

VARIABLES
    proto,    \* #protocol: "none" until 'auto' is resolved
    at,       \* the setup: its exchange, how far it is, why it failed
    pending,  \* #pendingSetupRead: a read of the setup is outstanding
    buffer,   \* #setupBuffer
    reading,  \* the read loop runs
    ex,       \* r -> the request and its exchange
    aborted,  \* r -> the signal of the caller fired
    wire,     \* frames on their way to the client
    server,   \* ids the server has received and not answered
    eof,      \* the server has ended its side
    closing,  \* "no", then the stages of dispose(): "disposing", "closed", "gone"
    closed,   \* #closed
    sent,     \* ghost: the notifications sent
    lost,     \* ghost: frames handed to an exchange that no longer waits
    delivered \* ghost: those that _handleNotification got

setupVars == <<proto, at, pending, buffer, reading>>
callVars  == <<ex, aborted>>
wireVars  == <<wire, server, eof, sent>>
closeVars == <<closing, closed>>
vars == <<setupVars, callVars, wireVars, closeVars, lost, delivered>>

Steps == {"probe", "discover", "init"}
Note(n) == [kind |-> "note", n |-> n]
Answer(id, what) == [kind |-> "answer", id |-> id, what |-> what]
Setup(step, stage) == [step |-> step, stage |-> stage, why |-> "none"]
Failing(why) == [step |-> "none", stage |-> "failing", why |-> why]

Settled == {"result", "error", "cancelled", "closed", "refused"}
ServerUp == ~eof /\ closing # "gone"
Registered == {"open", "unsent"}
InSetup == at.stage \in {"write", "read", "confirm"}

Init ==
    /\ proto \in {"none", "old", "new"} /\ at = Setup("none", "idle")
    /\ pending = FALSE /\ buffer = <<>> /\ reading = FALSE
    /\ ex = [r \in Requests |-> "none"] /\ aborted = [r \in Requests |-> FALSE]
    /\ wire = <<>> /\ server = {} /\ eof = FALSE /\ sent = <<>>
    /\ closing = "no" /\ closed = FALSE /\ lost = {} /\ delivered = <<>>

-----------------------------------------------------------------------------
(* The setup. *)

\* The write of a setup frame begins: the server may have it, and may have
\* answered, before the write is over on this side.
Begins(step) ==
    /\ at' = Setup(step, "write")
    /\ server' = IF ServerUp THEN server \cup {step} ELSE server

\* Setup that fails disposes of the connection before it rejects.
Fails(why) ==
    /\ at' = Failing(why)
    /\ closing' = IF closing = "no" THEN "disposing" ELSE closing

\* Fault: the other revision, without a handshake.
FallBackDirectly ==
    /\ proto' = "new" /\ UNCHANGED server
    /\ IF pending' THEN Fails("competing") /\ UNCHANGED reading
       ELSE reading' = TRUE /\ at' = Setup("none", "ready") /\ UNCHANGED closing
\* A probe that fails, for any reason, falls back on a revision that needs
\* the handshake: the handshake uses up a read the probe left behind.
FallBackFromProbe ==
    /\ proto' = "old" /\ Begins("init") /\ UNCHANGED <<reading, closing>>

\* What #setup() makes of an exchange without a usable answer.
ExchangeFails(why) ==
    IF at.step = "probe" THEN FallBackFromProbe
    ELSE Fails(why) /\ UNCHANGED <<proto, reading, server>>

\* The read loop starts only when no read of the setup is outstanding.
StartReadLoop(next) ==
    IF pending' THEN Fails("competing") /\ UNCHANGED reading
    ELSE reading' = TRUE /\ at' = next /\ UNCHANGED closing

\* The answer is there: an error that answers server/discover proves that
\* the server is alive, and is enough outside of the probe.
Answered(what) ==
    IF at.step = "init" \/ (at.step = "probe" /\ what # "result")
    THEN IF at.step = "init" /\ what = "result"
         THEN StartReadLoop(Setup("init", "confirm")) /\ UNCHANGED <<proto, server>>
         ELSE ExchangeFails("refused")
    ELSE StartReadLoop(Setup("none", "ready")) /\ proto' = "new" /\ UNCHANGED server

\* #readMatching: a look into the buffer for the answer, then one more read.
Without(s, i) == SubSeq(s, 1, i - 1) \o SubSeq(s, i + 1, Len(s))
Match(frames) == {i \in DOMAIN frames : frames[i].kind = "answer" /\ frames[i].id = at.step}
ReadOn(frames, left) ==
    IF Match(frames) = {}
    THEN /\ pending' = TRUE /\ buffer' = frames /\ at' = Setup(at.step, "read")
         /\ UNCHANGED <<proto, reading, server, closing>>
    ELSE \E i \in Match(frames) :
            /\ pending' = left /\ buffer' = Without(frames, i) /\ Answered(frames[i].what)

\* The write is over.  The deadline of the exchange starts only now.
SetupWritten ==
    /\ at.stage = "write" /\ closing # "gone" /\ ReadOn(buffer, pending)
    /\ UNCHANGED <<callVars, wire, eof, sent, closed, lost, delivered>>

\* A write fails when the transport is gone, and may when the server left.
SetupWriteFails ==
    /\ at.stage \in {"write", "confirm"} /\ ~ServerUp /\ UNCHANGED pending
    /\ ExchangeFails("closed")
    /\ UNCHANGED <<buffer, callVars, wire, eof, sent, closed, lost, delivered>>

\* The outstanding read gets a frame: for the exchange that waits, or for
\* the one that gave up, whose successor is still writing.
SetupReads ==
    /\ pending /\ wire # <<>> /\ closing # "gone" /\ wire' = Tail(wire)
    /\ \/ /\ at.stage = "read" /\ ReadOn(Append(buffer, Head(wire)), FALSE) /\ UNCHANGED lost
       \/ /\ at.stage # "read" /\ pending' = FALSE
          /\ lost' = lost \cup {Head(wire)}
          /\ UNCHANGED <<proto, at, buffer, reading, server, closing>>
    /\ UNCHANGED <<callVars, eof, sent, closed, delivered>>

SetupReadsEnd ==
    /\ pending /\ ((eof /\ wire = <<>>) \/ closing = "gone") /\ pending' = FALSE
    /\ \/ at.stage = "read" /\ ExchangeFails("closed")
       \/ at.stage # "read" /\ UNCHANGED <<proto, at, reading, server, closing>>
    /\ UNCHANGED <<buffer, callVars, wire, eof, sent, closed, lost, delivered>>

\* Fault: a silent server has no deadline for its discovery.
DeadlineUnlessDiscover ==
    /\ at.stage = "read" /\ at.step # "discover" /\ UNCHANGED pending
    /\ ExchangeFails("timeout")
    /\ UNCHANGED <<buffer, callVars, wire, eof, sent, closed, lost, delivered>>
\* #setupDeadline: the read stays outstanding.
SetupDeadline ==
    /\ at.stage = "read" /\ UNCHANGED pending
    /\ ExchangeFails("timeout")
    /\ UNCHANGED <<buffer, callVars, wire, eof, sent, closed, lost, delivered>>

\* notifications/initialized is written, with the read loop already running.
Confirmed ==
    /\ at.stage = "confirm" /\ closing # "gone" /\ at' = Setup("none", "ready")
    /\ UNCHANGED <<proto, pending, buffer, reading, callVars, wireVars, closeVars, lost,
                   delivered>>

-----------------------------------------------------------------------------
(* Requests. *)

\* The first call starts the setup; each waits for it.
Call(r) ==
    /\ ex[r] = "none" /\ ex' = [ex EXCEPT ![r] = "waiting"]
    /\ IF at.stage = "idle"
       THEN Begins(CASE proto = "none" -> "probe" [] proto = "new" -> "discover"
                     [] proto = "old" -> "init")
       ELSE UNCHANGED <<at, server>>
    /\ UNCHANGED <<proto, pending, buffer, reading, aborted, wire, eof, sent, closeVars, lost,
                   delivered>>

\* An aborted call sends nothing; any other is registered and written, and
\* the write fails when the transport is gone, and may when the server left.
Register(r) ==
    /\ ex[r] = "waiting" /\ at.stage = "ready"
    /\ \/ aborted[r] /\ ex' = [ex EXCEPT ![r] = "cancelled"] /\ UNCHANGED server
       \/ /\ ~aborted[r] /\ closing # "gone" /\ ex' = [ex EXCEPT ![r] = "open"]
          /\ server' = IF eof THEN server ELSE server \cup {r}
       \/ /\ ~aborted[r] /\ ~ServerUp /\ ex' = [ex EXCEPT ![r] = "unsent"]
          /\ UNCHANGED server
    /\ UNCHANGED <<setupVars, aborted, wire, eof, sent, closeVars, lost, delivered>>

\* A request that could not be written is cancelled with that error.
RequestWriteFails(r) ==
    /\ ex[r] = "unsent" /\ ex' = [ex EXCEPT ![r] = "cancelled"]
    /\ UNCHANGED <<setupVars, aborted, wireVars, closeVars, lost, delivered>>

\* An abort of the caller or the timeout of the request: settled here, and
\* the server is told so with notifications/cancelled.
Cancel(r) ==
    /\ ~aborted[r] /\ ex[r] \in {"waiting"} \cup Registered
    /\ aborted' = [aborted EXCEPT ![r] = TRUE]
    /\ ex' = IF ex[r] \in Registered THEN [ex EXCEPT ![r] = "cancelled"] ELSE ex
    /\ UNCHANGED <<setupVars, wireVars, closeVars, lost, delivered>>

-----------------------------------------------------------------------------
(* The read loop. *)

\* An answer settles its exchange if there still is one.
Handle(f) ==
    IF f.kind = "note" THEN delivered' = Append(delivered, f) /\ UNCHANGED ex
    ELSE /\ UNCHANGED delivered
         /\ IF f.id \in Requests /\ ex[f.id] = "open" THEN ex' = [ex EXCEPT ![f.id] = f.what]
            ELSE UNCHANGED ex

\* Fault: the buffer waits until the transport has nothing.
ReadTransportFirst ==
    /\ reading /\ closing # "gone"
    /\ \/ wire # <<>> /\ wire' = Tail(wire) /\ UNCHANGED buffer /\ Handle(Head(wire))
       \/ /\ wire = <<>> /\ buffer # <<>> /\ buffer' = Tail(buffer) /\ UNCHANGED wire
          /\ Handle(Head(buffer))
    /\ UNCHANGED <<proto, at, pending, reading, aborted, server, eof, sent, closeVars, lost>>
\* _read(): what the setup left in the buffer comes first.
Read ==
    /\ reading /\ closing # "gone"
    /\ \/ buffer # <<>> /\ buffer' = Tail(buffer) /\ UNCHANGED wire /\ Handle(Head(buffer))
       \/ /\ buffer = <<>> /\ wire # <<>> /\ wire' = Tail(wire) /\ UNCHANGED buffer
          /\ Handle(Head(wire))
    /\ UNCHANGED <<proto, at, pending, reading, aborted, server, eof, sent, closeVars, lost>>

\* #close(), once: every exchange registered by then is ended.
EndAll == ex' = IF closed THEN ex
                ELSE [r \in Requests |-> IF ex[r] \in Registered THEN "closed" ELSE ex[r]]

\* Fault: the end of the reads leaves the exchanges to a disposal, which
\* finds the connection closed.
ReadEndsQuietly ==
    /\ reading /\ ((eof /\ wire = <<>> /\ buffer = <<>>) \/ closing = "gone")
    /\ reading' = FALSE /\ closed' = TRUE
    /\ UNCHANGED <<proto, at, pending, buffer, callVars, wireVars, closing, lost, delivered>>
ReadEnds ==
    /\ reading /\ ((eof /\ wire = <<>> /\ buffer = <<>>) \/ closing = "gone")
    /\ reading' = FALSE /\ closed' = TRUE /\ EndAll
    /\ UNCHANGED <<proto, at, pending, buffer, aborted, wireVars, closing, lost, delivered>>

-----------------------------------------------------------------------------
(* Disposal. *)

Dispose ==
    /\ closing = "no" /\ closing' = "disposing"
    /\ UNCHANGED <<setupVars, callVars, wireVars, closed, lost, delivered>>

\* Pending writes get a moment, and so they do once more after the close.
DisposeCloses ==
    /\ closing = "disposing" /\ closing' = "closed" /\ closed' = TRUE /\ EndAll
    /\ UNCHANGED <<setupVars, aborted, wireVars, lost, delivered>>

TransportDisposed ==
    /\ closing = "closed" /\ closing' = "gone" /\ wire' = <<>>
    /\ UNCHANGED <<setupVars, callVars, server, eof, sent, closed, lost, delivered>>

\* #ready rejects after the disposal that a failed setup began.
SetupRejects ==
    /\ at.stage = "failing" /\ closing = "gone" /\ at' = [at EXCEPT !.stage = "failed"]
    /\ UNCHANGED <<proto, pending, buffer, reading, callVars, wireVars, closeVars, lost,
                   delivered>>
CallRefused(r) ==
    /\ ex[r] = "waiting" /\ at.stage = "failed" /\ ex' = [ex EXCEPT ![r] = "refused"]
    /\ UNCHANGED <<setupVars, aborted, wireVars, closeVars, lost, delivered>>

-----------------------------------------------------------------------------
(* The server. *)

ServerNotes ==
    /\ ServerUp /\ Len(sent) < NoteCount
    /\ LET note == Note(Len(sent) + 1)
       IN  sent' = Append(sent, note) /\ wire' = Append(wire, note)
    /\ UNCHANGED <<setupVars, callVars, server, eof, closeVars, lost, delivered>>

ServerAnswers(id) ==
    /\ ServerUp /\ id \in server /\ server' = server \ {id}
    /\ \E what \in {"result", "error"} : wire' = Append(wire, Answer(id, what))
    /\ UNCHANGED <<setupVars, callVars, eof, sent, closeVars, lost, delivered>>

ServerLeaves ==
    /\ ServerUp /\ eof' = TRUE
    /\ UNCHANGED <<setupVars, callVars, wire, server, sent, closeVars, lost, delivered>>

-----------------------------------------------------------------------------
SetupStep ==
    \/ SetupWritten \/ SetupWriteFails \/ SetupReads \/ SetupReadsEnd \/ SetupDeadline
    \/ Confirmed \/ SetupRejects
CallStep(r) == Call(r) \/ Register(r) \/ RequestWriteFails(r) \/ Cancel(r) \/ CallRefused(r)
LoopStep == Read \/ ReadEnds
ServerStep ==
    ServerNotes \/ ServerLeaves \/ \E id \in Steps \cup Requests : ServerAnswers(id)

Next ==
    \/ SetupStep \/ LoopStep \/ ServerStep
    \/ Dispose \/ DisposeCloses \/ TransportDisposed
    \/ \E r \in Requests : CallStep(r)

Spec == Init /\ [][Next]_vars

\* Writes end (the transports bound them), timers fire, what is queued is
\* read, disposal goes on: its waits have a deadline.  Nothing is asked of
\* the server or of callers.
Fairness ==
    /\ WF_vars(SetupWritten) /\ WF_vars(SetupReadsEnd) /\ WF_vars(SetupDeadline)
    /\ WF_vars(SetupReads) /\ WF_vars(SetupWriteFails /\ closing = "gone") /\ WF_vars(Confirmed)
    /\ WF_vars(SetupRejects) /\ WF_vars(LoopStep)
    /\ WF_vars(DisposeCloses) /\ WF_vars(TransportDisposed)
    /\ \A r \in Requests :
         /\ WF_vars(Register(r)) /\ WF_vars(CallRefused(r))
         /\ WF_vars(RequestWriteFails(r))

FairSpec == Spec /\ Fairness

-----------------------------------------------------------------------------
(* Properties. *)

\* The read loop never starts beside an outstanding read of the setup: what
\* #startReadLoop() asserts, and why every fallback of the probe has to be
\* a revision with a handshake (client.ts #probe).
SetupReadIsOver == at.why # "competing"

\* Nothing that came before or during the setup is dropped, repeated or overtaken: the
\* notifications handed on, those still buffered and those on the wire are, in this order, all
\* that the server sent.  Left out is what came between the timeout of the probe and the end of
\* the next write (setup-reader.ts, and _read() of client.ts).
Received == delivered \o buffer \o wire
NotesAt(frames) == {i \in DOMAIN frames : frames[i].kind = "note"}
InOrder(frames) == \A i, j \in NotesAt(frames) : i < j => frames[i].n < frames[j].n
NotesIn(frames) == {frames[i] : i \in NotesAt(frames)}

SetupKeepsFrames ==
    closing # "gone" => InOrder(Received) /\ NotesIn(Received) = NotesIn(sent) \ lost

\* Every setup ends, whatever the server does: ready, or failed with the
\* connection disposed of (client.ts #setup, #setupDiscover).
SetupEnds == InSetup ~> (at.stage = "ready" \/ (at.stage = "failed" /\ closing = "gone"))

\* Who closes first, the read loop that meets the end or a disposal, ends every request that
\* was registered by then, and what still waits for the setup is refused when the setup fails
\* or the transport is gone.  Left out, because the code leaves it: a request registered
\* after #close() and before the transport is gone.  Nothing looks at #closed then, the second
\* #close() returns at once, and only its own timeout or signal, if it has one, can settle
\* it (rpc.ts #close, request(), #startExchange; client.ts #setup).
CloseSettles ==
    \A r \in Requests :
        \/ ex[r] \in Registered /\ ~closed /\ (closing = "disposing" \/ eof)
        \/ ex[r] = "waiting" /\ (closing = "gone" \/ at.stage = "failing")
        ~> ex[r] \in Settled

=============================================================================
