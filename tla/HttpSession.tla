---------------------------- MODULE HttpSession ----------------------------
(***************************************************************************)
(* One session of the Streamable HTTP transport, both ends of it:          *)
(* http-client/src/transport.ts (HTTPTransport) and, on the server,        *)
(* http-server/src/handler.ts, session.ts, sse-writer.ts, sse-stream.ts.   *)
(*                                                                         *)
(* A request is a POST whose response is an SSE body; server messages that *)
(* answer nothing travel on a GET body, which the client reopens from the  *)
(* last event it saw.  A body is a pipe: its unread frames and who still   *)
(* holds an end of it.  Wording, headers and message contents are left     *)
(* out.  The library's writable of the client takes one message at a time. *)
(***************************************************************************)
EXTENDS Naturals, Sequences, SequencesExt, FiniteSets

CONSTANTS
    Requests,       \* requests the client posts, each once
    NoteCount,      \* bound: notifications the server emits
    HighWater,      \* SSE_STREAM_HIGH_WATER_MARK: unread frames of a body
    ReplaySize,     \* replayBufferSize: events the session remembers
    MaxCuts,        \* bound: connections that break or time out
    Nobody,         \* no message, no stream
    Initialize,     \* the initialize request
    Get             \* the stream of server messages

ASSUME HttpAssumption ==
    /\ HighWater \in Nat \ {0} /\ ReplaySize \in Nat \ {0}
    /\ MaxCuts \in Nat /\ NoteCount \in Nat
    /\ IsFiniteSet(Requests) /\ Requests \cap Nat = {}
    /\ Nobody # Initialize /\ Nobody # Get /\ Initialize # Get
    /\ {Nobody, Initialize, Get} \cap (Requests \cup Nat) = {}

VARIABLES
    phase,      \* the client: new, ready, expired, failed, disposed
    sink,       \* message whose POST awaits its headers
    headers,    \* what the server answered it so far
    exchange,   \* r -> idle, posting, reading, done: #exchangeControllers
    told,       \* r -> what the RPC layer was handed for r
    seen,       \* notes the client handed on
    cursor,     \* #lastEventID
    getLoop,    \* #runGETStream: off, opening, accepted, reading, waiting, stopped
    session,    \* none, opening, open, closing, closed
    serving,    \* r -> none, running, answered, cancelled, aborted
    emitted,    \* how many notes were emitted
    outbox,     \* server messages queued for the writable of the bridge
    writing,    \* the stream that writable is busy with, and the frame
    streams,    \* postStreams, in the order of the Map
    pipe,       \* stream -> the body of its response
    replay,     \* the snapshot handleGET has yet to write
    gated,      \* deferLiveWritesUntil: live writes wait for the snapshot
    log,        \* replayLog
    cuts,       \* connections broken so far
    recorded,   \* ghost: messages that ever entered the log
    unrouted,   \* ghost: notes that found no stream at all
    owed,       \* ghost: what the current GET body must carry, in order
    sent        \* ghost: what was written to it

clientVars == <<phase, sink, headers, exchange, told, seen, cursor, getLoop>>
writeVars  == <<outbox, writing>>
getVars    == <<replay, gated, owed, sent>>
logVars    == <<log, recorded, unrouted>>
serverVars == <<session, serving, emitted, writeVars, streams, getVars, logVars>>
vars == <<clientVars, serverVars, pipe, cuts>>

Notes   == 1..NoteCount
Posts   == Requests \cup {Initialize}
Streams == Requests \cup {Get}

Message(kind, of) == [kind |-> kind, of |-> of]
NoMessage == Message("none", Nobody)

\* An event of a stream: the counter of every new GET writer starts over.
Event(stream, n, of) == [id |-> <<stream, n>>, of |-> of]
NoEvent == Event(Nobody, 0, Nobody)
Write(stream, event) == [to |-> stream, event |-> event]
NoWrite == Write(Nobody, NoEvent)

\* held: open at both ends; cut: the client has gone and the server does not
\* know; cancelled: it knows; ended: the server has closed its end.
Closed == [held |-> "none", frames |-> <<>>, count |-> 0, room |-> 0]
Opened(stream, room) ==
    [held |-> "open", frames |-> <<Event(stream, 1, Nobody)>>, count |-> 1, room |-> room]
ServerCloses(p) == IF p.held = "open" THEN [p EXCEPT !.held = "ended"]
                   ELSE IF p.held = "ended" THEN p ELSE Closed
ClientLeaves(p) == IF p.held = "open" THEN [p EXCEPT !.held = "cut"]
                   ELSE IF p.held = "ended" THEN Closed ELSE p
Registered(s) == pipe[s].held \in {"open", "cut", "cancelled"}
Readable(s)   == pipe[s].held \in {"open", "ended"}

\* Whether the sink of a body takes a frame now: it waits for room, and a body
\* nobody reads any more swallows the frame.
Takes(p) == p.held \notin {"open", "cut"} \/ Len(p.frames) < p.room
Put(p, events) == IF p.held \in {"open", "cut"}
                  THEN [p EXCEPT !.frames = @ \o events] ELSE p

\* eventsAfter: what the session replays to a GET that names its last event.
EventsAfter(events, id) ==
    LET at == {i \in DOMAIN events : events[i].id = id}
    IN  IF at = {} THEN events
        ELSE SubSeq(events, (CHOOSE i \in at : \A j \in at : i <= j) + 1, Len(events))

\* appendReplay: the session remembers the last ReplaySize events.
Remember(events, event) ==
    LET all == Append(events, event)
    IN  IF Len(all) > ReplaySize THEN Tail(all) ELSE all

HttpInit ==
    /\ phase = "new" /\ sink = NoMessage /\ headers = "none"
    /\ exchange = [r \in Posts |-> "idle"] /\ told = [r \in Posts |-> {}]
    /\ seen = {} /\ cursor = NoEvent.id /\ getLoop = "off"
    /\ session = "none" /\ serving = [r \in Posts |-> "none"]
    /\ emitted = 0 /\ outbox = <<>> /\ writing = NoWrite /\ streams = <<>>
    /\ pipe = [s \in Streams |-> Closed]
    /\ replay = <<>> /\ gated = FALSE /\ owed = <<>> /\ sent = <<>>
    /\ log = <<>> /\ recorded = {} /\ unrouted = {} /\ cuts = 0

-----------------------------------------------------------------------------
(* The client sends. *)

Tracked == sink.kind \in {"initialize", "request"}
Tell(r, what) ==
    /\ exchange' = [exchange EXCEPT ![r] = "done"]
    /\ told' = [told EXCEPT ![r] = @ \cup {what}]

MayPost(kind, r) ==
    CASE kind = "initialize"  -> r = Initialize /\ phase = "new"
      [] kind = "initialized" -> r = Initialize /\ phase = "ready" /\ getLoop = "off"
      [] kind = "request"     -> /\ r \in Requests /\ exchange[r] = "idle"
                                 /\ phase \in {"ready", "expired"} /\ getLoop # "off"
      [] kind = "cancelled"   -> /\ r \in Requests /\ exchange[r] = "reading"
                                 /\ phase = "ready" /\ "cancelled" \notin told[r]

\* #sendMessage up to its fetch.  In a session a cancellation is only posted.
Post(kind, r) ==
    /\ sink = NoMessage /\ MayPost(kind, r)
    /\ sink' = Message(kind, r)
    /\ exchange' = IF kind \in {"initialize", "request"}
                   THEN [exchange EXCEPT ![r] = "posting"] ELSE exchange
    /\ told' = IF kind = "cancelled" THEN [told EXCEPT ![r] = @ \cup {"cancelled"}] ELSE told
    /\ UNCHANGED <<phase, headers, seen, cursor, getLoop, serverVars, pipe, cuts>>

\* The headers of the POST are back.  A 404 means the session is gone.
HeadersBack ==
    /\ headers # "none"
    /\ sink' = NoMessage /\ headers' = "none"
    /\ CASE headers \in {"gone", "refused"} /\ Tracked -> Tell(sink.of, "error")
         [] headers = "json"   -> Tell(sink.of, "result")
         [] headers = "stream" -> exchange' = [exchange EXCEPT ![sink.of] = "reading"]
                                  /\ told' = told
         [] OTHER -> UNCHANGED <<exchange, told>>
    /\ phase' = CASE headers = "gone" -> "expired"
                  [] headers = "json" -> "ready"
                  [] headers = "refused" /\ sink.kind = "initialize" -> "failed"
                  [] OTHER -> phase
    /\ getLoop' = IF sink.kind # "initialized" THEN getLoop
                  ELSE IF headers = "accepted" THEN "opening" ELSE "stopped"
    /\ UNCHANGED <<seen, cursor, serverVars, pipe, cuts>>

\* The fetch rejects: the network broke, or the timer until the headers fired.
PostFails ==
    /\ sink # NoMessage /\ cuts < MaxCuts
    /\ cuts' = cuts + 1
    /\ sink' = NoMessage /\ headers' = "none"
    /\ IF Tracked THEN Tell(sink.of, "error") ELSE UNCHANGED <<exchange, told>>
    /\ phase' = IF sink.kind = "initialize" THEN "failed" ELSE phase
    /\ getLoop' = IF sink.kind = "initialized" THEN "stopped" ELSE getLoop
    /\ pipe' = IF headers = "stream" THEN [pipe EXCEPT ![sink.of] = ClientLeaves(@)] ELSE pipe
    /\ UNCHANGED <<seen, cursor, serverVars>>

-----------------------------------------------------------------------------
(* The client reads. *)

\* An event is handed on: a note, or the answer of a request that then has no
\* record left.  Every event moves the cursor, a blank one too.
HandOn(event) ==
    /\ cursor' = event.id
    /\ seen' = IF event.of \in Notes THEN seen \cup {event.of} ELSE seen
    /\ IF event.of \in Requests THEN Tell(event.of, "result") ELSE UNCHANGED <<exchange, told>>

HeadersDue(r) == sink = Message("request", r)

\* #handleSSEResponse: one more event of a body.
ReadEvent(s) ==
    /\ Readable(s) /\ pipe[s].frames # <<>>
    /\ IF s = Get THEN getLoop = "reading" ELSE ~HeadersDue(s)
    /\ HandOn(Head(pipe[s].frames))
    /\ pipe' = [pipe EXCEPT ![s].frames = Tail(@)]
    /\ UNCHANGED <<phase, sink, headers, getLoop, serverVars, cuts>>

\* The body is over: the end of a POST body with no answer on it is signalled,
\* the GET loop pauses before it reconnects.
BodyEnds(s) ==
    IF s = Get THEN getLoop' = "waiting" /\ UNCHANGED <<exchange, told>>
    ELSE /\ IF "result" \in told[s]
            THEN exchange' = [exchange EXCEPT ![s] = "done"] /\ told' = told
            ELSE Tell(s, "closed")
         /\ getLoop' = getLoop
ReadEnd(s) ==
    /\ pipe[s].held = "ended" /\ pipe[s].frames = <<>>
    /\ IF s = Get THEN getLoop = "reading" ELSE ~HeadersDue(s)
    /\ BodyEnds(s)
    /\ pipe' = [pipe EXCEPT ![s] = Closed]
    /\ UNCHANGED <<phase, sink, headers, seen, cursor, serverVars, cuts>>

\* The connection under a body breaks; the frames on it are lost.
Cut(s) ==
    /\ cuts < MaxCuts /\ Readable(s)
    /\ IF s = Get THEN getLoop \in {"accepted", "reading"} ELSE ~HeadersDue(s)
    /\ cuts' = cuts + 1
    /\ BodyEnds(s)
    /\ pipe' = [pipe EXCEPT ![s] = ClientLeaves(@)]
    /\ UNCHANGED <<phase, sink, headers, seen, cursor, serverVars>>

\* The backoff is over: the next GET leaves.
Reconnect ==
    /\ getLoop = "waiting" /\ getLoop' = "opening"
    /\ UNCHANGED <<phase, sink, headers, exchange, told, seen, cursor, serverVars, pipe, cuts>>

\* The GET fails before its headers.
GetFails ==
    /\ getLoop = "opening" /\ cuts < MaxCuts
    /\ cuts' = cuts + 1 /\ getLoop' = "waiting"
    /\ UNCHANGED <<phase, sink, headers, exchange, told, seen, cursor, serverVars, pipe>>

\* dispose: everything in flight is aborted and the session, when one is
\* known, deleted by a request that may itself be lost.
Dispose ==
    /\ phase \in {"ready", "expired", "failed"}
    /\ phase' = "disposed"
    /\ sink' = NoMessage /\ headers' = "none" /\ getLoop' = "stopped"
    /\ exchange' = [r \in Posts |-> "done"]
    /\ pipe' = [s \in Streams |-> ClientLeaves(pipe[s])]
    /\ \/ session' = session
       \/ phase = "ready" /\ session = "open" /\ session' = "closing"
    /\ UNCHANGED <<told, seen, cursor, serving, emitted, writeVars, streams, getVars,
                   logVars, cuts>>

-----------------------------------------------------------------------------
(* The server: requests arrive. *)

Known == session = "open" /\ phase # "expired"
Missing == IF phase = "expired" THEN "refused" ELSE "gone"

\* handleInitialize: a session and a server for it, or a refusal.
InitializeArrives ==
    /\ sink.kind = "initialize" /\ headers = "none" /\ session = "none"
    /\ \/ session' = "opening" /\ headers' = headers
          /\ serving' = [serving EXCEPT ![Initialize] = "running"]
       \/ session' = "closed" /\ headers' = "refused" /\ serving' = serving
    /\ UNCHANGED <<phase, sink, exchange, told, seen, cursor, getLoop, emitted, writeVars,
                   streams, pipe, getVars, logVars, cuts>>

\* handlePOST of a request: the server gets it, then its body is opened.
RequestArrives ==
    /\ sink.kind = "request" /\ headers = "none"
    /\ IF Known
       THEN /\ headers' = "stream"
            /\ serving' = [serving EXCEPT ![sink.of] = "running"]
            /\ streams' = Append(streams, sink.of)
            /\ pipe' = [pipe EXCEPT ![sink.of] = Opened(sink.of, HighWater)]
       ELSE headers' = Missing /\ UNCHANGED <<serving, streams, pipe>>
    /\ UNCHANGED <<phase, sink, exchange, told, seen, cursor, getLoop, session, emitted,
                   writeVars, getVars, logVars, cuts>>

\* handlePOST of a notification.
NoticeArrives ==
    /\ sink.kind \in {"initialized", "cancelled"} /\ headers = "none"
    /\ headers' = IF Known THEN "accepted" ELSE Missing
    /\ serving' = IF Known /\ sink.kind = "cancelled" /\ serving[sink.of] = "running"
                  THEN [serving EXCEPT ![sink.of] = "cancelled"] ELSE serving
    /\ UNCHANGED <<phase, sink, exchange, told, seen, cursor, getLoop, session, emitted,
                   writeVars, streams, pipe, getVars, logVars, cuts>>

\* A write still held for the GET body that is replaced is dropped.
Superseded == IF writing.to = Get THEN NoWrite ELSE writing

\* handleGET up to its first await: the snapshot, the old body closed, the new
\* one published with its live writes gated.
GetArrives ==
    /\ getLoop = "opening"
    /\ IF Known
       THEN LET missed == IF cursor = NoEvent.id THEN <<>> ELSE EventsAfter(log, cursor)
                room   == IF Len(missed) + 1 > HighWater THEN Len(missed) + 1 ELSE HighWater
            IN  /\ getLoop' = "accepted"
                /\ pipe' = [pipe EXCEPT ![Get] = Opened(Get, room)]
                /\ replay' = missed /\ gated' = TRUE /\ owed' = missed /\ sent' = <<>>
                /\ writing' = Superseded
       ELSE /\ getLoop' = IF phase = "expired" THEN "waiting" ELSE "stopped"
            /\ UNCHANGED <<pipe, getVars, writing>>
    /\ UNCHANGED <<phase, sink, headers, exchange, told, seen, cursor, session, serving,
                   emitted, outbox, streams, logVars, cuts>>

\* The snapshot is written and the live writes follow it.
OpenGate(always) ==
    /\ gated /\ (always \/ replay # <<>>)
    /\ gated' = FALSE /\ replay' = <<>> /\ sent' = sent \o replay
    /\ pipe' = [pipe EXCEPT ![Get] = Put(@, replay)]
    /\ getLoop' = IF getLoop = "accepted" THEN "reading" ELSE getLoop
    /\ UNCHANGED <<phase, sink, headers, exchange, told, seen, cursor, session, serving,
                   emitted, writeVars, streams, owed, logVars, cuts>>

\* Fault: without a snapshot to write, the gate is never opened.
GateStaysShut == OpenGate(FALSE)
GetReplayed == OpenGate(TRUE)

-----------------------------------------------------------------------------
(* The server: messages leave. *)

\* The server of the session answers r, or has something to say of its own.
Answer(r) ==
    /\ serving[r] = "running" /\ session \in {"opening", "open", "closing"}
    /\ serving' = [serving EXCEPT ![r] = "answered"]
    /\ outbox' = Append(outbox, r)
    /\ UNCHANGED <<clientVars, session, emitted, writing, streams, pipe, getVars, logVars, cuts>>
Notify ==
    /\ session = "open" /\ emitted < NoteCount
    /\ emitted' = emitted + 1
    /\ outbox' = Append(outbox, emitted')
    /\ UNCHANGED <<clientVars, session, serving, writing, streams, pipe, getVars, logVars, cuts>>

\* Fault: a gated event is not remembered until it is written.
SendUnremembered(m, to, remembered) ==
    LET event == Event(to, pipe[to].count + 1, m)
    IN  /\ pipe' = [pipe EXCEPT ![to].count = @ + 1]
        /\ writing' = Write(to, event)
        /\ owed' = IF to = Get THEN Append(owed, event) ELSE owed
        /\ IF ~(to = Get /\ gated) THEN log' = Remember(log, event) /\ recorded' = recorded \cup {m}
           ELSE UNCHANGED <<log, recorded>>

\* Where the bridge sends a message: an answer to its POST, the rest to the
\* GET body or, without one, to the oldest POST body still open.
Route(m) ==
    CASE m \in Notes /\ Registered(Get)  -> Get
      [] m \in Notes /\ streams # <<>>   -> Head(streams)
      [] m \in Requests /\ m \in Range(streams) -> m
      [] OTHER -> Nobody

\* writeEvent: the event gets its id and is remembered before it waits.
Send(m, to, remembered) ==
    LET event == Event(to, pipe[to].count + 1, m)
    IN  /\ pipe' = [pipe EXCEPT ![to].count = @ + 1]
        /\ writing' = Write(to, event)
        /\ owed' = IF to = Get THEN Append(owed, event) ELSE owed
        /\ IF remembered THEN log' = Remember(log, event) /\ recorded' = recorded \cup {m}
           ELSE UNCHANGED <<log, recorded>>
TakeOut ==
    /\ outbox # <<>> /\ Head(outbox) # Initialize /\ writing = NoWrite
    /\ session \in {"open", "closing"}
    /\ outbox' = Tail(outbox)
    /\ LET m == Head(outbox)  to == Route(Head(outbox))
       IN  IF to = Nobody
           THEN /\ unrouted' = unrouted \cup {m}
                /\ UNCHANGED <<writing, pipe, log, recorded, owed>>
           ELSE Send(m, to, TRUE) /\ unrouted' = unrouted
    /\ UNCHANGED <<clientVars, session, serving, emitted, streams, replay, gated, sent, cuts>>

\* The frame goes out, or is swallowed; an answer closes its body and gives
\* up its place in the Map.
Delete(map, key) ==
    IF key \in Range(map) THEN RemoveAt(map, CHOOSE i \in DOMAIN map : map[i] = key) ELSE map
WriteFrame(closes, waits) ==
    /\ writing # NoWrite
    /\ waits => ~(writing.to = Get /\ gated)
    /\ Takes(pipe[writing.to])
    /\ LET s == writing.to  put == Put(pipe[s], <<writing.event>>)
       IN  IF writing.event.of = s
           THEN /\ pipe' = [pipe EXCEPT ![s] = ServerCloses(put)]
                /\ streams' = IF closes THEN Delete(streams, s) ELSE streams
           ELSE pipe' = [pipe EXCEPT ![s] = put] /\ streams' = streams
    /\ sent' = IF writing.to = Get THEN Append(sent, writing.event) ELSE sent
    /\ writing' = NoWrite
    /\ UNCHANGED <<clientVars, session, serving, emitted, outbox, replay, gated, owed,
                   logVars, cuts>>
\* Fault: live writes do not wait for the snapshot.
WriteUngated == WriteFrame(TRUE, FALSE)
\* Fault: an answered body keeps its place in postStreams.
WriteKeepsStream == WriteFrame(FALSE, TRUE)
WriteOut == WriteFrame(TRUE, TRUE)

\* The waiter of handleInitialize gets the answer.
InitializeAnswered ==
    /\ outbox # <<>> /\ Head(outbox) = Initialize
    /\ outbox' = Tail(outbox) /\ session' = "open"
    /\ headers' = IF sink.kind = "initialize" THEN "json" ELSE headers
    /\ UNCHANGED <<phase, sink, exchange, told, seen, cursor, getLoop, serving, emitted,
                   writing, streams, pipe, getVars, logVars, cuts>>

\* Its timeout: the session is deleted.
InitializeTimesOut ==
    /\ session = "opening"
    /\ session' = "closed" /\ outbox' = <<>>
    /\ serving' = [serving EXCEPT ![Initialize] = "aborted"]
    /\ headers' = IF sink.kind = "initialize" THEN "refused" ELSE headers
    /\ UNCHANGED <<phase, sink, exchange, told, seen, cursor, getLoop, emitted, writing,
                   streams, pipe, getVars, logVars, cuts>>

\* The server notices that the reader of a body has gone.
NoticeCut(s) ==
    /\ pipe[s].held = "cut"
    /\ pipe' = [pipe EXCEPT ![s].held = "cancelled", ![s].frames = <<>>]
    /\ UNCHANGED <<clientVars, serverVars, cuts>>

\* Fault: a session with an open body never counts as idle.
ExpireOnlyIdle ==
    /\ session = "open" /\ session' = "closing" /\ streams = <<>> /\ ~Registered(Get)
    /\ UNCHANGED <<clientVars, serving, emitted, writeVars, streams, pipe, getVars, logVars, cuts>>

\* SessionManager.delete: idle expiry, a shutdown or disposal of the handler.
Expire ==
    /\ session = "open" /\ session' = "closing"
    /\ UNCHANGED <<clientVars, serving, emitted, writeVars, streams, pipe, getVars, logVars, cuts>>

\* Its server is disposed, then every body of the session is closed.
CloseBodies(those) ==
    /\ session = "closing"
    /\ session' = "closed"
    /\ serving' = [r \in Posts |-> IF serving[r] \in {"running", "cancelled"}
                                   THEN "aborted" ELSE serving[r]]
    /\ outbox' = <<>> /\ writing' = NoWrite /\ streams' = <<>>
    /\ pipe' = [s \in Streams |-> IF s \in those THEN ServerCloses(pipe[s]) ELSE pipe[s]]
    /\ gated' = FALSE /\ replay' = <<>> /\ owed' = <<>> /\ sent' = <<>>
    /\ getLoop' = IF getLoop = "accepted" THEN "reading" ELSE getLoop
    /\ UNCHANGED <<phase, sink, headers, exchange, told, seen, cursor, emitted,
                   logVars, cuts>>

SessionClosed == CloseBodies(Streams)

-----------------------------------------------------------------------------
ClientStep ==
    \/ \E kind \in {"initialize", "initialized", "request", "cancelled"}, r \in Posts : Post(kind, r)
    \/ HeadersBack \/ PostFails \/ Reconnect \/ GetFails \/ Dispose
    \/ \E s \in Streams : ReadEvent(s) \/ ReadEnd(s) \/ Cut(s)
ServerStep ==
    \/ InitializeArrives \/ RequestArrives \/ NoticeArrives \/ GetArrives \/ GetReplayed
    \/ \E r \in Posts : Answer(r)
    \/ Notify \/ TakeOut \/ WriteOut \/ InitializeAnswered \/ InitializeTimesOut
    \/ \E s \in Streams : NoticeCut(s)
    \/ Expire \/ SessionClosed
Next == ClientStep \/ ServerStep

Spec == HttpInit /\ [][Next]_vars

\* The idle timer of a session whose client has left for good.
Abandoned == phase \in {"failed", "disposed"}
ExpireIdle == Abandoned /\ Expire

\* Timers fire, arrived requests are handled, handlers return, bodies are read.
Fairness ==
    /\ WF_vars(HeadersBack) /\ WF_vars(Reconnect)
    /\ \A s \in Streams : WF_vars(ReadEvent(s)) /\ WF_vars(ReadEnd(s)) /\ WF_vars(NoticeCut(s))
    /\ WF_vars(InitializeArrives) /\ WF_vars(RequestArrives) /\ WF_vars(NoticeArrives)
    /\ WF_vars(GetArrives) /\ WF_vars(GetReplayed)
    /\ \A r \in Posts : WF_vars(Answer(r))
    /\ WF_vars(TakeOut) /\ WF_vars(WriteOut) /\ WF_vars(InitializeAnswered)
    /\ WF_vars(ExpireIdle) /\ WF_vars(SessionClosed)
FairSpec == Spec /\ Fairness

-----------------------------------------------------------------------------
(* Properties. *)

\* What a GET body carries is the snapshot it was opened with and then, in the
\* order they were recorded, the live events routed to it: a live event never
\* overtakes the replay, and a drained writer has left none out.
\* About deferLiveWritesUntil and the order of handleGET.
Real(frames) ==
    IF frames # <<>> /\ Head(frames).of = Nobody THEN Tail(frames) ELSE frames
GetBodyInOrder ==
    Registered(Get) =>
        /\ IsPrefix(sent, owed)
        /\ ~gated /\ writing.to # Get => sent = owed
        /\ pipe[Get].held = "open" =>
              \E k \in 0..Len(sent) : Real(pipe[Get].frames) = SubSeq(sent, k + 1, Len(sent))

\* A POST body is registered exactly as long as its answer is owed: the request
\* runs, was cancelled (nothing will answer it), or its answer is on its way
\* out.  About postStreams against the requests of the session server.
AnswerPending(r) == r \in Range(outbox) \/ writing.event.of = r
StreamsAreOwed ==
    /\ IsInjective(streams)
    /\ session \in {"open", "closing"} =>
        \A r \in Requests :
            r \in Range(streams) <=> serving[r] \in {"running", "cancelled"} \/ AnswerPending(r)

\* A message that found a stream is in the log before anything can drop its
\* frame, so that a later GET can still replay it.
\* About writeEvent recording the event before it waits for the gate.
NothingSlipsUnrecorded ==
    session \in {"open", "closing"} =>
        \A n \in 1..emitted : n \in Range(outbox) \cup recorded \cup unrouted

\* Every request that was posted is answered, refused, cut or cancelled, even
\* when the reader of another body of the session stalls or disappears.
\* About the one writable behind all bodies of a session.
RequestAnswered ==
    \A r \in Requests :
        exchange[r] = "posting" ~> told[r] # {} \/ phase = "disposed"

\* A session whose client has gone is eventually deleted, DELETE or not.
SessionCollected == Abandoned ~> session \in {"none", "closed"}

\* transport.ts:923, "Resume from the last seen event so no server notifications
\* are dropped": when a GET resumes, every note that was recorded has been seen,
\* is still on its way, or is replayed, unless the log overflowed.
OnTheWay == {writing.event.of} \cup {e.of : e \in Range(replay)}
            \cup UNION {{e.of : e \in Range(pipe[s].frames)} : s \in {t \in Streams : Readable(t)}}
ResumeLosesNothing ==
    [][~gated /\ gated' /\ cursor # NoEvent.id /\ Cardinality(recorded) <= ReplaySize
        => recorded \cap Notes \subseteq seen \cup OnTheWay']_vars

=============================================================================
