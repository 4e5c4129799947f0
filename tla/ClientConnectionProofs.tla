------------------------ MODULE ClientConnectionProofs ------------------------
(***************************************************************************)
(* The handover of a transport from the setup of a client to its read      *)
(* loop, for every number of requests and notifications: when the loop     *)
(* starts, no read of the setup is outstanding, and the notifications that *)
(* the setup met on its way are handed on, in their order.                 *)
(***************************************************************************)
EXTENDS ClientConnection, TLAPS, SequenceTheorems

Ids == Steps \cup Requests
Frames == [kind : {"note"}, n : Nat] \cup
          [kind : {"answer"}, id : Ids, what : {"result", "error"}]

\* The frames that do not answer the request called id.
NotAnswering(id) == {f \in Frames : f.kind = "answer" => f.id # id}

ConnectionTypes ==
    /\ at \in [step : Steps \cup {"none"},
               stage : {"idle", "write", "read", "confirm", "ready", "failing", "failed"},
               why : {"none", "refused", "closed", "timeout", "competing"}]
    /\ buffer \in Seq(Frames) /\ wire \in Seq(Frames) /\ sent \in Seq(Frames)
    /\ server \in SUBSET Ids /\ proto \in {"none", "old", "new"}

\* An answer is never in the buffer before its exchange reads: what is read
\* while an exchange writes goes to the one that gave up.
WriterUnanswered ==
    /\ at.stage = "write" => buffer \in Seq(NotAnswering(at.step))
    /\ at.stage = "idle" => at.step = "none" /\ buffer = <<>>

\* Before the handshake has begun nobody can have answered it.
Unasked ==
    at.stage \in {"idle", "write", "read"} /\ at.step # "init" =>
        /\ "init" \notin server
        /\ wire \in Seq(NotAnswering("init")) /\ buffer \in Seq(NotAnswering("init"))

\* Only a handshake is confirmed.
ConfirmsInit == at.stage = "confirm" => at.step = "init"

\* That the loop finds no outstanding read rests on where the answer came
\* from: from the read itself, not from the buffer.
SetupInv ==
    ConnectionTypes /\ WriterUnanswered /\ Unasked /\ ConfirmsInit /\ SetupReadIsOver

-----------------------------------------------------------------------------
(* Sequences of frames. *)

\* Taking one element out of a sequence leaves a sequence over the same set.
LEMMA WithoutIsSeq ==
  ASSUME NEW S, NEW s \in Seq(S), NEW i \in DOMAIN s
  PROVE  Without(s, i) \in Seq(S)
<1>1. Len(s) \in Nat /\ i \in 1..Len(s)
  BY LenProperties
<1>2. SubSeq(s, 1, i - 1) \in Seq(S)
  BY <1>1, SubSeqProperties
<1>3. SubSeq(s, i + 1, Len(s)) \in Seq(S)
  BY <1>1, SubSeqProperties
<1> QED BY <1>2, <1>3, ConcatProperties DEF Without

\* A sequence of frames that do not answer the exchange has no match.
LEMMA NoMatch ==
  ASSUME NEW frames \in Seq(NotAnswering(at.step))
  PROVE  Match(frames) = {}
<1>1. \A i \in DOMAIN frames : frames[i] \in NotAnswering(at.step)
  BY ElementOfSeq, LenProperties
<1> QED BY <1>1 DEF Match, NotAnswering

LEMMA NotAnsweringAreFrames ==
  ASSUME NEW id, NEW s \in Seq(NotAnswering(id))
  PROVE  s \in Seq(Frames)
<1>1. NotAnswering(id) \subseteq Frames
  BY DEF NotAnswering
<1> QED BY <1>1

-----------------------------------------------------------------------------
(* The steps of the setup. *)

LEMMA SetupInitially == ConnectionAssumption /\ Init => SetupInv
<1> SUFFICES ASSUME ConnectionAssumption, Init PROVE SetupInv
  OBVIOUS
<1>1. at = [step |-> "none", stage |-> "idle", why |-> "none"]
  BY DEF Init, Setup
<1>2. \A S : <<>> \in Seq(S)
  OBVIOUS
<1>3. /\ buffer = <<>> /\ wire = <<>> /\ sent = <<>> /\ server = {}
      /\ proto \in {"none", "old", "new"}
  BY DEF Init
<1> QED
  BY <1>1, <1>2, <1>3 DEF SetupInv, ConnectionTypes, WriterUnanswered, Unasked, ConfirmsInit,
                          SetupReadIsOver

\* A setup exchange that fails leaves the buffer and what it holds alone: a
\* probe goes on with the handshake, any other exchange is the last.
LEMMA ExchangeFailsStep ==
  ASSUME ConnectionTypes, NEW why \in {"refused", "closed", "timeout"},
         ExchangeFails(why),
         at.step = "probe" => buffer' \in Seq(NotAnswering("init")),
         buffer' \in Seq(Frames), wire' \in Seq(Frames), sent' = sent
  PROVE  SetupInv'
<1>1. CASE at.step = "probe"
  <2>1. /\ at' = [step |-> "init", stage |-> "write", why |-> "none"]
        /\ server' \in SUBSET Ids /\ proto' = "old"
    BY <1>1 DEF ExchangeFails, FallBackFromProbe, Begins, Setup, ConnectionTypes, Ids, Steps
  <2> QED
    BY <1>1, <2>1 DEF SetupInv, ConnectionTypes, WriterUnanswered, Unasked, ConfirmsInit,
                      SetupReadIsOver, Steps
<1>2. CASE at.step # "probe"
  <2>1. /\ at' = [step |-> "none", stage |-> "failing", why |-> why]
        /\ server' = server /\ proto' = proto
    BY <1>2 DEF ExchangeFails, Fails, Failing
  <2> QED
    BY <2>1 DEF SetupInv, ConnectionTypes, WriterUnanswered, Unasked, ConfirmsInit,
                SetupReadIsOver
<1> QED BY <1>1, <1>2

\* An answer that the outstanding read brought starts the read loop, since
\* that read is over, or fails the exchange.
LEMMA AnsweredStep ==
  ASSUME ConnectionTypes, NEW what, Answered(what), pending' = FALSE,
         at.step = "probe" => buffer' \in Seq(NotAnswering("init")),
         buffer' \in Seq(Frames), wire' \in Seq(Frames), sent' = sent
  PROVE  SetupInv'
<1>1. \/ ExchangeFails("refused")
      \/ StartReadLoop(Setup("init", "confirm")) /\ UNCHANGED <<server, proto>>
      \/ StartReadLoop(Setup("none", "ready")) /\ UNCHANGED server /\ proto' = "new"
  BY DEF Answered
<1>2. CASE ExchangeFails("refused")
  BY <1>2, ExchangeFailsStep
<1>3. CASE StartReadLoop(Setup("init", "confirm")) /\ UNCHANGED <<server, proto>>
  <2>1. /\ at' = [step |-> "init", stage |-> "confirm", why |-> "none"]
        /\ server' = server /\ proto' = proto
    BY <1>3 DEF StartReadLoop, Setup
  <2> QED
    BY <2>1 DEF SetupInv, ConnectionTypes, WriterUnanswered, Unasked, ConfirmsInit,
                SetupReadIsOver, Steps
<1>4. CASE StartReadLoop(Setup("none", "ready")) /\ UNCHANGED server /\ proto' = "new"
  <2>1. /\ at' = [step |-> "none", stage |-> "ready", why |-> "none"]
        /\ server' = server /\ proto' = "new"
    BY <1>4 DEF StartReadLoop, Setup
  <2> QED
    BY <2>1 DEF SetupInv, ConnectionTypes, WriterUnanswered, Unasked, ConfirmsInit,
                SetupReadIsOver, Steps
<1> QED BY <1>1, <1>2, <1>3, <1>4

\* An exchange that has written finds no answer in the buffer and reads.
LEMMA SetupWrittenStep == SetupInv /\ SetupWritten => SetupInv'
<1> SUFFICES ASSUME SetupInv, SetupWritten PROVE SetupInv'
  OBVIOUS
<1>1. Match(buffer) = {}
  BY NoMatch DEF SetupInv, WriterUnanswered, SetupWritten
<1>2. /\ at' = [step |-> at.step, stage |-> "read", why |-> "none"] /\ at.stage = "write"
      /\ buffer' = buffer /\ server' = server /\ wire' = wire /\ sent' = sent
      /\ proto' = proto
  BY <1>1 DEF SetupWritten, ReadOn, Setup
<1> QED
  BY <1>2 DEF SetupInv, ConnectionTypes, WriterUnanswered, Unasked, ConfirmsInit, SetupReadIsOver

\* The frame of a setup read goes to the buffer, or settles the exchange.
LEMMA SetupReadsStep == SetupInv /\ SetupReads => SetupInv'
<1> SUFFICES ASSUME SetupInv, SetupReads PROVE SetupInv'
  OBVIOUS
<1> DEFINE frames == Append(buffer, Head(wire))
<1>1. ConnectionTypes /\ wire # <<>> /\ wire' = Tail(wire) /\ sent' = sent
  BY DEF SetupInv, SetupReads
<1>2. wire' \in Seq(Frames) /\ frames \in Seq(Frames)
  BY <1>1 DEF ConnectionTypes
<1>3. ASSUME Unasked, at.stage \in {"idle", "write", "read"}, at.step # "init"
      PROVE  wire' \in Seq(NotAnswering("init")) /\ frames \in Seq(NotAnswering("init"))
  BY <1>1, <1>3 DEF Unasked
<1>4. CASE at.stage = "read" /\ ReadOn(frames, FALSE)
  <2>1. CASE Match(frames) = {}
    <3>1. /\ at' = [step |-> at.step, stage |-> "read", why |-> "none"] /\ buffer' = frames
          /\ server' = server /\ proto' = proto
      BY <1>4, <2>1 DEF ReadOn, Setup
    <3> HIDE DEF frames
    <3>2. ConnectionTypes' /\ SetupReadIsOver'
      BY <1>1, <1>2, <3>1 DEF ConnectionTypes, SetupReadIsOver
    <3>3. Unasked'
      BY <1>3, <1>4, <3>1 DEF SetupInv, Unasked
    <3> QED BY <3>1, <3>2, <3>3 DEF SetupInv, WriterUnanswered, ConfirmsInit
  <2>2. CASE Match(frames) # {}
    <3>1. PICK i \in Match(frames) :
             pending' = FALSE /\ buffer' = Without(frames, i) /\ Answered(frames[i].what)
      BY <1>4, <2>2 DEF ReadOn
    <3>2. i \in DOMAIN frames
      BY <3>1 DEF Match
    <3>3. at.step = "probe" => frames \in Seq(NotAnswering("init"))
      BY <1>3, <1>4 DEF SetupInv
    <3> HIDE DEF frames
    <3>4. buffer' \in Seq(Frames)
      BY <1>2, <3>1, <3>2, WithoutIsSeq
    <3>5. at.step = "probe" => buffer' \in Seq(NotAnswering("init"))
      BY <3>1, <3>2, <3>3, WithoutIsSeq
    <3> QED BY <1>1, <1>2, <3>1, <3>4, <3>5, AnsweredStep
  <2> QED BY <2>1, <2>2
<1>5. CASE UNCHANGED <<at, buffer, server, proto>>
  <2>1. ConnectionTypes'
    BY <1>1, <1>2, <1>5 DEF ConnectionTypes
  <2> QED
    BY <1>3, <1>5, <2>1 DEF SetupInv, WriterUnanswered, Unasked, ConfirmsInit, SetupReadIsOver
<1> QED BY <1>4, <1>5 DEF SetupReads

\* Failed writes, ended reads and deadlines.
LEMMA SetupFailureStep ==
  SetupInv /\ (SetupWriteFails \/ SetupReadsEnd \/ SetupDeadline) => SetupInv'
<1> SUFFICES ASSUME SetupInv, SetupWriteFails \/ SetupReadsEnd \/ SetupDeadline
             PROVE  SetupInv'
  OBVIOUS
<1>1. ConnectionTypes
  BY DEF SetupInv
<1>2. buffer' = buffer /\ wire' = wire /\ sent' = sent
  BY DEF SetupWriteFails, SetupReadsEnd, SetupDeadline
<1>3. CASE UNCHANGED <<at, server, proto>>
  BY <1>2, <1>3 DEF SetupInv, ConnectionTypes, WriterUnanswered, Unasked, ConfirmsInit,
                    SetupReadIsOver
<1>4. CASE at.stage \in {"read", "write", "confirm"} /\
           (ExchangeFails("closed") \/ ExchangeFails("timeout"))
  <2>1. at.step = "probe" => buffer' \in Seq(NotAnswering("init"))
    BY <1>2, <1>4 DEF SetupInv, Unasked, ConfirmsInit
  <2> QED BY <1>1, <1>2, <1>4, <2>1, ExchangeFailsStep DEF ConnectionTypes
<1> QED BY <1>3, <1>4 DEF SetupWriteFails, SetupReadsEnd, SetupDeadline

-----------------------------------------------------------------------------
(* The other steps. *)

\* The first call begins the setup with an empty buffer.
LEMMA CallBegins ==
  ASSUME SetupInv, NEW r \in Requests, Call(r)
  PROVE  SetupInv'
<1>1. buffer' = buffer /\ wire' = wire /\ sent' = sent /\ proto' = proto
  BY DEF Call
<1>2. CASE UNCHANGED <<at, server>>
  BY <1>1, <1>2 DEF SetupInv, ConnectionTypes, WriterUnanswered, Unasked, ConfirmsInit,
                    SetupReadIsOver
<1>3. ASSUME NEW step \in Steps, at.stage = "idle", Begins(step) PROVE SetupInv'
  <2>1. /\ at' = [step |-> step, stage |-> "write", why |-> "none"]
        /\ server' \in {server, server \cup {step}}
    BY <1>3 DEF Begins, Setup
  <2>2. buffer = <<>> /\ buffer' \in Seq(NotAnswering(step))
    BY <1>1, <1>3 DEF SetupInv, WriterUnanswered
  <2>3. ConnectionTypes'
    BY <1>1, <2>1, <1>3 DEF SetupInv, ConnectionTypes, Ids
  <2>4. WriterUnanswered' /\ ConfirmsInit' /\ SetupReadIsOver'
    BY <2>1, <2>2 DEF WriterUnanswered, ConfirmsInit, SetupReadIsOver
  <2>5. Unasked'
    BY <1>1, <1>3, <2>1 DEF SetupInv, WriterUnanswered, Unasked
  <2> QED BY <2>3, <2>4, <2>5 DEF SetupInv
<1>4. CASE at.stage = "idle"
  <2>1. proto \in {"none", "old", "new"}
    BY DEF SetupInv, ConnectionTypes
  <2>2. Begins("probe") \/ Begins("discover") \/ Begins("init")
    <3>1. CASE proto = "none"
      BY <1>4, <3>1 DEF Call
    <3>2. CASE proto = "new"
      BY <1>4, <3>2 DEF Call
    <3>3. CASE proto = "old"
      BY <1>4, <3>3 DEF Call
    <3> QED BY <2>1, <3>1, <3>2, <3>3
  <2> QED BY <1>3, <1>4, <2>2 DEF Steps
<1> QED BY <1>2, <1>4 DEF Call

\* What the read loop takes from the buffer and the wire, and what disposal
\* drops, leaves less of both.
LEMMA LessToRead ==
  ASSUME SetupInv, UNCHANGED <<at, server, sent, proto>>,
         buffer' \in {buffer} \/ (buffer # <<>> /\ buffer' = Tail(buffer)),
         wire' \in {wire, <<>>} \/ (wire # <<>> /\ wire' = Tail(wire))
  PROVE  SetupInv'
<1>1. ASSUME NEW S
      PROVE  /\ buffer \in Seq(S) => buffer' \in Seq(S)
             /\ wire \in Seq(S) => wire' \in Seq(S)
  BY HeadTailProperties, EmptySeq
<1>2. buffer = <<>> => buffer' = <<>>
  OBVIOUS
<1> QED
  BY <1>1, <1>2 DEF SetupInv, ConnectionTypes, WriterUnanswered, Unasked, ConfirmsInit,
                    SetupReadIsOver

LEMMA ServerSteps == SetupInv /\ ServerStep => SetupInv'
<1> SUFFICES ASSUME SetupInv, ServerStep PROVE SetupInv'
  OBVIOUS
<1>1. ASSUME NEW f \in Frames, wire' = Append(wire, f), sent' \in Seq(Frames),
             server' \in SUBSET server, UNCHANGED <<at, buffer, proto>>,
             "init" \notin server => f \in NotAnswering("init")
      PROVE  SetupInv'
  <2>1. ConnectionTypes'
    BY <1>1 DEF SetupInv, ConnectionTypes
  <2>2. Unasked'
    BY <1>1 DEF SetupInv, Unasked
  <2> QED BY <1>1, <2>1, <2>2 DEF SetupInv, WriterUnanswered, ConfirmsInit, SetupReadIsOver
<1>2. CASE ServerNotes
  <2> DEFINE note == Note(Len(sent) + 1)
  <2>1. note \in Frames /\ note \in NotAnswering("init")
    BY DEF SetupInv, ConnectionTypes, Note, Frames, NotAnswering
  <2>2. /\ sent' = Append(sent, note) /\ wire' = Append(wire, note)
        /\ UNCHANGED <<at, buffer, server, proto>>
    BY <1>2 DEF ServerNotes, setupVars
  <2> HIDE DEF note
  <2>3. sent' \in Seq(Frames)
    BY <2>1, <2>2 DEF SetupInv, ConnectionTypes
  <2> QED BY <1>1, <2>1, <2>2, <2>3
<1>3. ASSUME NEW id \in Steps \cup Requests, ServerAnswers(id) PROVE SetupInv'
  <2>1. PICK what \in {"result", "error"} : wire' = Append(wire, Answer(id, what))
    BY <1>3 DEF ServerAnswers
  <2>2. /\ Answer(id, what) \in Frames
        /\ id # "init" => Answer(id, what) \in NotAnswering("init")
    BY DEF Answer, Frames, NotAnswering, Ids
  <2>3. /\ id \in server /\ server' = server \ {id} /\ sent' = sent /\ sent \in Seq(Frames)
        /\ UNCHANGED <<at, buffer, proto>>
    BY <1>3 DEF ServerAnswers, setupVars, SetupInv, ConnectionTypes
  <2> QED BY <1>1, <2>1, <2>2, <2>3
<1>4. CASE ServerLeaves
  BY <1>4, LessToRead DEF ServerLeaves, setupVars
<1> QED BY <1>2, <1>3, <1>4 DEF ServerStep

\* Every action of the connection keeps the invariant.
LEMMA SetupStepKeeps == ConnectionAssumption /\ SetupInv /\ [Next]_vars => SetupInv'
<1> SUFFICES ASSUME ConnectionAssumption, SetupInv, [Next]_vars PROVE SetupInv'
  OBVIOUS
<1> USE DEF setupVars, wireVars, callVars, closeVars
<1>1. CASE UNCHANGED <<at, server, sent, buffer, wire, proto>>
  BY <1>1, LessToRead
<1>2. CASE Confirmed
  <2>1. /\ at' = [step |-> "none", stage |-> "ready", why |-> "none"]
        /\ UNCHANGED <<server, sent, buffer, wire, proto>>
    BY <1>2 DEF Confirmed, Setup
  <2> QED
    BY <2>1 DEF SetupInv, ConnectionTypes, WriterUnanswered, Unasked, ConfirmsInit,
                SetupReadIsOver
<1>3. CASE SetupRejects
  <2>1. at' = [at EXCEPT !.stage = "failed"] /\ UNCHANGED <<server, sent, buffer, wire, proto>>
    BY <1>3 DEF SetupRejects
  <2> QED
    BY <2>1 DEF SetupInv, ConnectionTypes, WriterUnanswered, Unasked, ConfirmsInit,
                SetupReadIsOver
<1>4. CASE SetupStep
  BY <1>2, <1>3, <1>4, SetupWrittenStep, SetupReadsStep, SetupFailureStep DEF SetupStep
<1>5. CASE LoopStep
  BY <1>1, <1>5, LessToRead DEF LoopStep, Read, ReadEnds
<1>6. CASE Dispose \/ DisposeCloses
  BY <1>1, <1>6 DEF Dispose, DisposeCloses
<1>7. CASE TransportDisposed
  BY <1>7, LessToRead DEF TransportDisposed
<1>8. ASSUME NEW r \in Requests, Register(r) PROVE SetupInv'
  <2>1. /\ at.stage = "ready" /\ server' \in {server, server \cup {r}}
        /\ UNCHANGED <<at, sent, buffer, wire, proto>>
    BY <1>8 DEF Register
  <2> QED
    BY <2>1 DEF SetupInv, ConnectionTypes, WriterUnanswered, Unasked, ConfirmsInit,
                SetupReadIsOver, Ids
<1>9. ASSUME NEW r \in Requests, CallStep(r) PROVE SetupInv'
  BY <1>1, <1>8, <1>9, CallBegins DEF CallStep, RequestWriteFails, Cancel, CallRefused
<1>10. CASE UNCHANGED vars
  BY <1>1, <1>10 DEF vars
<1> QED BY <1>4, <1>5, <1>6, <1>7, <1>9, <1>10, ServerSteps DEF Next

THEOREM SetupInvariant == Spec => []SetupInv
<1>1. Init => SetupInv
  BY SetupInitially, ConnectionAssumption
<1>2. SetupInv /\ [Next]_vars => SetupInv'
  BY SetupStepKeeps, ConnectionAssumption
<1> QED BY <1>1, <1>2, PTL DEF Spec

\* Whatever the server answers, in whatever order, and whenever the deadline
\* of the probe fires, the read loop never starts beside a read of the setup.
THEOREM SetupHandsOver == Spec => []SetupReadIsOver
<1>1. SetupInv => SetupReadIsOver
  BY DEF SetupInv
<1> QED BY <1>1, SetupInvariant, PTL

-----------------------------------------------------------------------------
(* What became of the notifications.  The frames handed on, buffered and on *)
(* the wire are one sequence: reading moves the borders in it, and only an  *)
(* answer, or a frame for an exchange that gave up, is taken out of it.     *)

FrameTypes ==
    /\ delivered \in Seq(Frames) /\ buffer \in Seq(Frames) /\ wire \in Seq(Frames)
    /\ sent \in Seq(Frames) /\ lost \in SUBSET Frames
    /\ closing \in {"no", "disposing", "closed", "gone"}

\* The server numbers what it sends.
Numbered == \A n \in DOMAIN sent : sent[n] = Note(n)

LostWereSent == \A f \in lost : f.kind = "note" => f.n <= Len(sent)

FrameInv == FrameTypes /\ Numbered /\ LostWereSent /\ SetupKeepsFrames

\* Taking a frame out.
LEMMA WithoutElements ==
  ASSUME NEW S, NEW s \in Seq(S), NEW i \in DOMAIN s
  PROVE  /\ Len(Without(s, i)) = Len(s) - 1
         /\ \A j \in 1..(Len(s) - 1) : Without(s, i)[j] = IF j < i THEN s[j] ELSE s[j + 1]
<1>1. Len(s) \in Nat /\ i \in 1..Len(s)
  BY LenProperties
<1> DEFINE a == SubSeq(s, 1, i - 1)
           b == SubSeq(s, i + 1, Len(s))
<1>2. a \in Seq(S) /\ Len(a) = i - 1 /\ \A j \in 1..(i - 1) : a[j] = s[j]
  BY <1>1, SubSeqProperties
<1>3. b \in Seq(S) /\ Len(b) = Len(s) - i /\ \A j \in 1..(Len(s) - i) : b[j] = s[i + j]
  BY <1>1, SubSeqProperties
<1>4. Without(s, i) = a \o b
  BY DEF Without
<1> HIDE DEF a, b
<1>5. /\ Len(a \o b) = Len(a) + Len(b)
      /\ \A j \in 1..(Len(a) + Len(b)) : (a \o b)[j] = IF j <= Len(a) THEN a[j] ELSE b[j - Len(a)]
  BY <1>2, <1>3, ConcatProperties
<1> QED
  <2>1. Len(a \o b) = Len(s) - 1
    BY <1>1, <1>2, <1>3, <1>5
  <2>2. ASSUME NEW j \in 1..(Len(s) - 1) PROVE (a \o b)[j] = IF j < i THEN s[j] ELSE s[j + 1]
    <3>1. CASE j < i
      BY <1>1, <1>2, <1>3, <1>5, <3>1
    <3>2. CASE ~(j < i)
      <4>1. j - (i - 1) \in 1..(Len(s) - i) /\ i + (j - (i - 1)) = j + 1
        BY <1>1, <3>2
      <4>2. b[j - (i - 1)] = s[j + 1]
        BY <1>3, <4>1
      <4>3. j \in 1..(Len(a) + Len(b)) /\ ~(j <= Len(a)) /\ j - Len(a) = j - (i - 1)
        BY <1>1, <1>2, <1>3, <3>2
      <4>4. (a \o b)[j] = b[j - Len(a)]
        BY <1>5, <4>3
      <4> QED BY <3>2, <4>2, <4>3, <4>4
    <3> QED BY <3>1, <3>2
  <2> QED BY <1>4, <2>1, <2>2

LEMMA WithoutNotes ==
  ASSUME NEW s \in Seq(Frames), NEW i \in DOMAIN s, InOrder(s)
  PROVE  /\ InOrder(Without(s, i))
         /\ s[i].kind # "note" => NotesIn(Without(s, i)) = NotesIn(s)
         /\ s[i].kind = "note" => NotesIn(Without(s, i)) = NotesIn(s) \ {s[i]}
<1> DEFINE t == Without(s, i)
<1>1. Len(s) \in Nat /\ i \in 1..Len(s) /\ DOMAIN s = 1..Len(s)
  BY LenProperties
<1>2. /\ t \in Seq(Frames) /\ Len(t) = Len(s) - 1
      /\ \A j \in 1..(Len(s) - 1) : t[j] = IF j < i THEN s[j] ELSE s[j + 1]
  BY WithoutElements, WithoutIsSeq
<1>3. DOMAIN t = 1..(Len(s) - 1)
  BY <1>2, LenProperties
<1>4. \A j \in 1..Len(s) : s[j] \in Frames
  BY <1>1, ElementOfSeq
<1> HIDE DEF t
<1>5. ASSUME NEW j \in NotesAt(t)
      PROVE  /\ (IF j < i THEN j ELSE j + 1) \in NotesAt(s)
             /\ t[j] = s[IF j < i THEN j ELSE j + 1]
  BY <1>1, <1>2, <1>3 DEF NotesAt
<1>6. ASSUME NEW j \in NotesAt(s), j # i
      PROVE  /\ (IF j < i THEN j ELSE j - 1) \in NotesAt(t)
             /\ t[IF j < i THEN j ELSE j - 1] = s[j]
  <2>1. (IF j < i THEN j ELSE j - 1) \in 1..(Len(s) - 1)
    BY <1>1, <1>6 DEF NotesAt
  <2>2. t[IF j < i THEN j ELSE j - 1] = s[j]
    BY <1>1, <1>2, <1>6, <2>1 DEF NotesAt
  <2> QED BY <1>3, <2>1, <2>2 DEF NotesAt
<1>7. InOrder(t)
  <2> SUFFICES ASSUME NEW j \in NotesAt(t), NEW k \in NotesAt(t), j < k PROVE t[j].n < t[k].n
    BY DEF InOrder
  <2>0. j \in 1..(Len(s) + 1) /\ k \in 1..(Len(s) + 1) /\ j < k
    BY <1>2 DEF NotesAt
  <2>1. j \in 1..(Len(s) - 1) /\ k \in 1..(Len(s) - 1)
    BY <1>3 DEF NotesAt
  <2>2. (IF j < i THEN j ELSE j + 1) < (IF k < i THEN k ELSE k + 1)
    BY <1>1, <2>1
  <2> QED BY <1>5, <2>2 DEF InOrder
<1>8. \A j \in NotesAt(s) : j # i => s[j] \in NotesIn(t)
  BY <1>6 DEF NotesIn
<1>9. ASSUME NEW j \in NotesAt(t)
      PROVE  t[j] \in NotesIn(s) /\ (s[i].kind = "note" => t[j] # s[i])
  <2> DEFINE o == IF j < i THEN j ELSE j + 1
  <2>1. o \in NotesAt(s) /\ t[j] = s[o] /\ o # i
    BY <1>1, <1>3, <1>5 DEF NotesAt
  <2> HIDE DEF o
  <2>2. s[i].kind = "note" => i \in NotesAt(s)
    BY <1>1 DEF NotesAt
  <2>3. o \in 1..Len(s)
    BY <1>1, <2>1 DEF NotesAt
  <2>4. s[i].kind = "note" => s[i].n # s[o].n
    <3>1. s[i].kind = "note" => s[i].n \in Nat /\ s[o].n \in Nat
      BY <1>1, <1>4, <2>1, <2>3 DEF NotesAt, Frames
    <3> QED BY <1>1, <2>1, <2>2, <2>3, <3>1 DEF InOrder
  <2> QED BY <2>1, <2>4 DEF NotesIn
<1>10. s[i].kind # "note" => i \notin NotesAt(s)
  BY DEF NotesAt
<1>11. s[i].kind # "note" => NotesIn(t) = NotesIn(s)
  BY <1>8, <1>9, <1>10 DEF NotesIn
<1>12. s[i].kind = "note" => NotesIn(t) = NotesIn(s) \ {s[i]}
  BY <1>8, <1>9 DEF NotesIn
<1> QED BY <1>7, <1>11, <1>12 DEF t

\* A frame taken out of the middle of three sequences.
LEMMA WithoutMiddle ==
  ASSUME NEW S, NEW a \in Seq(S), NEW b \in Seq(S), NEW c \in Seq(S), NEW i \in DOMAIN b
  PROVE  /\ Len(a) + i \in DOMAIN (a \o b \o c)
         /\ (a \o b \o c)[Len(a) + i] = b[i]
         /\ a \o Without(b, i) \o c = Without(a \o b \o c, Len(a) + i)
<1> DEFINE s == a \o b \o c
           w == Without(b, i)
           v == a \o b
           u == a \o w
           t == a \o w \o c
           m == Len(a) + i
<1>1. Len(a) \in Nat /\ Len(b) \in Nat /\ Len(c) \in Nat /\ i \in 1..Len(b)
  BY LenProperties
<1>2. /\ v \in Seq(S) /\ Len(v) = Len(a) + Len(b)
      /\ \A j \in 1..(Len(a) + Len(b)) : v[j] = IF j <= Len(a) THEN a[j] ELSE b[j - Len(a)]
  BY ConcatProperties
<1>3. /\ s \in Seq(S) /\ Len(s) = Len(a) + Len(b) + Len(c)
      /\ \A j \in 1..(Len(a) + Len(b) + Len(c)) :
            s[j] = IF j <= Len(a) + Len(b) THEN v[j] ELSE c[j - (Len(a) + Len(b))]
  BY <1>2, ConcatProperties
<1>4. /\ w \in Seq(S) /\ Len(w) = Len(b) - 1
      /\ \A j \in 1..(Len(b) - 1) : w[j] = IF j < i THEN b[j] ELSE b[j + 1]
  BY WithoutElements, WithoutIsSeq
<1> HIDE DEF w
<1>5. /\ u \in Seq(S) /\ Len(u) = Len(a) + (Len(b) - 1)
      /\ \A j \in 1..(Len(a) + (Len(b) - 1)) :
            u[j] = IF j <= Len(a) THEN a[j] ELSE w[j - Len(a)]
  <2>1. /\ u \in Seq(S) /\ Len(u) = Len(a) + Len(w)
        /\ \A j \in 1..(Len(a) + Len(w)) :
              u[j] = IF j <= Len(a) THEN a[j] ELSE w[j - Len(a)]
    BY <1>4, ConcatProperties
  <2> QED BY <1>4, <2>1
<1>6. /\ t \in Seq(S) /\ Len(t) = Len(a) + (Len(b) - 1) + Len(c)
      /\ \A j \in 1..(Len(a) + (Len(b) - 1) + Len(c)) :
            t[j] = IF j <= Len(a) + (Len(b) - 1) THEN u[j]
                   ELSE c[j - (Len(a) + (Len(b) - 1))]
  <2>1. u \in Seq(S) /\ Len(u) = Len(a) + (Len(b) - 1)
    BY <1>5
  <2> HIDE DEF u
  <2>2. /\ u \o c \in Seq(S) /\ Len(u \o c) = Len(u) + Len(c)
        /\ \A j \in 1..(Len(u) + Len(c)) : (u \o c)[j] = IF j <= Len(u) THEN u[j] ELSE c[j - Len(u)]
    BY <2>1, ConcatProperties
  <2>3. t = u \o c
    BY DEF u
  <2> HIDE DEF t
  <2>4. /\ t \in Seq(S) /\ Len(t) = Len(a) + (Len(b) - 1) + Len(c)
        /\ \A j \in 1..(Len(a) + (Len(b) - 1) + Len(c)) :
              t[j] = IF j <= Len(a) + (Len(b) - 1) THEN u[j] ELSE c[j - (Len(a) + (Len(b) - 1))]
    BY <2>1, <2>2, <2>3
  <2> QED BY <2>4
<1> HIDE DEF u, v
<1>7. m \in DOMAIN s /\ s[m] = b[i]
  <2>1. m \in 1..(Len(a) + Len(b)) /\ ~(m <= Len(a)) /\ m - Len(a) = i
    BY <1>1
  <2>2. DOMAIN s = 1..Len(s)
    BY <1>3, LenProperties
  <2> QED BY <1>1, <1>2, <1>3, <2>1, <2>2
<1> HIDE DEF s, t
<1>8. /\ Without(s, m) \in Seq(S) /\ Len(Without(s, m)) = Len(s) - 1
      /\ \A j \in 1..(Len(s) - 1) : Without(s, m)[j] = IF j < m THEN s[j] ELSE s[j + 1]
  BY <1>3, <1>7, WithoutElements, WithoutIsSeq
<1>9. ASSUME NEW j \in 1..Len(t) PROVE t[j] = Without(s, m)[j]
  <2>1. j \in 1..(Len(a) + (Len(b) - 1) + Len(c)) /\ j \in 1..(Len(s) - 1) /\ j \in Nat
    BY <1>1, <1>3, <1>6
  <2>2. Without(s, m)[j] = IF j < m THEN s[j] ELSE s[j + 1]
    BY <1>8, <2>1
  <2>3. CASE j <= Len(a)
    <3>1. t[j] = a[j]
      BY <1>1, <1>5, <1>6, <2>1, <2>3
    <3>2. s[j] = a[j] /\ j < m
      BY <1>1, <1>2, <1>3, <2>1, <2>3
    <3> QED BY <2>2, <3>1, <3>2
  <2>4. CASE j > Len(a) /\ j < m
    <3>1. j - Len(a) \in 1..(Len(b) - 1) /\ j - Len(a) < i
      BY <1>1, <2>1, <2>4
    <3>2. t[j] = b[j - Len(a)]
      <4>1. w[j - Len(a)] = b[j - Len(a)]
        BY <1>4, <3>1
      <4>2. j \in 1..(Len(a) + (Len(b) - 1)) /\ ~(j <= Len(a))
        BY <1>1, <2>1, <2>4
      <4>3. u[j] = w[j - Len(a)]
        BY <1>5, <4>2
      <4>4. j \in 1..(Len(a) + (Len(b) - 1) + Len(c)) /\ j <= Len(a) + (Len(b) - 1)
        BY <1>1, <2>1, <4>2
      <4> QED BY <1>6, <4>1, <4>3, <4>4
    <3>3. s[j] = b[j - Len(a)]
      <4>1. j \in 1..(Len(a) + Len(b)) /\ ~(j <= Len(a)) /\ j \in 1..(Len(a) + Len(b) + Len(c))
            /\ j <= Len(a) + Len(b)
        BY <1>1, <2>1, <2>4
      <4>2. v[j] = b[j - Len(a)]
        BY <1>2, <4>1
      <4> QED BY <1>3, <4>1, <4>2
    <3> QED BY <2>2, <2>4, <3>2, <3>3
  <2>5. CASE j >= m /\ j <= Len(a) + (Len(b) - 1)
    <3>1. j - Len(a) \in 1..(Len(b) - 1) /\ ~(j - Len(a) < i) /\ ~(j < m)
      BY <1>1, <2>1, <2>5
    <3>2. t[j] = b[(j - Len(a)) + 1]
      <4>1. w[j - Len(a)] = b[(j - Len(a)) + 1]
        BY <1>4, <3>1
      <4>2. j \in 1..(Len(a) + (Len(b) - 1)) /\ ~(j <= Len(a))
        BY <1>1, <2>1, <2>5
      <4>3. u[j] = w[j - Len(a)]
        BY <1>5, <4>2
      <4>4. j \in 1..(Len(a) + (Len(b) - 1) + Len(c)) /\ j <= Len(a) + (Len(b) - 1)
        BY <1>1, <2>1, <4>2
      <4> QED BY <1>6, <4>1, <4>3, <4>4
    <3>3. s[j + 1] = b[(j + 1) - Len(a)]
      BY <1>1, <1>2, <1>3, <2>1, <2>5
    <3>4. (j - Len(a)) + 1 = (j + 1) - Len(a)
      BY <1>1, <2>1
    <3> QED BY <2>2, <3>1, <3>2, <3>3, <3>4
  <2>6. CASE j > Len(a) + (Len(b) - 1)
    <3>1. t[j] = c[j - (Len(a) + (Len(b) - 1))]
      <4>1. ~(j <= Len(a) + (Len(b) - 1)) /\ j \in 1..(Len(a) + (Len(b) - 1) + Len(c))
        BY <1>1, <2>1, <2>6
      <4> QED BY <1>6, <4>1
    <3>2. s[j + 1] = c[(j + 1) - (Len(a) + Len(b))] /\ ~(j < m)
      BY <1>1, <1>3, <2>1, <2>6
    <3>3. (j + 1) - (Len(a) + Len(b)) = j - (Len(a) + (Len(b) - 1))
      BY <1>1, <2>1
    <3> QED BY <2>2, <3>1, <3>2, <3>3
  <2> QED BY <1>1, <2>1, <2>3, <2>4, <2>5, <2>6
<1>10. Len(t) = Len(Without(s, m))
  BY <1>1, <1>3, <1>6, <1>8
<1>11. t = Without(s, m)
  BY <1>6, <1>8, <1>9, <1>10, SeqEqual
<1> QED BY <1>7, <1>11 DEF s, t, w

\* The borders between the three.
LEMMA HeadConcatTail ==
  ASSUME NEW S, NEW s \in Seq(S), s # <<>>
  PROVE  s = <<Head(s)>> \o Tail(s)
<1>1. /\ Head(s) \in S /\ Tail(s) \in Seq(S) /\ Len(Tail(s)) = Len(s) - 1
      /\ \A j \in 1..Len(Tail(s)) : Tail(s)[j] = s[j + 1]
  BY HeadTailProperties
<1>2. PICK h : h = <<Head(s)>>
  OBVIOUS
<1>3. h \in Seq(S) /\ Len(h) = 1 /\ h[1] = Head(s)
  BY <1>1, <1>2
<1>4. PICK t : t = Tail(s)
  OBVIOUS
<1>5. t \in Seq(S)
  BY <1>1, <1>4
<1>6. s[1] = Head(s)
  OBVIOUS
<1>7. /\ h \o t \in Seq(S) /\ Len(h \o t) = Len(h) + Len(t)
      /\ \A j \in 1..(Len(h) + Len(t)) : (h \o t)[j] = IF j <= Len(h) THEN h[j] ELSE t[j - Len(h)]
  BY <1>3, <1>5, ConcatProperties
<1>8. Len(s) \in Nat /\ Len(s) # 0
  BY LenProperties, EmptySeq
<1>9. ASSUME NEW j \in 1..Len(s) PROVE (h \o t)[j] = s[j]
  <2>1. CASE j = 1
    BY <1>1, <1>3, <1>4, <1>7, <1>8, <1>6, <2>1
  <2>2. CASE j # 1
    <3>1. j - 1 \in 1..Len(t) /\ (j - 1) + 1 = j
      BY <1>1, <1>4, <1>8, <2>2
    <3>2. t[j - 1] = s[j]
      BY <1>1, <1>4, <3>1
    <3> QED BY <1>1, <1>3, <1>4, <1>7, <1>8, <2>2, <3>2
  <2> QED BY <2>1, <2>2
<1>10. Len(h \o t) = Len(s)
  BY <1>1, <1>3, <1>4, <1>7, <1>8
<1>11. h \o t = s
  BY <1>7, <1>9, <1>10, SeqEqual
<1> QED BY <1>2, <1>4, <1>11

LEMMA HeadMoves ==
  ASSUME NEW S, NEW a \in Seq(S), NEW b \in Seq(S), b # <<>>
  PROVE  Append(a, Head(b)) \o Tail(b) = a \o b
<1>1. Head(b) \in S /\ Tail(b) \in Seq(S)
  BY HeadTailProperties
<1>2. PICK h : h = <<Head(b)>>
  OBVIOUS
<1>3. PICK t : t = Tail(b)
  OBVIOUS
<1>4. h \in Seq(S) /\ t \in Seq(S)
  BY <1>1, <1>2, <1>3
<1>5. Append(a, Head(b)) = a \o h
  BY <1>1, <1>2, AppendIsConcat
<1>6. b = h \o t
  BY <1>2, <1>3, HeadConcatTail
<1>7. (a \o h) \o t = a \o (h \o t)
  BY <1>4, ConcatAssociative
<1> QED BY <1>3, <1>5, <1>6, <1>7

LEMMA TailIsWithout ==
  ASSUME NEW S, NEW s \in Seq(S), s # <<>>
  PROVE  /\ 1 \in DOMAIN s /\ s[1] = Head(s)
         /\ Tail(s) = Without(s, 1)
<1>1. Len(s) \in Nat /\ Len(s) # 0 /\ DOMAIN s = 1..Len(s)
  BY LenProperties, EmptySeq
<1>2. 1 \in DOMAIN s
  BY <1>1
<1>3. /\ Tail(s) \in Seq(S) /\ Len(Tail(s)) = Len(s) - 1
      /\ \A j \in 1..Len(Tail(s)) : Tail(s)[j] = s[j + 1]
  BY HeadTailProperties
<1>4. /\ Without(s, 1) \in Seq(S) /\ Len(Without(s, 1)) = Len(s) - 1
      /\ \A j \in 1..(Len(s) - 1) : Without(s, 1)[j] = IF j < 1 THEN s[j] ELSE s[j + 1]
  BY <1>2, WithoutElements, WithoutIsSeq
<1>5. \A j \in 1..Len(Tail(s)) : Tail(s)[j] = Without(s, 1)[j]
  BY <1>3, <1>4
<1>6. Tail(s) = Without(s, 1)
  BY <1>3, <1>4, <1>5, SeqEqual
<1>7. s[1] = Head(s)
  BY <1>1
<1> QED BY <1>2, <1>6, <1>7

LEMMA AppendedLast ==
  ASSUME NEW S, NEW a \in Seq(S), NEW b \in Seq(S), NEW e \in S
  PROVE  a \o Append(b, e) = Append(a \o b, e)
<1>1. PICK h : h = <<e>>
  OBVIOUS
<1>2. h \in Seq(S) /\ Append(b, e) = b \o h
  BY <1>1, AppendIsConcat
<1>3. a \o b \in Seq(S)
  BY ConcatProperties
<1>4. PICK c : c = a \o b
  OBVIOUS
<1>5. Append(c, e) = c \o h
  BY <1>1, <1>3, <1>4, AppendIsConcat
<1>6. (a \o b) \o h = a \o (b \o h)
  BY <1>2, ConcatAssociative
<1> QED BY <1>2, <1>4, <1>5, <1>6

LEMMA AppendNotes ==
  ASSUME NEW s \in Seq(Frames), NEW f \in Frames
  PROVE  /\ NotesIn(Append(s, f)) = IF f.kind = "note" THEN NotesIn(s) \cup {f} ELSE NotesIn(s)
         /\ InOrder(s) /\ (f.kind = "note" => \A g \in NotesIn(s) : g.n < f.n) => InOrder(Append(s, f))
<1> DEFINE t == Append(s, f)
<1>1. /\ t \in Seq(Frames) /\ Len(t) = Len(s) + 1 /\ Len(s) \in Nat
      /\ \A j \in 1..Len(s) : t[j] = s[j]
      /\ t[Len(s) + 1] = f
  BY AppendProperties, LenProperties
<1>2. DOMAIN t = 1..(Len(s) + 1) /\ DOMAIN s = 1..Len(s)
  BY <1>1, LenProperties
<1> HIDE DEF t
<1>3. \A j \in 1..(Len(s) + 1) : IF j = Len(s) + 1 THEN t[j] = f ELSE j \in 1..Len(s) /\ t[j] = s[j]
  BY <1>1
<1>4. NotesAt(t) = IF f.kind = "note" THEN NotesAt(s) \cup {Len(s) + 1} ELSE NotesAt(s)
  BY <1>1, <1>2, <1>3 DEF NotesAt
<1>5. \A j \in NotesAt(s) : j \in 1..Len(s) /\ t[j] = s[j]
  BY <1>1, <1>2 DEF NotesAt
<1>6. NotesIn(t) = IF f.kind = "note" THEN NotesIn(s) \cup {f} ELSE NotesIn(s)
  BY <1>1, <1>4, <1>5 DEF NotesIn
<1>7. ASSUME InOrder(s), f.kind = "note" => \A g \in NotesIn(s) : g.n < f.n
      PROVE  InOrder(t)
  <2> SUFFICES ASSUME NEW j \in NotesAt(t), NEW k \in NotesAt(t), j < k PROVE t[j].n < t[k].n
    BY DEF InOrder
  <2>0. j \in 1..(Len(s) + 1) /\ k \in 1..(Len(s) + 1) /\ j < k
    BY <1>2 DEF NotesAt
  <2>1. CASE k \in NotesAt(s)
    <3>1. j \in NotesAt(s)
      BY <1>1, <1>4, <1>5, <2>1
    <3> QED BY <1>5, <1>7, <2>1, <3>1 DEF InOrder
  <2>2. CASE k \notin NotesAt(s)
    <3>1. f.kind = "note" /\ k = Len(s) + 1 /\ t[k] = f
      BY <1>1, <1>4, <2>2
    <3>2. j \in NotesAt(s)
      <4>1. j # Len(s) + 1
        BY <1>1, <2>0, <3>1
      <4> QED BY <1>4, <3>1, <4>1
    <3>3. t[j] = s[j] /\ s[j] \in NotesIn(s)
      BY <1>5, <3>2 DEF NotesIn
    <3> QED BY <1>7, <3>1, <3>3
  <2> QED BY <2>1, <2>2
<1> QED BY <1>6, <1>7 DEF t

-----------------------------------------------------------------------------
(* The steps, by what they do to the frames received. *)

LEMMA FramesInitially == Init => FrameInv
<1> SUFFICES ASSUME Init PROVE FrameInv
  OBVIOUS
<1>1. /\ delivered = <<>> /\ buffer = <<>> /\ wire = <<>> /\ sent = <<>> /\ lost = {}
      /\ closing = "no"
  BY DEF Init
<1>2. FrameTypes
  BY <1>1 DEF FrameTypes
<1>3. Received = <<>>
  BY <1>1 DEF Received
<1>4. NotesAt(<<>>) = {}
  BY DEF NotesAt
<1>5. InOrder(Received) /\ NotesIn(Received) = NotesIn(sent) \ lost
  BY <1>1, <1>3, <1>4 DEF InOrder, NotesIn
<1> QED BY <1>1, <1>2, <1>5 DEF FrameInv, Numbered, LostWereSent, SetupKeepsFrames

LEMMA ReceivedType == FrameTypes => Received \in Seq(Frames) /\ delivered \o buffer \in Seq(Frames)
  BY ConcatProperties DEF FrameTypes, Received

\* The borders moved, or nothing is promised any more.
LEMMA FramesStay ==
  ASSUME FrameInv, FrameTypes', sent' = sent, lost' = lost,
         closing' # "gone" => closing # "gone" /\ Received' = Received
  PROVE  FrameInv'
<1>1. Numbered' /\ LostWereSent'
  BY DEF FrameInv, Numbered, LostWereSent
<1>2. SetupKeepsFrames'
  BY DEF FrameInv, SetupKeepsFrames
<1> QED BY <1>1, <1>2 DEF FrameInv

\* An answer was taken out, or a frame that is counted as lost.
LEMMA FrameTaken ==
  ASSUME FrameInv, FrameTypes', sent' = sent, closing # "gone",
         NEW i \in DOMAIN Received, Received' = Without(Received, i),
         IF Received[i].kind = "note" THEN lost' = lost \cup {Received[i]}
         ELSE lost' \in {lost, lost \cup {Received[i]}}
  PROVE  FrameInv'
<1>1. FrameTypes /\ InOrder(Received) /\ NotesIn(Received) = NotesIn(sent) \ lost
  BY DEF FrameInv, SetupKeepsFrames
<1>2. Received \in Seq(Frames)
  BY <1>1, ReceivedType
<1>3. \A f \in NotesIn(sent) : f.kind = "note"
  BY DEF NotesIn, NotesAt
<1>4. PICK f : f = Received[i]
  OBVIOUS
<1>5. /\ InOrder(Received')
      /\ f.kind # "note" => NotesIn(Received') = NotesIn(Received)
      /\ f.kind = "note" => NotesIn(Received') = NotesIn(Received) \ {f}
  BY <1>1, <1>2, <1>4, WithoutNotes
<1>6. f.kind = "note" => lost' = lost \cup {f}
  BY <1>4
<1>7. f.kind # "note" => lost' \in {lost, lost \cup {f}}
  BY <1>4
<1>8. NotesIn(Received') = NotesIn(sent) \ lost'
  BY <1>1, <1>3, <1>5, <1>6, <1>7
<1>9. SetupKeepsFrames'
  <2>1. NotesIn(sent') = NotesIn(sent)
    OBVIOUS
  <2>2. InOrder(Received') /\ NotesIn(Received') = NotesIn(sent') \ lost'
    BY <1>5, <1>8, <2>1
  <2> QED BY <2>2 DEF SetupKeepsFrames
<1>10. f.kind = "note" => f.n <= Len(sent)
  <2>1. SUFFICES ASSUME f.kind = "note" PROVE f.n <= Len(sent)
    OBVIOUS
  <2>2. f \in NotesIn(sent)
    BY <1>1, <1>4, <2>1 DEF NotesIn, NotesAt
  <2>3. PICK k \in DOMAIN sent : f = sent[k]
    BY <2>2 DEF NotesIn, NotesAt
  <2>4. f = Note(k) /\ k \in 1..Len(sent) /\ Len(sent) \in Nat
    BY <1>1, <2>3, LenProperties DEF FrameInv, FrameTypes, Numbered
  <2> QED BY <2>4 DEF Note
<1>11. LostWereSent'
  BY <1>6, <1>7, <1>10 DEF FrameInv, LostWereSent
<1>12. Numbered'
  BY DEF FrameInv, Numbered
<1> QED BY <1>9, <1>11, <1>12 DEF FrameInv

\* Where the frames of the buffer and the first one on the wire are in it.
LEMMA InBuffer ==
  ASSUME FrameTypes, NEW i \in DOMAIN buffer
  PROVE  /\ Len(delivered) + i \in DOMAIN Received
         /\ Received[Len(delivered) + i] = buffer[i]
         /\ delivered \o Without(buffer, i) \o wire = Without(Received, Len(delivered) + i)
<1>1. delivered \in Seq(Frames) /\ buffer \in Seq(Frames) /\ wire \in Seq(Frames)
  BY DEF FrameTypes
<1> QED BY <1>1, WithoutMiddle DEF Received

LEMMA FirstOnWire ==
  ASSUME FrameTypes, wire # <<>>
  PROVE  \E m \in DOMAIN Received :
            /\ Received[m] = Head(wire)
            /\ delivered \o buffer \o Tail(wire) = Without(Received, m)
<1>1. PICK a : a = delivered \o buffer
  OBVIOUS
<1>2. a \in Seq(Frames) /\ wire \in Seq(Frames) /\ Received = a \o wire
  BY <1>1, ReceivedType DEF FrameTypes, Received
<1>3. 1 \in DOMAIN wire /\ wire[1] = Head(wire) /\ Tail(wire) = Without(wire, 1)
  BY <1>2, TailIsWithout
<1>4. PICK e : e = <<>>
  OBVIOUS
<1>5. e \in Seq(Frames)
  BY <1>4
<1>6. /\ Len(a) + 1 \in DOMAIN (a \o wire \o e)
      /\ (a \o wire \o e)[Len(a) + 1] = wire[1]
      /\ a \o Without(wire, 1) \o e = Without(a \o wire \o e, Len(a) + 1)
  <2>1. PICK i : i = 1
    OBVIOUS
  <2>2. PICK b : b = wire
    OBVIOUS
  <2>3. b \in Seq(Frames) /\ i \in DOMAIN b
    BY <1>2, <1>3, <2>1, <2>2
  <2>4. /\ Len(a) + i \in DOMAIN (a \o b \o e)
        /\ (a \o b \o e)[Len(a) + i] = b[i]
        /\ a \o Without(b, i) \o e = Without(a \o b \o e, Len(a) + i)
    BY <1>2, <1>5, <2>3, WithoutMiddle
  <2> QED BY <2>1, <2>2, <2>4
<1>7. a \o wire \in Seq(Frames) /\ Without(wire, 1) \in Seq(Frames)
  BY <1>2, <1>3, ConcatProperties, WithoutIsSeq
<1>8. a \o Without(wire, 1) \in Seq(Frames)
  BY <1>2, <1>7, ConcatProperties
<1>9. (a \o wire) \o e = a \o wire /\ (a \o Without(wire, 1)) \o e = a \o Without(wire, 1)
  BY <1>4, <1>7, <1>8, ConcatEmptySeq
<1>10. Received[Len(a) + 1] = Head(wire) /\ Len(a) + 1 \in DOMAIN Received
  BY <1>2, <1>3, <1>6, <1>9
<1>11. delivered \o buffer \o Tail(wire) = Without(Received, Len(a) + 1)
  BY <1>1, <1>2, <1>3, <1>6, <1>9
<1> QED BY <1>10, <1>11

\* One more read of the setup: its frame moves to the buffer.
LEMMA FrameBuffered ==
  ASSUME FrameTypes, wire # <<>>
  PROVE  delivered \o Append(buffer, Head(wire)) \o Tail(wire) = Received
<1>1. delivered \in Seq(Frames) /\ buffer \in Seq(Frames) /\ wire \in Seq(Frames)
  BY DEF FrameTypes
<1>2. PICK h : h = Head(wire)
  OBVIOUS
<1>3. h \in Frames
  BY <1>1, <1>2, HeadTailProperties
<1>4. delivered \o Append(buffer, h) = Append(delivered \o buffer, h)
  BY <1>1, <1>3, AppendedLast
<1>5. PICK a : a = delivered \o buffer
  OBVIOUS
<1>6. a \in Seq(Frames)
  BY <1>1, <1>5, ConcatProperties
<1>7. Append(a, Head(wire)) \o Tail(wire) = a \o wire
  BY <1>1, <1>6, HeadMoves
<1> QED BY <1>2, <1>4, <1>5, <1>7 DEF Received

LEMMA SetupReadsFrames == FrameInv /\ SetupReads => FrameInv'
<1> SUFFICES ASSUME FrameInv, SetupReads PROVE FrameInv'
  OBVIOUS
<1>1. /\ FrameTypes /\ wire # <<>> /\ closing # "gone" /\ wire' = Tail(wire)
      /\ sent' = sent /\ delivered' = delivered
  BY DEF FrameInv, SetupReads
<1>2. /\ delivered \in Seq(Frames) /\ buffer \in Seq(Frames) /\ wire \in Seq(Frames)
      /\ lost \in SUBSET Frames /\ sent \in Seq(Frames) /\ closing \in {"no", "disposing", "closed"}
  BY <1>1 DEF FrameTypes
<1>3. Head(wire) \in Frames /\ Tail(wire) \in Seq(Frames)
  BY <1>1, <1>2, HeadTailProperties
<1>4. CASE ReadOn(Append(buffer, Head(wire)), FALSE) /\ lost' = lost
  <2> DEFINE frames == Append(buffer, Head(wire))
  <2>1. frames \in Seq(Frames)
    BY <1>2, <1>3, AppendProperties
  <2>2. delivered \o frames \o Tail(wire) = Received
    BY <1>1, FrameBuffered
  <2>3. ReadOn(frames, FALSE)
    BY <1>4
  <2> HIDE DEF frames
  <2>4. closing' \in {closing, "disposing"}
    BY <2>3 DEF ReadOn, Answered, StartReadLoop, ExchangeFails, FallBackFromProbe, Fails
  <2>5. CASE Match(frames) = {}
    <3>1. buffer' = frames
      BY <2>3, <2>5 DEF ReadOn
    <3>2. FrameTypes'
      BY <1>1, <1>2, <1>3, <1>4, <2>1, <2>4, <3>1 DEF FrameTypes
    <3>3. Received' = Received
      BY <1>1, <2>2, <3>1 DEF Received
    <3> QED BY <1>1, <1>4, <3>2, <3>3, FramesStay
  <2>6. CASE Match(frames) # {}
    <3>1. PICK i \in Match(frames) : buffer' = Without(frames, i)
      BY <2>3, <2>6 DEF ReadOn
    <3>2. i \in DOMAIN frames /\ frames[i].kind = "answer"
      BY <3>1 DEF Match
    <3>3. buffer' \in Seq(Frames)
      BY <2>1, <3>1, <3>2, WithoutIsSeq
    <3>4. FrameTypes'
      BY <1>1, <1>2, <1>3, <1>4, <2>4, <3>3 DEF FrameTypes
    <3>5. PICK b : b = Tail(wire)
      OBVIOUS
    <3>6. b \in Seq(Frames)
      BY <1>3, <3>5
    <3>7. PICK m : m = Len(delivered) + i
      OBVIOUS
    <3>8. /\ m \in DOMAIN (delivered \o frames \o b)
          /\ (delivered \o frames \o b)[m] = frames[i]
          /\ delivered \o Without(frames, i) \o b = Without(delivered \o frames \o b, m)
      <4>1. PICK c : c = frames
        OBVIOUS
      <4>2. c \in Seq(Frames) /\ i \in DOMAIN c
        BY <2>1, <3>2, <4>1
      <4>3. /\ Len(delivered) + i \in DOMAIN (delivered \o c \o b)
            /\ (delivered \o c \o b)[Len(delivered) + i] = c[i]
            /\ delivered \o Without(c, i) \o b = Without(delivered \o c \o b, Len(delivered) + i)
        <5>1. delivered \in Seq(Frames)
          BY <1>2
        <5> QED BY <3>6, <4>2, <5>1, WithoutMiddle
      <4> QED BY <3>7, <4>1, <4>3
    <3>9. Received' = delivered \o Without(frames, i) \o b
      BY <1>1, <3>1, <3>5 DEF Received
    <3>10. m \in DOMAIN Received /\ Received[m] = frames[i] /\ Received' = Without(Received, m)
      BY <2>2, <3>5, <3>8, <3>9
    <3>11. Received[m].kind # "note"
      BY <3>2, <3>10
    <3> QED BY <1>1, <1>4, <3>4, <3>10, <3>11, FrameTaken
  <2> QED BY <2>5, <2>6
<1>5. CASE lost' = lost \cup {Head(wire)} /\ buffer' = buffer /\ closing' = closing
  <2>1. FrameTypes'
    BY <1>1, <1>2, <1>3, <1>5 DEF FrameTypes
  <2>2. PICK m \in DOMAIN Received :
           Received[m] = Head(wire) /\ delivered \o buffer \o Tail(wire) = Without(Received, m)
    BY <1>1, FirstOnWire
  <2>3. Received' = Without(Received, m)
    BY <1>1, <1>5, <2>2 DEF Received
  <2>4. lost' = lost \cup {Received[m]}
    BY <1>5, <2>2
  <2> QED BY <1>1, <2>1, <2>3, <2>4, FrameTaken
<1> QED BY <1>4, <1>5 DEF SetupReads

LEMMA SetupWrittenFrames == FrameInv /\ SetupWritten => FrameInv'
<1> SUFFICES ASSUME FrameInv, SetupWritten PROVE FrameInv'
  OBVIOUS
<1>1. /\ FrameTypes /\ closing # "gone" /\ wire' = wire /\ sent' = sent /\ lost' = lost
      /\ delivered' = delivered /\ ReadOn(buffer, pending)
  BY DEF FrameInv, SetupWritten
<1>2. closing' \in {closing, "disposing"}
  BY <1>1 DEF ReadOn, Answered, StartReadLoop, ExchangeFails, FallBackFromProbe, Fails
<1>3. CASE Match(buffer) = {}
  <2>1. buffer' = buffer
    BY <1>1, <1>3 DEF ReadOn
  <2>2. FrameTypes' /\ Received' = Received
    BY <1>1, <1>2, <2>1 DEF FrameTypes, Received
  <2> QED BY <1>1, <2>2, FramesStay
<1>4. CASE Match(buffer) # {}
  <2>1. PICK i \in Match(buffer) : buffer' = Without(buffer, i)
    BY <1>1, <1>4 DEF ReadOn
  <2>2. i \in DOMAIN buffer /\ buffer[i].kind = "answer"
    BY <2>1 DEF Match
  <2>3. buffer' \in Seq(Frames)
    BY <1>1, <2>1, <2>2, WithoutIsSeq DEF FrameTypes
  <2>4. FrameTypes'
    BY <1>1, <1>2, <2>3 DEF FrameTypes
  <2>5. PICK m : m = Len(delivered) + i
    OBVIOUS
  <2>6. /\ m \in DOMAIN Received /\ Received[m] = buffer[i]
        /\ delivered \o Without(buffer, i) \o wire = Without(Received, m)
    BY <1>1, <2>2, <2>5, InBuffer
  <2>7. Received' = Without(Received, m) /\ Received[m].kind # "note"
    BY <1>1, <2>1, <2>2, <2>6 DEF Received
  <2> QED BY <1>1, <2>4, <2>6, <2>7, FrameTaken
<1> QED BY <1>3, <1>4

\* The read loop: a notification moves on, an answer is taken out.
LEMMA ReadFrames == FrameInv /\ Read => FrameInv'
<1> SUFFICES ASSUME FrameInv, Read PROVE FrameInv'
  OBVIOUS
<1>1. FrameTypes /\ closing # "gone" /\ sent' = sent /\ lost' = lost /\ closing' = closing
  BY DEF FrameInv, Read, closeVars
<1>2. /\ delivered \in Seq(Frames) /\ buffer \in Seq(Frames) /\ wire \in Seq(Frames)
      /\ lost \in SUBSET Frames /\ sent \in Seq(Frames) /\ closing \in {"no", "disposing", "closed"}
  BY <1>1 DEF FrameTypes
<1>3. CASE buffer # <<>> /\ buffer' = Tail(buffer) /\ wire' = wire /\ Handle(Head(buffer))
  <2>1. Head(buffer) \in Frames /\ Tail(buffer) \in Seq(Frames)
    BY <1>2, <1>3, HeadTailProperties
  <2>2. CASE Head(buffer).kind = "note"
    <3>1. delivered' = Append(delivered, Head(buffer))
      BY <1>3, <2>2 DEF Handle
    <3>2. delivered' \in Seq(Frames)
      BY <1>2, <2>1, <3>1, AppendProperties
    <3>3. FrameTypes'
      BY <1>1, <1>2, <1>3, <2>1, <3>2 DEF FrameTypes
    <3>4. Append(delivered, Head(buffer)) \o Tail(buffer) = delivered \o buffer
      BY <1>2, <1>3, HeadMoves
    <3>5. Received' = Received
      BY <1>3, <3>1, <3>4 DEF Received
    <3> QED BY <1>1, <3>3, <3>5, FramesStay
  <2>3. CASE Head(buffer).kind # "note"
    <3>1. delivered' = delivered
      BY <1>3, <2>3 DEF Handle
    <3>2. FrameTypes'
      BY <1>1, <1>2, <1>3, <2>1, <3>1 DEF FrameTypes
    <3>3. PICK i : i = 1
      OBVIOUS
    <3>4. i \in DOMAIN buffer /\ buffer[i] = Head(buffer) /\ Tail(buffer) = Without(buffer, i)
      BY <1>2, <1>3, <3>3, TailIsWithout
    <3>5. PICK m : m = Len(delivered) + i
      OBVIOUS
    <3>6. /\ m \in DOMAIN Received /\ Received[m] = buffer[i]
          /\ delivered \o Without(buffer, i) \o wire = Without(Received, m)
      BY <1>1, <3>4, <3>5, InBuffer
    <3>7. Received' = Without(Received, m) /\ Received[m].kind # "note"
      BY <1>3, <2>3, <3>1, <3>4, <3>6 DEF Received
    <3> QED BY <1>1, <3>2, <3>6, <3>7, FrameTaken
  <2> QED BY <2>2, <2>3
<1>4. CASE /\ buffer = <<>> /\ wire # <<>> /\ wire' = Tail(wire) /\ buffer' = buffer
           /\ Handle(Head(wire))
  <2>1. Head(wire) \in Frames /\ Tail(wire) \in Seq(Frames)
    BY <1>2, <1>4, HeadTailProperties
  <2>2. CASE Head(wire).kind = "note"
    <3>1. delivered' = Append(delivered, Head(wire))
      BY <1>4, <2>2 DEF Handle
    <3>2. delivered' \in Seq(Frames)
      BY <1>2, <2>1, <3>1, AppendProperties
    <3>3. FrameTypes'
      BY <1>1, <1>2, <1>4, <2>1, <3>2 DEF FrameTypes
    <3>4. Append(delivered, Head(wire)) \o Tail(wire) = delivered \o wire
      BY <1>2, <1>4, HeadMoves
    <3>5. delivered \o buffer = delivered /\ delivered' \o buffer' = delivered'
      BY <1>2, <1>4, <3>2, ConcatEmptySeq
    <3>6. Received' = Received
      BY <1>4, <3>1, <3>4, <3>5 DEF Received
    <3> QED BY <1>1, <3>3, <3>6, FramesStay
  <2>3. CASE Head(wire).kind # "note"
    <3>1. delivered' = delivered
      BY <1>4, <2>3 DEF Handle
    <3>2. FrameTypes'
      BY <1>1, <1>2, <1>4, <2>1, <3>1 DEF FrameTypes
    <3>3. PICK m \in DOMAIN Received :
             Received[m] = Head(wire) /\ delivered \o buffer \o Tail(wire) = Without(Received, m)
      BY <1>1, <1>4, FirstOnWire
    <3>4. Received' = Without(Received, m) /\ Received[m].kind # "note"
      BY <1>4, <2>3, <3>1, <3>3 DEF Received
    <3> QED BY <1>1, <3>2, <3>3, <3>4, FrameTaken
  <2> QED BY <2>2, <2>3
<1> QED BY <1>3, <1>4 DEF Read

\* A frame comes in at the end.
LEMMA FrameArrives ==
  ASSUME FrameInv, NEW f \in Frames, wire' = Append(wire, f),
         UNCHANGED <<delivered, buffer, lost, closing>>,
         IF f.kind = "note" THEN f = Note(Len(sent) + 1) /\ sent' = Append(sent, f)
         ELSE sent' = sent
  PROVE  FrameInv'
<1>1. FrameTypes
  BY DEF FrameInv
<1>2. /\ delivered \in Seq(Frames) /\ buffer \in Seq(Frames) /\ wire \in Seq(Frames)
      /\ sent \in Seq(Frames) /\ Len(sent) \in Nat /\ DOMAIN sent = 1..Len(sent)
  BY <1>1, LenProperties DEF FrameTypes
<1>3. Received \in Seq(Frames) /\ delivered \o buffer \in Seq(Frames)
  BY <1>1, ReceivedType
<1>4. Received' = Append(Received, f)
  <2>1. PICK a : a = delivered \o buffer
    OBVIOUS
  <2>2. a \o Append(wire, f) = Append(a \o wire, f)
    BY <1>2, <1>3, <2>1, AppendedLast
  <2> QED BY <2>1, <2>2 DEF Received
<1>5. \A g \in NotesIn(sent) : g.kind = "note" /\ g.n < Len(sent) + 1
  BY <1>2 DEF FrameInv, Numbered, NotesIn, NotesAt, Note
<1>6. CASE f.kind = "note"
  <2>1. f.n = Len(sent) + 1 /\ sent' = Append(sent, f) /\ f = Note(Len(sent) + 1)
    BY <1>6 DEF Note
  <2>0. PICK s : s = Append(sent, f)
    OBVIOUS
  <2>2. sent' \in Seq(Frames) /\ Len(sent') = Len(sent) + 1 /\ DOMAIN sent' = 1..(Len(sent) + 1)
    <3>1. s \in Seq(Frames) /\ Len(s) = Len(sent) + 1
      BY <1>2, <2>0, AppendProperties
    <3>2. DOMAIN s = 1..(Len(sent) + 1)
      BY <3>1, LenProperties
    <3> QED BY <2>0, <2>1, <3>1, <3>2
  <2>3. \A n \in 1..Len(sent) : sent'[n] = sent[n]
    <3>1. \A n \in 1..Len(sent) : s[n] = sent[n]
      BY <1>2, <2>0, AppendProperties
    <3> QED BY <2>0, <2>1, <3>1
  <2>4. sent'[Len(sent) + 1] = f
    <3>1. s[Len(sent) + 1] = f
      BY <1>2, <2>0, AppendProperties
    <3> QED BY <2>0, <2>1, <3>1
  <2>5. Numbered'
    <3>1. SUFFICES ASSUME NEW n \in 1..(Len(sent) + 1) PROVE sent'[n] = Note(n)
      BY <2>2 DEF Numbered
    <3>2. CASE n = Len(sent) + 1
      BY <2>1, <2>4, <3>2
    <3>3. CASE n # Len(sent) + 1
      <4>1. n \in 1..Len(sent)
        BY <1>2, <3>3
      <4> QED BY <1>2, <2>3, <4>1 DEF FrameInv, Numbered
    <3> QED BY <3>2, <3>3
  <2>6. \A g \in lost : g.kind = "note" => g.n \in Nat /\ g.n <= Len(sent)
    BY <1>1 DEF FrameInv, LostWereSent, FrameTypes, Frames
  <2>7. LostWereSent'
    BY <1>2, <2>2, <2>6 DEF LostWereSent
  <2>8. f \notin lost
    BY <1>2, <1>6, <2>1, <2>6
  <2>9. SetupKeepsFrames'
    <3>1. SUFFICES ASSUME closing # "gone"
                   PROVE  InOrder(Received') /\ NotesIn(Received') = NotesIn(sent') \ lost
      BY DEF SetupKeepsFrames
    <3>2. InOrder(Received) /\ NotesIn(Received) = NotesIn(sent) \ lost
      BY <3>1 DEF FrameInv, SetupKeepsFrames
    <3>3. NotesIn(Append(Received, f)) = NotesIn(Received) \cup {f}
      BY <1>3, <1>6, AppendNotes
    <3>4. NotesIn(Append(sent, f)) = NotesIn(sent) \cup {f}
      BY <1>2, <1>6, AppendNotes
    <3>5. \A g \in NotesIn(Received) : g.n < f.n
      BY <1>5, <2>1, <3>2
    <3>6. InOrder(Append(Received, f))
      BY <1>3, <3>2, <3>5, AppendNotes
    <3> QED BY <1>4, <2>1, <2>8, <3>2, <3>3, <3>4, <3>6
  <2>10. FrameTypes'
    BY <1>1, <1>2, <2>2, AppendProperties DEF FrameTypes
  <2> QED BY <2>5, <2>7, <2>9, <2>10 DEF FrameInv
<1>7. CASE f.kind # "note"
  <2>1. sent' = sent
    BY <1>7
  <2>2. NotesIn(Append(Received, f)) = NotesIn(Received)
    BY <1>3, <1>7, AppendNotes
  <2>3. InOrder(Received) => InOrder(Append(Received, f))
    BY <1>3, <1>7, AppendNotes
  <2>4. SetupKeepsFrames'
    BY <1>4, <2>1, <2>2, <2>3 DEF FrameInv, SetupKeepsFrames
  <2>5. FrameTypes'
    BY <1>1, <1>2, <2>1, AppendProperties DEF FrameTypes
  <2> QED BY <2>1, <2>4, <2>5 DEF FrameInv, Numbered, LostWereSent
<1> QED BY <1>6, <1>7

\* Steps that leave every frame where it is.
LEMMA NoFrameMoves ==
  ASSUME FrameInv, UNCHANGED <<delivered, buffer, wire, sent, lost>>,
         closing' \in {closing, "disposing", "closed"},
         closing' # closing => closing # "gone"
  PROVE  FrameInv'
<1>1. FrameTypes' /\ Received' = Received
  BY DEF FrameInv, FrameTypes, Received
<1>2. closing' # "gone" => closing # "gone"
  OBVIOUS
<1> QED BY <1>1, <1>2, FramesStay

LEMMA FrameStepKeeps == FrameInv /\ [Next]_vars => FrameInv'
<1> SUFFICES ASSUME FrameInv, [Next]_vars PROVE FrameInv'
  OBVIOUS
<1> USE DEF setupVars, wireVars, callVars, closeVars
<1>1. ASSUME UNCHANGED <<delivered, buffer, wire, sent, lost, closing>> PROVE FrameInv'
  BY <1>1, NoFrameMoves
<1>2. CASE SetupWriteFails \/ SetupReadsEnd \/ SetupDeadline
  <2>1. UNCHANGED <<delivered, buffer, wire, sent, lost>>
    BY <1>2 DEF SetupWriteFails, SetupReadsEnd, SetupDeadline
  <2>2. closing' = closing \/ (closing = "no" /\ closing' = "disposing")
    BY <1>2 DEF SetupWriteFails, SetupReadsEnd, SetupDeadline, ExchangeFails, FallBackFromProbe,
                Fails
  <2> QED BY <2>1, <2>2, NoFrameMoves
<1>3. CASE Confirmed \/ SetupRejects
  BY <1>1, <1>3 DEF Confirmed, SetupRejects
<1>4. CASE ReadEnds
  BY <1>1, <1>4 DEF ReadEnds
<1>5. CASE Dispose \/ DisposeCloses
  <2>1. /\ UNCHANGED <<delivered, buffer, wire, sent, lost>>
        /\ \/ closing = "no" /\ closing' = "disposing"
           \/ closing = "disposing" /\ closing' = "closed"
    BY <1>5 DEF Dispose, DisposeCloses
  <2> QED BY <2>1, NoFrameMoves
<1>6. CASE TransportDisposed
  <2>1. /\ UNCHANGED <<delivered, buffer, sent, lost>> /\ wire' = <<>> /\ closing' = "gone"
    BY <1>6 DEF TransportDisposed
  <2>2. FrameTypes'
    BY <2>1 DEF FrameInv, FrameTypes
  <2> QED BY <2>1, <2>2, FramesStay
<1>7. ASSUME NEW r \in Requests, CallStep(r) PROVE FrameInv'
  BY <1>1, <1>7 DEF CallStep, Call, Register, RequestWriteFails, Cancel, CallRefused
<1>8. CASE ServerNotes
  <2>1. PICK f : f = Note(Len(sent) + 1)
    OBVIOUS
  <2>2. /\ sent' = Append(sent, f) /\ wire' = Append(wire, f)
        /\ UNCHANGED <<delivered, buffer, lost, closing>>
    BY <1>8, <2>1 DEF ServerNotes
  <2>3. sent \in Seq(Frames)
    BY DEF FrameInv, FrameTypes
  <2>4. f \in Frames /\ f.kind = "note"
    BY <2>1, <2>3 DEF Note, Frames
  <2> QED BY <2>1, <2>2, <2>4, FrameArrives
<1>9. ASSUME NEW id \in Ids, ServerAnswers(id) PROVE FrameInv'
  <2>1. PICK what \in {"result", "error"} : wire' = Append(wire, Answer(id, what))
    BY <1>9 DEF ServerAnswers
  <2>2. UNCHANGED <<delivered, buffer, sent, lost, closing>>
    BY <1>9 DEF ServerAnswers
  <2>3. PICK f : f = Answer(id, what)
    OBVIOUS
  <2>4. f \in Frames /\ f.kind # "note"
    BY <2>3 DEF Answer, Frames
  <2> QED BY <2>1, <2>2, <2>3, <2>4, FrameArrives
<1>10. CASE ServerLeaves
  BY <1>1, <1>10 DEF ServerLeaves
<1>11. CASE UNCHANGED vars
  BY <1>1, <1>11 DEF vars
<1>12. CASE SetupStep
  BY <1>2, <1>3, <1>12, SetupWrittenFrames, SetupReadsFrames DEF SetupStep
<1>13. CASE LoopStep
  BY <1>4, <1>13, ReadFrames DEF LoopStep
<1>14. CASE ServerStep
  BY <1>8, <1>9, <1>10, <1>14 DEF ServerStep, Ids
<1> QED BY <1>5, <1>6, <1>7, <1>11, <1>12, <1>13, <1>14 DEF Next

\* What became of the notifications, in every behaviour.
THEOREM FrameInvariant == Spec => []FrameInv
<1>1. Init => FrameInv
  BY FramesInitially
<1>2. FrameInv /\ [Next]_vars => FrameInv'
  BY FrameStepKeeps
<1> QED BY <1>1, <1>2, PTL DEF Spec

\* The handover from the setup to the read loop drops, repeats and reorders
\* no notification, however many the server sends and whenever it does: but
\* for those that reached an exchange which had given up (setup-reader.ts,
\* _read() of client.ts).
THEOREM SetupLosesNothing == Spec => []SetupKeepsFrames
<1>1. FrameInv => SetupKeepsFrames
  BY DEF FrameInv
<1> QED BY <1>1, FrameInvariant, PTL

=============================================================================
