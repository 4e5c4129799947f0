------------------------- MODULE AgentSessionProofs -------------------------
(***************************************************************************)
(* What the events of a tool call guarantee for any number of runs, of     *)
(* elicitations, of tool calls and of aborts: they are a story with a      *)
(* start and an end, and all of it has been yielded before the generator   *)
(* turns to the next call.                                                 *)
(***************************************************************************)
EXTENDS AgentSession, TLAPS, SequenceTheorems, FiniteSetTheorems

-----------------------------------------------------------------------------
(* Types. *)

Events   == [kind : {"start", "end", "ask", "answer"}, e : Elicits \cup {Nobody}]
Channels == [events : Seq(Events), taken : Nat, closed : BOOLEAN, waits : BOOLEAN]
Before   == {"running", "settling", "awaiting", "draining", "checking"}
Execs    == [at : Before \cup {"none", "closing", "settled"}, call : Nat, cut : BOOLEAN,
             sent : BOOLEAN, awaits : SUBSET Elicits]
Asked    == [is : {"none", "open", "ended"}, run : Runs \cup {Nobody}, call : Nat, cut : BOOLEAN]

AgentTypes ==
    /\ at \in [Runs -> {"idle", "top", "model", "calls", "approval", "run", "drain", "finish",
                        "failed", "done"}]
    /\ aborted \in [Runs -> BOOLEAN] /\ disposed \in BOOLEAN
    /\ batch \in [Runs -> Seq(Events)]
    /\ chan \in [Runs -> Channels]
    /\ exec \in [Runs -> Execs]
    /\ active \in [Runs -> BOOLEAN]
    /\ elicit \in [Elicits -> Asked]
    /\ story \in [Runs -> Seq(Events)]

-----------------------------------------------------------------------------
(* The invariant. *)

\* Outside the drain loop of a run that goes on there is neither a call nor an event, and
\* within it what was taken is what the generator still yields.
LoopAgrees(r) ==
    /\ at[r] \notin {"drain", "done"} =>
          /\ exec[r].at = "none" /\ batch[r] = <<>>
          /\ chan[r].events = <<>> /\ chan[r].taken = 0
    /\ at[r] = "drain" /\ batch[r] = <<>> => chan[r].taken = 0

\* Requests are attributed to a call only before its terminal event.
ActiveAgrees(r) == active[r] => exec[r].at \in Before

\* The story s has asked e.
AskedIn(s, e) == \E j \in 2..Len(s) : s[j] = Event("ask", e)

\* An open request that was attributed belongs to the call under way, which told of it.
ElicitAgrees(e) ==
    elicit[e].is = "open" /\ elicit[e].run \in Runs =>
        /\ exec[elicit[e].run].at \in Before
        /\ elicit[e].call = exec[elicit[e].run].call
        /\ AskedIn(story[elicit[e].run], e)

\* The requests of a run that a story has asked and not answered.
OpenIn(r) == {e \in Elicits : elicit[e].is = "open" /\ elicit[e].run = r}

\* A story that may go on, the requests in open being unanswered.
Begun(s, open) ==
    /\ Len(s) > 0 => s[1] = Start
    /\ \A i \in 2..Len(s) : s[i] = End => i = Len(s)
    /\ \A i \in 2..Len(s) : s[i].kind = "answer" => \E j \in 2..(i - 1) : s[j] = Event("ask", s[i].e)
    /\ \A j \in 2..Len(s) : s[j].kind = "ask" =>
          \/ \E i \in (j + 1)..Len(s) : s[i] = Event("answer", s[j].e)
          \/ s[j].e \in open
Unfinished(s) == Len(s) > 0 /\ \A i \in 2..Len(s) : s[i] # End

StorySound(r) ==
    /\ Begun(story[r], OpenIn(r))
    /\ exec[r].at \in Before => Unfinished(story[r])

AgentInv ==
    /\ AgentTypes
    /\ \A r \in Runs : LoopAgrees(r) /\ ActiveAgrees(r) /\ StorySound(r)
    /\ \A e \in Elicits : ElicitAgrees(e)

-----------------------------------------------------------------------------
(* Stories. *)

LEMMA Longer ==
  ASSUME NEW s \in Seq(Events), NEW x \in Events
  PROVE  /\ s \o <<x>> \in Seq(Events) /\ Len(s) \in Nat
         /\ Len(s \o <<x>>) = Len(s) + 1
         /\ \A i \in 1..Len(s) : (s \o <<x>>)[i] = s[i]
         /\ (s \o <<x>>)[Len(s) + 1] = x
         /\ Append(s, x) = s \o <<x>>
BY AppendProperties, AppendIsConcat, LenProperties

LEMMA Pair ==
  ASSUME NEW s \in Seq(Events), NEW p \in Events, NEW q \in Events
  PROVE  s \o <<p, q>> = (s \o <<p>>) \o <<q>>
<1> DEFINE a == <<p>>  b == <<q>>  c == <<p, q>>
<1>1. a \in Seq(Events) /\ b \in Seq(Events)
  OBVIOUS
<1>2. c = Append(a, q)
  OBVIOUS
<1>3. Append(a, q) = a \o b
  <2> HIDE DEF a
  <2> QED BY <1>1, AppendIsConcat
<1> HIDE DEF a, b, c
<1>4. (s \o a) \o b = s \o (a \o b)
  BY <1>1, ConcatAssociative
<1>5. s \o c = (s \o a) \o b
  BY <1>2, <1>3, <1>4
<1> QED BY <1>5 DEF a, b, c

LEMMA Shorter ==
  ASSUME NEW s \in Seq(Events), s # <<>>
  PROVE  /\ Tail(s) \in Seq(Events)
         /\ Len(s) > 1 \/ Tail(s) = <<>>
         /\ Len(s) > 1 => Tail(s) # <<>>
<1>1. /\ Tail(s) \in Seq(Events) /\ Len(Tail(s)) = Len(s) - 1 /\ Len(s) \in Nat \ {0}
  BY HeadTailProperties, EmptySeq
<1>2. Len(Tail(s)) # 0 => Tail(s) # <<>>
  BY EmptySeq
<1>3. Tail(s) # <<>> => Len(Tail(s)) # 0
  BY <1>1, EmptySeq
<1>4. (Len(s) > 1 \/ Len(Tail(s)) = 0) /\ (Len(s) > 1 => Len(Tail(s)) # 0)
  <2> DEFINE n == Len(s)  m == Len(Tail(s))
  <2>1. m = n - 1 /\ n \in Nat \ {0}
    BY <1>1
  <2> HIDE DEF n, m
  <2>2. (n > 1 \/ m = 0) /\ (n > 1 => m # 0)
    BY <2>1
  <2> QED BY <2>2 DEF n, m
<1> QED BY <1>1, <1>2, <1>3, <1>4

LEMMA EventKinds ==
  ASSUME NEW e \in Elicits
  PROVE  /\ Event("ask", e) \in Events /\ Event("answer", e) \in Events
         /\ Start \in Events /\ End \in Events
         /\ Event("ask", e).kind = "ask" /\ Event("ask", e).e = e
         /\ Event("answer", e).kind = "answer" /\ Event("answer", e).e = e
         /\ Event("ask", e) # End /\ Event("answer", e) # End
         /\ End.kind = "end" /\ Start.kind = "start"
BY DEF Events, Event, Start, End

LEMMA BegunMore ==
  ASSUME NEW s, NEW open, NEW more, Begun(s, open), open \subseteq more
  PROVE  Begun(s, more)
BY DEF Begun

LEMMA StillAsked ==
  ASSUME NEW s \in Seq(Events), NEW y \in Events, NEW t, t = s \o <<y>>,
         NEW e \in Elicits, AskedIn(s, e)
  PROVE  AskedIn(t, e)
<1>1. Len(s) \in Nat /\ Len(t) = Len(s) + 1 /\ \A i \in 1..Len(s) : t[i] = s[i]
  BY Longer
<1>2. PICK j \in 2..Len(s) : s[j] = Event("ask", e)
  BY DEF AskedIn
<1>3. j \in 1..Len(s) /\ j \in 2..Len(t)
  BY <1>1
<1> QED BY <1>1, <1>2, <1>3 DEF AskedIn

LEMMA StoryAsks ==
  ASSUME NEW s \in Seq(Events), NEW open, Begun(s, open), Unfinished(s), NEW e \in Elicits,
         NEW t, t = s \o <<Event("ask", e)>>
  PROVE  /\ t \in Seq(Events) /\ Begun(t, open \cup {e}) /\ Unfinished(t)
         /\ AskedIn(t, e)
<1> DEFINE n == Len(s)
<1>1. /\ t \in Seq(Events) /\ n \in Nat /\ n > 0 /\ Len(t) = n + 1
      /\ \A i \in 1..n : t[i] = s[i]
      /\ t[n + 1] = Event("ask", e)
  BY Longer, EventKinds DEF Unfinished
<1> HIDE DEF n
<1>2. Unfinished(t)
  <2>1. \A i \in 2..(n + 1) : t[i] # End
    BY <1>1, EventKinds DEF Unfinished, n
  <2> QED BY <1>1, <2>1 DEF Unfinished
<1>3. Begun(t, open \cup {e})
  <2>1. t[1] = Start
    BY <1>1 DEF Begun, n
  <2>2. ASSUME NEW i \in 2..(n + 1), t[i].kind = "answer"
        PROVE  \E j \in 2..(i - 1) : t[j] = Event("ask", t[i].e)
    <3>1. i \in 2..n /\ s[i] = t[i]
      BY <1>1, <2>2, EventKinds
    <3>2. PICK j \in 2..(i - 1) : s[j] = Event("ask", s[i].e)
      BY <2>2, <3>1 DEF Begun, n
    <3>3. j \in 1..n
      BY <1>1, <3>1
    <3> QED BY <1>1, <3>1, <3>2, <3>3
  <2>3. ASSUME NEW j \in 2..(n + 1), t[j].kind = "ask"
        PROVE  \/ \E i \in (j + 1)..(n + 1) : t[i] = Event("answer", t[j].e)
               \/ t[j].e \in open \cup {e}
    <3>1. CASE j = n + 1
      BY <1>1, <3>1, EventKinds
    <3>2. CASE j \in 2..n
      <4>1. s[j] = t[j]
        BY <1>1, <3>2
      <4>2. (\E i \in (j + 1)..n : s[i] = Event("answer", s[j].e)) \/ s[j].e \in open
        BY <2>3, <3>2, <4>1 DEF Begun, n
      <4>3. CASE \E i \in (j + 1)..n : s[i] = Event("answer", s[j].e)
        <5>1. PICK i \in (j + 1)..n : s[i] = Event("answer", s[j].e)
          BY <4>3
        <5>2. i \in 1..n /\ i \in (j + 1)..(n + 1)
          BY <1>1, <3>2
        <5> QED BY <1>1, <4>1, <5>1, <5>2
      <4> QED BY <4>1, <4>2, <4>3
    <3> QED BY <1>1, <3>1, <3>2
  <2>4. \A i \in 2..(n + 1) : t[i] = End => i = n + 1
    BY <1>1, <1>2 DEF Unfinished
  <2> QED BY <1>1, <2>1, <2>2, <2>3, <2>4 DEF Begun
<1>4. AskedIn(t, e)
  <2>1. n + 1 \in 2..Len(t)
    BY <1>1
  <2> QED BY <1>1, <2>1 DEF AskedIn
<1> QED BY <1>1, <1>2, <1>3, <1>4

LEMMA StoryAnswers ==
  ASSUME NEW s \in Seq(Events), NEW open, Begun(s, open), Unfinished(s), NEW e \in Elicits,
         AskedIn(s, e),
         NEW t, t = s \o <<Event("answer", e)>>
  PROVE  t \in Seq(Events) /\ Begun(t, open \ {e}) /\ Unfinished(t)
<1> DEFINE n == Len(s)
<1>1. /\ t \in Seq(Events) /\ n \in Nat /\ n > 0 /\ Len(t) = n + 1
      /\ \A i \in 1..n : t[i] = s[i]
      /\ t[n + 1] = Event("answer", e)
  BY Longer, EventKinds DEF Unfinished
<1>2. PICK q \in 2..n : s[q] = Event("ask", e)
  BY DEF AskedIn
<1> HIDE DEF n
<1>3. Unfinished(t)
  <2>1. \A i \in 2..(n + 1) : t[i] # End
    BY <1>1, EventKinds DEF Unfinished, n
  <2> QED BY <1>1, <2>1 DEF Unfinished
<1>4. Begun(t, open \ {e})
  <2>1. t[1] = Start
    BY <1>1 DEF Begun, n
  <2>2. ASSUME NEW i \in 2..(n + 1), t[i].kind = "answer"
        PROVE  \E j \in 2..(i - 1) : t[j] = Event("ask", t[i].e)
    <3>1. CASE i = n + 1
      <4>1. q \in 2..(i - 1) /\ t[q] = Event("ask", e) /\ t[i].e = e
        BY <1>1, <1>2, <3>1, EventKinds
      <4> QED BY <4>1
    <3>2. CASE i \in 2..n
      <4>1. s[i] = t[i]
        BY <1>1, <3>2
      <4>2. PICK j \in 2..(i - 1) : s[j] = Event("ask", s[i].e)
        BY <2>2, <3>2, <4>1 DEF Begun, n
      <4>3. j \in 1..n
        BY <1>1, <3>2
      <4> QED BY <1>1, <4>1, <4>2, <4>3
    <3> QED BY <1>1, <3>1, <3>2
  <2>3. ASSUME NEW j \in 2..(n + 1), t[j].kind = "ask"
        PROVE  \/ \E i \in (j + 1)..(n + 1) : t[i] = Event("answer", t[j].e)
               \/ t[j].e \in open \ {e}
    <3>1. j \in 2..n /\ s[j] = t[j]
      BY <1>1, <2>3, EventKinds
    <3>2. (\E i \in (j + 1)..n : s[i] = Event("answer", s[j].e)) \/ s[j].e \in open
      BY <2>3, <3>1 DEF Begun, n
    <3>3. CASE \E i \in (j + 1)..n : s[i] = Event("answer", s[j].e)
      <4>1. PICK i \in (j + 1)..n : s[i] = Event("answer", s[j].e)
        BY <3>3
      <4>2. i \in 1..n /\ i \in (j + 1)..(n + 1)
        BY <1>1, <3>1
      <4> QED BY <1>1, <3>1, <4>1, <4>2
    <3>4. CASE s[j].e = e
      <4>1. n + 1 \in (j + 1)..(n + 1)
        BY <1>1, <3>1
      <4> QED BY <1>1, <3>1, <3>4, <4>1
    <3> QED BY <3>1, <3>2, <3>3, <3>4
  <2>4. \A i \in 2..(n + 1) : t[i] = End => i = n + 1
    BY <1>1, <1>3 DEF Unfinished
  <2> QED BY <1>1, <2>1, <2>2, <2>3, <2>4 DEF Begun
<1> QED BY <1>1, <1>3, <1>4

LEMMA StoryEnds ==
  ASSUME NEW s \in Seq(Events), Begun(s, {}), Unfinished(s), NEW t, t = Append(s, End)
  PROVE  t \in Seq(Events) /\ Begun(t, {})
<1> DEFINE n == Len(s)
<1>0. End \in Events /\ End.kind = "end"
  BY DEF Events, End, Event
<1>1. /\ t \in Seq(Events) /\ n \in Nat /\ n > 0 /\ Len(t) = n + 1
      /\ \A i \in 1..n : t[i] = s[i]
      /\ t[n + 1] = End
  BY <1>0, Longer DEF Unfinished
<1> HIDE DEF n
<1>2. t[1] = Start
  BY <1>1 DEF Begun, n
<1>3. ASSUME NEW i \in 2..(n + 1), t[i].kind = "answer"
      PROVE  \E j \in 2..(i - 1) : t[j] = Event("ask", t[i].e)
  <2>1. i \in 2..n /\ s[i] = t[i]
    BY <1>0, <1>1, <1>3
  <2>2. PICK j \in 2..(i - 1) : s[j] = Event("ask", s[i].e)
    BY <1>3, <2>1 DEF Begun, n
  <2>3. j \in 1..n
    BY <1>1, <2>1
  <2> QED BY <1>1, <2>1, <2>2, <2>3
<1>4. ASSUME NEW j \in 2..(n + 1), t[j].kind = "ask"
      PROVE  \E i \in (j + 1)..(n + 1) : t[i] = Event("answer", t[j].e)
  <2>1. j \in 2..n /\ s[j] = t[j]
    BY <1>0, <1>1, <1>4
  <2>2. PICK i \in (j + 1)..n : s[i] = Event("answer", s[j].e)
    BY <1>4, <2>1 DEF Begun, n
  <2>3. i \in 1..n /\ i \in (j + 1)..(n + 1)
    BY <1>1, <2>1
  <2> QED BY <1>1, <2>1, <2>2, <2>3
<1>5. \A i \in 2..(n + 1) : t[i] = End => i = n + 1
  BY <1>1 DEF Unfinished, n
<1> QED BY <1>1, <1>2, <1>3, <1>4, <1>5 DEF Begun

LEMMA StoryStarts ==
  ASSUME NEW open
  PROVE  /\ <<Start>> \in Seq(Events) /\ Begun(<<Start>>, open) /\ Unfinished(<<Start>>)
         /\ <<>> \in Seq(Events) /\ Begun(<<>>, open)
<1>1. Start \in Events
  BY DEF Events, Start, Event
<1>2. Len(<<Start>>) = 1 /\ <<Start>>[1] = Start /\ Len(<<>>) = 0
  OBVIOUS
<1> QED BY <1>1, <1>2 DEF Begun, Unfinished

-----------------------------------------------------------------------------
(* The channel and the execution. *)

LEMMA ExecShape ==
  ASSUME NEW x \in Execs, NEW c
  PROVE  /\ Cut(x) \in Execs /\ Cut(x).call = x.call /\ Cut(x).at = x.at
         /\ WokenBy(x, c) \in Execs /\ WokenBy(x, c).call = x.call
         /\ WokenBy(x, c).at \in Before <=> x.at \in Before
         /\ WokenBy(x, c).at = "none" <=> x.at = "none"
BY DEF Execs, Before, Cut, WokenBy

LEMMA ChannelShape ==
  ASSUME NEW c \in Channels, NEW s \in Seq(Events)
  PROVE  /\ PushedAll(c, s) \in Channels /\ PushedAll(c, s).taken = c.taken
         /\ TakenAll(c) \in Channels
         /\ ClosedChannel(c) \in Channels /\ ClosedChannel(c).taken = c.taken
         /\ Waits(c) \in Channels /\ Waits(c).taken = c.taken /\ Waits(c).events = c.events
         /\ Acknowledged(c) \in Channels /\ Acknowledged(c).taken = 0
<1>1. c.events \in Seq(Events) /\ c.taken \in Nat /\ c.closed \in BOOLEAN /\ c.waits \in BOOLEAN
  BY DEF Channels
<1>2. c.events \o s \in Seq(Events) /\ Len(c.events) \in Nat /\ <<>> \in Seq(Events)
  BY <1>1, ConcatProperties, LenProperties
<1>3. PushedAll(c, s) \in Channels /\ PushedAll(c, s).taken = c.taken
  <2> DEFINE q == c.events \o s
  <2>1. q \in Seq(Events)
    BY <1>2
  <2> HIDE DEF q
  <2>2. [c EXCEPT !.events = q, !.waits = FALSE] \in Channels
    BY <2>1 DEF Channels
  <2>3. [c EXCEPT !.events = q, !.waits = FALSE].taken = c.taken
    BY DEF Channels
  <2> QED BY <2>2, <2>3 DEF PushedAll, q
<1>4. TakenAll(c) \in Channels
  <2> DEFINE n == c.taken + Len(c.events)
             z == <<>>
  <2>1. n \in Nat /\ z \in Seq(Events) /\ TakenAll(c) = [c EXCEPT !.events = z, !.taken = n]
    BY <1>1, <1>2 DEF TakenAll
  <2> HIDE DEF n, z
  <2> QED BY <2>1 DEF Channels
<1>5. ClosedChannel(c) \in Channels /\ ClosedChannel(c).taken = c.taken
  BY DEF Channels, ClosedChannel
<1>6. Waits(c) \in Channels /\ Waits(c).taken = c.taken /\ Waits(c).events = c.events
  BY DEF Channels, Waits
<1>7. Acknowledged(c) \in Channels /\ Acknowledged(c).taken = 0
  BY DEF Channels, Acknowledged
<1> QED BY <1>3, <1>4, <1>5, <1>6, <1>7

\* A step that tells nothing and attributes nothing keeps what the stories say.
LEMMA Quietly ==
  ASSUME AgentInv, AgentTypes', UNCHANGED <<story, active>>,
         \A e \in Elicits : /\ elicit'[e].is = elicit[e].is /\ elicit'[e].run = elicit[e].run
                            /\ elicit'[e].call = elicit[e].call,
         \A r \in Runs : /\ exec'[r].call = exec[r].call
                         /\ exec'[r].at \in Before <=> exec[r].at \in Before,
         \A r \in Runs : LoopAgrees(r)'
  PROVE  AgentInv'
<1>1. ASSUME NEW r \in Runs PROVE ActiveAgrees(r)'
  BY DEF AgentInv, ActiveAgrees
<1>2. ASSUME NEW r \in Runs PROVE StorySound(r)'
  <2>1. OpenIn(r)' = OpenIn(r)
    BY DEF OpenIn
  <2> QED BY <2>1 DEF AgentInv, StorySound
<1>3. ASSUME NEW e \in Elicits PROVE ElicitAgrees(e)'
  BY DEF AgentInv, ElicitAgrees
<1> QED BY <1>1, <1>2, <1>3 DEF AgentInv

-----------------------------------------------------------------------------
(* The steps that tell nothing. *)

LEMMA GeneratorMoves ==
  ASSUME AgentInv, NEW r \in Runs,
         Stream(r) \/ LoopTop(r) \/ Model(r) \/ NextCall(r) \/ Approval(r) \/ Pull(r)
  PROVE  AgentInv'
<1> USE DEF AgentInv, AgentTypes
<1>1. AgentTypes'
  BY DEF Stream, LoopTop, Model, NextCall, Approval, Pull, Yield, Runnable
<1>2. UNCHANGED <<story, active, elicit, exec, batch, chan>>
  BY DEF Stream, LoopTop, Model, NextCall, Approval, Pull
<1>3. \A x \in Runs : LoopAgrees(x)'
  <2> SUFFICES ASSUME NEW x \in Runs PROVE LoopAgrees(x)'
    OBVIOUS
  <2>1. at'[x] = at[x] \/ (at[x] \notin {"drain", "done"} /\ at'[x] \notin {"drain", "done"})
    BY DEF Stream, LoopTop, Model, NextCall, Approval, Pull, Yield, Runnable
  <2> QED BY <1>2, <2>1 DEF LoopAgrees
<1> HIDE DEF AgentInv, AgentTypes
<1> QED BY <1>1, <1>2, <1>3, Quietly

LEMMA TakeKeeps ==
  ASSUME AgentInv, NEW r \in Runs, Take(r)
  PROVE  AgentInv'
<1> USE DEF AgentInv, AgentTypes
<1>0. chan[r] \in Channels /\ chan[r].events \in Seq(Events) /\ <<>> \in Seq(Events)
      /\ exec[r] \in Execs
  BY DEF Channels
<1>1. AgentTypes'
  <2>1. CASE chan[r].events # <<>>
    <3>1. TakenAll(chan[r]) \in Channels
      BY <1>0, ChannelShape
    <3>2. /\ batch' = [batch EXCEPT ![r] = chan[r].events]
          /\ chan' = [chan EXCEPT ![r] = TakenAll(@)]
          /\ at' = [at EXCEPT ![r] = "drain"]
          /\ UNCHANGED <<exec, aborted, active, elicit, disposed, story>>
      BY <2>1 DEF Take, TakeWhile, Yield
    <3> QED BY <1>0, <3>1, <3>2
  <2>2. CASE chan[r].events = <<>>
    <3>1. [exec[r] EXCEPT !.at = "none"] \in Execs
      BY <1>0 DEF Execs
    <3> QED BY <2>2, <3>1 DEF Take, TakeWhile, Yield, Runnable
  <2> QED BY <2>1, <2>2
<1>2. UNCHANGED <<story, active, elicit>>
  BY DEF Take, TakeWhile
<1>3. \A x \in Runs : /\ exec'[x].call = exec[x].call
                      /\ exec'[x].at \in Before <=> exec[x].at \in Before
  <2>1. exec' = exec \/ (exec[r].at = "settled" /\ exec' = [exec EXCEPT ![r].at = "none"])
    BY DEF Take, TakeWhile
  <2>2. CASE exec' = exec
    BY <2>2
  <2>3. CASE exec[r].at = "settled" /\ exec' = [exec EXCEPT ![r].at = "none"]
    <3>1. exec'[r].call = exec[r].call /\ exec'[r].at = "none"
      BY <1>0, <2>3 DEF Execs
    <3>2. exec'[r].at \notin Before /\ exec[r].at \notin Before
      BY <2>3, <3>1 DEF Before
    <3> QED BY <2>3, <3>1, <3>2
  <2> QED BY <2>1, <2>2, <2>3
<1>4. \A x \in Runs : LoopAgrees(x)'
  <2> SUFFICES ASSUME NEW x \in Runs PROVE LoopAgrees(x)'
    OBVIOUS
  <2>1. CASE x # r
    <3>1. /\ at'[x] = at[x] /\ exec'[x] = exec[x] /\ batch'[x] = batch[x] /\ chan'[x] = chan[x]
      BY <2>1 DEF Take, TakeWhile, Yield, Runnable
    <3> QED BY <3>1 DEF LoopAgrees
  <2>2. CASE x = r
    <3>1. at[r] = "drain" /\ batch[r] = <<>> /\ chan[r].taken = 0
      BY DEF Take, TakeWhile, Runnable, LoopAgrees
    <3>2. CASE chan[r].events # <<>>
      BY <2>2, <3>1, <3>2 DEF Take, TakeWhile, Yield, LoopAgrees
    <3>3. CASE chan[r].events = <<>>
      <4>1. /\ at'[r] = "calls" /\ exec'[r].at = "none" /\ batch' = batch /\ chan' = chan
        BY <3>3 DEF Take, TakeWhile, Execs
      <4> QED BY <2>2, <3>1, <3>3, <4>1 DEF LoopAgrees
    <3> QED BY <3>2, <3>3
  <2> QED BY <2>1, <2>2
<1> HIDE DEF AgentInv, AgentTypes
<1> QED BY <1>1, <1>2, <1>3, <1>4, Quietly

LEMMA ResumeKeeps ==
  ASSUME AgentInv, NEW r \in Runs, Resume(r)
  PROVE  AgentInv'
<1> USE DEF AgentInv, AgentTypes
<1> DEFINE c == Acknowledged(chan[r])
<1>0. /\ chan[r] \in Channels /\ exec[r] \in Execs /\ batch[r] \in Seq(Events) /\ batch[r] # <<>>
      /\ at[r] = "drain"
  BY DEF Resume, Runnable
<1>1. /\ Tail(batch[r]) \in Seq(Events)
      /\ Len(batch[r]) > 1 \/ Tail(batch[r]) = <<>>
      /\ Len(batch[r]) > 1 => Tail(batch[r]) # <<>>
  BY <1>0, Shorter
<1>2. /\ c \in Channels /\ c.taken = 0 /\ Waits(c) \in Channels /\ Waits(c).taken = 0
  <2>1. c \in Channels /\ c.taken = 0
    BY <1>0, ChannelShape
  <2> QED BY <1>0, <2>1, ChannelShape
<1> HIDE DEF c
<1>3. AgentTypes'
  <2>1. CASE Len(batch[r]) > 1
    BY <1>0, <1>1, <2>1 DEF Resume, Yield
  <2>2. CASE ~(Len(batch[r]) > 1)
    <3>1. exec' = [exec EXCEPT ![r] = WokenBy(@, c)] /\ UNCHANGED at
      BY <2>2 DEF Resume, c
    <3>2. chan' = [chan EXCEPT ![r] = IF exec[r].at = "settled" THEN c ELSE Waits(c)]
      BY <2>2 DEF Resume, c
    <3>3. WokenBy(exec[r], c) \in Execs
      BY <1>0, ExecShape
    <3> QED BY <1>1, <1>2, <3>1, <3>2, <3>3 DEF Resume
  <2> QED BY <2>1, <2>2
<1>4. UNCHANGED <<story, active, elicit>>
  BY DEF Resume
<1>5. \A x \in Runs : /\ exec'[x].call = exec[x].call
                      /\ exec'[x].at \in Before <=> exec[x].at \in Before
  <2>1. exec' = exec \/ exec' = [exec EXCEPT ![r] = WokenBy(@, c)]
    BY DEF Resume, c
  <2>2. /\ WokenBy(exec[r], c).call = exec[r].call
        /\ WokenBy(exec[r], c).at \in Before <=> exec[r].at \in Before
    BY <1>0, ExecShape
  <2> QED BY <1>0, <2>1, <2>2
<1>6. \A x \in Runs : LoopAgrees(x)'
  <2> SUFFICES ASSUME NEW x \in Runs PROVE LoopAgrees(x)'
    OBVIOUS
  <2>1. CASE x # r
    <3>1. /\ at'[x] = at[x] /\ exec'[x] = exec[x] /\ batch'[x] = batch[x] /\ chan'[x] = chan[x]
      BY <2>1 DEF Resume, Yield
    <3> QED BY <3>1 DEF LoopAgrees
  <2>2. at'[r] = "drain" /\ batch'[r] = Tail(batch[r])
    BY <1>0 DEF Resume, Yield
  <2>3. CASE Len(batch[r]) > 1
    BY <1>1, <2>1, <2>2, <2>3 DEF LoopAgrees
  <2>4. CASE ~(Len(batch[r]) > 1)
    <3>1. chan'[r].taken = 0
      BY <1>2, <2>4 DEF Resume, c
    <3> QED BY <2>1, <2>2, <3>1 DEF LoopAgrees
  <2> QED BY <2>3, <2>4
<1> HIDE DEF AgentInv, AgentTypes
<1> QED BY <1>3, <1>4, <1>5, <1>6, Quietly

LEMMA FinallyKeeps ==
  ASSUME AgentInv, NEW r \in Runs, Finally(r)
  PROVE  AgentInv'
<1> USE DEF AgentInv, AgentTypes
<1> DEFINE k == ClosedChannel(chan[r])
<1>0. chan[r] \in Channels /\ exec[r] \in Execs /\ <<>> \in Seq(Events)
  OBVIOUS
<1>1. k \in Channels
  BY <1>0, ChannelShape
<1>2. /\ WokenBy(Cut(exec[r]), k) \in Execs
      /\ WokenBy(Cut(exec[r]), k).call = exec[r].call
      /\ WokenBy(Cut(exec[r]), k).at \in Before <=> exec[r].at \in Before
  <2>1. Cut(exec[r]) \in Execs /\ Cut(exec[r]).call = exec[r].call /\ Cut(exec[r]).at = exec[r].at
    BY <1>0, ExecShape
  <2> QED BY <2>1, ExecShape
<1> HIDE DEF k
<1>3. /\ at' = [at EXCEPT ![r] = "done"] /\ batch' = [batch EXCEPT ![r] = <<>>]
      /\ aborted' = [aborted EXCEPT ![r] = TRUE] /\ chan' = [chan EXCEPT ![r] = k]
      /\ exec' = [exec EXCEPT ![r] = WokenBy(Cut(@), k)]
      /\ UNCHANGED <<active, elicit, disposed, story>>
  BY DEF Finally, Leave, k
<1>4. AgentTypes'
  BY <1>0, <1>1, <1>2, <1>3
<1>5. \A x \in Runs : /\ exec'[x].call = exec[x].call
                      /\ exec'[x].at \in Before <=> exec[x].at \in Before
  BY <1>0, <1>2, <1>3
<1>6. \A x \in Runs : LoopAgrees(x)'
  BY <1>3 DEF LoopAgrees
<1> HIDE DEF AgentInv, AgentTypes
<1> QED BY <1>3, <1>4, <1>5, <1>6, Quietly

LEMMA SignalsKeep ==
  ASSUME AgentInv,
         (\E r \in Runs : AbortRun(r) \/ AbortCall(r)) \/ Dispose \/ NextOwner
  PROVE  AgentInv'
<1> USE DEF AgentInv, AgentTypes
<1>1. /\ UNCHANGED <<at, batch, chan, active, elicit, story>>
      /\ aborted' \in [Runs -> BOOLEAN] /\ disposed' \in BOOLEAN
  BY DEF AbortRun, AbortCall, Dispose, DisposeWith, NextOwner, loopVars
<1>2. exec' \in [Runs -> Execs] /\ \A x \in Runs : exec'[x] = exec[x] \/ exec'[x] = Cut(exec[x])
  <2>1. \A x \in Runs : exec[x] \in Execs /\ Cut(exec[x]) \in Execs
    BY ExecShape
  <2>2. CASE Dispose
    BY <2>1, <2>2 DEF Dispose, DisposeWith
  <2>3. CASE NextOwner
    BY <2>1, <2>3 DEF NextOwner
  <2>4. CASE \E r \in Runs : AbortRun(r) \/ AbortCall(r)
    <3>1. PICK r \in Runs : exec' = [exec EXCEPT ![r] = Cut(@)]
      BY <2>4 DEF AbortRun, AbortCall
    <3> QED BY <2>1, <3>1
  <2> QED BY <2>2, <2>3, <2>4
<1>3. \A x \in Runs : exec'[x].call = exec[x].call /\ exec'[x].at = exec[x].at
  BY <1>2, ExecShape
<1>4. AgentTypes'
  BY <1>1, <1>2
<1>5. \A x \in Runs : LoopAgrees(x)'
  BY <1>1, <1>3 DEF LoopAgrees
<1> HIDE DEF AgentInv, AgentTypes
<1> QED BY <1>1, <1>3, <1>4, <1>5, Quietly

LEMMA SettlingKeeps ==
  ASSUME AgentInv, NEW r \in Runs,
         \/ ToolSettles(r) \/ AbortOpen(r) \/ AwaitDrain(r) \/ ExecutionSettled(r)
         \/ (PublishTerminal(r) /\ ~(Drained(chan[r]) /\ OpenOf(r) = {}))
  PROVE  AgentInv'
<1> USE DEF AgentInv, AgentTypes
<1> DEFINE x == exec[r]  y == exec'[r]
<1>0. x \in Execs /\ chan[r] \in Channels /\ OpenOf(r) \subseteq Elicits
  BY DEF OpenOf
<1>1. /\ y \in Execs /\ y.call = x.call /\ (y.at \in Before <=> x.at \in Before)
      /\ y.at = "none" => at[r] = "done" /\ x.at # "none"
      /\ x.at # "none"
      /\ \A z \in Runs : z # r => exec'[z] = exec[z]
      /\ exec' \in [Runs -> Execs]
  <2>1. CASE ToolSettles(r)
    BY <1>0, <2>1 DEF ToolSettles, Execs, Before
  <2>2. CASE AbortOpen(r)
    BY <1>0, <2>2 DEF AbortOpen, Execs, Before
  <2>3. CASE AwaitDrain(r)
    BY <1>0, <2>3 DEF AwaitDrain, Execs, Before
  <2>4. CASE ExecutionSettled(r)
    BY <1>0, <2>4 DEF ExecutionSettled, Settled, Execs, Before
  <2>5. CASE PublishTerminal(r) /\ ~(Drained(chan[r]) /\ OpenOf(r) = {})
    <3>1. x.at = "checking" /\ exec' = [exec EXCEPT ![r].at = "settling"]
      BY <2>5 DEF PublishTerminal, Publish
    <3> QED BY <1>0, <3>1 DEF Execs, Before
  <2> QED BY <2>1, <2>2, <2>3, <2>4, <2>5
<1> HIDE DEF x, y
<1>2. /\ UNCHANGED <<at, batch, aborted, disposed, active, story>>
      /\ \A z \in Runs : chan'[z].taken = chan[z].taken /\ chan'[z].events = chan[z].events
      /\ chan' \in [Runs -> Channels]
  <2>1. UNCHANGED <<at, batch, aborted, disposed, active, story>>
    BY DEF ToolSettles, AbortOpen, AwaitDrain, ExecutionSettled, Settled, PublishTerminal, Publish,
           loopVars
  <2>2. chan' = chan \/ chan' = [chan EXCEPT ![r].waits = FALSE]
    BY DEF ToolSettles, AbortOpen, AwaitDrain, ExecutionSettled, Settled, PublishTerminal, Publish
  <2>3. /\ [chan[r] EXCEPT !.waits = FALSE] \in Channels
        /\ [chan[r] EXCEPT !.waits = FALSE].taken = chan[r].taken
        /\ [chan[r] EXCEPT !.waits = FALSE].events = chan[r].events
    BY <1>0 DEF Channels
  <2> QED BY <2>1, <2>2, <2>3
<1>3. /\ elicit' \in [Elicits -> Asked]
      /\ \A e \in Elicits : /\ elicit'[e].is = elicit[e].is /\ elicit'[e].run = elicit[e].run
                            /\ elicit'[e].call = elicit[e].call
  <2>1. CASE AbortOpen(r)
    <3>1. \A e \in Elicits : elicit'[e] = elicit[e] \/ elicit'[e] = [elicit[e] EXCEPT !.cut = TRUE]
      BY <2>1 DEF AbortOpen
    <3>2. \A e \in Elicits : elicit[e] \in Asked
      OBVIOUS
    <3>3. \A a \in Asked : /\ [a EXCEPT !.cut = TRUE] \in Asked
                           /\ [a EXCEPT !.cut = TRUE].is = a.is
                           /\ [a EXCEPT !.cut = TRUE].run = a.run
                           /\ [a EXCEPT !.cut = TRUE].call = a.call
      BY DEF Asked
    <3>4. elicit' = [e \in Elicits |-> elicit'[e]]
      BY <2>1 DEF AbortOpen
    <3>5. \A e \in Elicits : /\ elicit'[e] \in Asked
                             /\ elicit'[e].is = elicit[e].is /\ elicit'[e].run = elicit[e].run
                             /\ elicit'[e].call = elicit[e].call
      <4> HIDE DEF AgentInv, AgentTypes
      <4> TAKE e \in Elicits
      <4>1. CASE elicit'[e] = elicit[e]
        BY <3>2, <4>1
      <4>2. CASE elicit'[e] = [elicit[e] EXCEPT !.cut = TRUE]
        <5> DEFINE a == elicit[e]
        <5>1. a \in Asked
          BY <3>2
        <5>2. elicit'[e] = [a EXCEPT !.cut = TRUE]
          BY <4>2
        <5> HIDE DEF a
        <5>3. elicit'[e] \in Asked /\ elicit'[e].is = a.is /\ elicit'[e].run = a.run
              /\ elicit'[e].call = a.call
          BY <3>3, <5>1, <5>2
        <5> QED BY <5>3 DEF a
      <4> QED BY <3>1, <4>1, <4>2
    <3> HIDE DEF AgentInv, AgentTypes
    <3> QED BY <3>4, <3>5
  <2>2. CASE ~AbortOpen(r)
    BY <2>2 DEF ToolSettles, AwaitDrain, ExecutionSettled, Settled, PublishTerminal, Publish
  <2> QED BY <2>1, <2>2
<1>4. AgentTypes'
  BY <1>1, <1>2, <1>3
<1>5. \A z \in Runs : /\ exec'[z].call = exec[z].call
                      /\ exec'[z].at \in Before <=> exec[z].at \in Before
  BY <1>1 DEF x, y
<1>6. \A z \in Runs : LoopAgrees(z)'
  <2> SUFFICES ASSUME NEW z \in Runs PROVE LoopAgrees(z)'
    OBVIOUS
  <2>1. CASE z # r
    BY <1>1, <1>2, <2>1 DEF LoopAgrees
  <2>2. CASE z = r
    BY <1>1, <1>2, <2>2 DEF LoopAgrees, x, y
  <2> QED BY <2>1, <2>2
<1> HIDE DEF AgentInv, AgentTypes
<1> QED BY <1>2, <1>3, <1>4, <1>5, <1>6, Quietly

-----------------------------------------------------------------------------
(* The steps that tell. *)

LEMMA StartCallKeeps ==
  ASSUME AgentInv, NEW r \in Runs, StartCall(r)
  PROVE  AgentInv'
<1> USE DEF AgentInv, AgentTypes
<1>0. /\ exec[r] \in Execs /\ chan[r] \in Channels /\ at[r] = "run"
      /\ exec[r].at = "none" /\ batch[r] = <<>> /\ chan[r].events = <<>> /\ chan[r].taken = 0
  BY DEF StartCall, Runnable, LoopAgrees
<1>1. CASE Head(left[r]) = "unknown"
  <2>1. /\ at' = [at EXCEPT ![r] = "calls"]
        /\ UNCHANGED <<batch, aborted, chan, exec, active, elicit, disposed, story>>
    BY <1>1 DEF StartCall, Yield
  <2>2. AgentTypes'
    BY <2>1
  <2>3. \A x \in Runs : LoopAgrees(x)'
    BY <1>0, <2>1 DEF LoopAgrees
  <2> HIDE DEF AgentInv, AgentTypes
  <2> QED BY <2>1, <2>2, <2>3, Quietly
<1>2. CASE Head(left[r]) # "unknown"
  <2> DEFINE x == [at |-> "running", call |-> exec[r].call + 1, cut |-> aborted[r],
                   sent |-> ~aborted[r], awaits |-> {}]
             c == PushedAll(chan[r], <<Start>>)
  <2>1. /\ at' = [at EXCEPT ![r] = "drain"] /\ exec' = [exec EXCEPT ![r] = x]
        /\ active' = [active EXCEPT ![r] = Head(left[r]) = "context"]
        /\ chan' = [chan EXCEPT ![r] = c] /\ story' = [story EXCEPT ![r] = <<Start>>]
        /\ UNCHANGED <<batch, aborted, elicit, disposed>>
    BY <1>2 DEF StartCall, Pushed
  <2>2. x \in Execs /\ x.at = "running" /\ x.at \in Before
    BY <1>0 DEF Execs, Before
  <2>3. c \in Channels /\ c.taken = 0
    BY <1>0, ChannelShape, StoryStarts
  <2> HIDE DEF x, c
  <2>4. AgentTypes'
    <3>1. <<Start>> \in Seq(Events)
      BY StoryStarts
    <3> QED BY <2>1, <2>2, <2>3, <3>1
  <2>5. \A e \in Elicits : ~(elicit[e].is = "open" /\ elicit[e].run = r)
    BY <1>0 DEF ElicitAgrees, Before
  <2>6. ASSUME NEW z \in Runs PROVE LoopAgrees(z)' /\ ActiveAgrees(z)'
    BY <1>0, <2>1, <2>2, <2>3 DEF LoopAgrees, ActiveAgrees
  <2>7. ASSUME NEW z \in Runs PROVE StorySound(z)'
    <3>1. CASE z = r
      <4>1. story'[z] = <<Start>>
        BY <2>1, <3>1
      <4> QED BY <4>1, StoryStarts DEF StorySound
    <3>2. CASE z # r
      <4>1. OpenIn(z)' = OpenIn(z) /\ story'[z] = story[z] /\ exec'[z] = exec[z]
        BY <2>1, <3>2 DEF OpenIn
      <4> QED BY <4>1 DEF StorySound
    <3> QED BY <3>1, <3>2
  <2>8. ASSUME NEW e \in Elicits PROVE ElicitAgrees(e)'
    <3> SUFFICES ASSUME elicit[e].is = "open", elicit[e].run \in Runs PROVE ElicitAgrees(e)'
      BY <2>1 DEF ElicitAgrees
    <3>1. elicit[e].run # r
      BY <2>5
    <3>2. story'[elicit[e].run] = story[elicit[e].run] /\ exec'[elicit[e].run] = exec[elicit[e].run]
          /\ elicit' = elicit
      BY <2>1, <3>1
    <3> QED BY <3>2 DEF ElicitAgrees
  <2> QED BY <2>4, <2>6, <2>7, <2>8
<1> QED BY <1>1, <1>2

LEMMA PublishKeeps ==
  ASSUME AgentInv, NEW r \in Runs, PublishTerminal(r), Drained(chan[r]) /\ OpenOf(r) = {}
  PROVE  AgentInv'
<1> USE DEF AgentInv, AgentTypes
<1> DEFINE c == PushedAll(chan[r], <<End>>)
           x == [exec[r] EXCEPT !.at = "closing"]
           t == Append(story[r], End)
<1>1. /\ exec[r].at = "checking" /\ exec[r] \in Execs /\ chan[r] \in Channels
      /\ active' = [active EXCEPT ![r] = FALSE] /\ chan' = [chan EXCEPT ![r] = c]
      /\ story' = [story EXCEPT ![r] = t] /\ exec' = [exec EXCEPT ![r] = x]
      /\ UNCHANGED <<at, batch, aborted, elicit, disposed>>
  BY DEF PublishTerminal, Publish, Pushed, loopVars
<1>2. exec[r].at \in Before /\ exec[r].at # "none"
  BY <1>1 DEF Before
<1>3. OpenIn(r) = {}
  BY <1>1 DEF OpenIn, OpenOf, ElicitAgrees
<1>4. t \in Seq(Events) /\ Begun(t, {})
  <2>1. Begun(story[r], {}) /\ Unfinished(story[r]) /\ story[r] \in Seq(Events)
    BY <1>2, <1>3 DEF StorySound
  <2> HIDE DEF AgentInv, AgentTypes
  <2> QED BY <2>1, StoryEnds
<1>5. c \in Channels /\ c.taken = chan[r].taken
  <2>1. <<End>> \in Seq(Events)
    <3>1. End \in Events
      BY DEF Events, End, Event
    <3> QED BY <3>1
  <2> QED BY <1>1, <2>1, ChannelShape
<1>6. x \in Execs /\ x.at = "closing" /\ x.at \notin Before
  BY <1>1 DEF Execs, Before
<1> HIDE DEF c, x, t
<1>7. AgentTypes'
  BY <1>1, <1>4, <1>5, <1>6
<1>8. ASSUME NEW z \in Runs PROVE LoopAgrees(z)' /\ ActiveAgrees(z)'
  <2>1. CASE z = r
    BY <1>1, <1>2, <1>5, <1>6, <2>1 DEF LoopAgrees, ActiveAgrees
  <2>2. CASE z # r
    BY <1>1, <2>2 DEF LoopAgrees, ActiveAgrees
  <2> QED BY <2>1, <2>2
<1>9. ASSUME NEW z \in Runs PROVE StorySound(z)'
  <2>0. OpenIn(z)' = OpenIn(z)
    BY <1>1 DEF OpenIn
  <2>1. CASE z = r
    <3>1. story'[z] = t /\ exec'[z].at \notin Before /\ OpenIn(z)' = {}
      BY <1>1, <1>3, <1>6, <2>0, <2>1
    <3> QED BY <1>4, <3>1 DEF StorySound
  <2>2. CASE z # r
    <3>1. story'[z] = story[z] /\ exec'[z] = exec[z]
      BY <1>1, <2>2
    <3> QED BY <2>0, <3>1 DEF StorySound
  <2> QED BY <2>1, <2>2
<1>10. ASSUME NEW e \in Elicits PROVE ElicitAgrees(e)'
  <2> SUFFICES ASSUME elicit[e].is = "open", elicit[e].run \in Runs PROVE ElicitAgrees(e)'
    BY <1>1 DEF ElicitAgrees
  <2>1. elicit[e].run # r
    BY <1>3 DEF OpenIn
  <2>2. story'[elicit[e].run] = story[elicit[e].run] /\ exec'[elicit[e].run] = exec[elicit[e].run]
        /\ elicit' = elicit
    BY <1>1, <2>1
  <2> QED BY <2>2 DEF ElicitAgrees
<1> QED BY <1>7, <1>8, <1>9, <1>10

\* A request of no run is in nobody's story.
LEMMA ToNobodyKeeps ==
  ASSUME AgentInv, UNCHANGED <<at, batch, aborted, chan, exec, active, disposed, story>>,
         NEW e \in Elicits, NEW a \in Asked, a.run = Nobody, elicit' = [elicit EXCEPT ![e] = a],
         elicit[e].is = "none" \/ elicit[e].run = Nobody
  PROVE  AgentInv'
<1> USE DEF AgentInv, AgentTypes
<1>1. Nobody \notin Runs
  BY AgentAssumption
<1>2. AgentTypes'
  OBVIOUS
<1>3. ASSUME NEW r \in Runs PROVE LoopAgrees(r)' /\ ActiveAgrees(r)' /\ StorySound(r)'
  <2>1. OpenIn(r)' = OpenIn(r)
    BY <1>1 DEF OpenIn
  <2> QED BY <2>1 DEF LoopAgrees, ActiveAgrees, StorySound
<1>4. ASSUME NEW x \in Elicits PROVE ElicitAgrees(x)'
  BY <1>1 DEF ElicitAgrees
<1> QED BY <1>2, <1>3, <1>4

\* A call under way tells of one request, which is now a.
LEMMA TellsKeeps ==
  ASSUME AgentInv, NEW r \in Runs, exec[r].at \in Before,
         NEW s \in Seq(Events), chan' = [chan EXCEPT ![r] = PushedAll(@, s)],
         NEW t \in Seq(Events), story' = [story EXCEPT ![r] = t],
         NEW e \in Elicits, NEW a \in Asked, elicit' = [elicit EXCEPT ![e] = a],
         a.run = r, a.is = "open" => a.call = exec[r].call,
         elicit[e].is = "none" \/ elicit[e].run = r,
         UNCHANGED <<at, batch, aborted, exec, active, disposed>>,
         Unfinished(t),
         Begun(t, IF a.is = "open" THEN OpenIn(r) \cup {e} ELSE OpenIn(r) \ {e}),
         a.is = "open" => AskedIn(t, e),
         \A x \in Elicits : AskedIn(story[r], x) => AskedIn(t, x)
  PROVE  AgentInv'
<1> USE DEF AgentInv, AgentTypes
<1> DEFINE c == PushedAll(chan[r], s)
<1>1. c \in Channels /\ c.taken = chan[r].taken /\ chan' = [chan EXCEPT ![r] = c]
  BY ChannelShape
<1> HIDE DEF c
<1>2. AgentTypes'
  BY <1>1
<1>3. exec[r].at # "none"
  BY DEF Before
<1>4. ASSUME NEW z \in Runs PROVE LoopAgrees(z)' /\ ActiveAgrees(z)'
  <2>1. CASE z = r
    BY <1>1, <1>3, <2>1 DEF LoopAgrees, ActiveAgrees
  <2>2. CASE z # r
    BY <1>1, <2>2 DEF LoopAgrees, ActiveAgrees
  <2> QED BY <2>1, <2>2
<1>5. \A x \in Elicits : x # e => elicit'[x] = elicit[x]
  OBVIOUS
<1>6. elicit'[e] = a
  OBVIOUS
<1>7. ASSUME NEW z \in Runs PROVE StorySound(z)'
  <2>1. CASE z = r
    <3>1. OpenIn(r)' = IF a.is = "open" THEN OpenIn(r) \cup {e} ELSE OpenIn(r) \ {e}
      BY <1>5, <1>6 DEF OpenIn
    <3>2. story'[r] = t
      OBVIOUS
    <3> QED BY <2>1, <3>1, <3>2 DEF StorySound
  <2>2. CASE z # r
    <3>1. OpenIn(z)' = OpenIn(z)
      BY <1>5, <1>6, <2>2 DEF OpenIn
    <3>2. story'[z] = story[z] /\ exec'[z] = exec[z]
      BY <2>2
    <3> QED BY <3>1, <3>2 DEF StorySound
  <2> QED BY <2>1, <2>2
<1>8. ASSUME NEW x \in Elicits PROVE ElicitAgrees(x)'
  <2>1. CASE x = e
    BY <1>6, <2>1 DEF ElicitAgrees
  <2>2. CASE x # e
    <3>1. elicit'[x] = elicit[x] /\ ElicitAgrees(x)
      BY <1>5, <2>2
    <3>2. CASE elicit[x].run = r
      <4>1. story'[r] = t /\ exec' = exec
        OBVIOUS
      <4> QED BY <3>1, <3>2, <4>1 DEF ElicitAgrees
    <3>3. CASE elicit[x].run # r
      <4>1. elicit[x].run \in Runs => story'[elicit[x].run] = story[elicit[x].run]
        BY <3>3
      <4> QED BY <3>1, <4>1 DEF ElicitAgrees
    <3> QED BY <3>2, <3>3
  <2> QED BY <2>1, <2>2
<1> QED BY <1>2, <1>4, <1>7, <1>8

LEMMA AnswerKeeps ==
  ASSUME AgentInv, NEW e \in Elicits, Answer(e)
  PROVE  AgentInv'
<1> DEFINE a == [elicit[e] EXCEPT !.is = "ended"]
           r == elicit[e].run
<1>1. /\ elicit[e] \in Asked /\ elicit[e].is = "open" /\ elicit' = [elicit EXCEPT ![e] = a]
      /\ UNCHANGED <<at, batch, aborted, exec, active, disposed>>
      /\ Told(e, r, <<Event("answer", e)>>)
  BY DEF Answer, AgentInv, AgentTypes, loopVars
<1>2. a \in Asked /\ a.is = "ended" /\ a.run = r /\ r \in Runs \cup {Nobody}
  BY <1>1 DEF Asked
<1> HIDE DEF a, r
<1>3. CASE r = Nobody
  <2>1. UNCHANGED <<chan, story>>
    BY <1>1, <1>3 DEF Told
  <2> QED BY <1>1, <1>2, <1>3, <2>1, ToNobodyKeeps DEF r
<1>4. CASE r # Nobody
  <2> DEFINE s == <<Event("answer", e)>>
             t == story[r] \o s
  <2>1. r \in Runs
    BY <1>2, <1>4
  <2>2. chan' = [chan EXCEPT ![r] = PushedAll(@, s)] /\ story' = [story EXCEPT ![r] = t]
    BY <1>1, <1>4 DEF Told
  <2>3. /\ exec[r].at \in Before /\ Begun(story[r], OpenIn(r)) /\ Unfinished(story[r])
        /\ story[r] \in Seq(Events)
        /\ AskedIn(story[r], e)
    BY <1>1, <2>1 DEF AgentInv, AgentTypes, StorySound, ElicitAgrees, r
  <2>4. s \in Seq(Events)
    BY EventKinds
  <2>6. elicit[e].run = r /\ t = story[r] \o <<Event("answer", e)>>
    BY DEF r
  <2> HIDE DEF s, t
  <2>5. t \in Seq(Events) /\ Begun(t, OpenIn(r) \ {e}) /\ Unfinished(t)
    <3> DEFINE w == story[r]  o == OpenIn(r)
    <3>1. /\ w \in Seq(Events) /\ Begun(w, o) /\ Unfinished(w) /\ t = w \o <<Event("answer", e)>>
          /\ AskedIn(w, e)
      BY <2>3, <2>6
    <3> HIDE DEF w, o
    <3>2. t \in Seq(Events) /\ Begun(t, o \ {e}) /\ Unfinished(t)
      BY <3>1, StoryAnswers
    <3> QED BY <3>2 DEF w, o
  <2>7. ASSUME NEW x \in Elicits, AskedIn(story[r], x) PROVE AskedIn(t, x)
    <3> DEFINE w == story[r]  y == Event("answer", e)
    <3>1. w \in Seq(Events) /\ y \in Events /\ t = w \o <<y>> /\ AskedIn(w, x)
      BY <2>3, <2>6, <2>7, EventKinds
    <3> HIDE DEF w, y
    <3> QED BY <3>1, StillAsked
  <2> QED BY <1>1, <1>2, <2>1, <2>2, <2>3, <2>4, <2>5, <2>6, <2>7, TellsKeeps
<1> QED BY <1>3, <1>4

LEMMA AskKeeps ==
  ASSUME AgentInv, NEW e \in Elicits, NEW matches, Ask(e, matches)
  PROVE  AgentInv'
<1> DEFINE r == IF matches /\ Cardinality(ActiveRuns) = 1 /\ \A x \in ActiveRuns : active[x]
                THEN CHOOSE x \in ActiveRuns : TRUE ELSE Nobody
           dead == disposed \/ (r # Nobody /\ exec[r].cut)
           a == [is |-> IF dead THEN "ended" ELSE "open", run |-> r, cut |-> FALSE,
                 call |-> IF r = Nobody THEN 0 ELSE exec[r].call]
           s == IF dead THEN <<Event("ask", e), Event("answer", e)>> ELSE <<Event("ask", e)>>
<1>1. /\ elicit[e].is = "none" /\ elicit' = [elicit EXCEPT ![e] = a] /\ Told(e, r, s)
      /\ UNCHANGED <<at, batch, aborted, exec, active, disposed>>
  BY DEF Ask, loopVars
<1>2. r = Nobody \/ (r \in Runs /\ active[r])
  <2>1. CASE matches /\ Cardinality(ActiveRuns) = 1 /\ \A x \in ActiveRuns : active[x]
    <3>1. ActiveRuns # {}
      BY <2>1, FS_EmptySet
    <3>2. r \in ActiveRuns
      BY <2>1, <3>1
    <3> QED BY <2>1, <3>2 DEF ActiveRuns
  <2> QED BY <2>1
<1> HIDE DEF r
<1>3. /\ a \in Asked /\ a.run = r /\ a.is = IF dead THEN "ended" ELSE "open"
      /\ r # Nobody => a.call = exec[r].call
  <2>1. r # Nobody => exec[r].call \in Nat
    BY <1>2 DEF AgentInv, AgentTypes, Execs
  <2> QED BY <1>2, <2>1 DEF Asked
<1> HIDE DEF dead, a
<1>4. CASE r = Nobody
  <2>1. UNCHANGED <<chan, story>>
    BY <1>1, <1>4 DEF Told
  <2> QED BY <1>1, <1>3, <1>4, <2>1, ToNobodyKeeps
<1>5. CASE r # Nobody
  <2> DEFINE t == story[r] \o s
  <2>1. r \in Runs /\ active[r]
    BY <1>2, <1>5
  <2>2. chan' = [chan EXCEPT ![r] = PushedAll(@, s)] /\ story' = [story EXCEPT ![r] = t]
    BY <1>1, <1>5 DEF Told
  <2>3. /\ exec[r].at \in Before /\ Begun(story[r], OpenIn(r)) /\ Unfinished(story[r])
        /\ story[r] \in Seq(Events)
    BY <2>1 DEF AgentInv, AgentTypes, StorySound, ActiveAgrees
  <2>4. s \in Seq(Events)
    BY EventKinds
  <2> DEFINE u == story[r] \o <<Event("ask", e)>>
             w == story[r]
             o == OpenIn(r)
  <2>8. w \in Seq(Events) /\ Begun(w, o) /\ Unfinished(w) /\ u = w \o <<Event("ask", e)>>
    BY <2>3
  <2> HIDE DEF u, w, o
  <2>9. /\ u \in Seq(Events) /\ Begun(u, o \cup {e}) /\ Unfinished(u)
        /\ AskedIn(u, e)
    BY <2>8, StoryAsks
  <2>10. ASSUME NEW x \in Elicits, AskedIn(w, x) PROVE AskedIn(u, x)
    <3> DEFINE y == Event("ask", e)
    <3>1. y \in Events /\ u = w \o <<y>>
      BY <2>8, EventKinds
    <3> HIDE DEF y
    <3> QED BY <2>8, <2>10, <3>1, StillAsked
  <2>5. /\ u \in Seq(Events) /\ Begun(u, OpenIn(r) \cup {e}) /\ Unfinished(u)
        /\ AskedIn(u, e)
        /\ \A x \in Elicits : AskedIn(story[r], x) => AskedIn(u, x)
    BY <2>9, <2>10 DEF w, o
  <2>6. CASE ~dead
    <3>1. s = <<Event("ask", e)>> /\ t = u /\ a.is = "open" /\ a.call = exec[r].call
      BY <1>3, <1>5, <2>6 DEF u
    <3> HIDE DEF s, t
    <3> QED BY <1>1, <1>3, <2>1, <2>2, <2>3, <2>4, <2>5, <3>1, TellsKeeps
  <2>7. CASE dead
    <3>1. a.is = "ended"
      BY <1>3, <2>7
    <3>2. t = u \o <<Event("answer", e)>>
      <4> DEFINE p == Event("ask", e)  q == Event("answer", e)
      <4>1. p \in Events /\ q \in Events /\ s = <<p, q>>
        BY <2>7, EventKinds
      <4>2. u = w \o <<p>> /\ t = w \o s
        BY DEF u, w, p
      <4> HIDE DEF p, q, s, t
      <4>3. t = u \o <<q>>
        BY <2>8, <4>1, <4>2, Pair
      <4> QED BY <4>3 DEF q
    <3> HIDE DEF s, t
    <3>3. t \in Seq(Events) /\ Begun(t, (OpenIn(r) \cup {e}) \ {e}) /\ Unfinished(t)
      <4> DEFINE m == OpenIn(r) \cup {e}
      <4>1. Begun(u, m)
        BY <2>5
      <4> HIDE DEF m
      <4>2. t \in Seq(Events) /\ Begun(t, m \ {e}) /\ Unfinished(t)
        BY <2>5, <3>2, <4>1, StoryAnswers
      <4> QED BY <4>2 DEF m
    <3>4. (OpenIn(r) \cup {e}) \ {e} = OpenIn(r) \ {e}
      OBVIOUS
    <3>5. Begun(t, OpenIn(r) \ {e})
      BY <3>3, <3>4
    <3>6. ASSUME NEW x \in Elicits, AskedIn(story[r], x) PROVE AskedIn(t, x)
      <4>1. AskedIn(u, x)
        BY <2>5, <3>6
      <4> DEFINE y == Event("answer", e)
      <4>2. y \in Events /\ t = u \o <<y>>
        BY <3>2, EventKinds
      <4> HIDE DEF y
      <4> QED BY <2>5, <4>1, <4>2, StillAsked
    <3> QED BY <1>1, <1>3, <2>1, <2>2, <2>3, <2>4, <3>1, <3>3, <3>5, <3>6, TellsKeeps
  <2> QED BY <2>6, <2>7
<1> QED BY <1>4, <1>5

-----------------------------------------------------------------------------
(* The theorems. *)

LEMMA AgentBegins ==
  ASSUME AgentInit
  PROVE  AgentInv
<1>1. <<>> \in Seq(Events) /\ NewChannel \in Channels /\ NewChannel.taken = 0
      /\ NewChannel.events = <<>>
  BY DEF Channels, NewChannel
<1>2. NoExec \in Execs /\ NoExec.at = "none" /\ "none" \notin Before
  BY DEF Execs, Before, NoExec
<1>3. NoElicit \in Asked /\ NoElicit.is = "none"
  BY DEF Asked, NoElicit
<1>4. AgentTypes
  BY <1>1, <1>2, <1>3 DEF AgentInit, AgentTypes
<1>5. ASSUME NEW r \in Runs PROVE LoopAgrees(r) /\ ActiveAgrees(r)
  BY <1>1, <1>2 DEF AgentInit, LoopAgrees, ActiveAgrees
<1>6. ASSUME NEW r \in Runs PROVE StorySound(r)
  <2>1. story[r] = <<>> /\ exec[r].at \notin Before
    BY <1>2 DEF AgentInit
  <2> QED BY <2>1, StoryStarts DEF StorySound
<1>7. ASSUME NEW e \in Elicits PROVE ElicitAgrees(e)
  BY <1>3 DEF AgentInit, ElicitAgrees
<1> QED BY <1>4, <1>5, <1>6, <1>7 DEF AgentInv

LEMMA AgentSteps ==
  ASSUME AgentInv, [Next]_vars
  PROVE  AgentInv'
<1>1. CASE UNCHANGED vars
  <2>1. UNCHANGED <<at, batch, aborted, chan, exec, active, elicit, disposed, story>>
    BY <1>1 DEF vars, loopVars
  <2>2. AgentTypes'
    BY <2>1 DEF AgentInv, AgentTypes
  <2>3. \A r \in Runs : LoopAgrees(r)'
    BY <2>1 DEF AgentInv, LoopAgrees
  <2> QED BY <2>1, <2>2, <2>3, Quietly
<1>2. ASSUME NEW r \in Runs,
             \/ Stream(r) \/ Step(r) \/ Model(r) \/ Approval(r) \/ Pull(r) \/ Abandon(r)
             \/ AbortRun(r) \/ AbortCall(r) \/ ToolSettles(r) \/ Settling(r)
      PROVE  AgentInv'
  <2>1. CASE Stream(r) \/ LoopTop(r) \/ Model(r) \/ NextCall(r) \/ Approval(r) \/ Pull(r)
    BY <2>1, GeneratorMoves
  <2>2. CASE StartCall(r)
    BY <2>2, StartCallKeeps
  <2>3. CASE Take(r)
    BY <2>3, TakeKeeps
  <2>4. CASE Resume(r)
    BY <2>4, ResumeKeeps
  <2>5. CASE Return(r) \/ Abandon(r)
    BY <2>5, FinallyKeeps DEF Return, Abandon
  <2>6. CASE AbortRun(r) \/ AbortCall(r)
    BY <2>6, SignalsKeep
  <2>7. CASE ToolSettles(r) \/ AbortOpen(r) \/ AwaitDrain(r) \/ ExecutionSettled(r)
    BY <2>7, SettlingKeeps
  <2>8. CASE PublishTerminal(r)
    BY <2>8, PublishKeeps, SettlingKeeps
  <2> QED BY <1>2, <2>1, <2>2, <2>3, <2>4, <2>5, <2>6, <2>7, <2>8 DEF Step, Settling
<1>3. ASSUME NEW e \in Elicits, Answer(e) \/ \E matches \in BOOLEAN : Ask(e, matches)
      PROVE  AgentInv'
  BY <1>3, AnswerKeeps, AskKeeps
<1>4. CASE Dispose \/ NextOwner
  BY <1>4, SignalsKeep
<1> QED BY <1>1, <1>2, <1>3, <1>4 DEF Next

\* The invariant of the agent: what the drain loop, the execution, the requests
\* attributed to a call and the story of its events know of each other.
\* About stream(), settleToolEvents and the elicitation handler of AgentSession.
THEOREM AgentInvariant == Spec => []AgentInv
<1>1. AgentInit => AgentInv
  BY AgentBegins
<1>2. AgentInv /\ [Next]_vars => AgentInv'
  BY AgentSteps
<1> QED BY <1>1, <1>2, PTL DEF Spec

\* The events of a call begin with its start, a request comes before its
\* answer, and nothing follows the terminal event, by which every request
\* attributed to the call has been answered.
THEOREM StoriesAreOrdered == Spec => []StoryIsOrdered
<1>1. AgentInv => StoryIsOrdered
  <2> SUFFICES ASSUME AgentInv, NEW r \in Runs, Len(story[r]) > 0
               PROVE  LET s == story[r]  n == Len(s)
                      IN  /\ s[1] = Start
                          /\ \A i \in 2..n : s[i] = End => i = n
                          /\ \A i \in 2..n : s[i].kind = "answer" =>
                                \E j \in 2..(i - 1) : s[j] = Event("ask", s[i].e)
                          /\ s[n] = End => \A j \in 2..n : s[j].kind = "ask" =>
                                \E i \in (j + 1)..n : s[i] = Event("answer", s[j].e)
    BY DEF StoryIsOrdered
  <2> DEFINE s == story[r]  n == Len(s)
  <2>1. s \in Seq(Events) /\ n \in Nat /\ n > 0
    BY LenProperties DEF AgentInv, AgentTypes
  <2>2. Begun(s, OpenIn(r)) /\ (exec[r].at \in Before => Unfinished(s))
    BY DEF AgentInv, StorySound
  <2>3. ASSUME s[n] = End, NEW j \in 2..n PROVE OpenIn(r) = {}
    <3>1. n \in 2..n
      BY <2>1, <2>3
    <3>2. exec[r].at \notin Before
      BY <2>2, <2>3, <3>1 DEF Unfinished
    <3> QED BY <3>2 DEF AgentInv, ElicitAgrees, OpenIn
  <2>4. ASSUME s[n] = End, NEW j \in 2..n, s[j].kind = "ask"
        PROVE  \E i \in (j + 1)..n : s[i] = Event("answer", s[j].e)
    <3>1. Begun(s, {})
      BY <2>2, <2>3, <2>4
    <3> HIDE DEF s
    <3> QED BY <2>4, <3>1 DEF Begun
  <2> HIDE DEF s
  <2>5. /\ s[1] = Start
        /\ \A i \in 2..n : s[i] = End => i = n
        /\ \A i \in 2..n : s[i].kind = "answer" => \E j \in 2..(i - 1) : s[j] = Event("ask", s[i].e)
    BY <2>1, <2>2 DEF Begun
  <2> QED BY <2>4, <2>5 DEF s
<1> QED BY <1>1, AgentInvariant, PTL

\* The generator turns to the next call, or to the model, only when the
\* consumer has had all the events of the call and the call has settled.
THEOREM NothingIsLeftBehind == Spec => []NothingLeftBehind
<1>1. AgentInv => NothingLeftBehind
  BY DEF AgentInv, LoopAgrees, NothingLeftBehind, ActiveRuns, InFlight
<1> QED BY <1>1, AgentInvariant, PTL

=============================================================================
