---------------------------- MODULE AgentSession ----------------------------
(***************************************************************************)
(* The agent loop of packages/session/src/agent-session.ts (AgentSession)  *)
(* with the event channel of agent-event-channel.ts.                       *)
(*                                                                         *)
(* A run is one stream() call: a generator that asks the model, has its    *)
(* tool calls approved and executed, and yields events to a consumer that  *)
(* pulls, pauses or abandons it.  A tool call executes beside its          *)
(* generator and outlives it; the elicitations a server asks for meanwhile *)
(* are attributed to the call, and their events reach the consumer through *)
(* the channel of the run.  Texts, tokens, telemetry and the reasons of    *)
(* the aborts are left out.  Waiting is modelled by who wakes whom: a      *)
(* promise that nobody resolves stays pending.                             *)
(***************************************************************************)
EXTENDS Naturals, Sequences, FiniteSets

CONSTANTS
    Runs,           \* stream() calls on the agent
    Elicits,        \* elicitation requests of the servers, each once
    Messages,       \* tool calls a model message can carry: sequences of kinds
    MaxIterations,  \* the parameter of that name
    MaxAborts,      \* bound: signals that fire before the end of their run
    Nobody          \* no run

ASSUME AgentAssumption ==
    /\ IsFiniteSet(Runs) /\ IsFiniteSet(Elicits) /\ Nobody \notin Runs
    /\ Messages \subseteq Seq({"context", "local", "unknown"})
    /\ MaxIterations \in Nat \ {0} /\ MaxAborts \in Nat

VARIABLES
    at,         \* r -> where the generator of r stands
    paused,     \* r -> it waits at a yield for the consumer
    turn,       \* r -> iterations begun
    left,       \* r -> tool calls of the message still to be handled
    batch,      \* r -> events taken from the channel and not yet yielded
    aborted,    \* r -> combinedSignal
    chan,       \* r -> the AgentEventChannel
    exec,       \* r -> the execution of its current tool call
    active,     \* r -> activeTool is set: requests are attributed to the call
    elicit,     \* e -> its state, and the run and call it is attributed to
    owner,      \* who answers elicitations: agent, base, next
    disposed,   \* the agent was disposed of
    aborts,     \* signals fired so far
    story       \* ghost: r -> events pushed for its current call

loopVars == <<at, paused, turn, left, batch>>
vars == <<loopVars, aborted, chan, exec, active, elicit, owner, disposed, aborts, story>>

-----------------------------------------------------------------------------
(* The channel. *)

Event(kind, e) == [kind |-> kind, e |-> e]
Start == Event("start", Nobody)
End   == Event("end", Nobody)

NewChannel == [events |-> <<>>, taken |-> 0, closed |-> FALSE, waits |-> FALSE]
Drained(c) == c.closed \/ (c.events = <<>> /\ c.taken = 0)
PushedAll(c, events) == IF c.closed THEN c
                        ELSE [c EXCEPT !.events = @ \o events, !.waits = FALSE]
Pushed(c, event) == PushedAll(c, <<event>>)
TakenAll(c) == [c EXCEPT !.events = <<>>, !.taken = @ + Len(c.events)]
ClosedChannel(c) == [c EXCEPT !.closed = TRUE, !.waits = FALSE]
\* waitForEvent after acknowledge: wait unless something came meanwhile.
Waits(c) == [c EXCEPT !.waits = c.events = <<>> /\ ~c.closed]
Acknowledged(c) == [c EXCEPT !.taken = 0]

\* wakeDrain: the settling execution goes on once the channel is drained.
WokenBy(x, c) == IF x.at = "draining" /\ Drained(c) THEN [x EXCEPT !.at = "checking"] ELSE x

-----------------------------------------------------------------------------
(* Signals, calls and elicitations. *)

NoExec == [at |-> "none", call |-> 0, cut |-> FALSE, sent |-> FALSE, awaits |-> {}]
InFlight(x) == x.at \notin {"none", "settled"}
Cut(x) == IF InFlight(x) THEN [x EXCEPT !.cut = TRUE] ELSE x

ActiveRuns == {r \in Runs : at[r] \notin {"idle", "done"}}
NoElicit == [is |-> "none", run |-> Nobody, call |-> 0, cut |-> FALSE]
OpenOf(r) == {e \in Elicits : elicit[e].is = "open" /\ elicit[e].run = r
                              /\ elicit[e].call = exec[r].call}
\* The signal of an elicitation: the agent, the call, or its own controller.
Signalled(e) == disposed \/ elicit[e].cut
                \/ (elicit[e].run # Nobody /\ exec[elicit[e].run].cut)

AgentInit ==
    /\ at = [r \in Runs |-> "idle"] /\ paused = [r \in Runs |-> FALSE]
    /\ turn = [r \in Runs |-> 0] /\ left = [r \in Runs |-> <<>>]
    /\ batch = [r \in Runs |-> <<>>] /\ aborted = [r \in Runs |-> FALSE]
    /\ chan = [r \in Runs |-> NewChannel] /\ exec = [r \in Runs |-> NoExec]
    /\ active = [r \in Runs |-> FALSE] /\ elicit = [e \in Elicits |-> NoElicit]
    /\ owner = "agent" /\ disposed = FALSE /\ aborts = 0
    /\ story = [r \in Runs |-> <<>>]

-----------------------------------------------------------------------------
(* The generator.  Yield: an event goes to the consumer, and the generator *)
(* stands still until the next pull.                                       *)

Yield(r, next) == at' = [at EXCEPT ![r] = next] /\ paused' = [paused EXCEPT ![r] = TRUE]
Runnable(r, where) == at[r] = where /\ ~paused[r]

Stream(r) ==
    /\ at[r] = "idle" /\ Yield(r, "top")
    /\ aborted' = [aborted EXCEPT ![r] = disposed]
    /\ UNCHANGED <<turn, left, batch, chan, exec, active, elicit, owner, disposed, aborts, story>>

\* The head of the loop: finished when aborted or out of iterations.
LoopTop(r) ==
    /\ Runnable(r, "top")
    /\ IF aborted[r] \/ turn[r] = MaxIterations
       THEN Yield(r, "finish") /\ turn' = turn
       ELSE Yield(r, "model") /\ turn' = [turn EXCEPT ![r] = @ + 1]
    /\ UNCHANGED <<left, batch, aborted, chan, exec, active, elicit, owner, disposed, aborts, story>>

\* The model streams: a chunk or a retry, the message, or a failure; an
\* aborted pull is a failure.
Model(r) ==
    /\ Runnable(r, "model")
    /\ \/ ~aborted[r] /\ Yield(r, "model") /\ left' = left
       \/ \E m \in Messages : /\ ~aborted[r]
                              /\ left' = [left EXCEPT ![r] = m]
                              /\ Yield(r, IF m = <<>> THEN "finish" ELSE "calls")
       \/ Yield(r, "failed") /\ left' = left
    /\ UNCHANGED <<turn, batch, aborted, chan, exec, active, elicit, owner, disposed, aborts, story>>

\* streamToolApproval of the next call: decided at once, or asked for.
NextCall(r) ==
    /\ Runnable(r, "calls")
    /\ IF left[r] = <<>> THEN at' = [at EXCEPT ![r] = "top"] /\ UNCHANGED <<paused, left>>
       ELSE \/ Yield(r, "run") /\ left' = left
            \/ Yield(r, "approval") /\ left' = left
            \/ Yield(r, "calls") /\ left' = [left EXCEPT ![r] = Tail(@)]
    /\ UNCHANGED <<turn, batch, aborted, chan, exec, active, elicit, owner, disposed, aborts, story>>

Approval(r) ==
    /\ Runnable(r, "approval")
    /\ \/ Yield(r, "run") /\ left' = left
       \/ Yield(r, "calls") /\ left' = [left EXCEPT ![r] = Tail(@)]
       \/ Yield(r, "failed") /\ left' = left
    /\ UNCHANGED <<turn, batch, aborted, chan, exec, active, elicit, owner, disposed, aborts, story>>

\* An unknown tool is answered at once; any other call starts executing.  A
\* call whose signal has fired already sends nothing.
StartCall(r) ==
    /\ Runnable(r, "run")
    /\ IF Head(left[r]) = "unknown"
       THEN /\ Yield(r, "calls") /\ left' = [left EXCEPT ![r] = Tail(@)]
            /\ UNCHANGED <<chan, exec, active, story>>
       ELSE /\ at' = [at EXCEPT ![r] = "drain"] /\ UNCHANGED <<paused, left>>
            /\ exec' = [exec EXCEPT ![r] = [at |-> "running", call |-> @.call + 1,
                                            cut |-> aborted[r], sent |-> ~aborted[r],
                                            awaits |-> {}]]
            /\ active' = [active EXCEPT ![r] = Head(left[r]) = "context"]
            /\ chan' = [chan EXCEPT ![r] = Pushed(@, Start)]
            /\ story' = [story EXCEPT ![r] = <<Start>>]
    /\ UNCHANGED <<turn, batch, aborted, elicit, owner, disposed, aborts>>

\* The drain loop of a call takes what came, and leaves when there is nothing
\* and the call has settled.
TakeWhile(r, going) ==
    /\ Runnable(r, "drain") /\ batch[r] = <<>> /\ ~chan[r].waits
    /\ \/ /\ going /\ chan[r].events # <<>>
          /\ batch' = [batch EXCEPT ![r] = chan[r].events]
          /\ chan' = [chan EXCEPT ![r] = TakenAll(@)]
          /\ Yield(r, "drain")
          /\ UNCHANGED <<left, exec>>
       \/ /\ ~(going /\ chan[r].events # <<>>) /\ exec[r].at = "settled"
          /\ at' = [at EXCEPT ![r] = "calls"]
          /\ left' = [left EXCEPT ![r] = Tail(@)]
          /\ exec' = [exec EXCEPT ![r].at = "none"]
          /\ UNCHANGED <<paused, batch, chan>>
    /\ UNCHANGED <<turn, aborted, active, elicit, owner, disposed, aborts, story>>

\* Fault: the loop ends with the call.
TakeUntilSettled(r) == TakeWhile(r, exec[r].at # "settled")
Take(r) == TakeWhile(r, TRUE)

\* A yield of the batch has resumed; the last one acknowledges the batch, and
\* the loop waits for an event or for the call to settle.
Resume(r) ==
    /\ Runnable(r, "drain") /\ batch[r] # <<>>
    /\ batch' = [batch EXCEPT ![r] = Tail(@)]
    /\ IF Len(batch[r]) > 1
       THEN Yield(r, "drain") /\ UNCHANGED <<chan, exec>>
       ELSE LET c == Acknowledged(chan[r])
            IN  /\ chan' = [chan EXCEPT ![r] = IF exec[r].at = "settled" THEN c ELSE Waits(c)]
                /\ exec' = [exec EXCEPT ![r] = WokenBy(@, c)]
                /\ UNCHANGED <<at, paused>>
    /\ UNCHANGED <<turn, left, aborted, active, elicit, owner, disposed, aborts, story>>

-----------------------------------------------------------------------------
(* The consumer and the end of a run. *)

Pull(r) ==
    /\ paused[r] /\ paused' = [paused EXCEPT ![r] = FALSE]
    /\ UNCHANGED <<at, turn, left, batch, aborted, chan, exec, active, elicit, owner, disposed,
                   aborts, story>>

\* The finally block of stream().
Leave(r, wakes) ==
    /\ at' = [at EXCEPT ![r] = "done"] /\ paused' = [paused EXCEPT ![r] = FALSE]
    /\ batch' = [batch EXCEPT ![r] = <<>>] /\ left' = [left EXCEPT ![r] = <<>>]
    /\ aborted' = [aborted EXCEPT ![r] = TRUE]
    /\ chan' = [chan EXCEPT ![r] = ClosedChannel(@)]
    /\ exec' = [exec EXCEPT ![r] = IF wakes THEN WokenBy(Cut(@), ClosedChannel(chan[r])) ELSE Cut(@)]
    /\ UNCHANGED <<turn, active, elicit, owner, disposed, aborts, story>>
\* Fault: the closed channel wakes the generator alone.
FinallyAsleep(r) == Leave(r, FALSE)
Finally(r) == Leave(r, TRUE)
Abandon(r) == paused[r] /\ Finally(r)
Return(r)  == (Runnable(r, "finish") \/ Runnable(r, "failed")) /\ Finally(r)

\* Caller abort or run timeout; tool timeout or cancelToolCall.
AbortRun(r) ==
    /\ r \in ActiveRuns /\ ~aborted[r] /\ aborts < MaxAborts
    /\ aborts' = aborts + 1
    /\ aborted' = [aborted EXCEPT ![r] = TRUE]
    /\ exec' = [exec EXCEPT ![r] = Cut(@)]
    /\ UNCHANGED <<loopVars, chan, active, elicit, owner, disposed, story>>
AbortCall(r) ==
    /\ InFlight(exec[r]) /\ ~exec[r].cut /\ aborts < MaxAborts
    /\ aborts' = aborts + 1
    /\ exec' = [exec EXCEPT ![r] = Cut(@)]
    /\ UNCHANGED <<loopVars, aborted, chan, active, elicit, owner, disposed, story>>

\* The elicitation override is given up with the last call of a disposed agent.
ReleasedIf(ended, calls) == IF ended /\ calls = {} /\ owner = "agent" THEN "base" ELSE owner
Flying == {r \in Runs : InFlight(exec[r])}
DisposeWith(calls) ==
    /\ ~disposed /\ disposed' = TRUE
    /\ aborted' = [r \in Runs |-> aborted[r] \/ r \in ActiveRuns]
    /\ exec' = [r \in Runs |-> IF r \in ActiveRuns THEN Cut(exec[r]) ELSE exec[r]]
    /\ owner' = ReleasedIf(TRUE, calls)
    /\ UNCHANGED <<loopVars, chan, active, elicit, aborts, story>>
Dispose == DisposeWith(Flying)

\* Another agent installs itself on the host.
NextOwner ==
    /\ owner = "base" /\ owner' = "next"
    /\ UNCHANGED <<loopVars, aborted, chan, exec, active, elicit, disposed, aborts, story>>

-----------------------------------------------------------------------------
(* A tool call executes. *)

\* session.executeToolCall settles, one way or the other.
ToolSettles(r) ==
    /\ exec[r].at = "running" /\ exec' = [exec EXCEPT ![r].at = "settling"]
    /\ UNCHANGED <<loopVars, aborted, chan, active, elicit, owner, disposed, aborts, story>>

\* settleToolEvents: abort what is open and wait for those.
AbortOpen(r) ==
    /\ exec[r].at = "settling"
    /\ elicit' = [e \in Elicits |-> IF e \in OpenOf(r) THEN [elicit[e] EXCEPT !.cut = TRUE]
                                    ELSE elicit[e]]
    /\ exec' = [exec EXCEPT ![r].at = "awaiting", ![r].awaits = OpenOf(r)]
    /\ UNCHANGED <<loopVars, aborted, chan, active, owner, disposed, aborts, story>>

\* They have settled: wait until the consumer has what was pushed.
AwaitDrain(r) ==
    /\ exec[r].at = "awaiting" /\ exec[r].awaits \cap OpenOf(r) = {}
    /\ exec' = [exec EXCEPT ![r].at = IF Drained(chan[r]) THEN "checking" ELSE "draining"]
    /\ UNCHANGED <<loopVars, aborted, chan, active, elicit, owner, disposed, aborts, story>>

\* Once more when something came meanwhile; else the terminal event.
Publish(r, ready) ==
    /\ exec[r].at = "checking"
    /\ IF ~ready THEN /\ exec' = [exec EXCEPT ![r].at = "settling"]
                      /\ UNCHANGED <<chan, active, story>>
       ELSE /\ active' = [active EXCEPT ![r] = FALSE]
            /\ chan' = [chan EXCEPT ![r] = Pushed(@, End)]
            /\ story' = [story EXCEPT ![r] = Append(@, End)]
            /\ exec' = [exec EXCEPT ![r].at = "closing"]
    /\ UNCHANGED <<loopVars, aborted, elicit, owner, disposed, aborts>>
\* Fault: no second look at the settlements.
PublishHasty(r) == Publish(r, Drained(chan[r]))
PublishTerminal(r) == Publish(r, Drained(chan[r]) /\ OpenOf(r) = {})

\* The execution resolves: the generator is woken, the override may go.
Settled(r, wakes, releases) ==
    /\ exec[r].at = "closing"
    /\ exec' = [exec EXCEPT ![r].at = IF at[r] = "done" THEN "none" ELSE "settled"]
    /\ chan' = IF wakes THEN [chan EXCEPT ![r].waits = FALSE] ELSE chan
    /\ owner' = IF releases THEN ReleasedIf(disposed, Flying \ {r}) ELSE owner
    /\ UNCHANGED <<loopVars, aborted, active, elicit, disposed, aborts, story>>
\* Faults: the generator waits for events alone; only disposal looks whether
\* the override may go.
SettledUnheard(r) == Settled(r, FALSE, TRUE)
SettledHolding(r) == Settled(r, TRUE, FALSE)
ExecutionSettled(r) == Settled(r, TRUE, TRUE)

-----------------------------------------------------------------------------
(* Elicitations. *)

Told(e, r, events) ==
    IF r = Nobody THEN UNCHANGED <<chan, story>>
    ELSE /\ chan' = [chan EXCEPT ![r] = PushedAll(@, events)]
         /\ story' = [story EXCEPT ![r] = @ \o events]

\* A request arrives; it belongs to the call of the only active run when that
\* is a call to its context, and is refused when its signal has fired.
Ask(e, matches) ==
    /\ elicit[e].is = "none" /\ owner = "agent"
    /\ LET r == IF matches /\ Cardinality(ActiveRuns) = 1
                   /\ \A x \in ActiveRuns : active[x]
                THEN CHOOSE x \in ActiveRuns : TRUE ELSE Nobody
           dead == disposed \/ (r # Nobody /\ exec[r].cut)
       IN  /\ elicit' = [elicit EXCEPT ![e] =
                [is |-> IF dead THEN "ended" ELSE "open", run |-> r, cut |-> FALSE,
                 call |-> IF r = Nobody THEN 0 ELSE exec[r].call]]
           /\ Told(e, r, IF dead THEN <<Event("ask", e), Event("answer", e)>>
                         ELSE <<Event("ask", e)>>)
    /\ UNCHANGED <<loopVars, aborted, exec, active, owner, disposed, aborts>>

\* Its callback answers or fails, or its signal fires.
Answer(e) ==
    /\ elicit[e].is = "open"
    /\ elicit' = [elicit EXCEPT ![e].is = "ended"]
    /\ Told(e, elicit[e].run, <<Event("answer", e)>>)
    /\ UNCHANGED <<loopVars, aborted, exec, active, owner, disposed, aborts>>
AnswerSignalled(e) == Signalled(e) /\ Answer(e)

-----------------------------------------------------------------------------
Step(r) == \/ LoopTop(r) \/ NextCall(r) \/ StartCall(r) \/ Take(r) \/ Resume(r) \/ Return(r)
Settling(r) == AbortOpen(r) \/ AwaitDrain(r) \/ PublishTerminal(r) \/ ExecutionSettled(r)
Next ==
    \/ \E r \in Runs : \/ Stream(r) \/ Step(r) \/ Model(r) \/ Approval(r) \/ Pull(r) \/ Abandon(r)
                       \/ AbortRun(r) \/ AbortCall(r) \/ ToolSettles(r) \/ Settling(r)
    \/ \E e \in Elicits : Answer(e) \/ \E matches \in BOOLEAN : Ask(e, matches)
    \/ Dispose \/ NextOwner

Spec == AgentInit /\ [][Next]_vars

\* The event loop, a consumer that pulls or leaves, tools that end.  The model,
\* the approval and the answer of a user are owed nothing unless aborted.
Fairness ==
    /\ \A r \in Runs : /\ WF_vars(Step(r)) /\ WF_vars(Pull(r)) /\ WF_vars(Settling(r))
                       /\ WF_vars(ToolSettles(r))
                       /\ WF_vars(aborted[r] /\ (Model(r) \/ Approval(r)))
    /\ \A e \in Elicits : WF_vars(AnswerSignalled(e))
FairSpec == Spec /\ Fairness

-----------------------------------------------------------------------------
(* Properties. *)

\* README of the package: the stream yields a request and its terminal event in
\* order, between tool-call-start and the terminal event of the tool.  No
\* elicitation of a call outlives it.
StoryIsOrdered ==
    \A r \in Runs :
        LET s == story[r]  n == Len(s)
        IN  n > 0 =>
            /\ s[1] = Start
            /\ \A i \in 2..n : s[i] = End => i = n
            /\ \A i \in 2..n : s[i].kind = "answer" =>
                  \E j \in 2..(i - 1) : s[j] = Event("ask", s[i].e)
            /\ s[n] = End => \A j \in 2..n : s[j].kind = "ask" =>
                  \E i \in (j + 1)..n : s[i] = Event("answer", s[j].e)

\* The generator leaves a call only when its consumer has had every event of
\* it: none is yielded with the next call, none is lost.
\* About the drain loop of stream() against the settlement barrier.
NothingLeftBehind ==
    \A r \in ActiveRuns : at[r] # "drain" =>
        chan[r].events = <<>> /\ chan[r].taken = 0 /\ batch[r] = <<>> /\ ~InFlight(exec[r])

\* A call whose tool has settled gets out of the barrier, whether its consumer
\* pulls or has left: neither waits for the other for ever.
BarrierOpens == \A r \in Runs : exec[r].at = "settling" ~> ~InFlight(exec[r])

\* An aborted run ends although the model and the approval never answer.
AbortEndsRun == \A r \in Runs : aborted[r] ~> at[r] = "done"

\* A disposed agent gives the override up.
DisposeReleases == disposed ~> owner # "agent"
=============================================================================
