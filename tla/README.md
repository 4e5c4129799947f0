# Verification of Mokei

TLA+ models of the parts of Mokei whose correctness depends on the order in which
things happen, the TLC runs that check them, and the theorems TLAPS proves about
them. Paths are relative to the root of the repository (`src/packages/...`).

## The system

Mokei implements the Model Context Protocol (JSON-RPC between a *client*, which
acts for a model, and *servers*, which offer tools, prompts and resources) and
builds on it agent sessions and durable "flows". Everything runs on the event loop
of a process, so a step of a model is what runs between two awaits; what makes
the system hard is what may happen at each await.

| Part | State | Operations | Interacts with |
| --- | --- | --- | --- |
| `context-rpc` serving | queue, slots, held responses, writes in flight, disposal stage | read, schedule, cancel, hold, write, close, dispose | transport, handlers of client and server |
| `context-rpc` requester | pending exchanges | request, stream, timeout, abort, route, close | transport, peer's serving side |
| `context-server` tasks | one record per task in a store, controllers, waiters, hidden tasks | create, get, update, cancel, requestInput, awaitInput, checkpoint, recover, expire, dispose | tool work, task store, clients, subscription hub |
| `context-server` subscriptions | hub of entries, one writer per stream | listen, fan out, expire, end gracefully, dispose | RPC held responses, HTTP handler, producers, tasks |
| `context-server` rest | capabilities, definitions | dispatch, discovery, multi-round-trip requests | RPC |
| `context-client` subscriptions | wanted filter, generations, mutation queue | subscribe, unsubscribe, open, reconnect, dispose | RPC stream exchanges |
| `context-client` rest | negotiated protocol, caches, task waiters | setup, call, wait for a task | RPC |
| `http-server`, `http-client` | sessions, streams, resumption, tokens | POST, GET, DELETE, SSE, refresh | fetch, RPC |
| `flow-host` | run records, inbox, watchers, launches | start, approve, answer, cancel, poll, recover | task manager, run store, decision flow |
| `flow-host-node` | service status, prompt surfaces | start, run, prompt, dispose | flow host, desktop, monitor |
| `decision-flow(-server)` | flow registry, run state checkpoints, sibling tasks | run, suspend, resume, recover | task manager, tools |
| `flow-client` | event subscriptions, waits | wait for a run | flow host or daemon |
| `session` | agent loop, event channel | run a turn, approve tools | providers, host |
| `host`, `host-node`, `host-desktop`, `host-monitor`, `host-protocol` | contexts, daemon, lock files, prompts | spawn, proxy, prompt | processes |
| providers, `app-node`, `cli`, `monitor`, `mcp-servers` | adapters, traces, user interfaces | | |

Hard behaviours, by part: ids reused by a peer, slots and queue bounds, answers
against cancellation against disposal (`context-rpc`); compare-and-set loops,
terminal outcomes decided by the first writer, restarts between two writes, store
acknowledgements lost, lost wake-ups (tasks); a turn between acknowledgement and
promotion or registration, backpressure, a graceful end that must wait
(subscriptions); approval, launch, cancellation and recovery of a run whose task
lives elsewhere (flow host); a read that outlives the exchange it was made for, a
request between two stages of a close (client connection); backpressure, a gate that
holds writes back, cursors shared by bodies (HTTP); a barrier between a tool call,
the generator that runs it and a consumer that may have left (agent); keys that are
reused while work for their former owner is under way (host). `PROJECT.json` lists each at its line with the
property that watches it, under `hazards`.

## What makes each part correct

- Serving: one request in flight per id, at most one answer each, no idle slot
  beside a waiting request, nobody forgotten at the close, disposal that ends.
- Client connection: one reader of the transport at a time, every frame of the setup
  handed on in order, a setup that ends, and a close that settles whoever called before.
- Tasks: the record moves as if every operation were one step; the first end of a
  task is final; a settled input request and a stored answer never change; every
  waiter learns the truth and none waits for ever; a visible active task has work.
- Client subscriptions: the active stream carries what callers asked for, is
  replaced only by an acknowledged one, no stream leaks, drops are retried.
- Server subscriptions: acknowledgement first, order kept, bounded backlog,
  nothing after the end, a graceful end waits for the last frame.
- HTTP sessions: a body carries events in order and stays open as long as an answer is
  owed, what could be replayed is remembered, an answer reaches whoever
  resumes, an abandoned session is collected. One writable is behind all bodies of a session,
  so a body that is not read may delay the others until it is cut.
- Flow host: a run is launched once, after approval; a cancellation is not lost;
  a terminal run is final, and its task is cancelled if the host knows it and the call succeeds.
- Agent loop: the events of a tool call are a story with a start and an end, complete
  before the next begins; an abort ends a run whoever does not answer.
- Host: nothing runs outside the registry, and no call harms the context of another.

## Modules

| Module | Models | Checked by |
| --- | --- | --- |
| `RpcServing` | `context-rpc/src/rpc.ts`, `scheduler.ts`: the serving side of a connection | `MCRpcServing`: `RpcServing`, `RpcServingLive` |
| `RpcServingProofs` | theorems about `RpcServing` | TLAPS |
| `ClientConnection` | `context-client/src/client.ts` (setup), `setup-reader.ts`, `context-rpc/src/exchange.ts`, `rpc.ts` (requests, close) | `MCClientConnection`: `ClientConnection` |
| `ClientConnectionProofs` | theorems about `ClientConnection` | TLAPS |
| `TaskLifecycle` | what a task promises: one step per operation | abstract, implemented by `TaskManager` |
| `TaskManager` | `context-server/src/task-manager.ts`, `task-store.ts` | `MCTaskManager`: `TaskManager`, `TaskManagerLive` |
| `TaskManagerProofs` | theorems about `TaskManager`, and that it implements `TaskLifecycle` | TLAPS |
| `SubscriptionDriver` | `context-client/src/subscriptions.ts` | `MCSubscriptionDriver`: `SubscriptionDriver` |
| `SubscriptionHub` | `context-server/src/subscriptions.ts`, `server.ts` `#listen`, held responses of `rpc.ts` | `MCSubscriptionHub`: `SubscriptionHub` |
| `SubscriptionProofs` | theorems about `SubscriptionDriver` and `SubscriptionHub` | TLAPS |
| `HttpSession` | `http-client/src/transport.ts`, `http-server/src/handler.ts`, `session.ts`, `sse-writer.ts`, `sse-stream.ts` | `MCHttpSession`: `HttpSession`, `HttpSessionResume` |
| `HttpSessionProofs` | theorems about `HttpSession` | TLAPS |
| `FlowRunLifecycle` | what a run promises to whoever started it | abstract, implemented by `FlowRun` |
| `FlowRun` | `flow-host/src/host.ts`, `inbox.ts`, `launch.ts`, `watcher.ts`, `recovery.ts`, `transitions.ts` | `MCFlowRun`: `FlowRun` |
| `FlowRunProofs` | theorems about `FlowRun`, and that it implements `FlowRunLifecycle` | TLAPS |
| `AgentSession` | `session/src/agent-session.ts`, `agent-event-channel.ts`; `host/src/host.ts` `handleElicitation` | `MCAgentSession`: `AgentSession` |
| `AgentSessionProofs` | theorems about `AgentSession` | TLAPS |
| `ContextHost` | `host/src/host.ts`, `host-node/src/node-host.ts`, `session/src/session.ts`, `session-node/src/node-session.ts` | `MCContextHost`: `ContextHost` |
| `ContextHostProofs` | theorems about `ContextHost` | TLAPS |

Operators commented *Fault:* are changed forms of the definition that follows
them. No behaviour uses them; they show what each property would catch.

Where a run checks liveness beside safety, both are checked on the same
instance. `CHECK_DEADLOCK FALSE` is said where the system really comes to rest: a
connection, a session or a run that has ended and bounds that are used up.

### RpcServing

A request is an instance on the wire, `IdOf` its JSON-RPC id, so that a reused id
is two instances. `queued`, `running`, `detached`, `heldOpen` and `heldClaimed`
are the maps of the code; `settling` are responses in the promise turns between a
handler and `#writeResponse`; `pendingWrites` are writes in the transport.
`stage` follows `#dispose` through its awaits, `blockedOn` is the one write the
read loop awaits itself. One action per message read, refusal, start, cancellation,
settlement, write and step of disposal.

- `RpcServing`: four requests, two with the same id, one slot, a queue of two. The
  smallest instance in which a request is running, two wait and one is refused, and
  in which a reused id meets its original in each place.
- `RpcServingLive`: three requests, one slot, a queue of one, `DisposeCompletes` and
  `NoStarvation`. Fair are the handlers' promises, the writes and the
  timers of disposal. A handler or a write that never settles is the peer's or the
  tool's fault; `DisposeCompletes` holds by the deadlines, whose timers are the
  code's own.

What the model shows and no property claims: the backstop of `#dispose` takes a snapshot
of the writes, and one begun after it is cut off without any deadline having fired,
against the comment at `rpc.ts:386`.

### ClientConnection

`at` follows `#setup()`: the exchange it is in (`probe`, `discover` or `init`) and
whether its frame is being written, its answer read, the handshake confirmed, or the
connection disposed of because it failed. `pending` is `#pendingSetupRead`, the one read
that outlives an exchange that timed out, `buffer` is `#setupBuffer`, `ex` the
exchange registry together with what its callers see. The write of a setup frame is
two steps, because the server may answer before it is over here and because the
deadline starts only then. `closing` follows `dispose()`.

- `ClientConnection`: two requests, two notifications, a server that answers what it
  received in any order, with a result or an error, late or never, and may leave at any
  moment. Two notifications are enough for one to be overtaken; two requests for one to
  be under way and one to wait for the setup when the other closes. Fair are writes (the
  transports bound them), timers, queued reads and the stages of disposal.

What the model shows: a frame that arrives after the probe timed out and before the
`initialize` that follows is written resolves a read nobody waits for, and is dropped, though
the comment at `client.ts:1024` says that a timed-out probe steals nothing (`lost`
collects such frames; `SetupKeepsFrames` excepts exactly those, so it does not test that
comment). Nothing in `request()` looks at `#closed`, and the second `#close()` returns at
once: a request registered between the close, by a disposal or by the read loop that met the
end, and the disposal of the transport is settled by nobody but its timeout or signal, and has
neither unless the caller or the connection's parameters gave one. `CloseSettles` covers every other: what was registered
before, whoever closes first, and what still waits for a setup that fails or finds the
transport gone. Its mutant lets the read loop mark the connection closed and leave the
exchanges to the disposal, which then has nothing to do.

### TaskManager and TaskLifecycle

Nothing in the code relates two tasks, so one record is the system. An operation
occupies a slot of `Ops` and goes through the phases of `#mutate`: read, write
(conditional on the revision), notify; a `requestInput` then waits, having read
once more after its listener is registered. `Wanted` and `Patched` are the change
callbacks. A waiter whose read fails sleeps and reads again. `ctl` is the task's
`AbortController`; `hidden`, `recovering` and `recoverer` are restart and recovery. The store may refuse or commit without
acknowledging (`MaxFaults` together), the process may die (`MaxCrashes`), and whether
the manager was given a recover callback is decided when it restarts (`RecoverGiven`). A `create` that
commits without acknowledgement leaves a record nobody attached work to, and whose id nobody
learned, until it expires or the process restarts (`CreateAckLost`). A failed write of
`#initialise` rejects `#ready` for good: `InterruptOver` keeps the operation, so that nothing is
tried again and nothing is visible until the next restart. Not modelled is a rejected
`store.get` in `recover()`.

`TaskLifecycle` has neither reads nor revisions: tasks are created, ask, are
answered, withdraw, end, expire. `ImplementsLifecycle` maps the record onto it.

- `TaskManager`: two operations at once, a request of two keys, two calls of `recover()`,
  one restart with or without a callback, one fault, expiry. `Holds` says
  which operations a slot may hold, here any, the settlement of the work and a waiting
  `requestInput` included. Two slots are enough for any two operations to meet on one
  revision; that a call of `requestInput` waits beside two others is left to the next run.
  Operations and
  recoveries are interchangeable, so the run is reduced by symmetry; it has no
  temporal property but the refinement, which is a safety property.
- `TaskManagerLive`: three operations at once, one key, no restart, one fault. One slot holds the
  calls and the outcome of the work, one the calls of the client and a second request of the
  work, one the withdrawals: so a waiter, its withdrawal and an answer, a cancellation or the
  outcome are under way together, which is the race `WaitersSettle` is about. Fair are the
  manager's own turns and timers, the retry of a failed read among them. That the store answers
  is assumed; that it accepts is not. Its mutant drops that retry.

`SettleAttempts` is 4 in the code, 2 in the first run and 1 in the second; with one fault
there is one retry, which is enough to meet every interleaving with a retry. A touch
(an operation that changes nothing the lifecycle sees) happens only while no fault or restart has: it is there to move the
revision under somebody else.

What the model shows: a write that commits without acknowledgement skips `committed()`, so
`cancel()` never aborts the work and a waiter is not woken. `WaitersSettle` and
`CancelReachesWork` except a lost acknowledgement. A call of `requestInput` left behind by
work that is over is told by nobody once the manager is disposed, which `WaitersSettle` excepts.

### SubscriptionDriver

A generation is a slot of `Gens`, reused once its exchange is closed and the driver
has forgotten it; three are enough because the driver holds an active one and a
candidate. `queue` is `#mutationTail`, `running` the task awaiting its candidate,
`delays` the reconnects whose backoff runs. `promised` and `lost` are history.

- `SubscriptionDriver`: three calls, two resources, two drops by the peer: a drop may fall on
  the stream that a reconnect after the first drop opens. Fair are promise turns and the
  reconnect timer, nothing of the peer. `CallsSettle` adds the fairness of the
  acknowledgement timer `ContextClient` sets.

`subscriptionFilter` (`client.ts:1259`) is not part of the model: it is written on every
acknowledgement and never reset, so it outlives its stream.

### SubscriptionHub

`sub[l]` is everything about one listen: the stage of its request, the hub entry, the
deferred terminal, the writer (`queue`, `flight`, `failed`), the statuses whose
owner check is under way, and what was written. Events are numbered, so the order of
`sent` is the order they happened in. The hub is the durable one of the HTTP handler,
which completes a listen registered while it shuts down.

- `SubscriptionHub`: two listens, three events, the last a task status, a backlog of two, one
  rejected write. Two frames in flight and in the queue fill the backlog, the
  third overflows. Every write settles and promise turns run; nothing is assumed of client
  and producer.

What the model shows: a listen registered during shutdown and cancelled before its
response is held leaves `complete()`, and with it `endAllGracefully()`, waiting, against
the comment at `rpc.ts:53`; `GracefulEndSettles` excepts a client that cancels.

### HttpSession

Both ends of one session. A body (the response of a POST, or the listening GET) is a pipe
with its unread frames and who still holds an end of it; a write waits when the pipe is
full. `outbox` and `writing` are the one writable through which all messages of the
session's server pass, `gated` and `replay` the snapshot a GET writes before live events
may follow, `log` the replay log. On the client, `exchange` are the POSTs, `getLoop` the
loop that reopens the GET, `cursor` is `#lastEventID`. An event that carries nothing
moves the cursor and nothing else. The replay is written in one step, since nothing can
come between its frames; that the server of a session is disposed of before its bodies
are closed is the `closing` stage.

- `HttpSession`: a POST beside `initialize`, a notification, bodies of one unread frame, two
  cuts, so that a body is lost, resumed, and lost again while the old one is still open on
  the server, and every write may find its body full. Fair are handlers that were reached,
  bodies that are read, timers of the client, and the idle timer of a session whose client
  has gone; a connection may be cut at any moment.
- `HttpSessionResume` (violation): one request and two notifications. All bodies move one
  cursor, so a GET that resumes after a POST body was read skips events of the GET body
  that were not.

What the model shows and no property claims: once the 404 of a POST has cleared the session
id, the GET loop goes on without one; the server answers 400, and the loop, which takes
only 404 and 405 as final (`transport.ts:683`), retries for ever.

### FlowRun and FlowRunLifecycle

Runs share nothing, so one run is the system. Jobs of the run's queue are one step;
calls to the task's server are outside it, so every poller (the watcher, and the calls
of `cancelTask` by a user, a launch, a recovery) has a phase and the snapshot it read.
`run` and `task` are what the stores keep; `items`, `latest`, `applied`, `urls` are the
maps of the host, gone when the process ends. `ready` is the promise the recovery waits
for. The task's server appears as what it tells a client; `TaskManager` is its inside.
The run is one user's: one cancellation by a user is under way at a time, answers are
one at a time because `respond` claims the entry.

`FlowRunLifecycle` has neither snapshots nor restarts. A run may fail for many reasons;
it completes only when its task has, is cancelled only when that was asked or the task
was, is launched at most once and never without approval.

- `FlowRun`: the task asks once (`MaxAsked`), for a form, a URL or what the inbox cannot
  offer, and may expire; one call is lost before or after its effect, or the host
  crashes or is disposed of (`MaxTroubles` together). A form is answered, withdrawn, or
  its answer lost, while a snapshot taken before is still to be applied; `InboxMatchesTask` has
  a state part (what is asked is offered, what is known to be given up is not) and a step part
  (a settled input is not opened again while the process lives), and its mutant applies a snapshot
  without regard to what was settled since it was read. A second
  restart adds only a repetition of the recovery. Fair are launches, pollers,
  responses, recovery and restart: the host's own turns and timers and calls to a server
  in its process. Nothing is assumed of people or of the task.

The watcher's `catch` writes the end of a run whose task is gone without a `try` of its own
(`watcher.ts:49`): if the run store refuses there, the loop is over and the watcher removed, and
the run goes on until a restart or a cancellation (`MissingUnrecorded`; `FollowsTask` excepts
it). A `callTool` that fails after the server created the task leaves a task nobody knows
(`CallLost`).

What the model shows and no property claims: when a call of `cancelTask` fails in transport nobody
repeats it until the host restarts, so `CancelEndsRun` excepts it; when linking a run fails
and cancelling its task then fails too, the task stays at work;
a crash between failing a run for unsupported input and cancelling its task leaves the
task to itself, since recovery reads only runs that go on; a run whose cancellation was
noted and whose launch left no task fails in recovery rather than being cancelled. The
`lastApplied` comparison never decides anything: the only reader besides the watcher reads a
task that has ended.

### AgentSession

A run is one call of `stream()`: `at` is where its generator stands, `paused` that it waits
at a `yield` for the consumer, `chan` its event channel with the events pushed and the
batch taken and not acknowledged. A tool call executes beside its generator (`exec`), from
the request through the settlement barrier to its end, and may outlive it. Elicitations
are attributed to the call of the only active run. Waiting is modelled by who wakes
whom, so that a forgotten wake-up shows. Models, approvals and users answer at will.

- `AgentSession`: one run of one turn with up to two tool calls, two elicitations, one
  signal, and a later owner of the override. Two calls in a row are what lets an event
  slip into the next; two elicitations let one arrive while the other is settled. Fair are the
  turns of the event loop, a consumer that pulls or leaves, and tools that end. A model,
  an approval or a user owes nothing, except that an aborted wait ends.

### ContextHost

An instance is one client with its transport, and its child when it was spawned; each
belongs to one add call (`call`). `contexts` is the registry by key. A spawn and the
registration that follows it are two steps, as are the list of tools, the choice of
`enableTools`, and what is done with them; everything may be removed in between.
`server` is what each server offers at the moment, within the tools it may ever offer
(`Offers`); `change` follows one notification of a changed list through the request that
fetches it. `aborted` is the signal of an add call, `swept` the clean-up of `NodeSession` after it.
Callers do not add to a host that was disposed of.

- `ContextHost`: two add calls that share a key, two servers with a tool each, one change of a
  tool list: one call fails or is aborted while the other has taken its key, and a list is
  fetched for the one when the other has it; the tools tell whose it was. Fair are spawns, disposals
  (SIGKILL follows SIGTERM), aborted requests and the catch blocks that follow them.

What the model shows and no property claims: two refreshes of one context may be answered
out of order, and the older list stays; an add call over HTTP that is aborted while
`enableTools` decides leaves its context registered; a child whose spawn ends after the host was
disposed of is registered in it.

## What is proved

`RpcServingProofs` proves, for every set of requests, id assignment, number of slots
and queue length (`ServingAssumption`, plus finiteness of the requests), that
`RpcServing` keeps `TypeOK`, `OneInFlightPerId`, `NoIdleSlot`, `HeldRecordsAgree`,
`AnsweredOnce`, `ClosedTellsEveryone` and `CancelledAnswersNothing`. None of them is
inductive. `ServingInv` adds `NoDuplicates` (the queue is injective), `Places` (where an
instance may be at once: queued, running, detached, held, settling and pending exclude
one another as the code's maps do), `AnswerCount` (an instance that may still be answered
has not been, an answered one is nowhere else) and that a closed connection has seen
its end or is being disposed of. One lemma per action shows it is kept;
`AppendQueue`, `RemoveFromQueue` and `DrainOne` are the facts about the queue they rest
on, and `ServingInvariant` joins them. TLC checks `OneInFlightPerId`, `AnsweredOnce` and
`ClosedTellsEveryone` as well; the others are the prover's alone.

`ContextHostProofs`, for any keys, add calls, tools and changes: `NoOrphan` and
`AddedContextStays`. Neither is inductive alone. `HostInv` adds `EntriesLive` (an entry of
the registry is an instance that lives, so a registration overwrites nobody) and
`NotStarted` (an instance whose call has not begun has left no trace). `StagesAgree` ties how
far a call is to what became of its instance; from it follows that an add call that failed
leaves nothing that lives (`FailedAddsClose`), the safety part of `FailedAddLeavesNothing`.
`ToolInv` gives `OffersOwnTools`: what a setup chooses from (`snap`) and what a refresh has
fetched are lists of the server they were asked of (`ListsAreOwn`), and a refresh under way
belongs to an instance.

`ClientConnectionProofs`, for any requests and notifications: `SetupReadIsOver`. What it
rests on is where an answer came from: `SetupInv` says that the buffer holds no answer to an
exchange whose frame is still being written (`WriterUnanswered`) and nobody has answered a
handshake that has not begun (`Unasked`), so that the answer which ends the setup came from
the outstanding read and not from the buffer, and that only `initialize` is confirmed
(`ConfirmsInit`). The second theorem is `SetupKeepsFrames`. What was handed on, is buffered and
is on the wire is one sequence, `Received`, and a step of the setup only moves the borders in it
or takes one frame out; the property is stated by positions rather than by a filtered
sequence, so that one lemma each on reading on, on taking out and on sending says what becomes
of the order and the set of its notifications. `FrameInv` adds that the server numbers what
it sends and that what was lost had been sent.

`SubscriptionProofs` is about both ends of a subscription. Of the driver, for any calls,
resources, drops and number of generations:
`NoOrphanListen`, `ListenMatchesCallers`, `DropIsRetried`. `DriverInv` adds that an exchange
is open exactly as long as its generation is not given up (`OpenUnlessRetired`), that a
candidate belongs to the task under way and asks for the filter that task wants
(`CandidateOfTask`), that the filter the driver wants is the one its callers were promised
(`KeepsPromise`), and that a driver that was disposed of or has lost its stream has none
(`NotListening`, `LostWhileInUse`).

Of the hub, for any listens and events and any backlog: `EntryIsServed` and
`NothingLostSilently`. Listens share nothing but the event counter, so the invariant is one
predicate per listen (`Sound`): its type, that nothing but the acknowledgement is written
before it is registered (`Unregistered`), and the two properties. The lemmas on sequences say
what queueing and writing a frame do to the frames a stream owes.

`FlowRunProofs`, for any input requests and any number of lost calls, crashes and restarts:
`Spec => ImplementsLifecycle`, the refinement of `FlowRunLifecycle`. The simulation needs what
no single property says, `FlowInv`: there is at most one task (`OneTask`); a record knows it
only if there is one, and notes a cancellation only if somebody asked (`RecordAgrees`); a
launch under way belongs to a run that goes on and has no link yet (`LaunchAgrees`); whoever
polls does so for a linked run, and an ending in a snapshot is how the task ended, however
late it is applied (`PollAgrees`); a recovery looks for a task only while no launch is under
way (`RecoveryAgrees`); the approval is offered only before the launch (`ApprovalAgrees`). Most
actions are `Ordinary`: they leave launch and link alone and move run or task along their
lives, so `OrdinaryKeeps` and `OrdinaryRefines` are proved once and each such action is shown to
be ordinary; start, approval, rejection, launch, link and the steps of a restart have lemmas
of their own.

The same module proves `InboxMatchesTask`. Its step part, that no settled input is opened
again, follows from what a reconciliation keeps (`OfferedOnce`). The state part takes an
invariant. The argument treats whatever the host knows of the
task as a *view* of it: every snapshot on its way, the one applied last, and the task itself. A
view tells the past (`Agrees`: what it shows and the task asks for no more was given up after it
was taken), and of two views the later shows whatever the earlier did and is still asked for
(`InOrder`). With that, `Entry` says of each key when it is offered, being answered or done
with, and what the reply to an answer under way can mean. Applying a snapshot makes it the last
view, and `ViewsAgree` is what makes the entries that result true of the task as it is
by then.

`HttpSessionProofs`, for any requests, notes, cuts, high-water mark and size of the log
(`HttpAssumption`): `GetBodyInOrder`, `StreamsAreOwed` and `NothingSlipsUnrecorded`. `HttpInv` has
two halves beside the types. `ServingInv` follows what the session's server says: a request whose
POST has not arrived is unknown to it (`Unarrived`), a message is queued or being written once,
and only for a request that was answered (`SaidOnce`), the handshake is answered before
anything else and nothing is said by a closed session (`HandshakeFirst`), and an answer is
written to the body of its own request (`AnswersAtHome`), which is why closing that body closes no
other; `BodiesOwed` and `NotesKept` are the two properties from the start of the session on.
`GetInv` is the gate: what a GET body owes is what was written, then what is left of the
snapshot, then the one write that waits behind it, no snapshot is left once the gate is open,
and what is unread is the end of what was written. A GET that supersedes another
starts all three anew, so nothing of the old body can leak into it. The lemmas on
sequences say what the replay log, the Map of bodies (`Delete`) and a reader take out of a
sequence.

`TaskManagerProofs`, for any payloads, keys and values (`ManagerAssumption`,
`NoRecordAssumption`) and any number of operations at once, store errors, crashes and calls
of `recover()`: `Spec => ImplementsLifecycle`, the refinement of `TaskLifecycle`, and
`ActiveTaskHasWork` and `RecoveryIsExclusive`. The invariant has two halves. `StoreInv` is
why compare-and-set works: an operation about to write holds a patch of an earlier revision,
or the patch of the very record that is stored, with whatever allowed it still true
(`SoundOp`); and of a record, that requests share no key and only the latest may be open
(`SoundRecord`). `PatchMoves` says what each patch makes of such a record as a step of the
life cycle, `Written` that a committed write is that step and leaves every other operation
sound. `ScheduleInv` is about the work and recovery: one operation at most writes the outcome
of the work, or fails an interrupted task; a hidden task has no work and no operation but its
interruption; at most one call of `recover()` is under way, and while its callback is neither
work nor interruption exists (`WorkInv`, `RecoveryInv`). `Quietly`, `Finishes`, `Still` and
`CommitKeeps` are proved once for the steps that share an effect.

`AgentSessionProofs`, for any runs, requests, messages, iterations and aborts:
`StoryIsOrdered` and `NothingLeftBehind`. `AgentInv` is one predicate per run and one per
request: outside the drain loop of a run that goes on there is neither a call nor an event,
and when its batch is used up nothing is taken and not acknowledged (`LoopAgrees`); requests
are attributed to a call only before its terminal event (`ActiveAgrees`); an open request that
was attributed belongs to the call under way and is in its story (`ElicitAgrees`); a story
asks before it answers, and what it asked is answered or still open (`StorySound`). The
last two are why `settleToolEvents` must look once more before it publishes: without that look
an open request would survive its call. `Quietly` proves once that a step which tells nothing
keeps all this; the lemmas `StoryAsks`, `StoryAnswers` and `StoryEnds` say what one more
event does to a story.

## What is only model-checked

The liveness properties: `DisposeCompletes`, `NoStarvation`, `WaitersSettle`,
`CancelReachesWork`, `CallsSettle`, `ChangesArrive`, `GracefulEndSettles`, `FollowsTask`,
`CancelEndsRun`, `RequestAnswered`, `SessionCollected`, `BarrierOpens`, `AbortEndsRun`,
`DisposeReleases`, `FailedAddLeavesNothing`, `SetupEnds` and `CloseSettles`. They rest on fairness,
hence on `ENABLED`, which the prover does not handle. Every other property of a
passing run is a theorem. `ResumeLosesNothing` is refuted by its run.

## Plan

1. `RpcServing`, `TaskLifecycle`, `TaskManager`, `SubscriptionDriver`, `SubscriptionHub`,
   `ClientConnection`, `FlowRunLifecycle`, `FlowRun`, `AgentSession`, `HttpSession`,
   `ContextHost`: done, and checked.
2. `RpcServingProofs`, `TaskManagerProofs`, `SubscriptionProofs`, `ClientConnectionProofs`,
   `FlowRunProofs`, `HttpSessionProofs`, `AgentSessionProofs`, `ContextHostProofs`: done; every
   safety and step property that a run checks is a theorem.
3. `SubscriptionLink`: `SubscriptionDriver` and `SubscriptionHub` over a wire; what a
   client may rely on while its filter changes.
4. `TaskWaiter`, `Mrtr`, `FlowDriver`, `TokenRefresh`, `Daemon`, `TraceRecorder`.

## What is not modelled

Schemas and revision tables (`context-protocol`, `host-protocol`), rendering and
commands (`cli`, `monitor`), the adapters of model services, tracing and metrics, and the
example servers: no order of events in them decides anything the other parts rely on.
Contents of messages, owners and capabilities appear as model values or
nondeterministic answers. The streams and framers of `@sozai` are taken as what the
source uses them for: a readable in order, a writable that takes one message at a time.
Of the context server, dispatch by method, discovery and multi-round-trip requests are not
modelled; of the HTTP packages, authorization, token refresh and the stateless revision;
of the host packages, the daemon and its files, the monitor and the desktop; nor are the
flow services above the flow host, `flow-client`, `decision-flow` and
`decision-flow-server`. Those with an order of events worth checking are in the plan.
