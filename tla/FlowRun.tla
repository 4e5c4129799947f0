------------------------------- MODULE FlowRun -------------------------------
(***************************************************************************)
(* One run of a decision flow in the flow host: its durable record, the    *)
(* task that carries it out, the watcher that polls the task, the inbox    *)
(* its requests for approval and input appear in, cancellation, and the    *)
(* recovery of it all when the process restarts.                           *)
(*                                                                         *)
(* The host keeps one queue per run, so whatever a queued job does is one  *)
(* step; calls to the task's server stay outside the queue and others run  *)
(* between their effect and what the host does with the answer.  Runs      *)
(* share nothing, so one run is the system.  The server of the task is     *)
(* modelled by what it tells its client (TaskManager models its inside).   *)
(***************************************************************************)
EXTENDS Integers, FiniteSets

CONSTANTS Keys,         \* input requests the task may make
          Kind,         \* of each: a form, a URL, or another method
          Approval,     \* the inbox item that asks for approval
          HasTTL,       \* whether tasks expire
          MaxAsked,     \* input requests a task makes
          MaxTroubles   \* calls that fail in transport or in the store, and times
                        \* the process dies or is stopped

ASSUME FlowAssumption ==
    /\ Kind \in [Keys -> {"form", "url", "other"}]
    /\ Approval \notin Keys
    /\ HasTTL \in BOOLEAN
    /\ MaxAsked \in Nat /\ MaxTroubles \in Nat

VARIABLES
    run,        \* the record in the run store
    task,       \* the task in the task store, and what happened to its keys
    host,       \* down, recovering, up, or stopping
    recovery,   \* the phase of recoverRuns for this run
    items,      \* inbox entries; the outcome stays here once the entry is pruned
    latest,     \* latestInputKeys
    applied,    \* lastApplied, 0 when unset
    urls,       \* cancelledURLs
    launcher,   \* where the launch of the run stands
    poll,       \* whoever reads the task: the watcher and the calls of cancelTask
    ready,      \* for recovery: whether the watcher's first read is applied, or failed
    reply,      \* the response under way for each key
    history     \* tasks launched, whether anybody asked to cancel, faults, and whether
                \* one of them ended a watcher

volatile == <<recovery, items, latest, applied, urls, launcher, poll, ready, reply>>
vars == <<run, task, host, volatile, history>>

\* What the host keeps per run, and what the calls under way are.
kept   == <<items, latest, applied, urls>>
calls  == <<launcher, poll, ready, reply>>
others == <<task, host, recovery, ready, reply, history>>

Active       == {"working", "input_required"}
TaskTerminal == {"completed", "failed", "cancelled"}
RunTerminal  == TaskTerminal \cup {"denied"}

Cancellers == {"user", "launch", "recovery"}
Pollers    == Cancellers \cup {"watch"}
Items      == Keys \cup {Approval}
Outcomes   == {"answered", "declined", "cancelled", "withdrawn"}

NoSnapshot == [status |-> "absent", open |-> {}, stamp |-> 0]
Idle       == [phase |-> "idle", snap |-> NoSnapshot]

Fresh ==
    /\ items = [i \in Items |-> "none"]
    /\ latest = {} /\ applied = 0 /\ urls = {}
    /\ launcher = "idle"
    /\ poll = [p \in Pollers |-> Idle]
    /\ ready = "no"
    /\ reply = [k \in Keys |-> "idle"]

Init ==
    /\ run = [state |-> "absent", linked |-> FALSE, cancelRequested |-> FALSE, error |-> "none"]
    /\ task = [status |-> "absent", open |-> {}, stamp |-> 0, gone |-> FALSE,
               closed |-> [k \in Keys |-> 0]]
    /\ host = "up"
    /\ recovery = "off"
    /\ Fresh
    /\ history = [launches |-> 0, asked |-> FALSE, faults |-> 0, restarts |-> 0,
                  unrecorded |-> FALSE]

Troubled == history.faults + history.restarts
Ended    == run.state \in RunTerminal
Ongoing  == run.state \in Active \cup {"awaiting_approval"}

-----------------------------------------------------------------------------
(* The task, as its server lets the client see it.  Every change has a later *)
(* timestamp than the one before.                                           *)

TaskIs(status, open) ==
    [task EXCEPT !.status = status, !.open = open, !.stamp = @ + 1,
                 !.closed = [k \in Keys |-> IF k \in task.open \ open THEN task.stamp + 1 ELSE @[k]]]

\* The task runs in the process of the host.
TaskLives == task.status \in Active /\ ~task.gone /\ host # "down"

\* A task asks for a key once in its life.
TaskAsks(keys) ==
    /\ TaskLives /\ task.status = "working"
    /\ keys # {} /\ \A k \in keys : task.closed[k] = 0
    /\ Cardinality(keys \cup {k \in Keys : task.closed[k] # 0}) <= MaxAsked
    /\ task' = TaskIs("input_required", keys)
    /\ UNCHANGED <<run, host, volatile, history>>

TaskWithdraws ==
    /\ TaskLives /\ task.status = "input_required"
    /\ task' = TaskIs("working", {})
    /\ UNCHANGED <<run, host, volatile, history>>

\* "failed" stands also for a result that is an error: the run fails with either.
TaskEnds(status) ==
    /\ TaskLives
    /\ task' = TaskIs(status, {})
    /\ UNCHANGED <<run, host, volatile, history>>

TaskExpires ==
    /\ HasTTL /\ task.status # "absent" /\ ~task.gone
    /\ task' = [task EXCEPT !.gone = TRUE]
    /\ UNCHANGED <<run, host, volatile, history>>

\* tasks.update for one key, when the task awaits it.
Responded(k) ==
    TaskIs(IF task.open = {k} THEN "working" ELSE "input_required", task.open \ {k})

\* tasks.cancel: an ended task is left alone.
Cancelled == IF task.status \in Active THEN TaskIs("cancelled", {}) ELSE task

Snapshot == [status |-> task.status, open |-> task.open, stamp |-> task.stamp]

-----------------------------------------------------------------------------
(* The inbox. *)

\* settle() of one entry: only an entry that is not settled yet.
Settled(entries, i, outcome) ==
    [entries EXCEPT ![i] = IF @ \in {"open", "settling"} THEN outcome ELSE @]

\* prune(): what is left is withdrawn.
Pruned(entries) ==
    [i \in Items |-> IF entries[i] \in {"open", "settling"} THEN "withdrawn" ELSE entries[i]]

\* Fault: whatever the snapshot asks for is offered, settled or not.
ReconciledAfresh(snap) ==
    [i \in Items |->
        CASE items[i] = "open" /\ i \in Keys \ snap.open -> "withdrawn"
          [] items[i] # "settling" /\ i \in snap.open /\ Kind[i] = "form" -> "open"
          [] OTHER -> items[i]]

\* reconcile(): requests the task no longer makes are withdrawn, new ones added.
Reconciled(snap) ==
    [i \in Items |->
        CASE items[i] = "open" /\ i \in Keys \ snap.open -> "withdrawn"
          [] items[i] = "none" /\ i \in snap.open /\ Kind[i] = "form" -> "open"
          [] OTHER -> items[i]]

-----------------------------------------------------------------------------
(* Queued jobs. *)

\* change(), and the end of every other job: the record is stored, and a run that has
\* ended drops what the host keeps for it.
Commit(record, entries) ==
    /\ run' = record
    /\ IF record.state \in RunTerminal
       THEN /\ items' = Pruned(entries)
            /\ latest' = {} /\ applied' = 0 /\ urls' = {}
       ELSE /\ items' = entries
            /\ UNCHANGED <<latest, applied, urls>>

\* transition(): a record that has ended is never changed.
Into(state, error) ==
    IF Ended THEN run ELSE [run EXCEPT !.state = state, !.error = error]

\* A launch that fails ends the run, as cancelled if somebody asked for that meanwhile.
FailedLaunch ==
    IF run.cancelRequested THEN Into("cancelled", "none") ELSE Into("failed", "other")

Unsupported(snap) == \E k \in snap.open : Kind[k] = "other"

Accepted(snap) == ~Ended /\ snap.stamp >= applied

\* mapTaskSnapshot, and the refusal of requests that have no place in the inbox.
Mapped(snap) ==
    IF Unsupported(snap) THEN Into("failed", "UnsupportedInput")
    ELSE Into(snap.status, IF snap.status = "failed" THEN "other" ELSE "none")

\* The job of apply(): a snapshot older than the last one applied changes nothing.
ApplySnapshot(snap) ==
    IF ~Accepted(snap) THEN Commit(run, items)
    ELSE LET record == Mapped(snap)
         IN  IF record.state \in RunTerminal
             THEN Commit(record, items)
             ELSE /\ run' = record
                  /\ items' = Reconciled(snap)
                  /\ latest' = snap.open
                  /\ applied' = snap.stamp
                  /\ UNCHANGED urls

-----------------------------------------------------------------------------
(* Starting, approving, rejecting. *)

Watch == poll' = [poll EXCEPT !["watch"].phase = IF @ = "idle" THEN "reading" ELSE @]

\* start(): the record is created; a plan on the allow list is launched without asking.
Start(allowed) ==
    /\ host = "up" /\ run.state = "absent"
    /\ run' = [run EXCEPT !.state = "awaiting_approval"]
    /\ IF allowed THEN launcher' = "claiming" /\ UNCHANGED items
       ELSE items' = [items EXCEPT ![Approval] = "open"] /\ UNCHANGED launcher
    /\ UNCHANGED <<others, latest, applied, urls, poll>>

\* launchAllowed(): only a run that has ended is not launched.
ClaimAllowed ==
    /\ launcher = "claiming"
    /\ run' = IF run.state = "awaiting_approval" THEN Into("working", "none") ELSE run
    /\ launcher' = IF Ended THEN "idle" ELSE "authorizing"
    /\ UNCHANGED <<others, kept, poll>>

\* inbox.answer of the approval: claim() with its id, then the launch.
Approve ==
    /\ host = "up" /\ items[Approval] = "open"
    /\ run.state = "awaiting_approval"
    /\ run' = Into("working", "none")
    /\ items' = Settled(items, Approval, "answered")
    /\ launcher' = "authorizing"
    /\ UNCHANGED <<others, latest, applied, urls, poll>>

\* inbox.decline and inbox.cancel of the approval.
RejectApproval(outcome) ==
    /\ host = "up" /\ items[Approval] = "open" /\ ~Ended
    /\ Commit(IF outcome = "declined" THEN Into("denied", "other") ELSE Into("cancelled", "none"),
              Settled(items, Approval, outcome))
    /\ history' = [history EXCEPT !.asked = @ \/ outcome = "cancelled"]
    /\ UNCHANGED <<task, host, recovery, calls>>

\* host.cancel(): before the launch the run is cancelled at once, before there is a task
\* the wish is noted, after that the task is cancelled.
CancelRun ==
    /\ host = "up" /\ Ongoing /\ poll["user"].phase = "idle"
    /\ history' = [history EXCEPT !.asked = TRUE]
    /\ \/ /\ run.state = "awaiting_approval"
          /\ Commit(Into("cancelled", "none"), Settled(items, Approval, "cancelled"))
          /\ UNCHANGED poll
       \/ /\ run.state # "awaiting_approval" /\ ~run.linked
          /\ Commit([run EXCEPT !.cancelRequested = TRUE], items)
          /\ UNCHANGED poll
       \/ /\ run.linked
          /\ poll' = [poll EXCEPT !["user"].phase = "cancelling"]
          /\ UNCHANGED <<run, kept>>
    /\ UNCHANGED <<task, host, recovery, launcher, ready, reply>>

-----------------------------------------------------------------------------
(* createLauncher. *)

Fail == Troubled < MaxTroubles /\ history' = [history EXCEPT !.faults = @ + 1]

\* The plan is authorized again, and may have changed since it was approved.
Authorize ==
    /\ launcher = "authorizing"
    /\ launcher' = "calling"
    /\ UNCHANGED <<run, others, kept, poll>>

FlowChanged ==
    /\ launcher = "authorizing"
    /\ Commit(FailedLaunch, items)
    /\ launcher' = "idle"
    /\ UNCHANGED <<others, poll>>

\* callTool: the server creates the task, marked with the run's id.
CreateTask ==
    /\ launcher = "calling"
    /\ task' = [TaskIs("working", {}) EXCEPT !.gone = FALSE]
    /\ history' = [history EXCEPT !.launches = @ + 1]
    /\ launcher' = "linking"
    /\ UNCHANGED <<run, host, recovery, kept, poll, ready, reply>>

\* The task is created and the answer gets lost: nothing is left to cancel it by.
CallLost ==
    /\ launcher = "calling"
    /\ Troubled < MaxTroubles
    /\ task' = [TaskIs("working", {}) EXCEPT !.gone = FALSE]
    /\ history' = [history EXCEPT !.launches = @ + 1, !.faults = @ + 1]
    /\ launcher' = "failing"
    /\ UNCHANGED <<run, host, recovery, kept, poll, ready, reply>>

\* callTool fails, or answers without a task.
CallFails ==
    /\ launcher = "calling"
    /\ Commit(FailedLaunch, items)
    /\ launcher' = "idle"
    /\ UNCHANGED <<others, poll>>

\* Fault: a cancellation noted while the task was being created is forgotten.
LinkOnly ==
    /\ launcher = "linking"
    /\ Commit(IF Ended THEN run ELSE [run EXCEPT !.linked = TRUE], items)
    /\ launcher' = "idle"
    /\ Watch
    /\ UNCHANGED others

\* The record learns its task, which is watched from here on; a cancellation noted
\* meanwhile now has something to cancel.
Link ==
    /\ launcher = "linking"
    /\ Commit(IF Ended THEN run ELSE [run EXCEPT !.linked = TRUE], items)
    /\ launcher' = "idle"
    /\ poll' = [poll EXCEPT
                  !["watch"].phase = IF @ = "idle" THEN "reading" ELSE @,
                  !["launch"].phase = IF run.cancelRequested THEN "cancelling" ELSE @]
    /\ UNCHANGED others

LinkFails ==
    /\ launcher = "linking"
    /\ Fail
    /\ launcher' = "unlinking"
    /\ UNCHANGED <<run, task, host, recovery, kept, poll, ready, reply>>

\* The task without a run is cancelled; that this fails is ignored.
CancelUnlinked ==
    /\ launcher = "unlinking"
    /\ \/ ~task.gone /\ task' = Cancelled /\ UNCHANGED history
       \/ task.gone /\ UNCHANGED <<task, history>>
       \/ Fail /\ UNCHANGED task
    /\ launcher' = "failing"
    /\ UNCHANGED <<run, host, recovery, kept, poll, ready, reply>>

FailLaunch ==
    /\ launcher = "failing"
    /\ Commit(FailedLaunch, items)
    /\ launcher' = "idle"
    /\ UNCHANGED <<others, poll>>

-----------------------------------------------------------------------------
(* The watcher, and cancelTask, which reads and applies the task as it does. *)

At(p, phase) == poll[p].phase = phase

\* A snapshot is kept while there is something left to tell the server about it.
Goes(p, phase) ==
    poll' = [poll EXCEPT ![p] = [phase |-> phase,
                                 snap  |-> IF phase \in {"abandoning", "declining"}
                                           THEN poll[p].snap ELSE NoSnapshot]]

\* The watcher's first read settles what recovery waits for.
Readied(p, how) ==
    ready' = IF p = "watch" /\ recovery # "off" /\ ready = "no" THEN how ELSE ready

\* After a snapshot the watcher sleeps until the run has ended; cancelTask looks again.
Rest(p, ended) ==
    IF p # "watch" THEN "checking" ELSE IF ended THEN "idle" ELSE "sleeping"

\* A call to the server is under way.
Calling == {"cancelling", "reading", "abandoning", "declining"}

\* Nobody knows the task any more: its run was interrupted, or is cancelled if that was asked.
NotFound(p) ==
    /\ Commit(IF p = "watch" THEN Into("failed", "other") ELSE Into("cancelled", "none"), items)
    /\ Readied(p, "yes")
    /\ Goes(p, "idle")
    /\ UNCHANGED task

\* Fault: the watcher of a task that is gone just stops.
TaskMissingIgnored(p) ==
    /\ poll[p].phase \in Calling /\ task.gone
    /\ Goes(p, "idle")
    /\ Readied(p, "yes")
    /\ UNCHANGED <<run, task, host, recovery, kept, launcher, reply, history>>

TaskMissing(p) ==
    /\ poll[p].phase \in Calling /\ task.gone
    /\ NotFound(p)
    /\ UNCHANGED <<host, recovery, launcher, reply, history>>

\* The watcher learns that the task is gone and the run store refuses to record it: the loop
\* is rejected and over, and nobody watches the run until somebody cancels it or the process
\* starts again.
MissingUnrecorded ==
    /\ poll["watch"].phase \in Calling /\ task.gone
    /\ Troubled < MaxTroubles
    /\ history' = [history EXCEPT !.faults = @ + 1, !.unrecorded = TRUE]
    /\ Goes("watch", "idle")
    /\ Readied("watch", "rejected")
    /\ UNCHANGED <<run, task, host, recovery, kept, launcher, reply>>

CancelTask(p) ==
    /\ At(p, "cancelling") /\ ~task.gone
    /\ task' = Cancelled
    /\ Goes(p, "reading")
    /\ UNCHANGED <<run, host, recovery, kept, launcher, ready, reply, history>>

ReadTask(p) ==
    /\ At(p, "reading") /\ ~task.gone
    /\ poll' = [poll EXCEPT ![p] = [phase |-> "applying", snap |-> Snapshot]]
    /\ UNCHANGED <<run, others, kept, launcher>>

URLs(snap) == {k \in snap.open : Kind[k] = "url"}

\* cancelUnsupported: decided again at every poll, so a cancellation that fails is retried.
MustAbandon(record, snap) == record.error = "UnsupportedInput" /\ snap.status \in Active

\* apply(): one job, then what is left to tell the server.
Apply(p) ==
    /\ At(p, "applying")
    /\ LET snap == poll[p].snap
       IN  /\ ApplySnapshot(snap)
           /\ Goes(p, CASE MustAbandon(run', snap) -> "abandoning"
                        [] Accepted(snap) /\ run'.state \notin RunTerminal
                                          /\ URLs(snap) \ urls # {} -> "declining"
                        [] OTHER -> Rest(p, run'.state \in RunTerminal))
    /\ Readied(p, "yes")
    /\ UNCHANGED <<task, host, recovery, launcher, reply, history>>

Abandon(p) ==
    /\ At(p, "abandoning") /\ ~task.gone
    /\ task' = Cancelled
    /\ Goes(p, Rest(p, TRUE))
    /\ UNCHANGED <<run, host, recovery, kept, launcher, ready, reply, history>>

\* The call, or the run store, rejects: the watcher tries again later, and a watcher that
\* never read fails whoever waits for it; cancelTask gives up, which fails a run under recovery.
StepFails(p) ==
    /\ IF p = "recovery" \/ (p = "launch" /\ recovery = "launching")
       THEN Commit(Into("failed", "other"), items)
       ELSE UNCHANGED <<run, kept>>
    /\ Goes(p, IF p = "watch" THEN "sleeping" ELSE "idle")
    /\ IF At(p, "reading") THEN Readied(p, "rejected") ELSE UNCHANGED ready

\* cancelURLs: a URL has no place in the inbox and is declined; a URL the task has
\* withdrawn since is an error of the server's.
DeclineURL(p, k) ==
    /\ At(p, "declining") /\ ~task.gone /\ k \in URLs(poll[p].snap) \ urls
    /\ \/ /\ k \in task.open
          /\ task' = Responded(k)
          /\ urls' = IF Ended THEN urls ELSE urls \cup {k}
          /\ Goes(p, IF URLs(poll[p].snap) \ (urls \cup {k}) = {} THEN Rest(p, FALSE)
                     ELSE "declining")
          /\ UNCHANGED <<run, items, latest, applied, ready>>
       \/ /\ k \notin task.open
          /\ StepFails(p)
          /\ UNCHANGED task
    /\ UNCHANGED <<host, recovery, launcher, reply, history>>

PollFails(p) ==
    /\ poll[p].phase \in Calling \cup {"applying"}
    /\ p = "watch" /\ task.gone => At(p, "applying")
    /\ Fail
    /\ StepFails(p)
    /\ UNCHANGED <<task, host, recovery, launcher, reply>>

\* cancelTask has applied what it read: a run that goes on is watched.
Check(p) ==
    /\ At(p, "checking")
    /\ poll' = [poll EXCEPT ![p].phase = "idle",
                            !["watch"].phase = IF @ = "idle" /\ ~Ended THEN "reading" ELSE @]
    /\ UNCHANGED <<run, others, kept, launcher>>

Wake ==
    /\ At("watch", "sleeping")
    /\ Goes("watch", "reading")
    /\ UNCHANGED <<run, others, kept, launcher>>

-----------------------------------------------------------------------------
(* Answers to input requests; "answered" stands for accept, decline and cancel alike. *)

\* respond(): a job claims the entry, so that one answer at a time is on its way.
Answer(k) ==
    /\ host = "up" /\ items[k] = "open"
    /\ items' = [items EXCEPT ![k] = "settling"]
    /\ reply' = [reply EXCEPT ![k] = "sending"]
    /\ UNCHANGED <<run, task, host, recovery, latest, applied, urls, launcher, poll, ready, history>>

Awaited(k) == ~task.gone /\ k \in task.open

Deliver(k) ==
    /\ reply[k] = "sending" /\ Awaited(k)
    /\ task' = Responded(k)
    /\ reply' = [reply EXCEPT ![k] = "accepted"]
    /\ UNCHANGED <<run, host, recovery, kept, launcher, poll, ready, history>>

Refuse(k) ==
    /\ reply[k] = "sending" /\ ~Awaited(k)
    /\ reply' = [reply EXCEPT ![k] = "rejected"]
    /\ UNCHANGED <<run, task, host, recovery, kept, launcher, poll, ready, history>>

\* The call fails in transport, on the way there or on the way back.
LoseReply(k) ==
    /\ reply[k] = "sending" /\ Fail
    /\ reply' = [reply EXCEPT ![k] = "lost"]
    /\ \/ Awaited(k) /\ task' = Responded(k)
       \/ UNCHANGED task
    /\ UNCHANGED <<run, host, recovery, kept, launcher, poll, ready>>

\* What becomes of an entry whose answer failed in transport.
Reopened(k) == IF Ended \/ k \notin latest THEN "withdrawn" ELSE "open"

\* The last job of respond().
Conclude(k) ==
    /\ reply[k] \in {"accepted", "rejected", "lost"}
    /\ reply' = [reply EXCEPT ![k] = "idle"]
    /\ items' = IF items[k] # "settling" THEN items
                ELSE [items EXCEPT ![k] = CASE reply[k] = "accepted" -> "answered"
                                            [] reply[k] = "rejected" -> "withdrawn"
                                            [] OTHER -> Reopened(k)]
    /\ UNCHANGED <<run, task, host, recovery, latest, applied, urls, launcher, poll, ready, history>>

-----------------------------------------------------------------------------
(* The process ends and starts again. *)

GoesDown ==
    /\ host' = "down" /\ recovery' = "off"
    /\ items' = [i \in Items |-> "none"]
    /\ latest' = {} /\ applied' = 0 /\ urls' = {}
    /\ launcher' = "idle" /\ ready' = "no"
    /\ poll' = [p \in Pollers |-> Idle]
    /\ reply' = [k \in Keys |-> "idle"]
    /\ UNCHANGED <<run, task>>

Interrupts == Troubled < MaxTroubles
              /\ history' = [history EXCEPT !.restarts = @ + 1]

Crash ==
    /\ host # "down"
    /\ Interrupts
    /\ GoesDown

\* dispose(): nothing new is admitted.
Dispose ==
    /\ host = "up"
    /\ Interrupts
    /\ host' = "stopping"
    /\ UNCHANGED <<run, task, volatile>>

\* What was admitted is done, and the watcher has stopped after its last read.
Disposed ==
    /\ host = "stopping"
    /\ launcher = "idle"
    /\ \A k \in Keys : reply[k] = "idle"
    /\ \A p \in Cancellers : At(p, "idle")
    /\ poll["watch"].phase \in {"idle", "reading", "sleeping"}
    /\ GoesDown
    /\ UNCHANGED history

Restart ==
    /\ host = "down"
    /\ host' = "recovering" /\ recovery' = "scan"
    /\ UNCHANGED <<run, task, kept, calls, history>>

\* A run that knows its task is cancelled if that was asked, or watched.
Resume(record) ==
    IF record.cancelRequested
    THEN /\ recovery' = "cancelling"
         /\ Goes("recovery", "cancelling")
    ELSE /\ recovery' = "watching"
         /\ Watch

Recovered == host' = "up" /\ recovery' = "off" /\ ready' = "no"

\* recoverRuns up to its first await, by what the store says of the run.
Scan(allowed) ==
    /\ recovery = "scan"
    /\ \/ /\ ~Ongoing
          /\ Recovered
          /\ UNCHANGED <<items, launcher, poll>>
       \/ /\ run.state = "awaiting_approval" /\ allowed
          /\ recovery' = "launching" /\ launcher' = "claiming"
          /\ UNCHANGED <<host, items, poll, ready>>
       \/ /\ run.state = "awaiting_approval" /\ ~allowed
          /\ items' = [items EXCEPT ![Approval] = "open"]
          /\ Recovered
          /\ UNCHANGED <<launcher, poll>>
       \/ /\ run.state \in Active /\ ~run.linked
          /\ recovery' = "finding"
          /\ UNCHANGED <<host, items, launcher, poll, ready>>
       \/ /\ run.state \in Active /\ run.linked
          /\ Resume(run)
          /\ UNCHANGED <<host, items, launcher, ready>>
    /\ UNCHANGED <<run, task, latest, applied, urls, reply, history>>

Found == task.status # "absent" /\ ~task.gone

\* Fault: a launch that left no task behind is made again.
FindOrRelaunch ==
    /\ recovery = "finding"
    /\ IF Found
       THEN LET record == [run EXCEPT !.linked = TRUE]
            IN  Commit(record, items) /\ Resume(record) /\ UNCHANGED <<host, launcher, ready>>
       ELSE /\ recovery' = "launching" /\ launcher' = "calling"
            /\ UNCHANGED <<host, run, kept, poll, ready>>
    /\ UNCHANGED <<task, reply, history>>

\* The process ended during the launch: the task that carries the run's id is its task, and
\* without one the run was interrupted.
Find ==
    /\ recovery = "finding"
    /\ IF Found
       THEN LET record == [run EXCEPT !.linked = TRUE]
            IN  Commit(record, items) /\ Resume(record) /\ UNCHANGED <<host, ready>>
       ELSE Commit(Into("failed", "other"), items) /\ Recovered /\ UNCHANGED poll
    /\ UNCHANGED <<task, launcher, reply, history>>

\* An approval that the new configuration allows was launched.
Launched ==
    /\ recovery = "launching" /\ launcher = "idle" /\ At("launch", "idle")
    /\ IF run.linked /\ ~Ended
       THEN recovery' = "watching" /\ Watch /\ UNCHANGED <<host, ready>>
       ELSE Recovered /\ UNCHANGED poll
    /\ UNCHANGED <<run, task, kept, launcher, reply, history>>

CancelledAgain ==
    /\ recovery = "cancelling" /\ At("recovery", "idle")
    /\ Recovered
    /\ UNCHANGED <<run, task, kept, launcher, poll, reply, history>>

\* Creation waits for the first snapshot, and fails with the first read.
FirstRead ==
    /\ recovery = "watching"
    /\ \/ ready = "yes" /\ Recovered
          /\ UNCHANGED <<run, task, kept, launcher, poll, reply>>
       \/ ready = "rejected" /\ GoesDown
    /\ UNCHANGED history

Recover == (\E allowed \in BOOLEAN : Scan(allowed))
           \/ Find \/ Launched \/ CancelledAgain \/ FirstRead

-----------------------------------------------------------------------------

TaskMoves ==
    \/ \E keys \in SUBSET Keys : TaskAsks(keys)
    \/ TaskWithdraws
    \/ \E status \in TaskTerminal : TaskEnds(status)
    \/ TaskExpires

\* What people do.
Asked ==
    \/ \E allowed \in BOOLEAN : Start(allowed)
    \/ Approve
    \/ \E outcome \in {"declined", "cancelled"} : RejectApproval(outcome)
    \/ CancelRun
    \/ \E k \in Keys : Answer(k)
    \/ Dispose

LaunchStep ==
    \/ ClaimAllowed \/ Authorize \/ FlowChanged \/ CreateTask \/ CallLost \/ CallFails
    \/ Link \/ LinkFails \/ CancelUnlinked \/ FailLaunch

PollStep(p) ==
    \/ TaskMissing(p) \/ CancelTask(p) \/ ReadTask(p) \/ Apply(p) \/ Abandon(p) \/ Check(p)
    \/ \E k \in Keys : DeclineURL(p, k)

ReplyStep(k) == Deliver(k) \/ Refuse(k) \/ Conclude(k)

Next ==
    \/ TaskMoves
    \/ Asked
    \/ LaunchStep
    \/ \E p \in Pollers : PollStep(p) \/ PollFails(p)
    \/ MissingUnrecorded
    \/ Wake
    \/ \E k \in Keys : ReplyStep(k) \/ LoseReply(k)
    \/ Crash \/ Disposed \/ Restart
    \/ Recover

Spec == Init /\ [][Next]_vars

\* The host runs, its calls are answered and its timers fire; a process that ended is
\* started again.  Nothing is assumed of people, nor of the task.
Fairness ==
    /\ WF_vars(LaunchStep)
    /\ \A p \in Pollers : WF_vars(PollStep(p))
    /\ WF_vars(Wake)
    /\ \A k \in Keys : WF_vars(ReplyStep(k))
    /\ WF_vars(Disposed) /\ WF_vars(Restart) /\ WF_vars(Recover)

FairSpec == Spec /\ Fairness

-----------------------------------------------------------------------------
(* Properties. *)

Lifecycle == INSTANCE FlowRunLifecycle WITH
    life     <- IF run.state \in Active THEN "running" ELSE run.state,
    launches <- history.launches,
    work     <- IF task.status = "absent" THEN "none"
                ELSE IF task.status \in Active THEN "active" ELSE task.status,
    asked    <- history.asked

\* Whatever the host, its clients, the task and the process do, and in whatever order, the
\* run lives as if each operation were one step: approved before it is launched, launched
\* once across restarts, ended once and for a reason.
ImplementsLifecycle == Lifecycle!LifecycleSpec

\* A form still asked for can be answered, also after an answer got lost on the way; what a
\* snapshot that was applied no longer asks for is not offered, also after a failed answer.
OffersWhatIsAsked ==
    \A k \in Keys :
        /\ items[k] = "open" /\ task.closed[k] # 0 => applied < task.closed[k]
        /\ k \in task.open /\ Kind[k] = "form" /\ applied = task.stamp /\ ~task.gone /\ ~Ended
              => items[k] \in {"open", "settling"}

\* An input that was answered, declined or withdrawn is not offered again as long as the process
\* lives: not by a snapshot that was read before the answer and is applied after it.
NothingOfferedAgain == \A k \in Keys : items[k] \in Outcomes => items'[k] # "open"

\* The inbox follows the task, however late its snapshots are applied and whatever becomes of
\* the answers.
InboxMatchesTask == []OffersWhatIsAsked /\ [][NothingOfferedAgain]_vars

\* The run ends when its task has, also when nobody knows the task any more and whatever
\* calls and writes failed before; except that a watcher to which the store refuses the end
\* of a run whose task is gone is over, so the run waits for a restart or a cancellation.
FollowsTask ==
    (run.linked /\ (task.gone \/ task.status \in TaskTerminal))
        ~> Ended \/ (history.unrecorded /\ At("watch", "idle"))

\* A cancellation that was noted in the record is carried out, across restarts, unless the
\* call that carries it out is lost: nobody repeats it while the process lives.
CancelEndsRun == run.cancelRequested ~> Ended \/ history.faults > 0

=============================================================================
