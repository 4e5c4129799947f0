----------------------------- MODULE FlowRunProofs -----------------------------
(***************************************************************************)
(* FlowRun implements FlowRunLifecycle, for every set of input requests    *)
(* and every number of failing calls, crashes and restarts: every step of  *)
(* the host, its clients, the task and the process is a step of the run's  *)
(* life or changes nothing of it.  And the inbox shows what the task waits *)
(* for, however late a snapshot is applied.                                *)
(***************************************************************************)
EXTENDS FlowRun, TLAPS

TaskStatuses == {"absent"} \cup Active \cup TaskTerminal
RunStates    == {"absent", "awaiting_approval"} \cup Active \cup RunTerminal
Phases       == {"idle", "cancelling", "reading", "applying", "abandoning", "declining",
                 "checking", "sleeping"}

Records   == [state : RunStates, linked : BOOLEAN, cancelRequested : BOOLEAN,
              error : {"none", "other", "UnsupportedInput"}]
Tasks     == [status : TaskStatuses, open : SUBSET Keys, stamp : Nat, gone : BOOLEAN,
              closed : [Keys -> Nat]]
Snapshots == [status : TaskStatuses, open : SUBSET Keys, stamp : Nat]
Polls     == [phase : Phases, snap : Snapshots]
Histories == [launches : Nat, asked : BOOLEAN, faults : Nat, restarts : Nat,
              unrecorded : BOOLEAN]
Entries   == [Items -> {"none", "open", "settling"} \cup Outcomes]

FlowTypes ==
    /\ run \in Records /\ task \in Tasks /\ history \in Histories
    /\ poll \in [Pollers -> Polls] /\ items \in Entries
    /\ launcher \in {"idle", "claiming", "authorizing", "calling", "linking", "unlinking",
                     "failing"}
    /\ host \in {"down", "recovering", "up", "stopping"}
    /\ recovery \in {"off", "scan", "finding", "launching", "cancelling", "watching"}

\* There is at most one task, and only a task that waits for input asks.
OneTask ==
    /\ history.launches = IF task.status = "absent" THEN 0 ELSE 1
    /\ task.open # {} => task.status = "input_required"

\* A record knows its task only if there is one, there is none before the
\* approval, and a cancellation is noted only if somebody asked.
RecordAgrees ==
    /\ run.state \in {"absent", "awaiting_approval"} =>
          task.status = "absent" /\ ~run.linked /\ launcher \in {"idle", "claiming"}
    /\ run.linked => task.status # "absent"
    /\ run.cancelRequested => history.asked

\* A launch is under way for a run that has not ended and has no task yet, or
\* does not know it yet.
LaunchAgrees ==
    /\ launcher # "idle" => ~run.linked
    /\ launcher = "claiming" => run.state \in {"awaiting_approval"} \cup RunTerminal
    /\ launcher \in {"authorizing", "calling"} => run.state \in Active /\ task.status = "absent"
    /\ launcher \in {"linking", "unlinking", "failing"} =>
          run.state \in Active /\ task.status # "absent"

\* Only a task the record knows is polled, only who was asked cancels it, and
\* an ending that was read is how the task ended.
Carries == {"applying", "abandoning", "declining"}
PollAgrees ==
    \A p \in Pollers :
        /\ poll[p].phase # "idle" => run.linked /\ (p \in Cancellers => history.asked)
        /\ poll[p].phase \in Carries =>
              /\ poll[p].snap.status # "absent"
              /\ poll[p].snap.status \in TaskTerminal => task.status = poll[p].snap.status

RecoveryAgrees ==
    /\ recovery # "off" <=> host = "recovering"
    /\ host = "down" \/ recovery = "scan" => launcher = "idle" /\ items[Approval] # "open"
    /\ recovery = "finding" => run.state \in Active /\ ~run.linked /\ launcher = "idle"

ApprovalAgrees == items[Approval] = "open" => run.state = "awaiting_approval" /\ launcher = "idle"

FlowInv ==
    /\ FlowTypes /\ OneTask /\ RecordAgrees /\ LaunchAgrees /\ PollAgrees /\ RecoveryAgrees
    /\ ApprovalAgrees

-----------------------------------------------------------------------------
(* Steps of the life of a run. *)

Refines == [Lifecycle!LifecycleNext]_(Lifecycle!runVars)

\* A task that runs may end; nothing else about the run changes.
LEMMA TaskMovesRefine ==
  ASSUME FlowTypes, FlowTypes', run'.state = run.state,
         history'.launches = history.launches, history'.asked = history.asked,
         task'.status = task.status \/
            (task.status \in Active /\ task'.status \in Active \cup TaskTerminal)
  PROVE  Refines
  BY DEF Refines, Lifecycle!LifecycleNext, Lifecycle!runVars, Lifecycle!WorkEnds,
         Lifecycle!TaskEndings, FlowTypes, Records, Tasks, TaskStatuses, Active, TaskTerminal

\* A run that goes on may end; what it ends with is what its task ended with,
\* and it is cancelled only if somebody asked or the task was.
RunMoves ==
    \/ run'.state = run.state
    \/ /\ run.state \in Active /\ run'.state \in Active \cup TaskTerminal
       /\ run'.state = "completed" => task.status = "completed"
       /\ run'.state = "cancelled" => history.asked \/ task.status = "cancelled"

LEMMA RunMovesRefine ==
  ASSUME FlowTypes, FlowTypes', RunMoves, task'.status = task.status,
         history'.launches = history.launches, history'.asked = history.asked
  PROVE  Refines
<1>1. CASE run'.state = run.state
  BY <1>1 DEF Refines, Lifecycle!runVars
<1>2. CASE run.state \in Active /\ run'.state \in Active
  BY <1>2 DEF Refines, Lifecycle!runVars
<1>3. CASE run.state \in Active /\ run'.state \in TaskTerminal /\ RunMoves
  BY <1>3 DEF RunMoves, Refines, Lifecycle!LifecycleNext, Lifecycle!runVars, Lifecycle!EndRun,
              Lifecycle!TaskEndings, Active, TaskTerminal
<1> QED BY <1>1, <1>2, <1>3 DEF RunMoves

-----------------------------------------------------------------------------
(* Most steps leave the run's launch, its task and its link where they are. *)

TaskKeeps ==
    \/ task'.status = task.status
    \/ task.status \in Active /\ task'.status \in Active \cup TaskTerminal

LauncherKeeps ==
    /\ \/ launcher' \in {launcher, "idle"}
       \/ {launcher, launcher'} \subseteq {"authorizing", "calling"}
       \/ {launcher, launcher'} \subseteq {"linking", "unlinking", "failing"}
    /\ launcher' = "idle" \/ run'.state = run.state \/ run'.state \in Active
    /\ run'.state = run.state \/ run.linked \/ launcher # "idle"

PollsKeep ==
    \A p \in Pollers :
        /\ poll'[p].phase # "idle" => run.linked /\ (p \in Cancellers => history'.asked)
        /\ poll'[p].phase \in Carries =>
              \/ poll[p].phase \in Carries /\ poll'[p].snap = poll[p].snap
              \/ poll'[p].snap = Snapshot

StepTypes ==
    /\ run' \in Records /\ task' \in Tasks /\ history' \in Histories
    /\ poll' \in [Pollers -> Polls] /\ items' \in Entries

Ordinary ==
    /\ StepTypes
    /\ RunMoves /\ TaskKeeps /\ (run'.state = run.state \/ task'.status = task.status)
    /\ run'.linked = run.linked
    /\ run'.cancelRequested => run.cancelRequested \/ history'.asked
    /\ task'.open # {} => task'.status = "input_required"
    /\ history'.launches = history.launches
    /\ history'.asked \/ ~history.asked
    /\ LauncherKeeps /\ PollsKeep
    /\ recovery' = recovery
    /\ host' = host \/ (host = "up" /\ host' = "stopping")
    /\ items'[Approval] = "open" => items[Approval] = "open"

LEMMA OrdinaryKeeps ==
  ASSUME FlowInv, Ordinary
  PROVE  FlowInv'
<1>1. FlowTypes'
  BY DEF FlowInv, FlowTypes, Ordinary, StepTypes, LauncherKeeps
<1>2. OneTask'
  BY DEF FlowInv, OneTask, Ordinary, TaskKeeps, Active, TaskTerminal
<1>3. RecordAgrees'
  BY DEF FlowInv, FlowTypes, Records, RunStates, RecordAgrees, Ordinary, TaskKeeps, RunMoves, LauncherKeeps,
         Active, TaskTerminal
<1>4. LaunchAgrees'
  BY DEF FlowInv, FlowTypes, LaunchAgrees, Ordinary, TaskKeeps, RunMoves, LauncherKeeps,
         Active, TaskTerminal, RunTerminal
<1>5. PollAgrees'
  <2> SUFFICES ASSUME NEW p \in Pollers
               PROVE  /\ poll'[p].phase # "idle" => run'.linked /\ (p \in Cancellers => history'.asked)
                      /\ poll'[p].phase \in Carries =>
                            /\ poll'[p].snap.status # "absent"
                            /\ poll'[p].snap.status \in TaskTerminal =>
                                  task'.status = poll'[p].snap.status
    BY DEF PollAgrees
  <2>1. poll'[p].phase # "idle" => run'.linked /\ (p \in Cancellers => history'.asked)
    BY DEF Ordinary, PollsKeep
  <2>2. CASE poll'[p].phase \in Carries /\ poll[p].phase \in Carries /\ poll'[p].snap = poll[p].snap
    BY <2>1, <2>2 DEF FlowInv, PollAgrees, Ordinary, TaskKeeps, Active, TaskTerminal
  <2>3. CASE poll'[p].phase \in Carries /\ poll'[p].snap = Snapshot
    <3>1. run.linked
      BY <2>3 DEF Ordinary, PollsKeep, Carries
    <3>2. poll'[p].snap.status = task.status
      BY <2>3 DEF Snapshot
    <3> QED BY <2>1, <2>3, <3>1, <3>2
            DEF FlowInv, RecordAgrees, Ordinary, TaskKeeps, Active, TaskTerminal
  <2> QED BY <2>1, <2>2, <2>3 DEF Ordinary, PollsKeep
<1>6. RecoveryAgrees'
  BY DEF FlowInv, FlowTypes, RecordAgrees, RecoveryAgrees, Ordinary, LauncherKeeps
<1>7. ApprovalAgrees'
  BY DEF FlowInv, ApprovalAgrees, Ordinary, LauncherKeeps, RunMoves, Active
<1> QED BY <1>1, <1>2, <1>3, <1>4, <1>5, <1>6, <1>7 DEF FlowInv

LEMMA OrdinaryRefines ==
  ASSUME FlowInv, Ordinary, history'.asked = history.asked
  PROVE  Refines
<1>1. FlowTypes /\ FlowTypes'
  BY OrdinaryKeeps DEF FlowInv
<1>2. CASE run'.state = run.state
  BY <1>1, <1>2, TaskMovesRefine DEF Ordinary, TaskKeeps
<1>3. CASE task'.status = task.status
  BY <1>1, <1>3, RunMovesRefine DEF Ordinary
<1> QED BY <1>2, <1>3 DEF Ordinary

-----------------------------------------------------------------------------
(* What the operators the actions are built from return. *)

LEMMA TaskIsTask ==
  ASSUME FlowTypes, NEW status \in TaskStatuses, NEW open \in SUBSET Keys
  PROVE  /\ TaskIs(status, open) \in Tasks
         /\ TaskIs(status, open).status = status
         /\ TaskIs(status, open).open = open
<1> DEFINE closed == [k \in Keys |-> IF k \in task.open \ open THEN task.stamp + 1 ELSE task.closed[k]]
           after  == [task EXCEPT !.status = status, !.open = open, !.stamp = task.stamp + 1,
                                  !.closed = closed]
<1>1. task \in Tasks /\ task.stamp + 1 \in Nat
  BY DEF FlowTypes, Tasks
<1>2. closed \in [Keys -> Nat]
  BY <1>1 DEF Tasks
<1>3. TaskIs(status, open) = after
  BY DEF TaskIs
<1>4. after \in Tasks /\ after.status = status /\ after.open = open
  <2> HIDE DEF closed
  <2> QED BY <1>1, <1>2 DEF Tasks
<1> QED BY <1>3, <1>4

LEMMA CancelledTask ==
  ASSUME FlowTypes, OneTask
  PROVE  /\ Cancelled \in Tasks
         /\ Cancelled.status = IF task.status \in Active THEN "cancelled" ELSE task.status
         /\ Cancelled.open # {} => Cancelled.status = "input_required"
<1>1. "cancelled" \in TaskStatuses /\ {} \in SUBSET Keys
  BY DEF TaskStatuses, TaskTerminal
<1> QED BY <1>1, TaskIsTask DEF Cancelled, FlowTypes, OneTask, Active

LEMMA RespondedTask ==
  ASSUME FlowTypes, NEW k \in Keys, k \in task.open
  PROVE  /\ Responded(k) \in Tasks
         /\ Responded(k).status \in Active
         /\ Responded(k).open # {} => Responded(k).status = "input_required"
<1> DEFINE s == IF task.open = {k} THEN "working" ELSE "input_required"
<1>1. s \in TaskStatuses /\ s \in Active /\ task.open \ {k} \in SUBSET Keys
  BY DEF TaskStatuses, Active, FlowTypes, Tasks
<1>2. task.open \ {k} # {} => s = "input_required"
  OBVIOUS
<1> QED BY <1>1, <1>2, TaskIsTask DEF Responded

LEMMA IntoRecord ==
  ASSUME FlowTypes, NEW state \in RunStates, NEW error \in {"none", "other", "UnsupportedInput"}
  PROVE  /\ Into(state, error) \in Records
         /\ Into(state, error).state = IF Ended THEN run.state ELSE state
         /\ Into(state, error).linked = run.linked
         /\ Into(state, error).cancelRequested = run.cancelRequested
  BY DEF Into, FlowTypes, Records

LEMMA FailedLaunchRecord ==
  ASSUME FlowTypes, RecordAgrees
  PROVE  /\ FailedLaunch \in Records
         /\ FailedLaunch.linked = run.linked
         /\ FailedLaunch.cancelRequested = run.cancelRequested
         /\ Ended => FailedLaunch.state = run.state
         /\ ~Ended => FailedLaunch.state \in {"failed", "cancelled"}
         /\ ~Ended /\ FailedLaunch.state = "cancelled" => history.asked
<1>1. "cancelled" \in RunStates /\ "failed" \in RunStates
  BY DEF RunStates, RunTerminal, TaskTerminal
<1> QED BY <1>1, IntoRecord DEF FailedLaunch, RecordAgrees

LEMMA CommitStores ==
  ASSUME FlowTypes, NEW record \in Records, NEW entries \in Entries, Commit(record, entries)
  PROVE  /\ run' = record
         /\ items' \in Entries
         /\ items'[Approval] = "open" => entries[Approval] = "open" /\ record.state \notin RunTerminal
<1>1. Pruned(entries) \in Entries /\ Pruned(entries)[Approval] # "open"
  BY DEF Pruned, Entries, Items, Outcomes
<1> QED BY <1>1 DEF Commit

LEMMA GoesPolls ==
  ASSUME FlowInv, NEW p \in Pollers, NEW phase \in Phases, Goes(p, phase),
         poll[p].phase # "idle", phase # "applying",
         phase \in {"abandoning", "declining"} => poll[p].phase \in Carries,
         history'.asked \/ ~history.asked
  PROVE  poll' \in [Pollers -> Polls] /\ PollsKeep
<1>1. NoSnapshot \in Snapshots
  BY DEF NoSnapshot, Snapshots, TaskStatuses
<1>2. poll' \in [Pollers -> Polls]
  BY <1>1 DEF Goes, FlowInv, FlowTypes, Polls
<1>3. ASSUME NEW q \in Pollers
      PROVE  /\ poll'[q].phase # "idle" => poll[q].phase # "idle"
             /\ poll'[q].phase \in Carries =>
                   poll[q].phase \in Carries /\ poll'[q].snap = poll[q].snap
  BY DEF Goes, FlowInv, FlowTypes, Polls, Carries
<1> QED BY <1>2, <1>3 DEF PollsKeep, FlowInv, PollAgrees

LEMMA SamePolls ==
  ASSUME FlowInv, poll' = poll, history'.asked \/ ~history.asked
  PROVE  poll' \in [Pollers -> Polls] /\ PollsKeep
  BY DEF PollsKeep, FlowInv, FlowTypes, PollAgrees

-----------------------------------------------------------------------------
(* The ordinary steps, action by action. *)

Plain == Ordinary /\ history'.asked = history.asked

\* Steps of the task and of the answers on their way to it.
LEMMA RunStays ==
  ASSUME FlowInv, run' = run, task' \in Tasks, TaskKeeps,
         task'.open # {} => task'.status = "input_required",
         history' \in Histories, history'.launches = history.launches,
         history'.asked = history.asked, UNCHANGED <<launcher, poll, recovery, host>>,
         items' \in Entries, items'[Approval] = items[Approval]
  PROVE  Plain
<1>1. poll' \in [Pollers -> Polls] /\ PollsKeep
  BY SamePolls
<1>2. LauncherKeeps
  BY DEF LauncherKeeps
<1> QED BY <1>1, <1>2 DEF Plain, Ordinary, StepTypes, RunMoves, FlowInv, FlowTypes, Histories

LEMMA TaskMovesPlain ==
  ASSUME FlowInv, TaskMoves
  PROVE  Plain
<1> USE DEF volatile
<1>1. /\ run' = run /\ history' = history /\ UNCHANGED <<launcher, poll, recovery, host, items>>
  BY DEF TaskMoves, TaskAsks, TaskWithdraws, TaskEnds, TaskExpires
<1>2. FlowTypes /\ OneTask
  BY DEF FlowInv
<1>3. ASSUME NEW keys \in SUBSET Keys, TaskAsks(keys)
      PROVE  /\ task' \in Tasks /\ TaskKeeps
             /\ task'.open # {} => task'.status = "input_required"
  BY <1>2, <1>3, TaskIsTask DEF TaskAsks, TaskKeeps, TaskStatuses, Active
<1>4. ASSUME TaskWithdraws
      PROVE  /\ task' \in Tasks /\ TaskKeeps
             /\ task'.open # {} => task'.status = "input_required"
  BY <1>2, <1>4, TaskIsTask DEF TaskWithdraws, TaskKeeps, TaskStatuses, Active
<1>5. ASSUME NEW status \in TaskTerminal, TaskEnds(status)
      PROVE  /\ task' \in Tasks /\ TaskKeeps
             /\ task'.open # {} => task'.status = "input_required"
  <2>1. status \in TaskStatuses /\ {} \in SUBSET Keys
    BY DEF TaskStatuses
  <2>2. task' = TaskIs(status, {}) /\ task.status \in Active
    BY <1>5 DEF TaskEnds, TaskLives
  <2>3. task' \in Tasks /\ task'.status = status /\ task'.open = {}
    BY <1>2, <2>1, <2>2, TaskIsTask
  <2> QED BY <2>2, <2>3 DEF TaskKeeps
<1>6. ASSUME TaskExpires
      PROVE  /\ task' \in Tasks /\ TaskKeeps
             /\ task'.open # {} => task'.status = "input_required"
  BY <1>2, <1>6 DEF TaskExpires, TaskKeeps, FlowTypes, OneTask, Tasks
<1>7. /\ task' \in Tasks /\ TaskKeeps
      /\ task'.open # {} => task'.status = "input_required"
  BY <1>3, <1>4, <1>5, <1>6 DEF TaskMoves
<1> QED BY <1>1, <1>2, <1>7, RunStays DEF FlowTypes, Histories

LEMMA AnswersPlain ==
  ASSUME FlowInv, NEW k \in Keys, Answer(k) \/ ReplyStep(k) \/ LoseReply(k)
  PROVE  Plain
<1> USE DEF kept
<1>1. /\ run' = run /\ UNCHANGED <<launcher, poll, recovery, host>>
  BY DEF Answer, ReplyStep, Deliver, Refuse, Conclude, LoseReply
<1>2. FlowTypes /\ OneTask
  BY DEF FlowInv
<1>3. /\ history' \in Histories /\ history'.launches = history.launches
      /\ history'.asked = history.asked
  <2>1. history \in Histories /\ history.faults + 1 \in Nat
    BY <1>2 DEF FlowTypes, Histories
  <2>2. history' = history \/ history' = [history EXCEPT !.faults = history.faults + 1]
    BY DEF Answer, ReplyStep, Deliver, Refuse, Conclude, LoseReply, Fail
  <2> QED BY <2>1, <2>2 DEF Histories
<1>4. task' = task \/ (k \in task.open /\ task' = Responded(k))
  BY DEF Answer, ReplyStep, Deliver, Refuse, Conclude, LoseReply, Awaited
<1>5. /\ task' \in Tasks /\ TaskKeeps
      /\ task'.open # {} => task'.status = "input_required"
  <2>1. CASE task' = task
    BY <1>2, <2>1 DEF FlowTypes, OneTask, TaskKeeps
  <2>2. CASE k \in task.open /\ task' = Responded(k)
    <3>1. task.status \in Active
      BY <1>2, <2>2 DEF OneTask, Active
    <3> QED BY <1>2, <2>2, <3>1, RespondedTask DEF TaskKeeps
  <2> QED BY <1>4, <2>1, <2>2
<1>6. items' \in Entries /\ items'[Approval] = items[Approval]
  <2>1. k # Approval
    BY FlowAssumption
  <2>2. items' = items \/ \E e \in {"open", "settling"} \cup Outcomes : items' = [items EXCEPT ![k] = e]
    <3>1. CASE Answer(k)
      BY <3>1 DEF Answer
    <3>2. CASE Conclude(k)
      BY <3>2 DEF Conclude, Reopened, Outcomes
    <3> QED BY <3>1, <3>2 DEF ReplyStep, Deliver, Refuse, LoseReply
  <2> QED BY <1>2, <2>1, <2>2 DEF FlowTypes, Entries, Items
<1> QED BY <1>1, <1>2, <1>3, <1>5, <1>6, RunStays

\* A launch that fails ends a run that has not ended, cancelled if that was asked.
LEMMA LaunchFailsPlain ==
  ASSUME FlowInv, FlowChanged \/ CallFails \/ FailLaunch
  PROVE  Plain
<1> USE DEF others
<1>1. /\ launcher \notin {"idle", "claiming"} /\ launcher' = "idle" /\ Commit(FailedLaunch, items)
      /\ UNCHANGED <<task, host, recovery, history, poll>>
  BY DEF FlowChanged, CallFails, FailLaunch
<1>2. FlowTypes /\ RecordAgrees /\ OneTask
  BY DEF FlowInv
<1>3. run.state \in Active /\ ~Ended
  BY <1>1, <1>2 DEF FlowInv, FlowTypes, LaunchAgrees, Ended, Active, RunTerminal, TaskTerminal
<1>4. items \in Entries
  BY <1>2 DEF FlowTypes
<1>5. run' = FailedLaunch /\ run' \in Records /\ run'.linked = run.linked
      /\ run'.cancelRequested = run.cancelRequested /\ run'.state \in {"failed", "cancelled"}
      /\ (run'.state = "cancelled" => history.asked)
      /\ items' \in Entries /\ (items'[Approval] = "open" => items[Approval] = "open")
  BY <1>1, <1>2, <1>3, <1>4, FailedLaunchRecord, CommitStores
<1>6. RunMoves
  BY <1>3, <1>5 DEF RunMoves, TaskTerminal
<1>7. LauncherKeeps
  BY <1>1 DEF LauncherKeeps
<1>8. poll' \in [Pollers -> Polls] /\ PollsKeep
  BY <1>1, SamePolls
<1>9. TaskKeeps
  BY <1>1 DEF TaskKeeps
<1> QED BY <1>1, <1>2, <1>5, <1>6, <1>7, <1>8, <1>9
        DEF Plain, Ordinary, StepTypes, FlowTypes, OneTask

LEMMA LaunchGoesOnPlain ==
  ASSUME FlowInv, Authorize \/ LinkFails \/ CancelUnlinked
  PROVE  Plain
<1> USE DEF others, kept
<1>1. run' = run /\ UNCHANGED <<items, poll, host, recovery>>
  BY DEF Authorize, LinkFails, CancelUnlinked
<1>2. FlowTypes /\ OneTask
  BY DEF FlowInv
<1>3. LauncherKeeps
  BY <1>1 DEF LauncherKeeps, Authorize, LinkFails, CancelUnlinked
<1>4. /\ history' \in Histories /\ history'.launches = history.launches
      /\ history'.asked = history.asked
  <2>1. history \in Histories /\ history.faults + 1 \in Nat
    BY <1>2 DEF FlowTypes, Histories
  <2>2. history' = history \/ history' = [history EXCEPT !.faults = history.faults + 1]
    BY DEF Authorize, LinkFails, CancelUnlinked, Fail
  <2> QED BY <2>1, <2>2 DEF Histories
<1>5. task' = task \/ task' = Cancelled
  BY DEF Authorize, LinkFails, CancelUnlinked
<1>6. /\ task' \in Tasks /\ TaskKeeps
      /\ task'.open # {} => task'.status = "input_required"
  BY <1>2, <1>5, CancelledTask DEF TaskKeeps, FlowTypes, OneTask, TaskTerminal
<1>7. poll' \in [Pollers -> Polls] /\ PollsKeep
  BY <1>1, <1>4, SamePolls
<1> QED BY <1>1, <1>2, <1>3, <1>4, <1>6, <1>7
        DEF Plain, Ordinary, StepTypes, RunMoves, FlowTypes

\* Somebody asks for the run to be cancelled: noted, or carried out on its task.
LEMMA AskedCancelKeeps ==
  ASSUME FlowInv, CancelRun, run.state # "awaiting_approval"
  PROVE  Ordinary /\ Refines
<1> USE DEF kept
<1>1. /\ UNCHANGED <<task, host, recovery, launcher>>
      /\ history' = [history EXCEPT !.asked = TRUE]
  BY DEF CancelRun
<1>2. FlowTypes /\ OneTask
  BY DEF FlowInv
<1>3. history' \in Histories /\ history'.launches = history.launches /\ history'.asked
  BY <1>1, <1>2 DEF FlowTypes, Histories
<1>4. /\ run' \in Records /\ run'.state = run.state /\ run'.linked = run.linked
      /\ items' \in Entries /\ (items'[Approval] = "open" => items[Approval] = "open")
      /\ poll' \in [Pollers -> Polls] /\ PollsKeep
  <2>1. CASE /\ ~run.linked /\ poll' = poll
             /\ Commit([run EXCEPT !.cancelRequested = TRUE], items)
    <3>1. /\ [run EXCEPT !.cancelRequested = TRUE] \in Records /\ items \in Entries
          /\ [run EXCEPT !.cancelRequested = TRUE].state = run.state
          /\ [run EXCEPT !.cancelRequested = TRUE].linked = run.linked
      BY <1>2 DEF FlowTypes, Records
    <3> QED BY <1>2, <1>3, <2>1, <3>1, CommitStores, SamePolls
  <2>2. CASE /\ run.linked /\ poll' = [poll EXCEPT !["user"].phase = "cancelling"]
             /\ UNCHANGED <<run, kept>>
    <3>1. poll' \in [Pollers -> Polls]
      BY <1>2, <2>2 DEF FlowTypes, Polls, Phases
    <3>2. ASSUME NEW p \in Pollers
          PROVE  /\ poll'[p].phase \in Carries => poll'[p] = poll[p]
                 /\ poll'[p] = poll[p] \/ p = "user"
      BY <1>2, <2>2 DEF FlowTypes, Polls, Carries
    <3>3. PollsKeep
      BY <1>3, <2>2, <3>2 DEF PollsKeep, FlowInv, PollAgrees, Cancellers, Pollers
    <3> QED BY <1>2, <2>2, <3>1, <3>3 DEF FlowTypes
  <2> QED BY <2>1, <2>2 DEF CancelRun
<1>5. RunMoves /\ LauncherKeeps /\ TaskKeeps
  BY <1>1, <1>4 DEF RunMoves, LauncherKeeps, TaskKeeps
<1>6. Ordinary
  BY <1>1, <1>2, <1>3, <1>4, <1>5 DEF Ordinary, StepTypes, FlowTypes, OneTask
<1>7. Refines
  BY <1>1, <1>3, <1>4 DEF Refines, Lifecycle!LifecycleNext, Lifecycle!RequestCancel, Lifecycle!runVars
<1> QED BY <1>6, <1>7

-----------------------------------------------------------------------------
(* Whoever polls, polls the task of a run that was launched and linked. *)

LEMMA PolledRun ==
  ASSUME FlowInv, NEW p \in Pollers, poll[p].phase # "idle"
  PROVE  /\ run.linked /\ launcher = "idle"
         /\ Ended <=> run.state \notin Active
         /\ p \in Cancellers => history.asked
         /\ items[Approval] # "open"
  BY DEF FlowInv, FlowTypes, Records, RunStates, PollAgrees, LaunchAgrees, RecordAgrees, ApprovalAgrees,
         Ended, Active, RunTerminal, TaskTerminal

LEMMA PollPlain ==
  ASSUME FlowInv, NEW p \in Pollers, poll[p].phase # "idle",
         run' \in Records, items' \in Entries, RunMoves, run'.linked = run.linked,
         run'.cancelRequested = run.cancelRequested, items'[Approval] # "open",
         task' \in Tasks, TaskKeeps, run'.state = run.state \/ task'.status = task.status,
         task'.open # {} => task'.status = "input_required",
         history' \in Histories, history'.launches = history.launches,
         history'.asked = history.asked, launcher' = launcher,
         poll' \in [Pollers -> Polls], PollsKeep, UNCHANGED <<recovery, host>>
  PROVE  Plain
<1>1. LauncherKeeps
  BY PolledRun DEF LauncherKeeps
<1> QED BY <1>1, PolledRun DEF Plain, Ordinary, StepTypes, Histories

\* Steps of a poll that leave the run alone.
LEMMA PollingPlain ==
  ASSUME FlowInv, NEW p \in Pollers, CancelTask(p) \/ ReadTask(p) \/ Abandon(p) \/ Check(p)
  PROVE  Plain
<1> USE DEF others, kept
<1>1. /\ run' = run /\ poll[p].phase # "idle"
      /\ UNCHANGED <<items, launcher, recovery, host, history>>
  BY DEF CancelTask, ReadTask, Abandon, Check, At
<1>2. FlowTypes /\ OneTask
  BY DEF FlowInv
<1>3. task' = task \/ task' = Cancelled
  BY DEF CancelTask, ReadTask, Abandon, Check
<1>4. /\ task' \in Tasks /\ TaskKeeps
      /\ task'.open # {} => task'.status = "input_required"
  BY <1>2, <1>3, CancelledTask DEF TaskKeeps, FlowTypes, OneTask, TaskTerminal
<1>5. poll' \in [Pollers -> Polls] /\ PollsKeep
  <2>1. CASE CancelTask(p)
    BY <1>1, <2>1, GoesPolls DEF CancelTask, Phases
  <2>2. CASE Abandon(p)
    <3>1. Rest(p, TRUE) \in Phases \ {"abandoning", "declining", "applying"}
      BY DEF Rest, Phases
    <3> QED BY <1>1, <2>2, <3>1, GoesPolls DEF Abandon
  <2>3. CASE ReadTask(p)
    <3>1. Snapshot \in Snapshots /\ "applying" \in Phases
      BY <1>2 DEF Snapshot, Snapshots, FlowTypes, Tasks, Phases
    <3>2. poll' \in [Pollers -> Polls]
      BY <1>2, <2>3, <3>1 DEF ReadTask, FlowTypes, Polls
    <3>3. ASSUME NEW q \in Pollers
          PROVE  /\ poll'[q] = poll[q] \/ q = p
                 /\ poll'[p].snap = Snapshot
      BY <1>2, <2>3 DEF ReadTask, FlowTypes
    <3> QED BY <1>1, <3>2, <3>3, PolledRun DEF PollsKeep, FlowInv, PollAgrees
  <2>4. CASE Check(p)
    <3>1. poll' \in [Pollers -> Polls]
      <4>1. poll \in [Pollers -> Polls] /\ "watch" \in Pollers
        BY <1>2 DEF FlowTypes, Pollers
      <4>2. PICK w \in Phases : poll' = [poll EXCEPT ![p].phase = "idle", !["watch"].phase = w]
        BY <2>4, <4>1 DEF Check, Phases, Polls
      <4>3. [poll EXCEPT ![p].phase = "idle"] \in [Pollers -> Polls]
        BY <4>1 DEF Polls, Phases
      <4> QED BY <4>1, <4>2, <4>3 DEF Polls
    <3>2. ASSUME NEW q \in Pollers
          PROVE  /\ poll'[q].phase \in Carries => poll'[q] = poll[q]
                 /\ poll'[q].phase # "idle" => poll[q].phase # "idle" \/ q = "watch"
      BY <1>2, <2>4 DEF Check, FlowTypes, Polls, Carries
    <3> QED BY <1>1, <3>1, <3>2, PolledRun DEF PollsKeep, FlowInv, PollAgrees, Cancellers
  <2> QED BY <2>1, <2>2, <2>3, <2>4
<1> QED BY <1>1, <1>2, <1>4, <1>5, PollPlain, PolledRun DEF FlowTypes, RunMoves

LEMMA WakePlain ==
  ASSUME FlowInv, Wake
  PROVE  Plain
<1> USE DEF others, kept
<1>1. FlowTypes /\ OneTask
  BY DEF FlowInv
<1>2. "watch" \in Pollers /\ poll["watch"].phase # "idle" /\ "reading" \in Phases
  BY DEF Pollers, Wake, At, Phases
<1>3. poll' \in [Pollers -> Polls] /\ PollsKeep
  BY <1>2, GoesPolls DEF Wake
<1> QED BY <1>1, <1>2, <1>3, PollPlain, PolledRun DEF Wake, TaskKeeps, FlowTypes, OneTask, RunMoves

LEMMA DisposePlain ==
  ASSUME FlowInv, Dispose
  PROVE  Plain
<1>1. FlowTypes /\ OneTask
  BY DEF FlowInv
<1>2. UNCHANGED <<run, task, items, launcher, poll, recovery>> /\ host = "up" /\ host' = "stopping"
  BY DEF Dispose, volatile
<1>3. /\ history' \in Histories /\ history'.launches = history.launches
      /\ history'.asked = history.asked
  <2>1. history \in Histories /\ history.restarts + 1 \in Nat
    BY <1>1 DEF FlowTypes, Histories
  <2> QED BY <2>1 DEF Dispose, Interrupts, Histories
<1>4. poll' \in [Pollers -> Polls] /\ PollsKeep
  BY <1>2, <1>3, SamePolls
<1>5. LauncherKeeps /\ TaskKeeps /\ RunMoves
  BY <1>2 DEF LauncherKeeps, TaskKeeps, RunMoves
<1> QED BY <1>1, <1>2, <1>3, <1>4, <1>5 DEF Plain, Ordinary, StepTypes, FlowTypes, OneTask

\* A run whose task is gone, or whose recovery failed, ends.
LEMMA PollEndsRun ==
  ASSUME FlowInv, NEW p \in Pollers, poll[p].phase # "idle",
         NEW state \in RunStates, NEW error \in {"none", "other", "UnsupportedInput"},
         Commit(Into(state, error), items),
         state \in Active \cup TaskTerminal,
         state = "completed" => task.status = "completed",
         state = "cancelled" => history.asked \/ task.status = "cancelled"
  PROVE  /\ run' \in Records /\ items' \in Entries /\ RunMoves /\ run'.linked = run.linked
         /\ run'.cancelRequested = run.cancelRequested /\ items'[Approval] # "open"
         /\ run' = Into(state, error)
<1>1. FlowTypes /\ items \in Entries
  BY DEF FlowInv, FlowTypes
<1>2. Into(state, error) \in Records
  BY <1>1, IntoRecord
<1>3. /\ run' = Into(state, error) /\ items' \in Entries
      /\ items'[Approval] = "open" => items[Approval] = "open"
  BY <1>1, <1>2, CommitStores
<1> QED BY <1>1, <1>2, <1>3, IntoRecord, PolledRun DEF RunMoves

LEMMA TaskMissingPlain ==
  ASSUME FlowInv, NEW p \in Pollers, TaskMissing(p)
  PROVE  Plain
<1>1. FlowTypes /\ OneTask
  BY DEF FlowInv
<1>2. /\ poll[p].phase # "idle" /\ Goes(p, "idle")
      /\ UNCHANGED <<task, host, recovery, launcher, history>>
  BY DEF TaskMissing, NotFound, Calling
<1>3. /\ run' \in Records /\ items' \in Entries /\ RunMoves /\ run'.linked = run.linked
      /\ run'.cancelRequested = run.cancelRequested /\ items'[Approval] # "open"
  <2>1. \/ Commit(Into("failed", "other"), items)
        \/ Commit(Into("cancelled", "none"), items) /\ p \in Cancellers
    BY DEF TaskMissing, NotFound, Pollers
  <2>2. {"failed", "cancelled"} \subseteq TaskTerminal /\ TaskTerminal \subseteq RunStates
    BY DEF TaskTerminal, RunStates, RunTerminal
  <2> QED BY <1>2, <2>1, <2>2, PollEndsRun, PolledRun
<1>4. poll' \in [Pollers -> Polls] /\ PollsKeep
  BY <1>2, GoesPolls DEF Phases
<1> QED BY <1>1, <1>2, <1>3, <1>4, PollPlain DEF FlowTypes, OneTask, TaskKeeps

LEMMA MissingUnrecordedPlain ==
  ASSUME FlowInv, MissingUnrecorded
  PROVE  Plain
<1>1. FlowTypes /\ OneTask
  BY DEF FlowInv
<1>2. /\ "watch" \in Pollers /\ poll["watch"].phase # "idle" /\ Goes("watch", "idle")
      /\ UNCHANGED <<run, task, host, recovery, items, launcher>>
  BY DEF MissingUnrecorded, Calling, Pollers, kept
<1>3. /\ history' \in Histories /\ history'.launches = history.launches
      /\ history'.asked = history.asked
  <2>1. history \in Histories /\ history.faults + 1 \in Nat
    BY <1>1 DEF FlowTypes, Histories
  <2> QED BY <2>1 DEF MissingUnrecorded, Histories
<1>4. poll' \in [Pollers -> Polls] /\ PollsKeep
  BY <1>2, <1>3, GoesPolls DEF Phases
<1> QED BY <1>1, <1>2, <1>3, <1>4, PolledRun, PollPlain DEF FlowTypes, OneTask, TaskKeeps, RunMoves

\* What becomes of a call that fails.
LEMMA StepFailsKeeps ==
  ASSUME FlowInv, NEW p \in Pollers, poll[p].phase # "idle", StepFails(p),
         history'.asked = history.asked
  PROVE  /\ run' \in Records /\ items' \in Entries /\ RunMoves /\ run'.linked = run.linked
         /\ run'.cancelRequested = run.cancelRequested /\ items'[Approval] # "open"
         /\ poll' \in [Pollers -> Polls] /\ PollsKeep
<1>1. FlowTypes /\ items[Approval] # "open"
  BY PolledRun DEF FlowInv
<1>2. CASE Commit(Into("failed", "other"), items)
  <2>1. "failed" \in TaskTerminal /\ "failed" \in RunStates
    BY DEF TaskTerminal, RunStates, RunTerminal
  <2> QED BY <1>2, <2>1, PollEndsRun, GoesPolls DEF StepFails, Phases
<1>3. CASE UNCHANGED <<run, kept>>
  BY <1>1, <1>3, GoesPolls DEF kept, FlowTypes, RunMoves, StepFails, Phases
<1> QED BY <1>2, <1>3 DEF StepFails

LEMMA PollFailsPlain ==
  ASSUME FlowInv, NEW p \in Pollers, PollFails(p)
  PROVE  Plain
<1>1. FlowTypes /\ OneTask
  BY DEF FlowInv
<1>2. /\ poll[p].phase # "idle" /\ StepFails(p)
      /\ UNCHANGED <<task, host, recovery, launcher>>
  BY DEF PollFails, Calling
<1>3. /\ history' \in Histories /\ history'.launches = history.launches
      /\ history'.asked = history.asked
  <2>1. history \in Histories /\ history.faults + 1 \in Nat
    BY <1>1 DEF FlowTypes, Histories
  <2> QED BY <2>1 DEF PollFails, Fail, Histories
<1> QED BY <1>1, <1>2, <1>3, StepFailsKeeps, PollPlain DEF FlowTypes, OneTask, TaskKeeps

LEMMA DeclineURLPlain ==
  ASSUME FlowInv, NEW p \in Pollers, NEW k \in Keys, DeclineURL(p, k)
  PROVE  Plain
<1>1. FlowTypes /\ OneTask
  BY DEF FlowInv
<1>2. /\ poll[p].phase = "declining"
      /\ UNCHANGED <<host, recovery, launcher, history>>
  BY DEF DeclineURL, At
<1>3. CASE k \in task.open /\ task' = Responded(k) /\ UNCHANGED <<run, items>>
           /\ (Goes(p, "declining") \/ Goes(p, Rest(p, FALSE)))
  <2>1. task.status \in Active
    BY <1>1, <1>3 DEF OneTask, Active
  <2>2. /\ task' \in Tasks /\ TaskKeeps
        /\ task'.open # {} => task'.status = "input_required"
    BY <1>1, <1>3, <2>1, RespondedTask DEF TaskKeeps
  <2>3. /\ Rest(p, FALSE) \in Phases \ {"idle", "abandoning", "declining", "applying"}
        /\ "declining" \in Phases /\ "declining" \in Carries
    BY DEF Rest, Phases, Carries
  <2>4. poll' \in [Pollers -> Polls] /\ PollsKeep
    BY <1>2, <1>3, <2>3, GoesPolls
  <2> QED BY <1>1, <1>2, <1>3, <2>2, <2>4, PollPlain, PolledRun DEF FlowTypes, RunMoves
<1>4. CASE StepFails(p) /\ task' = task
  BY <1>1, <1>2, <1>4, StepFailsKeeps, PollPlain DEF FlowTypes, OneTask, TaskKeeps
<1> QED BY <1>3, <1>4 DEF DeclineURL

LEMMA ApplyPlain ==
  ASSUME FlowInv, NEW p \in Pollers, Apply(p)
  PROVE  Plain
<1> DEFINE snap == poll[p].snap
<1>1. FlowTypes /\ OneTask /\ PollAgrees
  BY DEF FlowInv
<1>2. /\ poll[p].phase = "applying" /\ ApplySnapshot(snap)
      /\ UNCHANGED <<task, host, recovery, launcher, history>>
      /\ \E phase \in {"abandoning", "declining", "checking", "idle", "sleeping"} : Goes(p, phase)
  <2> DEFINE phase ==
           CASE MustAbandon(run', snap) -> "abandoning"
             [] Accepted(snap) /\ run'.state \notin RunTerminal
                               /\ URLs(snap) \ urls # {} -> "declining"
             [] OTHER -> Rest(p, run'.state \in RunTerminal)
  <2>1. /\ poll[p].phase = "applying" /\ ApplySnapshot(snap) /\ Goes(p, phase)
        /\ UNCHANGED <<task, host, recovery, launcher, history>>
    BY DEF Apply, At
  <2>2. phase \in {"abandoning", "declining", "checking", "idle", "sleeping"}
    BY DEF Rest
  <2> QED BY <2>1, <2>2
<1>3. /\ snap \in Snapshots /\ snap.status # "absent"
      /\ snap.status \in TaskTerminal => task.status = snap.status
  BY <1>1, <1>2 DEF FlowTypes, Polls, PollAgrees, Carries
<1>4. poll' \in [Pollers -> Polls] /\ PollsKeep
  <2>1. {"abandoning", "declining", "checking", "idle", "sleeping"} \subseteq Phases \ {"applying"}
    BY DEF Phases
  <2>2. "applying" \in Carries
    BY DEF Carries
  <2> QED BY <1>2, <2>1, <2>2, GoesPolls
<1>5. /\ run' \in Records /\ items' \in Entries /\ RunMoves /\ run'.linked = run.linked
      /\ run'.cancelRequested = run.cancelRequested /\ items'[Approval] # "open"
  <2>1. CASE Commit(run, items)
    <3>1. run \in Records /\ items \in Entries
      BY <1>1 DEF FlowTypes
    <3> QED BY <1>1, <1>2, <2>1, <3>1, CommitStores, PolledRun DEF RunMoves
  <2>2. CASE /\ Commit(Mapped(snap), items) \/ (run' = Mapped(snap) /\ items' = Reconciled(snap))
    <3>1. PICK state \in {"failed", snap.status}, error \in {"none", "other", "UnsupportedInput"} :
             Mapped(snap) = Into(state, error)
      BY DEF Mapped
    <3>2. /\ state \in RunStates /\ state \in Active \cup TaskTerminal
          /\ state = "completed" => task.status = "completed"
          /\ state = "cancelled" => task.status = "cancelled"
      BY <1>3, <3>1 DEF Snapshots, TaskStatuses, RunStates, RunTerminal, TaskTerminal
    <3>3. CASE Commit(Mapped(snap), items)
      BY <1>2, <3>1, <3>2, <3>3, PollEndsRun
    <3>4. CASE run' = Mapped(snap) /\ items' = Reconciled(snap)
      <4>1. Reconciled(snap) \in Entries /\ Reconciled(snap)[Approval] = items[Approval]
        <5> DEFINE R(i) == CASE items[i] = "open" /\ i \in Keys \ snap.open -> "withdrawn"
                             [] items[i] = "none" /\ i \in snap.open /\ Kind[i] = "form" -> "open"
                             [] OTHER -> items[i]
        <5>1. \A i \in Items : R(i) \in {"withdrawn", "open", items[i]}
          OBVIOUS
        <5>2. Approval \in Items /\ Approval \notin Keys /\ Approval \notin snap.open
          BY <1>3, FlowAssumption DEF Items, Snapshots
        <5>3. R(Approval) = items[Approval]
          BY <5>2
        <5>4. Reconciled(snap) = [i \in Items |-> R(i)]
          BY DEF Reconciled
        <5>5. items \in Entries
          BY <1>1 DEF FlowTypes
        <5> HIDE DEF R
        <5> QED BY <5>1, <5>2, <5>3, <5>4, <5>5 DEF Entries, Outcomes
      <4>2. /\ run' \in Records /\ run'.linked = run.linked
            /\ run'.cancelRequested = run.cancelRequested
            /\ run'.state = IF Ended THEN run.state ELSE state
        BY <1>1, <3>1, <3>2, <3>4, IntoRecord
      <4>3. RunMoves /\ items[Approval] # "open"
        BY <1>2, <3>2, <4>2, PolledRun DEF RunMoves
      <4> QED BY <3>4, <4>1, <4>2, <4>3
    <3> QED BY <2>2, <3>3, <3>4
  <2> QED BY <1>2, <2>1, <2>2 DEF ApplySnapshot
<1> QED BY <1>1, <1>2, <1>4, <1>5, PollPlain DEF FlowTypes, OneTask, TaskKeeps

-----------------------------------------------------------------------------
(* Before the launch. *)

LEMMA Unlaunched ==
  ASSUME FlowInv, run.state \in {"absent", "awaiting_approval"}
  PROVE  /\ task.status = "absent" /\ ~run.linked /\ launcher \in {"idle", "claiming"}
         /\ \A p \in Pollers : poll[p].phase = "idle"
  BY DEF FlowInv, RecordAgrees, PollAgrees

\* What is left to show when a run that was not launched moves on.
LEMMA BeforeLaunch ==
  ASSUME FlowInv, run.state \in {"absent", "awaiting_approval"}, UNCHANGED <<task, host, recovery, poll>>,
         run' \in Records, run'.linked = run.linked,
         run'.cancelRequested = run.cancelRequested,
         history' \in Histories, history'.launches = history.launches,
         history'.asked \/ ~history.asked, items' \in Entries,
         \/ run'.state = "awaiting_approval" /\ launcher' \in {"idle", "claiming"}
         \/ run'.state = "working" /\ launcher' = "authorizing"
         \/ run'.state \in {"denied", "cancelled"} /\ launcher' = launcher,
         host # "down", recovery \notin {"scan", "finding"},
         items'[Approval] = "open" => run'.state = "awaiting_approval" /\ launcher' = "idle"
  PROVE  FlowInv'
<1> USE Unlaunched
<1>1. FlowTypes'
  BY DEF FlowInv, FlowTypes
<1>2. OneTask' /\ RecordAgrees'
  BY DEF FlowInv, OneTask, RecordAgrees
<1>3. LaunchAgrees'
  BY DEF LaunchAgrees, Active, TaskTerminal, RunTerminal
<1>4. PollAgrees'
  BY DEF PollAgrees, Carries
<1>5. RecoveryAgrees'
  BY DEF FlowInv, RecoveryAgrees, Active
<1>6. ApprovalAgrees'
  BY DEF ApprovalAgrees
<1> QED BY <1>1, <1>2, <1>3, <1>4, <1>5, <1>6 DEF FlowInv

LEMMA StartKeeps ==
  ASSUME FlowInv, NEW allowed \in BOOLEAN, Start(allowed)
  PROVE  FlowInv' /\ Refines
<1>1. /\ run.state = "absent" /\ host = "up" /\ UNCHANGED <<task, host, recovery, poll, history>>
      /\ run' = [run EXCEPT !.state = "awaiting_approval"]
      /\ \/ launcher' = "claiming" /\ items' = items
         \/ launcher' = launcher /\ items' = [items EXCEPT ![Approval] = "open"]
  BY DEF Start, others
<1>2. FlowTypes
  BY DEF FlowInv
<1>3. launcher = "idle" /\ items[Approval] # "open" /\ recovery = "off"
  BY <1>1, Unlaunched DEF FlowInv, FlowTypes, ApprovalAgrees, LaunchAgrees, RunTerminal, TaskTerminal,
     RecoveryAgrees
<1>4. /\ run' \in Records /\ run'.state = "awaiting_approval" /\ run'.linked = run.linked
      /\ run'.cancelRequested = run.cancelRequested
  BY <1>1, <1>2 DEF FlowTypes, Records, RunStates
<1>5. items' \in Entries
  BY <1>1, <1>2 DEF FlowTypes, Entries
<1>6. FlowInv'
  BY <1>1, <1>2, <1>3, <1>4, <1>5, BeforeLaunch DEF FlowTypes, Histories
<1>7. Refines
  BY <1>1, <1>4 DEF Refines, Lifecycle!LifecycleNext, Lifecycle!Create, Lifecycle!runVars, Active
<1> QED BY <1>6, <1>7

LEMMA ApproveKeeps ==
  ASSUME FlowInv, Approve \/ (ClaimAllowed /\ ~Ended)
  PROVE  FlowInv' /\ Refines
<1>1. FlowTypes
  BY DEF FlowInv
<1>2. /\ run.state = "awaiting_approval" /\ ~Ended
      /\ UNCHANGED <<task, host, recovery, poll, history>>
      /\ run' = Into("working", "none") /\ launcher' = "authorizing"
      /\ items' = items \/ items' = Settled(items, Approval, "answered")
      /\ items'[Approval] # "open"
  BY <1>1 DEF Approve, ClaimAllowed, others, kept, FlowInv, FlowTypes, LaunchAgrees, ApprovalAgrees,
     Ended, RunTerminal, TaskTerminal, Settled, Entries, Items
<1>3. launcher = "idle" \/ launcher = "claiming"
  BY <1>2, Unlaunched
<1>4. host # "down" /\ recovery \notin {"scan", "finding"}
  BY <1>2 DEF Approve, ClaimAllowed, FlowInv, RecoveryAgrees, Active
<1>5. "working" \in RunStates
  BY DEF RunStates, Active
<1>6. /\ run' \in Records /\ run'.state = "working" /\ run'.linked = run.linked
      /\ run'.cancelRequested = run.cancelRequested
  BY <1>1, <1>2, <1>5, IntoRecord
<1>7. items' \in Entries
  BY <1>1, <1>2 DEF FlowTypes, Entries, Settled, Outcomes
<1>8. FlowInv'
  BY <1>1, <1>2, <1>4, <1>6, <1>7, BeforeLaunch DEF FlowTypes, Histories
<1>9. Refines
  BY <1>2, <1>6 DEF Refines, Lifecycle!LifecycleNext, Lifecycle!Approve, Lifecycle!runVars, Active
<1> QED BY <1>8, <1>9

\* An allowed launch that finds its run ended does nothing.
LEMMA LateClaimPlain ==
  ASSUME FlowInv, ClaimAllowed, Ended
  PROVE  Plain
<1>1. FlowTypes /\ OneTask
  BY DEF FlowInv
<1>2. /\ UNCHANGED <<run, task, items, host, recovery, poll, history>> /\ launcher' = "idle"
  BY DEF ClaimAllowed, others, kept, Ended, RunTerminal, TaskTerminal
<1>3. poll' \in [Pollers -> Polls] /\ PollsKeep
  BY <1>2, SamePolls
<1>4. LauncherKeeps /\ TaskKeeps /\ RunMoves
  BY <1>2 DEF LauncherKeeps, TaskKeeps, RunMoves
<1> QED BY <1>1, <1>2, <1>3, <1>4 DEF Plain, Ordinary, StepTypes, FlowTypes, OneTask

\* The request is turned down, or cancelled before it is decided.
LEMMA RejectKeeps ==
  ASSUME FlowInv,
         \/ \E outcome \in {"declined", "cancelled"} : RejectApproval(outcome)
         \/ CancelRun /\ run.state = "awaiting_approval"
  PROVE  FlowInv' /\ Refines
<1>1. FlowTypes
  BY DEF FlowInv
<1>2. run.state = "awaiting_approval" /\ host = "up" /\ recovery = "off" /\ ~Ended
  BY <1>1 DEF FlowInv, ApprovalAgrees, RejectApproval, RecoveryAgrees, CancelRun, Ended, RunTerminal, TaskTerminal
<1>3. PICK state \in {"denied", "cancelled"}, error \in {"none", "other"}, outcome \in {"declined", "cancelled"} :
        /\ Commit(Into(state, error), Settled(items, Approval, outcome))
        /\ history' = [history EXCEPT !.asked = @ \/ state = "cancelled"]
        /\ UNCHANGED <<task, host, recovery, launcher, poll>>
  <2>1. CASE \E outcome \in {"declined", "cancelled"} : RejectApproval(outcome)
    BY <2>1 DEF RejectApproval, calls
  <2>2. CASE CancelRun /\ run.state = "awaiting_approval"
    <3>1. ~run.linked
      BY <1>2, Unlaunched
    <3>2. [history EXCEPT !.asked = TRUE] = [history EXCEPT !.asked = history.asked \/ "cancelled" = "cancelled"]
      OBVIOUS
    <3> QED BY <2>2, <3>1, <3>2 DEF CancelRun
  <2> QED BY <2>1, <2>2
<1>4. state \in RunStates /\ state \in RunTerminal
  BY DEF RunStates, RunTerminal, TaskTerminal
<1>5. /\ Into(state, error) \in Records /\ Into(state, error).state = state
      /\ Into(state, error).linked = run.linked
      /\ Into(state, error).cancelRequested = run.cancelRequested
  BY <1>1, <1>2, <1>4, IntoRecord
<1>6. Settled(items, Approval, outcome) \in Entries
  BY <1>1 DEF FlowTypes, Entries, Settled, Outcomes
<1>7. run' = Into(state, error) /\ items' \in Entries /\ items'[Approval] # "open"
  BY <1>1, <1>3, <1>4, <1>5, <1>6, CommitStores
<1>8. /\ history' \in Histories /\ history'.launches = history.launches
      /\ history'.asked = (history.asked \/ state = "cancelled")
  BY <1>1, <1>3 DEF FlowTypes, Histories
<1>9. FlowInv'
  BY <1>2, <1>3, <1>5, <1>7, <1>8, BeforeLaunch
<1>10. Refines
  BY <1>2, <1>3, <1>4, <1>5, <1>7, <1>8
     DEF Refines, Lifecycle!LifecycleNext, Lifecycle!Reject, Lifecycle!runVars, Active
<1> QED BY <1>9, <1>10

-----------------------------------------------------------------------------
(* The launch itself. *)

LEMMA CreateTaskKeeps ==
  ASSUME FlowInv, CreateTask \/ CallLost
  PROVE  FlowInv' /\ Refines
<1> DEFINE created == [TaskIs("working", {}) EXCEPT !.gone = FALSE]
<1>1. FlowTypes
  BY DEF FlowInv
<1>2. /\ task' = created /\ launcher = "calling" /\ launcher' \in {"linking", "failing"}
      /\ UNCHANGED <<run, host, recovery, items, poll>>
  BY DEF CreateTask, CallLost, kept
<1>3. run.state \in Active /\ ~run.linked /\ task.status = "absent"
  BY <1>2 DEF FlowInv, LaunchAgrees
<1>4. created \in Tasks /\ created.status = "working" /\ created.open = {}
  <2>1. "working" \in TaskStatuses /\ {} \in SUBSET Keys
    BY DEF TaskStatuses, Active
  <2>2. /\ TaskIs("working", {}) \in Tasks /\ TaskIs("working", {}).status = "working"
        /\ TaskIs("working", {}).open = {}
    BY <1>1, <2>1, TaskIsTask
  <2> QED BY <2>2 DEF Tasks
<1>5. /\ history' \in Histories /\ history.launches = 0 /\ history'.launches = 1
      /\ history'.asked = history.asked
  <2>1. history \in Histories /\ history.launches = 0
    BY <1>1, <1>3 DEF FlowInv, OneTask, FlowTypes
  <2>2. history.faults + 1 \in Nat /\ history.launches + 1 = 1
    BY <2>1 DEF Histories
  <2>3. CASE history' = [history EXCEPT !.launches = history.launches + 1]
    BY <2>1, <2>2, <2>3 DEF Histories
  <2>4. CASE history' = [history EXCEPT !.launches = history.launches + 1,
                                        !.faults = history.faults + 1]
    <3>1. PICK l \in Nat, f \in Nat : /\ l = 1 /\ l = history.launches + 1
                                       /\ f = history.faults + 1
      BY <2>2
    <3>2. history' = [history EXCEPT !.launches = l, !.faults = f]
      BY <2>4, <3>1
    <3> HIDE DEF created
    <3>3. history' \in Histories
      BY <2>1, <3>2 DEF Histories
    <3>4. history'.launches = l /\ history'.asked = history.asked
      BY <2>1, <3>2 DEF Histories
    <3> QED BY <2>1, <3>1, <3>3, <3>4
  <2>5. \/ history' = [history EXCEPT !.launches = history.launches + 1]
        \/ history' = [history EXCEPT !.launches = history.launches + 1,
                                      !.faults = history.faults + 1]
    BY DEF CreateTask, CallLost
  <2> HIDE DEF created
  <2> QED BY <2>1, <2>3, <2>4, <2>5
<1> HIDE DEF created
<1>6. FlowTypes'
  BY <1>1, <1>2, <1>4, <1>5 DEF FlowTypes
<1>7. OneTask' /\ RecordAgrees'
  BY <1>2, <1>3, <1>4, <1>5 DEF FlowInv, OneTask, RecordAgrees, Active
<1>8. LaunchAgrees'
  BY <1>2, <1>3, <1>4 DEF LaunchAgrees
<1>9. PollAgrees'
  BY <1>2, <1>3 DEF FlowInv, PollAgrees, Carries
<1>10. RecoveryAgrees' /\ ApprovalAgrees'
  BY <1>2, <1>3 DEF FlowInv, RecoveryAgrees, ApprovalAgrees
<1>11. FlowInv'
  BY <1>6, <1>7, <1>8, <1>9, <1>10 DEF FlowInv
<1>12. Refines
  BY <1>2, <1>3, <1>4, <1>5
     DEF Refines, Lifecycle!LifecycleNext, Lifecycle!Launch, Lifecycle!runVars, Active
<1> QED BY <1>11, <1>12

\* The record learns its task, which whoever polls it reads from now on.
LEMMA LinkedKeeps ==
  ASSUME FlowInv, run.state \in Active, ~run.linked, task.status # "absent",
         run' \in Records, run'.state = run.state, run'.linked,
         run'.cancelRequested = run.cancelRequested, items' \in Entries,
         items'[Approval] = "open" => items[Approval] = "open",
         UNCHANGED <<task, history>>, launcher' = "idle",
         poll' \in [Pollers -> Polls],
         \A p \in Pollers : poll'[p].phase \in {"idle", "reading", "cancelling"},
         \A p \in Cancellers : poll'[p].phase # "idle" => history.asked,
         host' \in {"recovering", "up", "stopping"},
         recovery' \in {"off", "launching", "cancelling", "watching"},
         recovery' # "off" <=> host' = "recovering"
  PROVE  FlowInv' /\ Refines
<1>1. FlowTypes' /\ OneTask'
  BY DEF FlowInv, FlowTypes, OneTask
<1>2. RecordAgrees' /\ LaunchAgrees'
  BY DEF FlowInv, RecordAgrees, LaunchAgrees, Active
<1>3. PollAgrees'
  BY DEF PollAgrees, Carries
<1>4. RecoveryAgrees' /\ ApprovalAgrees'
  BY DEF FlowInv, RecoveryAgrees, ApprovalAgrees, Active
<1>5. Refines
  BY DEF Refines, Lifecycle!runVars
<1> QED BY <1>1, <1>2, <1>3, <1>4, <1>5 DEF FlowInv

LEMMA LinkRecord ==
  ASSUME FlowTypes, Commit([run EXCEPT !.linked = TRUE], items)
  PROVE  /\ run' \in Records /\ run'.state = run.state /\ run'.linked
         /\ run'.cancelRequested = run.cancelRequested /\ items' \in Entries
         /\ items'[Approval] = "open" => items[Approval] = "open"
<1>1. [run EXCEPT !.linked = TRUE] \in Records /\ items \in Entries
  BY DEF FlowTypes, Records
<1>2. [run EXCEPT !.linked = TRUE].state = run.state /\ [run EXCEPT !.linked = TRUE].linked
      /\ [run EXCEPT !.linked = TRUE].cancelRequested = run.cancelRequested
  BY DEF FlowTypes, Records
<1> QED BY <1>1, <1>2, CommitStores

LEMMA WatchPolls ==
  ASSUME FlowInv, Watch
  PROVE  /\ poll' \in [Pollers -> Polls]
         /\ \A p \in Pollers : poll'[p] = poll[p] \/ (p = "watch" /\ poll'[p].phase = "reading")
<1>1. poll \in [Pollers -> Polls] /\ "watch" \in Pollers /\ "reading" \in Phases
  BY DEF FlowInv, FlowTypes, Pollers, Phases
<1>2. poll' = poll \/ poll' = [poll EXCEPT !["watch"].phase = "reading"]
  BY <1>1 DEF Watch, Polls
<1> QED BY <1>1, <1>2 DEF Polls

LEMMA UnlinkedIdle ==
  ASSUME FlowInv, ~run.linked
  PROVE  \A p \in Pollers : poll[p].phase = "idle"
  BY DEF FlowInv, PollAgrees

LEMMA LinkKeeps ==
  ASSUME FlowInv, Link
  PROVE  FlowInv' /\ Refines
<1>1. FlowTypes
  BY DEF FlowInv
<1>2. run.state \in Active /\ ~run.linked /\ task.status # "absent" /\ ~Ended
  BY DEF Link, FlowInv, LaunchAgrees, Ended, Active, RunTerminal, TaskTerminal
<1>3. /\ Commit([run EXCEPT !.linked = TRUE], items) /\ launcher' = "idle"
      /\ UNCHANGED <<task, host, recovery, history>>
  BY <1>2 DEF Link, others
<1>4. /\ run' \in Records /\ run'.state = run.state /\ run'.linked
      /\ run'.cancelRequested = run.cancelRequested /\ items' \in Entries
      /\ items'[Approval] = "open" => items[Approval] = "open"
  BY <1>1, <1>3, LinkRecord
<1>5. /\ poll' \in [Pollers -> Polls]
      /\ \A p \in Pollers : poll'[p].phase \in {"idle", "reading", "cancelling"}
      /\ \A p \in Cancellers : poll'[p].phase # "idle" => history.asked
  <2>1. \A p \in Pollers : poll[p].phase = "idle"
    BY <1>2, UnlinkedIdle
  <2>2. poll \in [Pollers -> Polls] /\ {"watch", "launch"} \subseteq Pollers
        /\ {"reading", "idle", "cancelling"} \subseteq Phases
    BY <1>1 DEF FlowTypes, Pollers, Cancellers, Phases
  <2>3. run.cancelRequested => history.asked
    BY DEF FlowInv, RecordAgrees
  <2>4. PICK w \in {"idle", "reading"}, l \in {"idle", "cancelling"} :
           /\ poll' = [poll EXCEPT !["watch"].phase = w, !["launch"].phase = l]
           /\ l = "cancelling" => run.cancelRequested
    BY <2>1, <2>2 DEF Link
  <2> QED BY <2>1, <2>2, <2>3, <2>4 DEF Polls, Cancellers, Pollers
<1>6. /\ host' \in {"recovering", "up", "stopping"}
      /\ recovery' \in {"off", "launching", "cancelling", "watching"}
      /\ recovery' # "off" <=> host' = "recovering"
  BY <1>1, <1>3 DEF Link, FlowInv, FlowTypes, RecoveryAgrees
<1> QED BY <1>2, <1>3, <1>4, <1>5, <1>6, LinkedKeeps

-----------------------------------------------------------------------------
(* The process ends and starts again. *)

LEMMA GoesDownKeeps ==
  ASSUME FlowInv, GoesDown, history' \in Histories, history'.launches = history.launches,
         history'.asked = history.asked
  PROVE  FlowInv' /\ Refines
<1>1. Idle \in Polls /\ Idle.phase = "idle"
  BY DEF Idle, Polls, NoSnapshot, Snapshots, Phases, TaskStatuses
<1>2. /\ poll' \in [Pollers -> Polls] /\ items' \in Entries /\ items'[Approval] = "none"
      /\ \A p \in Pollers : poll'[p].phase = "idle"
  BY <1>1 DEF GoesDown, Entries, Items
<1>3. UNCHANGED <<run, task>> /\ host' = "down" /\ recovery' = "off" /\ launcher' = "idle"
  BY DEF GoesDown
<1>4. FlowTypes' /\ OneTask' /\ RecordAgrees' /\ LaunchAgrees'
  BY <1>2, <1>3 DEF FlowInv, FlowTypes, OneTask, RecordAgrees, LaunchAgrees
<1>5. PollAgrees' /\ RecoveryAgrees' /\ ApprovalAgrees'
  BY <1>2, <1>3 DEF PollAgrees, Carries, RecoveryAgrees, ApprovalAgrees
<1>6. Refines
  BY <1>3 DEF Refines, Lifecycle!runVars
<1> QED BY <1>4, <1>5, <1>6 DEF FlowInv

LEMMA CrashKeeps ==
  ASSUME FlowInv, Crash \/ Disposed
  PROVE  FlowInv' /\ Refines
<1>1. history \in Histories /\ history.restarts + 1 \in Nat
  BY DEF FlowInv, FlowTypes, Histories
<1>2. history' = history \/ history' = [history EXCEPT !.restarts = history.restarts + 1]
  BY DEF Crash, Disposed, Interrupts
<1>3. /\ history' \in Histories /\ history'.launches = history.launches
      /\ history'.asked = history.asked
  BY <1>1, <1>2 DEF Histories
<1> QED BY <1>3, GoesDownKeeps DEF Crash, Disposed

\* What is left to show when recovery goes on and leaves the record alone.
LEMMA RecoveryGoesOn ==
  ASSUME FlowInv, FlowTypes', UNCHANGED <<run, task, history>>,
         launcher' = launcher \/ (launcher' = "claiming" /\ run.state = "awaiting_approval"),
         \A p \in Pollers :
            \/ poll'[p] = poll[p]
            \/ /\ run.linked /\ poll'[p].phase \in {"reading", "cancelling"}
               /\ p \in Cancellers => history.asked,
         RecoveryAgrees', ApprovalAgrees'
  PROVE  FlowInv' /\ Refines
<1>1. OneTask' /\ RecordAgrees'
  BY DEF FlowInv, OneTask, RecordAgrees
<1>2. LaunchAgrees'
  BY DEF FlowInv, LaunchAgrees, RecordAgrees
<1>3. PollAgrees'
  BY DEF FlowInv, PollAgrees, Carries
<1>4. Refines
  BY DEF Refines, Lifecycle!runVars
<1> QED BY <1>1, <1>2, <1>3, <1>4 DEF FlowInv

LEMMA RestartKeeps ==
  ASSUME FlowInv, Restart
  PROVE  FlowInv' /\ Refines
<1>1. /\ host = "down" /\ host' = "recovering" /\ recovery' = "scan"
      /\ UNCHANGED <<run, task, history, items, launcher, poll>>
  BY DEF Restart, kept, calls
<1>2. FlowTypes' /\ RecoveryAgrees' /\ ApprovalAgrees'
  BY <1>1 DEF FlowInv, FlowTypes, RecoveryAgrees, ApprovalAgrees
<1> QED BY <1>1, <1>2, RecoveryGoesOn

LEMMA ScanKeeps ==
  ASSUME FlowInv, NEW allowed \in BOOLEAN, Scan(allowed)
  PROVE  FlowInv' /\ Refines
<1>1. /\ recovery = "scan" /\ UNCHANGED <<run, task, history>>
      /\ host = "recovering" /\ launcher = "idle" /\ items[Approval] # "open"
  BY DEF Scan, FlowInv, RecoveryAgrees
<1>2. FlowTypes
  BY DEF FlowInv
<1>3. CASE Recovered /\ UNCHANGED <<items, launcher, poll>>
  BY <1>1, <1>2, <1>3, RecoveryGoesOn DEF Recovered, FlowTypes, RecoveryAgrees, ApprovalAgrees
<1>4. CASE /\ run.state = "awaiting_approval" /\ recovery' = "launching" /\ launcher' = "claiming"
           /\ UNCHANGED <<host, items, poll>>
  BY <1>1, <1>2, <1>4, RecoveryGoesOn DEF FlowTypes, RecoveryAgrees, ApprovalAgrees
<1>5. CASE /\ run.state = "awaiting_approval" /\ items' = [items EXCEPT ![Approval] = "open"]
           /\ Recovered /\ UNCHANGED <<launcher, poll>>
  <2>1. items' \in Entries
    BY <1>2, <1>5 DEF FlowTypes, Entries
  <2> QED BY <1>1, <1>2, <1>5, <2>1, RecoveryGoesOn
          DEF Recovered, FlowTypes, RecoveryAgrees, ApprovalAgrees
<1>6. CASE /\ run.state \in Active /\ ~run.linked /\ recovery' = "finding"
           /\ UNCHANGED <<host, items, launcher, poll>>
  BY <1>1, <1>2, <1>6, RecoveryGoesOn DEF FlowTypes, RecoveryAgrees, ApprovalAgrees
<1>7. CASE run.linked /\ Resume(run) /\ UNCHANGED <<host, items, launcher>>
  <2>1. run.cancelRequested => history.asked
    BY DEF FlowInv, RecordAgrees
  <2>2. CASE run.cancelRequested /\ recovery' = "cancelling" /\ Goes("recovery", "cancelling")
    <3>1. NoSnapshot \in Snapshots /\ "cancelling" \in Phases /\ "recovery" \in Pollers
      BY DEF NoSnapshot, Snapshots, TaskStatuses, Phases, Pollers, Cancellers
    <3>2. /\ poll' \in [Pollers -> Polls]
          /\ \A p \in Pollers : poll'[p] = poll[p] \/ poll'[p].phase = "cancelling"
      BY <1>2, <2>2, <3>1 DEF Goes, FlowTypes, Polls
    <3> QED BY <1>1, <1>2, <1>7, <2>1, <2>2, <3>2, RecoveryGoesOn
            DEF FlowTypes, RecoveryAgrees, ApprovalAgrees
  <2>3. CASE recovery' = "watching" /\ Watch
    BY <1>1, <1>2, <1>7, <2>3, WatchPolls, RecoveryGoesOn
       DEF FlowTypes, RecoveryAgrees, ApprovalAgrees, Cancellers
  <2> QED BY <1>7, <2>2, <2>3 DEF Resume
<1> QED BY <1>1, <1>3, <1>4, <1>5, <1>6, <1>7 DEF Scan

LEMMA LaunchedKeeps ==
  ASSUME FlowInv, Launched \/ CancelledAgain
  PROVE  FlowInv' /\ Refines
<1>1. /\ recovery # "off" /\ host = "recovering"
      /\ UNCHANGED <<run, task, history, items, launcher>>
  BY DEF Launched, CancelledAgain, kept, FlowInv, RecoveryAgrees
<1>2. FlowTypes
  BY DEF FlowInv
<1>3. CASE Recovered /\ UNCHANGED poll
  BY <1>1, <1>2, <1>3, RecoveryGoesOn DEF Recovered, FlowTypes, FlowInv, RecoveryAgrees, ApprovalAgrees
<1>4. CASE run.linked /\ recovery' = "watching" /\ Watch /\ UNCHANGED host
  BY <1>1, <1>2, <1>4, WatchPolls, RecoveryGoesOn
     DEF FlowTypes, FlowInv, RecoveryAgrees, ApprovalAgrees, Cancellers
<1> QED BY <1>3, <1>4 DEF Launched, CancelledAgain

LEMMA FirstReadKeeps ==
  ASSUME FlowInv, FirstRead
  PROVE  FlowInv' /\ Refines
<1>1. FlowTypes /\ history' = history
  BY DEF FlowInv, FirstRead
<1>2. CASE GoesDown
  BY <1>1, <1>2, GoesDownKeeps DEF FlowTypes, Histories
<1>3. CASE Recovered /\ UNCHANGED <<run, task, items, launcher, poll>>
  BY <1>1, <1>3, RecoveryGoesOn DEF Recovered, FlowTypes, FlowInv, RecoveryAgrees, ApprovalAgrees
<1> QED BY <1>2, <1>3 DEF FirstRead, kept

\* A launch the process did not survive: its task is found, or the run has failed.
LEMMA FindKeeps ==
  ASSUME FlowInv, Find
  PROVE  FlowInv' /\ Refines
<1>1. /\ recovery = "finding" /\ host = "recovering" /\ run.state \in Active /\ ~run.linked
      /\ launcher = "idle" /\ UNCHANGED <<task, launcher, history>>
  BY DEF Find, FlowInv, RecoveryAgrees
<1>2. FlowTypes
  BY DEF FlowInv
<1>3. \A p \in Pollers : poll[p].phase = "idle"
  BY <1>1, UnlinkedIdle
<1>4. CASE Found /\ Commit([run EXCEPT !.linked = TRUE], items)
           /\ Resume([run EXCEPT !.linked = TRUE]) /\ UNCHANGED host
  <2>1. /\ run' \in Records /\ run'.state = run.state /\ run'.linked
        /\ run'.cancelRequested = run.cancelRequested /\ items' \in Entries
        /\ items'[Approval] = "open" => items[Approval] = "open"
    BY <1>2, <1>4, LinkRecord
  <2>2. run' = [run EXCEPT !.linked = TRUE]
    BY <1>4 DEF Commit
  <2>3. run'.cancelRequested => history.asked
    BY <2>1 DEF FlowInv, RecordAgrees
  <2>4. /\ poll' \in [Pollers -> Polls] /\ recovery' \in {"cancelling", "watching"}
        /\ \A p \in Pollers : poll'[p].phase \in {"idle", "reading", "cancelling"}
        /\ \A p \in Cancellers : poll'[p].phase # "idle" => history.asked
    <3>1. CASE recovery' = "watching" /\ Watch
      BY <1>3, <3>1, WatchPolls DEF Pollers, Cancellers
    <3>2. CASE run'.cancelRequested /\ recovery' = "cancelling" /\ Goes("recovery", "cancelling")
      <4>1. NoSnapshot \in Snapshots /\ "cancelling" \in Phases /\ "recovery" \in Pollers
        BY DEF NoSnapshot, Snapshots, TaskStatuses, Phases, Pollers, Cancellers
      <4> QED BY <1>2, <1>3, <2>3, <3>2, <4>1 DEF Goes, FlowTypes, Polls, Pollers
    <3> QED BY <1>4, <2>2, <3>1, <3>2 DEF Resume
  <2> QED BY <1>1, <1>4, <2>1, <2>4, LinkedKeeps DEF Found
<1>5. CASE Commit(Into("failed", "other"), items) /\ Recovered /\ UNCHANGED poll
  <2>1. /\ run' \in Records /\ run'.state = "failed" /\ run'.linked = run.linked
        /\ run'.cancelRequested = run.cancelRequested
        /\ items' \in Entries /\ items'[Approval] # "open"
    <3>1. "failed" \in RunStates /\ "failed" \in RunTerminal /\ ~Ended /\ items \in Entries
      BY <1>1, <1>2 DEF RunStates, RunTerminal, TaskTerminal, Ended, Active, FlowTypes
    <3> QED BY <1>2, <1>5, <3>1, IntoRecord, CommitStores
  <2>2. FlowTypes' /\ OneTask'
    BY <1>1, <1>2, <1>5, <2>1 DEF FlowInv, FlowTypes, OneTask, Recovered
  <2>3. RecordAgrees' /\ LaunchAgrees'
    BY <1>1, <2>1 DEF FlowInv, RecordAgrees, LaunchAgrees
  <2>4. PollAgrees'
    BY <1>3, <1>5 DEF PollAgrees, Carries
  <2>5. RecoveryAgrees' /\ ApprovalAgrees'
    BY <1>1, <1>5, <2>1 DEF RecoveryAgrees, ApprovalAgrees, Recovered
  <2>6. Refines
    <3>1. RunMoves
      BY <1>1, <2>1 DEF RunMoves, TaskTerminal
    <3> QED BY <1>1, <1>2, <2>2, <3>1, RunMovesRefine
  <2> QED BY <2>2, <2>3, <2>4, <2>5, <2>6 DEF FlowInv
<1> QED BY <1>4, <1>5 DEF Find

-----------------------------------------------------------------------------
(* Every step, and the theorem. *)

LEMMA FlowStep ==
  ASSUME FlowInv, [Next]_vars
  PROVE  FlowInv' /\ Refines
<1>1. ASSUME Plain PROVE FlowInv' /\ Refines
  BY <1>1, OrdinaryKeeps, OrdinaryRefines DEF Plain
<1>2. CASE TaskMoves
  BY <1>1, <1>2, TaskMovesPlain
<1>3. CASE Asked
  <2>1. CASE \E allowed \in BOOLEAN : Start(allowed)
    BY <2>1, StartKeeps
  <2>2. CASE Approve
    BY <2>2, ApproveKeeps
  <2>3. CASE \E outcome \in {"declined", "cancelled"} : RejectApproval(outcome)
    BY <2>3, RejectKeeps
  <2>4. CASE CancelRun
    BY <2>4, RejectKeeps, AskedCancelKeeps, OrdinaryKeeps
  <2>5. CASE \E k \in Keys : Answer(k)
    BY <1>1, <2>5, AnswersPlain
  <2>6. CASE Dispose
    BY <1>1, <2>6, DisposePlain
  <2> QED BY <1>3, <2>1, <2>2, <2>3, <2>4, <2>5, <2>6 DEF Asked
<1>4. CASE LaunchStep
  <2>1. CASE ClaimAllowed
    BY <1>1, <2>1, ApproveKeeps, LateClaimPlain
  <2>2. CASE FlowChanged \/ CallFails \/ FailLaunch
    BY <1>1, <2>2, LaunchFailsPlain
  <2>3. CASE Authorize \/ LinkFails \/ CancelUnlinked
    BY <1>1, <2>3, LaunchGoesOnPlain
  <2> QED BY <1>4, <2>1, <2>2, <2>3, CreateTaskKeeps, LinkKeeps DEF LaunchStep
<1>5. ASSUME NEW p \in Pollers, PollStep(p) \/ PollFails(p)
      PROVE  FlowInv' /\ Refines
  BY <1>1, <1>5, TaskMissingPlain, PollingPlain, ApplyPlain, DeclineURLPlain, PollFailsPlain
     DEF PollStep
<1>6. CASE Wake \/ MissingUnrecorded
  BY <1>1, <1>6, WakePlain, MissingUnrecordedPlain
<1>7. ASSUME NEW k \in Keys, ReplyStep(k) \/ LoseReply(k)
      PROVE  FlowInv' /\ Refines
  BY <1>1, <1>7, AnswersPlain
<1>8. CASE Crash \/ Disposed \/ Restart
  BY <1>8, CrashKeeps, RestartKeeps
<1>9. CASE Recover
  BY <1>9, ScanKeeps, FindKeeps, LaunchedKeeps, FirstReadKeeps DEF Recover
<1>10. CASE UNCHANGED vars
  <2>1. UNCHANGED <<run, task, host, recovery, items, launcher, poll, history>>
    BY <1>10 DEF vars, volatile
  <2>2. FlowInv'
    BY <2>1 DEF FlowInv, FlowTypes, OneTask, RecordAgrees, LaunchAgrees, PollAgrees, RecoveryAgrees,
       ApprovalAgrees
  <2> QED BY <2>1, <2>2 DEF Refines, Lifecycle!runVars
<1> QED BY <1>2, <1>3, <1>4, <1>5, <1>6, <1>7, <1>8, <1>9, <1>10 DEF Next

LEMMA FlowInit ==
  ASSUME Init
  PROVE  FlowInv /\ Lifecycle!LifecycleInit
<1>1. /\ run \in Records /\ task \in Tasks /\ history \in Histories /\ items \in Entries
  BY DEF Init, Fresh, Records, RunStates, Tasks, TaskStatuses, Histories, Entries
<1>2. poll \in [Pollers -> Polls] /\ \A p \in Pollers : poll[p].phase = "idle"
  BY DEF Init, Fresh, Idle, NoSnapshot, Polls, Phases, Snapshots, TaskStatuses
<1>3. FlowTypes
  BY <1>1, <1>2 DEF Init, Fresh, FlowTypes
<1>4. items[Approval] = "none"
  BY DEF Init, Fresh, Items
<1>5. OneTask /\ RecordAgrees /\ LaunchAgrees /\ PollAgrees /\ RecoveryAgrees /\ ApprovalAgrees
  BY <1>2, <1>4 DEF Init, Fresh, OneTask, RecordAgrees, LaunchAgrees, PollAgrees, Carries, RecoveryAgrees,
     ApprovalAgrees
<1>6. Lifecycle!LifecycleInit
  BY DEF Init, Lifecycle!LifecycleInit, Active
<1> QED BY <1>3, <1>5, <1>6 DEF FlowInv

\* What the run's record, its task, its launch, its polls and its recovery have to do with
\* each other: a run has at most one task, a launch under way belongs to a run that has not
\* ended, and whoever polls or cancels the task was entitled to.
THEOREM FlowInvariant == Spec => []FlowInv
<1>1. Init => FlowInv
  BY FlowInit
<1>2. FlowInv /\ [Next]_vars => FlowInv'
  BY FlowStep
<1> QED BY <1>1, <1>2, PTL DEF Spec

\* Across any number of crashes, lost calls and restarts the run lives the life it promises:
\* approved before it is launched, launched once, ended once and for a reason.
THEOREM FlowImplementsLifecycle == Spec => ImplementsLifecycle
<1>1. Init => Lifecycle!LifecycleInit
  BY FlowInit
<1>2. FlowInv /\ [Next]_vars => [Lifecycle!LifecycleNext]_(Lifecycle!runVars)
  BY FlowStep DEF Refines
<1> QED BY <1>1, <1>2, FlowInvariant, PTL DEF Spec, ImplementsLifecycle, Lifecycle!LifecycleSpec

-----------------------------------------------------------------------------
(* The inbox and the task.  What the host knows of the task are views of    *)
(* it: the snapshots on their way, the one applied last, and nothing.  The  *)
(* argument compares them with the task as it is now, and with each other.  *)

View(stamp, open) == [stamp |-> stamp, open |-> open]
Nothing == View(0, {})
Current == View(task.stamp, task.open)
Last    == View(applied, latest)
Views   == {Nothing, Current, Last}
              \cup {View(poll[p].snap.stamp, poll[p].snap.open) : p \in Pollers}

InboxTypes ==
    /\ applied \in Nat /\ latest \in SUBSET Keys
    /\ reply \in [Keys -> {"idle", "sending", "accepted", "rejected", "lost"}]

\* A key that is asked for has never been asked for before.
AskedOnce ==
    /\ task.status = "absent" => ~task.gone
    /\ \A k \in Keys : task.closed[k] <= task.stamp /\ (k \in task.open => task.closed[k] = 0)

\* A view tells the past: what it shows and the task no longer asks for was given
\* up after it was taken.
Agrees(v) ==
    /\ v.stamp <= task.stamp
    /\ v.stamp = task.stamp => v.open = task.open
    /\ \A k \in v.open : k \in task.open \/ v.stamp < task.closed[k]

\* What a view shows and the task asks for still, every later view shows.
InOrder(v, w) == v.stamp <= w.stamp => v.open \cap task.open \subseteq w.open

ViewsAgree == \A v \in Views : Agrees(v) /\ \A w \in Views : InOrder(v, w)

\* An entry is offered for what the last snapshot applied asks for; an entry that is
\* done with belongs to a request that is, as long as the run goes on.
Entry(k) ==
    /\ items[k] = "open" => k \in latest
    /\ items[k] # "none" => k \in task.open \/ task.closed[k] # 0
    /\ reply[k] # "idle" => items[k] # "none"
    /\ reply[k] = "accepted" => task.closed[k] # 0
    /\ reply[k] = "rejected" => task.closed[k] # 0 \/ task.gone
    /\ k \in task.open /\ ~task.gone /\ ~Ended =>
          /\ items[k] \in {"open", "settling"} => k \in latest
          /\ items[k] \notin Outcomes
          /\ k \in latest /\ Kind[k] = "form" => items[k] # "none"

InboxAgrees == \A k \in Keys : Entry(k)

InboxInv == FlowInv /\ InboxTypes /\ AskedOnce /\ ViewsAgree /\ InboxAgrees

LEMMA InboxInvMatches == InboxInv => OffersWhatIsAsked
<1> SUFFICES ASSUME InboxInv, NEW k \in Keys
             PROVE  /\ items[k] = "open" /\ task.closed[k] # 0 => applied < task.closed[k]
                    /\ k \in task.open /\ Kind[k] = "form" /\ applied = task.stamp /\ ~task.gone
                          /\ ~Ended => items[k] \in {"open", "settling"}
  BY DEF OffersWhatIsAsked
<1>1. Entry(k) /\ Last \in Views /\ items[k] \in {"none", "open", "settling"} \cup Outcomes
  BY DEF InboxInv, InboxAgrees, Views, FlowInv, FlowTypes, Entries, Items
<1>2. Agrees(Last) /\ Last.stamp = applied /\ Last.open = latest
  BY <1>1 DEF InboxInv, ViewsAgree, Last, View
<1>3. task.closed[k] # 0 => k \notin task.open
  BY DEF InboxInv, AskedOnce
<1>4. items[k] = "open" => k \in latest
  BY <1>1 DEF Entry
<1>5. k \in latest => k \in task.open \/ applied < task.closed[k]
  BY <1>2 DEF Agrees
<1>6. applied = task.stamp => latest = task.open
  BY <1>2 DEF Agrees
<1>7. k \in task.open /\ ~task.gone /\ ~Ended =>
          /\ items[k] \notin Outcomes
          /\ k \in latest /\ Kind[k] = "form" => items[k] # "none"
  BY <1>1 DEF Entry
<1> QED BY <1>1, <1>3, <1>4, <1>5, <1>6, <1>7

\* A run that has ended stays as it is.
LEMMA EndedStays ==
  ASSUME FlowInv, [Next]_vars
  PROVE  Ended => Ended'
<1>1. FlowTypes /\ FlowTypes' /\ Refines
  BY FlowStep DEF FlowInv
<1> QED BY <1>1 DEF Refines, Lifecycle!LifecycleNext, Lifecycle!runVars, Lifecycle!Create,
              Lifecycle!RequestCancel, Lifecycle!Reject, Lifecycle!Approve, Lifecycle!Launch,
              Lifecycle!WorkEnds, Lifecycle!EndRun, Ended, FlowTypes, Records, RunStates,
              Active, TaskTerminal, RunTerminal

-----------------------------------------------------------------------------
(* The task moves on: what it gives up it has given up for good. *)

TaskForward ==
    /\ task.gone => task'.gone
    /\ task'.status = "absent" => task'.status = task.status /\ task'.gone = task.gone
    /\ \/ UNCHANGED <<task.stamp, task.open, task.closed>>
       \/ /\ task'.stamp = task.stamp + 1
          /\ \A k \in Keys : task'.closed[k] = IF k \in task.open \ task'.open THEN task.stamp + 1
                                             ELSE task.closed[k]
          /\ \A k \in task'.open \ task.open : task.open = {} /\ task.closed[k] = 0

LEMMA TaskForwardKeeps ==
  ASSUME FlowTypes, FlowTypes', AskedOnce, TaskForward
  PROVE  /\ AskedOnce'
         /\ task.stamp <= task'.stamp
         /\ \A k \in Keys : /\ task.closed[k] # 0 => task'.closed[k] = task.closed[k]
                            /\ k \in task.open => k \in task'.open \/ task'.closed[k] # 0
                            /\ k \in task'.open => k \in task.open \/ task.closed[k] = 0
<1>1. /\ task.stamp \in Nat /\ task'.stamp \in Nat
      /\ task.closed \in [Keys -> Nat] /\ task'.closed \in [Keys -> Nat]
      /\ task.open \in SUBSET Keys /\ task'.open \in SUBSET Keys
  BY DEF FlowTypes, Tasks
<1>2. \A k \in Keys : task.closed[k] <= task.stamp /\ (k \in task.open => task.closed[k] = 0)
  BY DEF AskedOnce
<1>3. \A k \in Keys : /\ task'.closed[k] <= task'.stamp
                      /\ k \in task'.open => task'.closed[k] = 0
                      /\ task.closed[k] # 0 => task'.closed[k] = task.closed[k]
                      /\ k \in task.open => k \in task'.open \/ task'.closed[k] # 0
                      /\ k \in task'.open => k \in task.open \/ task.closed[k] = 0
  BY <1>1, <1>2 DEF TaskForward
<1>4. task.stamp <= task'.stamp
  BY <1>1 DEF TaskForward
<1>5. task'.status = "absent" => ~task'.gone
  BY DEF TaskForward, AskedOnce
<1> QED BY <1>3, <1>4, <1>5 DEF AskedOnce

\* Views taken before the step agree with the task after it.
LEMMA ViewForward ==
  ASSUME FlowTypes, FlowTypes', AskedOnce, TaskForward,
         NEW v, v.stamp \in Nat, v.open \in SUBSET Keys, Agrees(v)
  PROVE  /\ Agrees(v)' /\ v.stamp <= task'.stamp
         /\ v.open \cap task'.open \subseteq task.open
<1>1. /\ task.stamp \in Nat /\ task'.stamp \in Nat
      /\ task.closed \in [Keys -> Nat] /\ task'.closed \in [Keys -> Nat]
      /\ task.open \in SUBSET Keys /\ task'.open \in SUBSET Keys
  BY DEF FlowTypes, Tasks
<1>2. \A k \in Keys : task.closed[k] <= task.stamp /\ (k \in task.open => task.closed[k] = 0)
  BY DEF AskedOnce
<1>3. /\ v.stamp <= task.stamp
      /\ v.stamp = task.stamp => v.open = task.open
      /\ \A k \in v.open : k \in task.open \/ v.stamp < task.closed[k]
  BY DEF Agrees
<1>4. CASE UNCHANGED <<task.stamp, task.open, task.closed>>
  BY <1>3, <1>4 DEF Agrees
<1>5. CASE /\ task'.stamp = task.stamp + 1
           /\ \A k \in Keys : task'.closed[k] = IF k \in task.open \ task'.open THEN task.stamp + 1
                                              ELSE task.closed[k]
           /\ \A k \in task'.open \ task.open : task.open = {} /\ task.closed[k] = 0
  <2>1. v.stamp <= task'.stamp /\ v.stamp # task'.stamp
    BY <1>1, <1>3, <1>5
  <2>2. \A k \in v.open : k \in task'.open \/ v.stamp < task'.closed[k]
    BY <1>1, <1>3, <1>5
  <2>3. v.open \cap task'.open \subseteq task.open
    BY <1>1, <1>3, <1>5
  <2> QED BY <2>1, <2>2, <2>3 DEF Agrees
<1> QED BY <1>4, <1>5 DEF TaskForward

ViewsTyped == \A v \in Views : v.stamp \in Nat /\ v.open \in SUBSET Keys

LEMMA ViewTypes == FlowTypes /\ InboxTypes => ViewsTyped
<1> SUFFICES ASSUME FlowTypes, InboxTypes, NEW v \in Views PROVE v.stamp \in Nat /\ v.open \in SUBSET Keys
  BY DEF ViewsTyped
<1>1. \A p \in Pollers : poll[p].snap.stamp \in Nat /\ poll[p].snap.open \in SUBSET Keys
  BY DEF FlowTypes, Polls, Snapshots
<1>2. task.stamp \in Nat /\ task.open \in SUBSET Keys
  BY DEF FlowTypes, Tasks
<1> QED BY <1>1, <1>2 DEF Views, View, Nothing, Current, Last, InboxTypes

\* Old views and a new one of the task as it is agree with each other.
LEMMA ViewsKeep ==
  ASSUME FlowTypes, FlowTypes', InboxTypes, AskedOnce, ViewsAgree, TaskForward,
         Views' \subseteq Views \cup {Current'}
  PROVE  ViewsAgree'
<1>1. ASSUME NEW v \in Views
      PROVE  /\ v.stamp \in Nat /\ v.open \in SUBSET Keys /\ Agrees(v)
             /\ Agrees(v)' /\ v.stamp <= task'.stamp
             /\ v.open \cap task'.open \subseteq task.open
  <2>1. v.stamp \in Nat /\ v.open \in SUBSET Keys /\ Agrees(v)
    BY ViewTypes DEF ViewsTyped, ViewsAgree
  <2> QED BY <2>1, ViewForward
<1>0. PICK c : c = Current'
  OBVIOUS
<1>2. task.stamp \in Nat /\ task'.stamp \in Nat /\ c.stamp = task'.stamp /\ c.open = task'.open
  BY <1>0 DEF FlowTypes, Tasks, Current, View
<1>3. Agrees(c)'
  BY <1>2 DEF Agrees
<1>4. ASSUME NEW v \in Views, NEW w \in Views PROVE InOrder(v, w)'
  <2>1. InOrder(v, w)
    BY DEF ViewsAgree
  <2> QED BY <1>1, <2>1 DEF InOrder
<1>5. ASSUME NEW v \in Views PROVE InOrder(v, c)'
  BY <1>2 DEF InOrder
<1>6. ASSUME NEW w \in Views PROVE InOrder(c, w)'
  <2>1. task'.stamp <= w.stamp => w.stamp = task'.stamp
    BY <1>1, <1>2
  <2>2. w.stamp = task'.stamp => w.open = task'.open
    BY <1>1 DEF Agrees
  <2> QED BY <1>2, <2>1, <2>2 DEF InOrder
<1>7. InOrder(c, c)'
  BY DEF InOrder
<1> QED
  <2> SUFFICES ASSUME NEW v \in Views', NEW w \in Views' PROVE Agrees(v)' /\ InOrder(v, w)'
    BY DEF ViewsAgree
  <2>1. v \in Views \cup {c} /\ w \in Views \cup {c}
    BY <1>0
  <2> QED BY <1>1, <1>3, <1>4, <1>5, <1>6, <1>7, <2>1

-----------------------------------------------------------------------------
(* Steps that bring nothing new into the inbox. *)

\* The views after the step are views of before, or of the task as it is.
ViewsFrom ==
    /\ \/ UNCHANGED <<applied, latest>>
       \/ applied' = 0 /\ latest' = {}
       \/ \E p \in Pollers : applied' = poll[p].snap.stamp /\ latest' = poll[p].snap.open
    /\ \A p \in Pollers : \/ poll'[p].snap = poll[p].snap
                          \/ poll'[p].snap = NoSnapshot
                          \/ task' = task /\ poll'[p].snap = Snapshot

LEMMA ViewsFromOld == ViewsFrom => Views' \subseteq Views \cup {Current'}
<1> SUFFICES ASSUME ViewsFrom PROVE Views' \subseteq Views \cup {Current'}
  OBVIOUS
<1>1. Last' \in Views
  BY DEF ViewsFrom, Views, Last, View, Nothing
<1>2. ASSUME NEW p \in Pollers
      PROVE  View(poll[p].snap.stamp, poll[p].snap.open)' \in Views \cup {Current'}
  <2>1. CASE poll'[p].snap = poll[p].snap
    BY <2>1 DEF Views, View
  <2>2. CASE poll'[p].snap = NoSnapshot
    BY <2>2 DEF Views, View, Nothing, NoSnapshot
  <2>3. CASE task' = task /\ poll'[p].snap = Snapshot
    BY <2>3 DEF Views, View, Current, Snapshot
  <2> QED BY <2>1, <2>2, <2>3 DEF ViewsFrom
<1>3. Nothing' = Nothing /\ Nothing \in Views
  BY DEF Nothing, View, Views
<1> QED BY <1>1, <1>2, <1>3 DEF Views

EntryKeeps(k) ==
    \/ /\ items'[k] = "none" /\ reply'[k] = "idle"
       /\ k \notin latest' \/ (items[k] = "none" /\ k \in latest)
    \/ /\ items'[k] # "open" /\ (items'[k] = "none" <=> items[k] = "none")
       /\ Ended' /\ reply'[k] = reply[k]
    \/ items'[k] = items[k] /\ (k \in latest' <=> k \in latest) /\ reply'[k] = reply[k]

Quiet ==
    /\ TaskForward /\ ViewsFrom
    /\ reply' = reply \/ reply' = [k \in Keys |-> "idle"]
    /\ \A k \in Keys : EntryKeeps(k)

LEMMA LatestAgrees ==
  ASSUME InboxInv, NEW k \in latest
  PROVE  k \in Keys /\ (k \in task.open \/ task.closed[k] # 0)
<1>1. Agrees(Last) /\ Last.stamp = applied /\ Last.open = latest
  BY DEF InboxInv, ViewsAgree, Views, Last, View
<1>2. applied \in Nat /\ k \in Keys /\ task.closed[k] \in Nat
  BY DEF InboxInv, InboxTypes, FlowInv, FlowTypes, Tasks
<1> QED BY <1>1, <1>2 DEF Agrees

LEMMA EntryForward ==
  ASSUME InboxInv, FlowInv', Ended => Ended', TaskForward, NEW k \in Keys, EntryKeeps(k)
  PROVE  Entry(k)'
<1>1. FlowTypes /\ FlowTypes' /\ AskedOnce /\ Entry(k)
  BY DEF InboxInv, FlowInv, InboxAgrees
<1>2. /\ task.closed[k] # 0 => task'.closed[k] = task.closed[k]
      /\ k \in task.open => k \in task'.open \/ task'.closed[k] # 0
      /\ k \in task'.open => k \in task.open \/ task.closed[k] = 0
  BY <1>1, TaskForwardKeeps
<1>3. task.gone => task'.gone
  BY DEF TaskForward
<1>4. k \in latest => k \in task.open \/ task.closed[k] # 0
  BY LatestAgrees
<1>5. CASE /\ items'[k] = "none" /\ reply'[k] = "idle"
           /\ k \notin latest' \/ (items[k] = "none" /\ k \in latest)
  <2>1. k \in task'.open /\ k \in latest' => k \in task.open /\ k \in latest /\ items[k] = "none"
    BY <1>2, <1>4, <1>5
  <2> QED BY <1>1, <1>2, <1>3, <1>5, <2>1 DEF Entry, Outcomes
<1>6. CASE /\ items'[k] # "open" /\ (items'[k] = "none" <=> items[k] = "none")
           /\ Ended' /\ reply'[k] = reply[k]
  BY <1>1, <1>2, <1>3, <1>6 DEF Entry
<1>7. CASE items'[k] = items[k] /\ (k \in latest' <=> k \in latest) /\ reply'[k] = reply[k]
  BY <1>1, <1>2, <1>3, <1>4, <1>7 DEF Entry, Outcomes
<1> QED BY <1>5, <1>6, <1>7 DEF EntryKeeps

LEMMA QuietKeeps ==
  ASSUME InboxInv, FlowInv', Ended => Ended', Quiet
  PROVE  InboxInv'
<1>1. FlowTypes /\ FlowTypes' /\ InboxTypes /\ AskedOnce /\ ViewsAgree /\ TaskForward /\ ViewsFrom
  BY DEF InboxInv, FlowInv, Quiet
<1>2. InboxTypes'
  <2>1. applied' \in Nat /\ latest' \in SUBSET Keys
    BY <1>1 DEF InboxTypes, ViewsFrom, FlowTypes, Polls, Snapshots
  <2> QED BY <1>1, <2>1 DEF Quiet, InboxTypes
<1>3. AskedOnce'
  BY <1>1, TaskForwardKeeps
<1>4. ViewsAgree'
  BY <1>1, ViewsFromOld, ViewsKeep
<1>5. ASSUME NEW k \in Keys PROVE Entry(k)'
  BY <1>1, EntryForward DEF Quiet
<1> QED BY <1>2, <1>3, <1>4, <1>5 DEF InboxInv, InboxAgrees

\* What the parts of the actions bring into it.
LEMMA TaskIsForward ==
  ASSUME FlowTypes, NEW status \in TaskStatuses \ {"absent"}, NEW open \in SUBSET Keys,
         task' = TaskIs(status, open), \A k \in open \ task.open : task.open = {} /\ task.closed[k] = 0
  PROVE  TaskForward
<1> DEFINE closed == [k \in Keys |-> IF k \in task.open \ open THEN task.stamp + 1 ELSE task.closed[k]]
<1>1. task \in Tasks
  BY DEF FlowTypes
<1>2. task' = [task EXCEPT !.status = status, !.open = open, !.stamp = task.stamp + 1,
                           !.closed = closed]
  BY DEF TaskIs
<1>3. /\ task'.gone = task.gone /\ task'.status # "absent" /\ task'.open = open
      /\ task'.stamp = task.stamp + 1 /\ task'.closed = closed
  <2> HIDE DEF closed
  <2> QED BY <1>1, <1>2 DEF Tasks
<1> QED BY <1>3 DEF TaskForward

LEMMA SameTaskForward == task' = task => TaskForward
  BY DEF TaskForward

LEMMA CancelledForward ==
  ASSUME FlowTypes, task' = Cancelled
  PROVE  TaskForward
<1>1. CASE task' = task
  BY <1>1, SameTaskForward
<1>2. CASE task' = TaskIs("cancelled", {})
  <2>1. "cancelled" \in TaskStatuses \ {"absent"} /\ {} \in SUBSET Keys
    BY DEF TaskStatuses, TaskTerminal
  <2> QED BY <1>2, <2>1, TaskIsForward
<1> QED BY <1>1, <1>2 DEF Cancelled

LEMMA RespondedForward ==
  ASSUME FlowTypes, NEW k \in Keys, k \in task.open, task' = Responded(k)
  PROVE  TaskForward
<1> DEFINE s == IF task.open = {k} THEN "working" ELSE "input_required"
<1>1. s \in TaskStatuses \ {"absent"} /\ task.open \ {k} \in SUBSET Keys
  BY DEF TaskStatuses, Active, FlowTypes, Tasks
<1>2. task' = TaskIs(s, task.open \ {k})
  BY DEF Responded
<1> HIDE DEF s
<1> QED BY <1>1, <1>2, TaskIsForward

LEMMA CommitQuiet ==
  ASSUME FlowTypes, NEW record, NEW entries \in Entries, Commit(record, entries), reply' = reply,
         \A k \in Keys : entries[k] = items[k]
  PROVE  /\ UNCHANGED <<applied, latest>> \/ (applied' = 0 /\ latest' = {})
         /\ \A k \in Keys : EntryKeeps(k)
<1>1. CASE record.state \in RunTerminal
  <2>1. items' = Pruned(entries) /\ applied' = 0 /\ latest' = {} /\ Ended'
    BY <1>1 DEF Commit, Ended
  <2>2. ASSUME NEW k \in Keys PROVE items'[k] # "open" /\ (items'[k] = "none" <=> items[k] = "none")
    BY <2>1 DEF Pruned, Items
  <2> QED BY <2>1, <2>2 DEF EntryKeeps
<1>2. CASE record.state \notin RunTerminal
  BY <1>2 DEF Commit, EntryKeeps
<1> QED BY <1>1, <1>2

SnapsFrom == \A p \in Pollers : \/ poll'[p].snap = poll[p].snap
                                \/ poll'[p].snap = NoSnapshot
                                \/ task' = task /\ poll'[p].snap = Snapshot

LEMMA GoesSnaps ==
  ASSUME FlowTypes, NEW p \in Pollers, NEW phase, Goes(p, phase)
  PROVE  SnapsFrom
  BY DEF FlowTypes, Polls, Goes, SnapsFrom

LEMMA CommitIsQuiet ==
  ASSUME FlowTypes, TaskForward, SnapsFrom, reply' = reply,
         NEW record, NEW entries \in Entries, Commit(record, entries),
         \A k \in Keys : entries[k] = items[k]
  PROVE  Quiet
  BY CommitQuiet DEF Quiet, ViewsFrom, SnapsFrom

LEMMA SameInboxIsQuiet ==
  ASSUME TaskForward, SnapsFrom, UNCHANGED <<applied, latest, reply>>,
         \A k \in Keys : items'[k] = items[k]
  PROVE  Quiet
  BY DEF Quiet, ViewsFrom, SnapsFrom, EntryKeeps

\* A settled approval leaves the entries of the task's requests alone.
LEMMA SettledApproval ==
  ASSUME FlowTypes, NEW e \in {"none", "open", "settling"} \cup Outcomes
  PROVE  /\ Settled(items, Approval, e) \in Entries /\ [items EXCEPT ![Approval] = e] \in Entries
         /\ \A k \in Keys : Settled(items, Approval, e)[k] = items[k]
                            /\ [items EXCEPT ![Approval] = e][k] = items[k]
  BY FlowAssumption DEF FlowTypes, Entries, Items, Settled

LEMMA GoesDownQuiet ==
  ASSUME FlowTypes, GoesDown
  PROVE  Quiet
<1>1. SnapsFrom
  BY DEF GoesDown, SnapsFrom, Idle
<1>2. TaskForward
  BY SameTaskForward DEF GoesDown
<1>3. ASSUME NEW k \in Keys PROVE EntryKeeps(k)
  BY DEF GoesDown, EntryKeeps, Items
<1> QED BY <1>1, <1>2, <1>3 DEF GoesDown, Quiet, ViewsFrom, SnapsFrom

-----------------------------------------------------------------------------
(* The quiet actions. *)

LEMMA TaskMovesQuiet ==
  ASSUME InboxInv, TaskMoves
  PROVE  Quiet
<1>1. FlowTypes /\ OneTask /\ AskedOnce
  BY DEF InboxInv, FlowInv
<1>2. UNCHANGED volatile
  BY DEF TaskMoves, TaskAsks, TaskWithdraws, TaskEnds, TaskExpires
<1>3. ASSUME NEW keys \in SUBSET Keys, TaskAsks(keys) PROVE TaskForward
  <2>1. "input_required" \in TaskStatuses \ {"absent"} /\ task.open = {}
    BY <1>1, <1>3 DEF TaskStatuses, Active, OneTask, TaskAsks
  <2> QED BY <1>1, <1>3, <2>1, TaskIsForward DEF TaskAsks
<1>4. ASSUME NEW status \in {"working"} \cup TaskTerminal, task' = TaskIs(status, {}) PROVE TaskForward
  <2>1. status \in TaskStatuses \ {"absent"} /\ {} \in SUBSET Keys
    BY DEF TaskStatuses, TaskTerminal, Active
  <2> QED BY <1>1, <1>4, <2>1, TaskIsForward
<1>5. ASSUME TaskExpires PROVE TaskForward
  <2>1. task' = [task EXCEPT !.gone = TRUE] /\ task.status # "absent" /\ task \in Tasks
    BY <1>1, <1>5 DEF TaskExpires, FlowTypes
  <2>2. /\ task'.stamp = task.stamp /\ task'.open = task.open /\ task'.closed = task.closed
        /\ task'.status = task.status /\ task'.gone
    BY <2>1 DEF Tasks
  <2> QED BY <2>1, <2>2 DEF TaskForward
<1>6. TaskForward
  <2>1. CASE TaskWithdraws
    BY <1>4, <2>1 DEF TaskWithdraws
  <2>2. CASE \E status \in TaskTerminal : TaskEnds(status)
    BY <1>4, <2>2 DEF TaskEnds
  <2> QED BY <1>3, <1>5, <2>1, <2>2 DEF TaskMoves
<1>7. SnapsFrom
  BY <1>2 DEF SnapsFrom, volatile
<1> QED BY <1>2, <1>6, <1>7, SameInboxIsQuiet DEF volatile

LEMMA AskedQuiet ==
  ASSUME InboxInv, Asked
  PROVE  Quiet \/ \E k \in Keys : Answer(k)
<1> USE DEF others, calls, kept, volatile
<1>1. FlowTypes /\ items \in Entries
  BY DEF InboxInv, FlowInv, FlowTypes
<1>2. CASE \E allowed \in BOOLEAN : Start(allowed)
  <2>1. \A k \in Keys : items'[k] = items[k]
    <3>1. \A k \in Keys : [items EXCEPT ![Approval] = "open"][k] = items[k]
      BY <1>1, SettledApproval
    <3> QED BY <1>2, <3>1 DEF Start
  <2>2. TaskForward /\ SnapsFrom
    BY <1>2, SameTaskForward DEF Start, SnapsFrom
  <2> QED BY <1>2, <2>1, <2>2, SameInboxIsQuiet DEF Start
<1>3. CASE Approve
  <2>1. \A k \in Keys : items'[k] = items[k]
    BY <1>1, <1>3, SettledApproval DEF Approve, Outcomes
  <2>2. TaskForward /\ SnapsFrom
    BY <1>3, SameTaskForward DEF Approve, SnapsFrom
  <2> QED BY <1>3, <2>1, <2>2, SameInboxIsQuiet DEF Approve
<1>4. ASSUME NEW outcome \in {"declined", "cancelled"}, RejectApproval(outcome) PROVE Quiet
  <2>1. TaskForward /\ SnapsFrom /\ reply' = reply
    BY <1>4, SameTaskForward DEF RejectApproval, SnapsFrom
  <2>2. /\ Settled(items, Approval, outcome) \in Entries
        /\ \A k \in Keys : Settled(items, Approval, outcome)[k] = items[k]
    BY <1>1, SettledApproval DEF Outcomes
  <2> QED BY <1>1, <1>4, <2>1, <2>2, CommitIsQuiet DEF RejectApproval
<1>5. CASE CancelRun
  <2>1. TaskForward /\ SnapsFrom /\ reply' = reply
    <3>1. \A p \in Pollers : poll'[p].snap = poll[p].snap
      BY <1>1, <1>5 DEF CancelRun, FlowTypes, Polls
    <3> QED BY <1>5, <3>1, SameTaskForward DEF CancelRun, SnapsFrom
  <2>2. /\ Settled(items, Approval, "cancelled") \in Entries
        /\ \A k \in Keys : Settled(items, Approval, "cancelled")[k] = items[k]
    BY <1>1, SettledApproval DEF Outcomes
  <2>3. CASE Commit(Into("cancelled", "none"), Settled(items, Approval, "cancelled"))
    BY <1>1, <2>1, <2>2, <2>3, CommitIsQuiet
  <2>4. CASE Commit([run EXCEPT !.cancelRequested = TRUE], items)
    BY <1>1, <2>1, <2>4, CommitIsQuiet
  <2>5. CASE UNCHANGED kept
    BY <2>1, <2>5, SameInboxIsQuiet
  <2> QED BY <1>5, <2>3, <2>4, <2>5 DEF CancelRun
<1>6. CASE Dispose
  <2>1. TaskForward /\ SnapsFrom
    BY <1>6, SameTaskForward DEF Dispose, SnapsFrom
  <2> QED BY <1>6, <2>1, SameInboxIsQuiet DEF Dispose
<1> QED BY <1>2, <1>3, <1>4, <1>5, <1>6 DEF Asked

LEMMA LaunchQuiet ==
  ASSUME InboxInv, LaunchStep
  PROVE  Quiet
<1> USE DEF others, kept
<1>1. FlowTypes /\ items \in Entries /\ AskedOnce
  BY DEF InboxInv, FlowInv, FlowTypes
<1>2. SnapsFrom /\ reply' = reply
  <2>1. \A p \in Pollers : poll'[p].snap = poll[p].snap
    BY <1>1 DEF LaunchStep, ClaimAllowed, Authorize, FlowChanged, CreateTask, CallLost, CallFails, Link,
       LinkFails, CancelUnlinked, FailLaunch, FlowTypes, Polls
  <2> QED BY <2>1 DEF LaunchStep, ClaimAllowed, Authorize, FlowChanged, CreateTask, CallLost, CallFails, Link,
       LinkFails, CancelUnlinked, FailLaunch, SnapsFrom
<1>3. CASE ClaimAllowed \/ Authorize \/ LinkFails
  <2>1. TaskForward /\ UNCHANGED kept
    BY <1>3, SameTaskForward DEF ClaimAllowed, Authorize, LinkFails
  <2> QED BY <1>2, <2>1, SameInboxIsQuiet
<1>4. CASE FlowChanged \/ CallFails \/ FailLaunch \/ Link
  <2>1. TaskForward
    BY <1>4, SameTaskForward DEF FlowChanged, CallFails, FailLaunch, Link
  <2>2. CASE Commit(FailedLaunch, items)
    BY <1>1, <1>2, <2>1, <2>2, CommitIsQuiet
  <2>3. CASE Link
    BY <1>1, <1>2, <2>1, <2>3, CommitIsQuiet DEF Link
  <2> QED BY <1>4, <2>2, <2>3 DEF FlowChanged, CallFails, FailLaunch
<1>5. CASE CreateTask \/ CallLost
  <2>1. task.status = "absent" /\ ~task.gone /\ task.open = {}
    BY <1>1, <1>5 DEF CreateTask, CallLost, InboxInv, FlowInv, LaunchAgrees, OneTask, AskedOnce
  <2>2. TaskIs("working", {}) \in Tasks /\ TaskIs("working", {}).gone = task.gone
    <3>1. "working" \in TaskStatuses /\ {} \in SUBSET Keys
      BY DEF TaskStatuses, Active
    <3> QED BY <1>1, <3>1, TaskIsTask DEF TaskIs, FlowTypes, Tasks
  <2>3. task' = TaskIs("working", {})
    BY <1>5, <2>1, <2>2 DEF CreateTask, CallLost, Tasks
  <2>4. "working" \in TaskStatuses \ {"absent"} /\ {} \in SUBSET Keys
    BY DEF TaskStatuses, Active
  <2>5. TaskForward
    BY <1>1, <2>3, <2>4, TaskIsForward
  <2> QED BY <1>2, <1>5, <2>5, SameInboxIsQuiet DEF CreateTask, CallLost
<1>6. CASE CancelUnlinked
  <2>1. TaskForward
    BY <1>1, <1>6, SameTaskForward, CancelledForward DEF CancelUnlinked
  <2> QED BY <1>2, <1>6, <2>1, SameInboxIsQuiet DEF CancelUnlinked
<1> QED BY <1>3, <1>4, <1>5, <1>6 DEF LaunchStep

LEMMA StepFailsQuiet ==
  ASSUME InboxInv, NEW p \in Pollers, StepFails(p), task' = task, reply' = reply
  PROVE  Quiet
<1>1. FlowTypes /\ items \in Entries
  BY DEF InboxInv, FlowInv, FlowTypes
<1>2. SnapsFrom /\ TaskForward
  BY <1>1, GoesSnaps, SameTaskForward DEF StepFails
<1>3. CASE Commit(Into("failed", "other"), items)
  BY <1>1, <1>2, <1>3, CommitIsQuiet
<1>4. CASE UNCHANGED <<run, kept>>
  BY <1>2, <1>4, SameInboxIsQuiet DEF kept
<1> QED BY <1>3, <1>4 DEF StepFails

LEMMA PollQuiet ==
  ASSUME InboxInv, NEW p \in Pollers, PollStep(p) \/ PollFails(p) \/ MissingUnrecorded
  PROVE  Quiet \/ Apply(p)
<1> USE DEF others, kept
<1>1. FlowTypes /\ items \in Entries
  BY DEF InboxInv, FlowInv, FlowTypes
<1>2. CASE TaskMissing(p)
  <2>1. SnapsFrom /\ TaskForward /\ reply' = reply
    BY <1>1, <1>2, GoesSnaps, SameTaskForward DEF TaskMissing, NotFound
  <2>2. PICK record : Commit(record, items)
    BY <1>2 DEF TaskMissing, NotFound
  <2> QED BY <1>1, <2>1, <2>2, CommitIsQuiet
<1>3. CASE CancelTask(p) \/ Abandon(p)
  <2>1. SnapsFrom /\ TaskForward
    BY <1>1, <1>3, GoesSnaps, CancelledForward DEF CancelTask, Abandon
  <2> QED BY <1>3, <2>1, SameInboxIsQuiet DEF CancelTask, Abandon
<1>4. CASE ReadTask(p)
  <2>1. SnapsFrom /\ TaskForward
    BY <1>1, <1>4, SameTaskForward DEF ReadTask, FlowTypes, Polls, SnapsFrom
  <2> QED BY <1>4, <2>1, SameInboxIsQuiet DEF ReadTask
<1>5. CASE Check(p)
  <2>1. \A q \in Pollers : poll'[q].snap = poll[q].snap
    BY <1>1, <1>5 DEF Check, FlowTypes, Polls, Pollers
  <2>2. SnapsFrom /\ TaskForward
    BY <1>5, <2>1, SameTaskForward DEF Check, SnapsFrom
  <2> QED BY <1>5, <2>2, SameInboxIsQuiet DEF Check
<1>6. ASSUME NEW k \in Keys, DeclineURL(p, k) PROVE Quiet
  <2> DEFINE phase == IF URLs(poll[p].snap) \ (urls \cup {k}) = {} THEN Rest(p, FALSE)
                      ELSE "declining"
  <2>1. CASE k \in task.open /\ task' = Responded(k) /\ UNCHANGED <<items, latest, applied, reply>>
             /\ Goes(p, phase)
    <3> HIDE DEF phase
    <3> QED BY <1>1, <2>1, GoesSnaps, RespondedForward, SameInboxIsQuiet
  <2>2. CASE StepFails(p) /\ UNCHANGED <<task, reply>>
    BY <2>2, StepFailsQuiet
  <2> QED BY <1>6, <2>1, <2>2 DEF DeclineURL
<1>7. CASE PollFails(p)
  BY <1>7, StepFailsQuiet DEF PollFails
<1>8. CASE MissingUnrecorded
  <2>1. SnapsFrom /\ TaskForward
    BY <1>1, <1>8, GoesSnaps, SameTaskForward DEF MissingUnrecorded, Pollers
  <2> QED BY <1>8, <2>1, SameInboxIsQuiet DEF MissingUnrecorded
<1> QED BY <1>2, <1>3, <1>4, <1>5, <1>6, <1>7, <1>8 DEF PollStep

LEMMA ProcessQuiet ==
  ASSUME InboxInv, Wake \/ Crash \/ Disposed \/ Restart \/ Recover
  PROVE  Quiet
<1> USE DEF others, kept, calls
<1>1. FlowTypes /\ items \in Entries
  BY DEF InboxInv, FlowInv, FlowTypes
<1>2. CASE Crash \/ Disposed
  BY <1>1, <1>2, GoesDownQuiet DEF Crash, Disposed
<1>3. CASE Wake
  <2>1. SnapsFrom /\ TaskForward
    BY <1>1, <1>3, GoesSnaps, SameTaskForward DEF Wake, Pollers
  <2> QED BY <1>3, <2>1, SameInboxIsQuiet DEF Wake
<1>4. CASE Restart
  <2>1. SnapsFrom /\ TaskForward
    BY <1>4, SameTaskForward DEF Restart, SnapsFrom
  <2> QED BY <1>4, <2>1, SameInboxIsQuiet DEF Restart
<1>5. Watch => SnapsFrom
  <2>1. Watch => \A p \in Pollers : poll'[p].snap = poll[p].snap
    BY <1>1 DEF Watch, FlowTypes, Polls, Pollers
  <2> QED BY <2>1 DEF SnapsFrom
<1>6. poll' = poll => SnapsFrom
  BY DEF SnapsFrom
<1>7. ASSUME NEW record, Resume(record) PROVE SnapsFrom
  BY <1>1, <1>5, <1>7, GoesSnaps DEF Resume, Pollers, Cancellers
<1>8. ASSUME NEW allowed \in BOOLEAN, Scan(allowed) PROVE Quiet
  <2>1. SnapsFrom /\ TaskForward
    BY <1>6, <1>7, <1>8, SameTaskForward DEF Scan
  <2>2. \A k \in Keys : items'[k] = items[k]
    <3>1. \A k \in Keys : [items EXCEPT ![Approval] = "open"][k] = items[k]
      BY <1>1, SettledApproval
    <3> QED BY <1>8, <3>1 DEF Scan
  <2> QED BY <1>8, <2>1, <2>2, SameInboxIsQuiet DEF Scan
<1>9. CASE Find
  <2>1. SnapsFrom /\ TaskForward
    BY <1>6, <1>7, <1>9, SameTaskForward DEF Find
  <2>2. PICK record : Commit(record, items)
    BY <1>9 DEF Find
  <2> QED BY <1>1, <1>9, <2>1, <2>2, CommitIsQuiet DEF Find
<1>10. CASE Launched \/ CancelledAgain
  <2>1. SnapsFrom /\ TaskForward
    BY <1>5, <1>6, <1>10, SameTaskForward DEF Launched, CancelledAgain
  <2> QED BY <1>10, <2>1, SameInboxIsQuiet DEF Launched, CancelledAgain
<1>11. CASE FirstRead
  <2>1. CASE GoesDown
    BY <1>1, <2>1, GoesDownQuiet
  <2>2. CASE UNCHANGED <<run, task, kept, launcher, poll, reply>>
    BY <1>6, <2>2, SameTaskForward, SameInboxIsQuiet
  <2> QED BY <1>11, <2>1, <2>2 DEF FirstRead
<1> QED BY <1>2, <1>3, <1>4, <1>8, <1>9, <1>10, <1>11 DEF Recover

-----------------------------------------------------------------------------
(* Answers. *)

\* A step of one answer: the host's knowledge of the task stays.
LEMMA ReplyKeeps ==
  ASSUME InboxInv, FlowInv', NEW k \in Keys, Answer(k) \/ ReplyStep(k) \/ LoseReply(k)
  PROVE  InboxInv'
<1> USE DEF kept
<1>1. /\ FlowTypes /\ FlowTypes' /\ InboxTypes /\ AskedOnce /\ ViewsAgree /\ Entry(k)
      /\ items \in [Items -> {"none", "open", "settling"} \cup Outcomes] /\ Keys \subseteq Items
  BY DEF InboxInv, FlowInv, InboxAgrees, FlowTypes, Entries, Items
<1>2. UNCHANGED <<run, poll, latest, applied>> /\ (Ended => Ended')
  BY DEF Answer, ReplyStep, Deliver, Refuse, Conclude, LoseReply, Ended
<1>3. task' = task \/ (k \in task.open /\ task' = Responded(k))
  BY DEF Answer, ReplyStep, Deliver, Refuse, Conclude, LoseReply, Awaited
<1>4. TaskForward
  BY <1>1, <1>3, SameTaskForward, RespondedForward
<1>5. /\ AskedOnce'
      /\ task.closed[k] # 0 => task'.closed[k] = task.closed[k]
      /\ k \in task.open => k \in task'.open \/ task'.closed[k] # 0
      /\ k \in task'.open => k \in task.open \/ task.closed[k] = 0
  BY <1>1, <1>4, TaskForwardKeeps
<1>6. ViewsFrom
  BY <1>2 DEF ViewsFrom
<1>7. ViewsAgree'
  BY <1>1, <1>4, <1>6, ViewsFromOld, ViewsKeep
<1>8. InboxTypes'
  <2>1. reply' = reply \/ \E r \in {"idle", "sending", "accepted", "rejected", "lost"} :
                             reply' = [reply EXCEPT ![k] = r]
    BY DEF Answer, ReplyStep, Deliver, Refuse, Conclude, LoseReply
  <2> QED BY <1>1, <1>2, <2>1 DEF InboxTypes
<1>9. ASSUME NEW j \in Keys \ {k} PROVE Entry(j)'
  <2>1. items'[j] = items[j] /\ reply'[j] = reply[j]
    BY <1>1 DEF Answer, ReplyStep, Deliver, Refuse, Conclude, LoseReply, InboxTypes
  <2>2. EntryKeeps(j)
    BY <1>2, <2>1 DEF EntryKeeps
  <2> QED BY <1>2, <1>4, <2>2, EntryForward
<1>10. Entry(k)'
  <2>1. CASE Answer(k)
    <3>1. items[k] = "open" /\ items'[k] = "settling" /\ reply'[k] = "sending" /\ task' = task
      BY <1>1, <2>1 DEF Answer, InboxTypes
    <3> QED BY <1>1, <1>2, <3>1 DEF Entry, Outcomes
  <2>2. CASE Deliver(k)
    <3>1. /\ reply[k] = "sending" /\ reply'[k] = "accepted" /\ items' = items
          /\ k \in task.open /\ task' = Responded(k)
      BY <1>1, <2>2 DEF Deliver, Awaited, InboxTypes
    <3>2. k \notin task'.open
      <4>1. (IF task.open = {k} THEN "working" ELSE "input_required") \in TaskStatuses
            /\ task.open \ {k} \in SUBSET Keys
        BY <1>1 DEF TaskStatuses, Active, FlowTypes, Tasks
      <4>2. task'.open = task.open \ {k}
        BY <1>1, <3>1, <4>1, TaskIsTask DEF Responded
      <4> QED BY <4>2
    <3> QED BY <1>1, <1>2, <1>5, <3>1, <3>2 DEF Entry
  <2>3. CASE Refuse(k)
    <3>1. /\ reply[k] = "sending" /\ reply'[k] = "rejected" /\ items' = items /\ task' = task
          /\ task.gone \/ k \notin task.open
      BY <1>1, <2>3 DEF Refuse, Awaited, InboxTypes
    <3> QED BY <1>1, <1>2, <3>1 DEF Entry
  <2>4. CASE LoseReply(k)
    <3>1. reply[k] = "sending" /\ reply'[k] = "lost" /\ items' = items
      BY <1>1, <2>4 DEF LoseReply, InboxTypes
    <3>2. task.gone => task'.gone
      BY <1>4 DEF TaskForward
    <3>3. k \in latest => k \in task.open \/ task.closed[k] # 0
      BY LatestAgrees
    <3> QED BY <1>1, <1>2, <1>5, <3>1, <3>2, <3>3 DEF Entry, Outcomes
  <2>5. CASE Conclude(k)
    <3>1. /\ reply[k] \in {"accepted", "rejected", "lost"} /\ reply'[k] = "idle" /\ task' = task
          /\ (Ended <=> Ended')
      BY <1>1, <1>2, <2>5 DEF Conclude, InboxTypes, Ended
    <3>2. task.closed[k] # 0 => k \notin task.open
      BY <1>1 DEF AskedOnce
    <3>3. CASE items[k] # "settling"
      <4>1. items' = items
        BY <2>5, <3>3 DEF Conclude
      <4> QED BY <1>1, <1>2, <3>1, <4>1 DEF Entry
    <3>4. CASE items[k] = "settling" /\ reply[k] = "accepted"
      <4>1. items'[k] = "answered"
        BY <1>1, <2>5, <3>4 DEF Conclude
      <4> QED BY <1>1, <1>2, <3>1, <3>2, <3>4, <4>1 DEF Entry
    <3>5. CASE items[k] = "settling" /\ reply[k] = "rejected"
      <4>1. items'[k] = "withdrawn"
        BY <1>1, <2>5, <3>5 DEF Conclude
      <4> QED BY <1>1, <1>2, <3>1, <3>2, <3>5, <4>1 DEF Entry
    <3>6. CASE items[k] = "settling" /\ reply[k] = "lost"
      <4>1. items'[k] = Reopened(k)
        BY <1>1, <2>5, <3>6 DEF Conclude
      <4>2. CASE Ended \/ k \notin latest
        BY <1>1, <1>2, <3>1, <3>6, <4>1, <4>2 DEF Entry, Reopened
      <4>3. CASE ~(Ended \/ k \notin latest)
        BY <1>1, <1>2, <3>1, <3>6, <4>1, <4>3 DEF Entry, Reopened, Outcomes
      <4> QED BY <4>2, <4>3
    <3> QED BY <3>1, <3>3, <3>4, <3>5, <3>6
  <2> QED BY <2>1, <2>2, <2>3, <2>4, <2>5 DEF ReplyStep
<1> QED BY <1>5, <1>7, <1>8, <1>9, <1>10 DEF InboxInv, InboxAgrees

-----------------------------------------------------------------------------
(* Snapshots. *)

\* A snapshot that is applied may be older than the task is by now; it is not older
\* than the one applied before.
LEMMA ApplyKeeps ==
  ASSUME InboxInv, FlowInv', NEW p \in Pollers, Apply(p)
  PROVE  InboxInv'
<1> DEFINE snap == poll[p].snap
<1>1. /\ FlowTypes /\ FlowTypes' /\ InboxTypes /\ AskedOnce /\ ViewsAgree /\ InboxAgrees
      /\ items \in Entries
  BY DEF InboxInv, FlowInv, FlowTypes
<1>2. UNCHANGED <<task, reply>> /\ ApplySnapshot(snap) /\ SnapsFrom
  BY <1>1, GoesSnaps DEF Apply
<1>3. TaskForward
  BY <1>2, SameTaskForward
<1>4. Mapped(snap).state = run.state \/ ~Ended
  BY DEF Mapped, Into
<1>5. CASE ~Accepted(snap)
  <2>1. Commit(run, items)
    BY <1>2, <1>5 DEF ApplySnapshot
  <2>2. Quiet /\ (Ended => Ended')
    BY <1>1, <1>2, <1>3, <2>1, CommitIsQuiet DEF Commit, Ended
  <2> QED BY <2>2, QuietKeeps
<1>6. CASE Accepted(snap) /\ Mapped(snap).state \in RunTerminal
  <2>1. Commit(Mapped(snap), items)
    BY <1>2, <1>6 DEF ApplySnapshot
  <2>2. Quiet /\ (Ended => Ended')
    BY <1>1, <1>2, <1>3, <1>6, <2>1, CommitIsQuiet DEF Commit, Ended
  <2> QED BY <2>2, QuietKeeps
<1>7. CASE Accepted(snap) /\ Mapped(snap).state \notin RunTerminal
  <2>1. /\ items' = Reconciled(snap) /\ latest' = snap.open /\ applied' = snap.stamp
        /\ applied <= snap.stamp /\ ~Ended
    BY <1>1, <1>2, <1>7 DEF ApplySnapshot, Accepted, InboxTypes, FlowTypes, Polls, Snapshots
  <2>2. ViewsFrom
    BY <1>2, <2>1 DEF ViewsFrom, SnapsFrom
  <2>3. ViewsAgree' /\ AskedOnce'
    BY <1>1, <1>3, <2>2, ViewsFromOld, ViewsKeep, TaskForwardKeeps
  <2>4. InboxTypes'
    BY <1>1, <1>2, <2>1 DEF InboxTypes, FlowTypes, Polls, Snapshots
  <2>5. latest \cap task.open \subseteq snap.open
    <3>1. Last \in Views /\ View(snap.stamp, snap.open) \in Views
      BY DEF Views
    <3>2. InOrder(Last, View(snap.stamp, snap.open))
      BY <1>1, <3>1 DEF ViewsAgree
    <3> QED BY <2>1, <3>2 DEF InOrder, Last, View
  <2>6. \A k \in snap.open : k \in task.open \/ task.closed[k] # 0
    <3>1. View(snap.stamp, snap.open) \in Views
      BY DEF Views
    <3>2. Agrees(View(snap.stamp, snap.open))
      BY <1>1, <3>1 DEF ViewsAgree
    <3>3. snap.stamp \in Nat /\ snap.open \in SUBSET Keys /\ \A k \in Keys : task.closed[k] \in Nat
      BY <1>1 DEF FlowTypes, Polls, Snapshots, Tasks
    <3> QED BY <3>2, <3>3 DEF Agrees, View
  <2>7. ASSUME NEW k \in Keys PROVE Entry(k)'
    <3>1. Entry(k) /\ k \in Items /\ items[k] \in {"none", "open", "settling"} \cup Outcomes
      BY <1>1 DEF InboxAgrees, Items, Entries
    <3>2. items'[k] = CASE items[k] = "open" /\ k \in Keys \ snap.open -> "withdrawn"
                        [] items[k] = "none" /\ k \in snap.open /\ Kind[k] = "form" -> "open"
                        [] OTHER -> items[k]
      BY <2>1, <3>1 DEF Reconciled
    <3> HIDE DEF snap
    <3>3. CASE items[k] = "open" /\ k \notin snap.open
      <4>1. items'[k] = "withdrawn"
        BY <3>2, <3>3
      <4>2. k \notin task.open
        BY <2>5, <3>1, <3>3 DEF Entry
      <4> QED BY <1>2, <2>1, <3>1, <3>3, <4>1, <4>2 DEF Entry
    <3>4. CASE items[k] = "none" /\ k \in snap.open /\ Kind[k] = "form"
      <4>1. items'[k] = "open"
        BY <3>2, <3>4
      <4> QED BY <1>2, <2>1, <2>6, <3>1, <3>4, <4>1 DEF Entry, Outcomes
    <3>5. CASE /\ ~(items[k] = "open" /\ k \notin snap.open)
               /\ ~(items[k] = "none" /\ k \in snap.open /\ Kind[k] = "form")
      <4>1. items'[k] = items[k]
        BY <3>2, <3>5
      <4>2. k \in task.open /\ k \in latest => k \in snap.open
        BY <2>5
      <4> QED BY <1>2, <2>1, <3>1, <3>5, <4>1, <4>2 DEF Entry
    <3> QED BY <3>3, <3>4, <3>5
  <2> QED BY <2>3, <2>4, <2>7 DEF InboxInv, InboxAgrees
<1> QED BY <1>5, <1>6, <1>7

-----------------------------------------------------------------------------
LEMMA InboxStep ==
  ASSUME InboxInv, [Next]_vars
  PROVE  InboxInv'
<1>1. FlowInv /\ FlowInv' /\ (Ended => Ended')
  BY FlowStep, EndedStays DEF InboxInv
<1>2. ASSUME Quiet PROVE InboxInv'
  BY <1>1, <1>2, QuietKeeps
<1>3. CASE TaskMoves \/ LaunchStep \/ Wake \/ Crash \/ Disposed \/ Restart \/ Recover
  BY <1>2, <1>3, TaskMovesQuiet, LaunchQuiet, ProcessQuiet
<1>4. CASE Asked
  BY <1>1, <1>2, <1>4, AskedQuiet, ReplyKeeps
<1>5. ASSUME NEW p \in Pollers, PollStep(p) \/ PollFails(p) \/ MissingUnrecorded PROVE InboxInv'
  BY <1>1, <1>2, <1>5, PollQuiet, ApplyKeeps
<1>6. ASSUME NEW k \in Keys, ReplyStep(k) \/ LoseReply(k) PROVE InboxInv'
  BY <1>1, <1>6, ReplyKeeps
<1>7. CASE UNCHANGED vars
  <2>1. TaskForward /\ SnapsFrom
    BY <1>7, SameTaskForward DEF vars, volatile, SnapsFrom
  <2> QED BY <1>2, <1>7, <2>1, SameInboxIsQuiet DEF vars, volatile
<1> QED BY <1>3, <1>4, <1>5, <1>6, <1>7 DEF Next, Pollers

LEMMA InboxInit == Init => InboxInv
<1> SUFFICES ASSUME Init PROVE InboxInv
  OBVIOUS
<1>1. /\ task.stamp = 0 /\ task.open = {} /\ task.closed = [k \in Keys |-> 0]
      /\ task.status = "absent" /\ task.gone = FALSE
      /\ latest = {} /\ applied = 0 /\ items = [i \in Items |-> "none"]
      /\ reply = [k \in Keys |-> "idle"] /\ poll = [p \in Pollers |-> Idle]
  BY DEF Init, Fresh
<1>2. InboxTypes /\ AskedOnce
  BY <1>1 DEF InboxTypes, AskedOnce
<1>3. \A v \in Views : v.stamp = 0 /\ v.open = {}
  BY <1>1 DEF Views, View, Nothing, Current, Last, Idle, NoSnapshot
<1>4. ViewsAgree
  BY <1>1, <1>3 DEF ViewsAgree, Agrees, InOrder
<1>5. InboxAgrees
  BY <1>1 DEF InboxAgrees, Entry, Items
<1> QED BY <1>2, <1>4, <1>5, FlowInit DEF InboxInv

\* The views the host has of the task tell its past in order, whichever polls, crashes and lost
\* answers they went through, and the inbox agrees with the last one applied.
THEOREM InboxInvariant == Spec => []InboxInv
<1>1. Init => InboxInv
  BY InboxInit
<1>2. InboxInv /\ [Next]_vars => InboxInv'
  BY InboxStep
<1> QED BY <1>1, <1>2, PTL DEF Spec

\* A step that brings nothing into the inbox offers nothing again, an answer changes an entry
\* that is not settled, and a snapshot adds only what has never been there.
LEMMA OfferedOnce ==
  ASSUME InboxInv, [Next]_vars
  PROVE  [NothingOfferedAgain]_vars
<1> SUFFICES ASSUME NEW k \in Keys, items[k] \in Outcomes, items'[k] = "open", items' # items
             PROVE  FALSE
  BY DEF NothingOfferedAgain, Outcomes
<1>1. FlowTypes /\ items \in Entries /\ k \in Items /\ items[k] \notin {"none", "open", "settling"}
  BY DEF InboxInv, FlowInv, FlowTypes, Items, Outcomes
<1>2. ~Quiet
  BY <1>1 DEF Quiet, EntryKeeps
<1>3. ASSUME NEW p \in Pollers, Apply(p) PROVE FALSE
  <2>1. PICK snap : snap = poll[p].snap
    OBVIOUS
  <2>2. TaskForward /\ SnapsFrom /\ reply' = reply
    BY <1>1, <1>3, GoesSnaps, SameTaskForward DEF Apply
  <2>3. ASSUME NEW record, Commit(record, items) PROVE FALSE
    BY <1>1, <1>2, <2>2, <2>3, CommitIsQuiet
  <2>4. items' = Reconciled(snap)
    BY <1>3, <2>1, <2>3 DEF Apply, ApplySnapshot
  <2> QED BY <1>1, <2>4 DEF Reconciled
<1>4. ASSUME NEW j \in Keys, Answer(j) \/ ReplyStep(j) \/ LoseReply(j) PROVE FALSE
  <2>1. CASE Answer(j)
    BY <1>1, <2>1 DEF Answer, Entries
  <2>2. CASE Conclude(j)
    BY <1>1, <2>2 DEF Conclude, Entries
  <2>3. CASE Deliver(j) \/ Refuse(j) \/ LoseReply(j)
    BY <1>1, <2>3 DEF Deliver, Refuse, LoseReply, kept
  <2> QED BY <1>4, <2>1, <2>2, <2>3 DEF ReplyStep
<1>5. CASE TaskMoves \/ Asked \/ LaunchStep \/ Wake \/ Crash \/ Disposed \/ Restart \/ Recover
  BY <1>2, <1>4, <1>5, TaskMovesQuiet, AskedQuiet, LaunchQuiet, ProcessQuiet
<1>6. ASSUME NEW p \in Pollers, PollStep(p) \/ PollFails(p) \/ MissingUnrecorded PROVE FALSE
  BY <1>2, <1>3, <1>6, PollQuiet
<1>7. CASE UNCHANGED vars
  BY <1>7 DEF vars, volatile
<1> QED BY <1>4, <1>5, <1>6, <1>7 DEF Next, Pollers

\* The inbox offers what the task asks for, as far as the host has applied it, never what the
\* task has given up, and nothing a second time, whatever order snapshots and answers arrive in.
THEOREM InboxFollowsTask == Spec => InboxMatchesTask
<1>1. InboxInv => OffersWhatIsAsked
  BY InboxInvMatches
<1>2. InboxInv /\ [Next]_vars => [NothingOfferedAgain]_vars
  BY OfferedOnce
<1> QED BY <1>1, <1>2, InboxInvariant, PTL DEF Spec, InboxMatchesTask

=============================================================================
