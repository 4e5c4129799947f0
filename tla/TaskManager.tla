----------------------------- MODULE TaskManager -----------------------------
(***************************************************************************)
(* The task manager of a context server and its task store: ManagedTasks   *)
(* over one TaskRecord.  Nothing in the code relates two tasks, so one     *)
(* task is the system.                                                     *)
(*                                                                         *)
(* Every operation is #mutate: read the record, compute a patch, write it  *)
(* if the revision is still the one read, tell the listeners.  Each of     *)
(* these is a step of its own here, an OPERATION being one of the slots    *)
(* Ops.  The server may crash between any two steps; only the record       *)
(* survives.  Store errors, committed or not, are bounded by MaxFaults,    *)
(* crashes by MaxCrashes, status updates (which change the revision only)  *)
(* by MaxTouches less the errors and crashes that came before.             *)
(***************************************************************************)
EXTENDS Integers, FiniteSets, SequencesExt

CONSTANTS Payloads,        \* input requests the work may make
          Keys,            \* keys of the single requests in a payload
          KeysOf,          \* the keys of each payload
          Values,          \* answers a client may send for a key
          NoValue, NoPayload, NoRecord,   \* absence of an answer, a payload, a record
          Supported,       \* payloads the client declared the capabilities for
          Ops,             \* operations that may be under way at once
          Holds,           \* the kinds of operation each of these slots may hold
          Recoverers,      \* concurrent calls of recover()
          RecoverGiven,    \* whether the manager after a crash is given a recover callback
          HasTTL,          \* tasks expire
          SettleAttempts,  \* how often the outcome of the work is written
          MaxFaults, MaxCrashes, MaxTouches

ASSUME ManagerAssumption ==
    /\ KeysOf \in [Payloads -> (SUBSET Keys) \ {{}}]
    /\ NoValue \notin Values
    /\ Supported \subseteq Payloads
    /\ NoPayload \notin Payloads
    /\ RecoverGiven \in (SUBSET BOOLEAN) \ {{}} /\ HasTTL \in BOOLEAN
    /\ SettleAttempts \in Nat \ {0}

VARIABLES
    rec,        \* the TaskRecord in the store, or NoRecord
    created,    \* the task was stored once
    creating,   \* create() has stored the record and not yet attached the work
    op,         \* the operations under way
    worker,     \* the work: none, running, settling (its outcome is being written), ended
    attempts,   \* attempts to write the outcome
    ctl,        \* the AbortController: none, live, released (finished), aborted
    ready,      \* #ready has resolved
    hidden,     \* the task is in #hidden
    recovering, \* the task is in #recovering
    recoverer,  \* where each call of recover() stands
    expired,    \* the TTL has passed
    expiring,   \* #expire has deleted the record and not yet told anyone
    disposed,   \* #disposed
    faults, lostAcks, crashes, touches   \* how often each bounded event happened

opVars     == <<op, worker, attempts, ctl>>
bootVars   == <<ready, hidden, recovering, recoverer>>
expiryVars == <<expired, expiring>>
boundVars  == <<faults, lostAcks, crashes, touches>>
vars == <<rec, created, creating, op, worker, attempts, ctl, ready, hidden, recovering,
          recoverer, expired, expiring, disposed, faults, lostAcks, crashes, touches>>

-----------------------------------------------------------------------------
(* Records, and the operations that may be under way on them. *)

Terminal == {"completed", "failed", "cancelled"}
Statuses == {"working", "input_required"} \cup Terminal
Outcomes == {"open", "answered", "withdrawn"}

Replies == [Keys -> Values \cup {NoValue}]
NoReply == [k \in Keys |-> NoValue]
Given   == {g \in Replies : g # NoReply}

Entries == [payload : Payloads, responses : Replies, outcome : Outcomes]
Records == [revision : Nat, status : Statuses, inputs : Seq(Entries)]

ASSUME NoRecordAssumption == NoRecord \notin Records

NewRecord == [revision |-> 0, status |-> "working", inputs |-> <<>>]

IsTerminal(r) == r.status \in Terminal
IsActive(r)   == r # NoRecord /\ r.status \notin Terminal

\* openInput: the latest entry, when status and outcome both say it is open.
HasOpen(r) ==
    /\ r.status = "input_required"
    /\ r.inputs # <<>>
    /\ Last(r.inputs).outcome = "open"

Settles == {"complete", "fail"}
Kinds   == {"complete", "fail", "cancel", "cancelFromHandle", "interrupt", "touch", "ask", "answer",
            "withdraw"}

Idle == [kind |-> "idle", phase |-> "idle", payload |-> NoPayload, given |-> NoReply,
         id |-> 0, record |-> NoRecord, signalled |-> FALSE]

Free(o)    == op[o].phase = "idle"
Waits(x)   == x.phase \in {"waitRead", "waitSleep", "wait"}
Waiting(o) == Waits(op[o])

Init ==
    /\ rec = NoRecord
    /\ created = FALSE /\ creating = FALSE
    /\ op = [o \in Ops |-> Idle]
    /\ worker = "none" /\ attempts = 0 /\ ctl = "none"
    /\ ready = TRUE /\ hidden = FALSE /\ recovering = FALSE
    /\ recoverer = [c \in Recoverers |-> "idle"]
    /\ expired = FALSE /\ expiring = FALSE /\ disposed = FALSE
    /\ faults = 0 /\ lostAcks = 0 /\ crashes = 0 /\ touches = 0

-----------------------------------------------------------------------------
(* The change callbacks: what each operation makes of the record it read.  *)
(* Wanted is the case in which the callback returns a patch.               *)

\* The entry of r that asked exactly this payload, as a set.
Same(r, p) == {i \in DOMAIN r.inputs : r.inputs[i].payload = p}

\* Some key of payload p was issued before, in other company.
Reused(r, p) == \E i \in DOMAIN r.inputs : KeysOf[r.inputs[i].payload] \cap KeysOf[p] # {}

CanAsk(r, p) ==
    /\ Same(r, p) = {}
    /\ ~Reused(r, p)
    /\ ~HasOpen(r)
    /\ p \in Supported

\* Every key sent is one the open request still waits for.
Fits(r, given) ==
    /\ HasOpen(r)
    /\ \A k \in Keys : given[k] # NoValue =>
          k \in KeysOf[Last(r.inputs).payload] /\ Last(r.inputs).responses[k] = NoValue

Merged(old, given) == [k \in Keys |-> IF given[k] # NoValue THEN given[k] ELSE old[k]]

\* The latest entry with the answers added, closed when they are complete.
Answered(entry, given) ==
    LET merged == Merged(entry.responses, given)
        closes == \A k \in KeysOf[entry.payload] : merged[k] # NoValue
    IN  [entry EXCEPT !.responses = merged, !.outcome = IF closes THEN "answered" ELSE @]

SettleLatest(r, entry) == [r.inputs EXCEPT ![Len(r.inputs)] = entry]

WithdrawnInputs(r) == SettleLatest(r, [Last(r.inputs) EXCEPT !.outcome = "withdrawn"])

Withdrawn(r) == [r EXCEPT !.status = "working", !.inputs = WithdrawnInputs(r)]

Wanted(x, r) ==
    CASE x.kind \in Settles \cup {"cancel", "interrupt"} -> ~IsTerminal(r)
      [] x.kind = "cancelFromHandle" -> ~IsTerminal(r) /\ ctl # "aborted" /\ ~disposed
      [] x.kind = "touch"    -> ~IsTerminal(r) /\ ctl # "aborted"
      [] x.kind = "ask"      -> ~IsTerminal(r) /\ ctl # "aborted" /\ CanAsk(r, x.payload)
      [] x.kind = "answer"   -> Fits(r, x.given)
      [] x.kind = "withdraw" -> HasOpen(r) /\ Len(r.inputs) = x.id
      [] OTHER               -> FALSE

StatusFor(x) ==
    CASE x.kind = "complete" -> "completed"
      [] x.kind \in {"fail", "interrupt"} -> "failed"
      [] OTHER -> "cancelled"

Patched(x, r) ==
    CASE x.kind = "ask" ->
           [r EXCEPT !.status = "input_required",
                     !.inputs = Append(@, [payload |-> x.payload, responses |-> NoReply,
                                           outcome |-> "open"])]
      [] x.kind = "answer" ->
           LET entry == Answered(Last(r.inputs), x.given)
           IN  [r EXCEPT !.status = IF entry.outcome = "answered" THEN "working" ELSE @,
                         !.inputs = SettleLatest(r, entry)]
      [] x.kind = "withdraw" -> Withdrawn(r)
      [] x.kind = "touch" -> r
      [] OTHER -> [r EXCEPT !.status = StatusFor(x)]

-----------------------------------------------------------------------------
(* Waiters: #waitForOutcome resolves from committed records only. *)

\* A record that ends the wait on entry id: gone, the entry settled, or the task ended.
Decides(r, id) ==
    \/ r = NoRecord
    \/ id \in DOMAIN r.inputs /\ r.inputs[id].outcome # "open"
    \/ IsTerminal(r)

\* A requestInput starts to wait for entry id; a disposed manager refuses it at once.
StartsWaiting(x, id) ==
    IF disposed THEN Idle
    ELSE [x EXCEPT !.phase = "waitRead", !.record = NoRecord, !.id = id]

\* #notify: every listener checks the record.
Told(ops, r) ==
    [o \in Ops |-> IF Waits(ops[o]) /\ Decides(r, ops[o].id) THEN Idle ELSE ops[o]]

\* The controller's abort rejects every waiter that listens to it.
Aborted(ops) ==
    [o \in Ops |-> IF Waits(ops[o]) THEN Idle ELSE ops[o]]

\* #abort: a controller already removed from #controllers is not aborted.
AbortedIfLive(ops) == IF ctl = "live" THEN Aborted(ops) ELSE ops
CtlAborted         == IF ctl = "live" THEN "aborted" ELSE ctl
CtlReleased(c)     == IF c = "live" THEN "released" ELSE c

-----------------------------------------------------------------------------
(* Starting an operation. *)

Begin(o, x) ==
    /\ x.kind \in Holds[o]
    /\ op' = [op EXCEPT ![o] = [x EXCEPT !.phase = "read"]]

\* create: the record is stored, then the work attached unless disposed meanwhile.
CreateRecord ==
    /\ ready /\ ~disposed /\ ~created
    /\ rec' = NewRecord
    /\ created' = TRUE
    /\ creating' = TRUE
    /\ UNCHANGED <<opVars, bootVars, expiryVars, disposed, boundVars>>

Attach == worker' = "running" /\ attempts' = 0 /\ ctl' = "live"

\* The store commits the record and rejects all the same: create() throws, no work is
\* attached (worker "ended") and nobody learns the id, so creating stays.
CreateAckLost ==
    /\ ready /\ ~disposed /\ ~created
    /\ faults + lostAcks < MaxFaults
    /\ lostAcks' = lostAcks + 1
    /\ rec' = NewRecord
    /\ created' = TRUE /\ creating' = TRUE
    /\ worker' = "ended"
    /\ UNCHANGED <<op, attempts, ctl, bootVars, expiryVars, disposed, faults, crashes, touches>>

AttachCreated ==
    /\ creating /\ worker = "none"
    /\ creating' = FALSE
    /\ IF disposed THEN UNCHANGED <<worker, attempts, ctl>> ELSE Attach
    /\ UNCHANGED <<rec, created, op, bootVars, expiryVars, disposed, boundVars>>

\* #visible, for the owner of the task, who learns its id when create returns.
Visible == ready /\ ~creating /\ rec # NoRecord /\ ~hidden

BeginAnswer(o, given) ==
    /\ Free(o) /\ Visible
    /\ Begin(o, [Idle EXCEPT !.kind = "answer", !.given = given])
    /\ UNCHANGED <<rec, created, creating, worker, attempts, ctl, bootVars, expiryVars, disposed,
                   boundVars>>

BeginCancel(o) ==
    /\ Free(o) /\ Visible
    /\ Begin(o, [Idle EXCEPT !.kind = "cancel"])
    /\ UNCHANGED <<rec, created, creating, worker, attempts, ctl, bootVars, expiryVars, disposed,
                   boundVars>>

\* The handle: requestInput and awaitInput, setStatus and checkpoint, cancel.
BeginAsk(o, p) ==
    /\ Free(o) /\ worker = "running" /\ ctl # "aborted"
    /\ Begin(o, [Idle EXCEPT !.kind = "ask", !.payload = p])
    /\ UNCHANGED <<rec, created, creating, worker, attempts, ctl, bootVars, expiryVars, disposed,
                   boundVars>>

BeginTouch(o) ==
    /\ Free(o) /\ worker = "running" /\ ctl # "aborted"
    /\ touches + crashes + faults < MaxTouches
    /\ touches' = touches + 1
    /\ Begin(o, [Idle EXCEPT !.kind = "touch"])
    /\ UNCHANGED <<rec, created, creating, worker, attempts, ctl, bootVars, expiryVars, disposed,
                   faults, lostAcks, crashes>>

BeginCancelFromHandle(o) ==
    /\ Free(o) /\ worker = "running" /\ ctl # "aborted" /\ ~disposed
    /\ Begin(o, [Idle EXCEPT !.kind = "cancelFromHandle"])
    /\ UNCHANGED <<rec, created, creating, worker, attempts, ctl, bootVars, expiryVars, disposed,
                   boundVars>>

\* The work returns or throws: its outcome is written unless it was aborted.
WorkEnds(o, how) ==
    /\ Free(o) /\ worker = "running"
    /\ IF ctl = "aborted" \/ disposed
       THEN /\ worker' = "ended"
            /\ UNCHANGED <<op, attempts>>
       ELSE /\ worker' = "settling"
            /\ attempts' = 1
            /\ Begin(o, [Idle EXCEPT !.kind = how])
    /\ ctl' = IF worker' = "ended" THEN CtlReleased(ctl) ELSE ctl
    /\ UNCHANGED <<rec, created, creating, bootVars, expiryVars, disposed, boundVars>>

\* The signal given to requestInput aborts: the open request is withdrawn, unless the
\* manager is disposed.
AbortAsk(o, w) ==
    /\ Waiting(o) /\ ~op[o].signalled
    /\ Free(w) /\ "withdraw" \in Holds[w]
    /\ op' = [op EXCEPT ![o].signalled = TRUE,
                        ![w] = IF disposed THEN @
                               ELSE [Idle EXCEPT !.kind = "withdraw", !.phase = "read",
                                                 !.id = op[o].id]]
    /\ UNCHANGED <<rec, created, creating, worker, attempts, ctl, bootVars, expiryVars, disposed,
                   boundVars>>

-----------------------------------------------------------------------------
(* The steps of an operation under way. *)

\* The operation is over: what its kind leaves behind, ops being the slots so far.
Finish(o, ops, c) ==
    /\ op' = [ops EXCEPT ![o] = Idle]
    /\ worker' = IF op[o].kind \in Settles THEN "ended" ELSE worker
    /\ ctl' = IF op[o].kind \in Settles THEN CtlReleased(c) ELSE c
    /\ IF op[o].kind = "interrupt"
       THEN /\ hidden' = FALSE /\ ready' = TRUE /\ recovering' = FALSE
            /\ recoverer' = [x \in Recoverers |->
                               IF recoverer[x] = "interrupting" THEN "idle" ELSE recoverer[x]]
       ELSE UNCHANGED bootVars

\* store.get resolves and the change callback runs on what it returned.
Read(o) ==
    /\ op[o].phase = "read"
    /\ IF rec # NoRecord /\ Wanted(op[o], rec)
       THEN /\ op' = [op EXCEPT ![o].phase = "write", ![o].record = Patched(op[o], rec)]
            /\ UNCHANGED <<worker, ctl, bootVars>>
       ELSE IF rec # NoRecord /\ op[o].kind = "ask" /\ ~IsTerminal(rec) /\ ctl # "aborted"
               /\ Same(rec, op[o].payload) # {}
            THEN /\ \E i \in Same(rec, op[o].payload) :
                      op' = [op EXCEPT ![o] = StartsWaiting(@, i)]
                 /\ UNCHANGED <<worker, ctl, bootVars>>
            ELSE Finish(o, op, ctl)
    /\ UNCHANGED <<rec, created, creating, attempts, expiryVars, disposed, boundVars>>

Committed(o) == [op[o].record EXCEPT !.revision = @ + 1]

\* Fault: the write is not conditional on the revision.
WriteBlindly(o) ==
    /\ op[o].phase = "write"
    /\ IF rec = NoRecord
       THEN Finish(o, op, ctl) /\ UNCHANGED rec
       ELSE /\ rec' = Committed(o)
            /\ op' = [op EXCEPT ![o].phase = "notify", ![o].record = Committed(o)]
            /\ UNCHANGED <<worker, ctl, bootVars>>
    /\ UNCHANGED <<created, creating, attempts, expiryVars, disposed, boundVars>>

\* store.update: committed, refused by the revision (the loop reads again), or the
\* record is gone.
Write(o) ==
    /\ op[o].phase = "write"
    /\ IF rec = NoRecord
       THEN Finish(o, op, ctl) /\ UNCHANGED rec
       ELSE /\ IF rec.revision = op[o].record.revision
               THEN /\ rec' = Committed(o)
                    /\ op' = [op EXCEPT ![o].phase = "notify", ![o].record = Committed(o)]
               ELSE /\ op' = [op EXCEPT ![o].phase = "read", ![o].record = NoRecord]
                    /\ UNCHANGED rec
            /\ UNCHANGED <<worker, ctl, bootVars>>
    /\ UNCHANGED <<created, creating, attempts, expiryVars, disposed, boundVars>>

\* Fault: only the handle's own cancellation aborts the work.
CancelsFromHandle(x) == x.kind = "cancelFromHandle"

Cancels(x) == x.kind \in {"cancel", "cancelFromHandle"}

\* The write has resolved: committed() and then the listeners run, on the record
\* this operation wrote, and a requestInput starts to wait.
Notify(o) ==
    /\ op[o].phase = "notify"
    /\ LET c   == IF Cancels(op[o]) THEN CtlAborted ELSE ctl
           ops == Told(IF Cancels(op[o]) THEN AbortedIfLive(op) ELSE op, op[o].record)
       IN  IF op[o].kind = "ask" /\ ctl # "aborted"
           THEN /\ op' = [ops EXCEPT ![o] = StartsWaiting(op[o], Len(op[o].record.inputs))]
                /\ UNCHANGED <<worker, ctl, bootVars>>
           ELSE Finish(o, ops, c)
    /\ UNCHANGED <<rec, created, creating, attempts, expiryVars, disposed, boundVars>>

\* The read a waiter makes once its listener is registered.
WaiterReads(o) ==
    /\ op[o].phase = "waitRead"
    /\ op' = [op EXCEPT ![o] = IF Decides(rec, @.id) THEN Idle ELSE [@ EXCEPT !.phase = "wait"]]
    /\ UNCHANGED <<rec, created, creating, worker, attempts, ctl, bootVars, expiryVars, disposed,
                   boundVars>>

\* A failed read is tried again after a pause, unless the manager was disposed meanwhile.
WaiterReadFails(o) ==
    /\ op[o].phase = "waitRead"
    /\ faults + lostAcks < MaxFaults
    /\ faults' = faults + 1
    /\ op' = [op EXCEPT ![o].phase = "waitSleep"]
    /\ UNCHANGED <<rec, created, creating, worker, attempts, ctl, bootVars, expiryVars, disposed,
                   lostAcks, crashes, touches>>

\* Fault: a waiter whose read failed waits for the listeners only.
WaiterGivesUp(o) ==
    /\ op[o].phase = "waitSleep"
    /\ op' = [op EXCEPT ![o].phase = "wait"]
    /\ UNCHANGED <<rec, created, creating, worker, attempts, ctl, bootVars, expiryVars, disposed,
                   boundVars>>

WaiterRetries(o) ==
    /\ op[o].phase = "waitSleep"
    /\ op' = [op EXCEPT ![o] = StartsWaiting(@, @.id)]
    /\ UNCHANGED <<rec, created, creating, worker, attempts, ctl, bootVars, expiryVars, disposed,
                   boundVars>>

AttemptsLeft == attempts < SettleAttempts

\* #withdraw goes on until it is written or the manager is disposed.
WithdrawRetries == ~disposed

\* A #ready that was rejected stays so: until a restart the slot shows what was tried.
InterruptOver == [Idle EXCEPT !.kind = IF ready THEN "idle" ELSE "interrupt"]

\* The store rejects: what each caller of #mutate does about it.
Failed(o) ==
    IF op[o].kind \in Settles /\ IsActive(rec) /\ ctl # "aborted" /\ ~disposed
       /\ AttemptsLeft
    THEN /\ op' = [op EXCEPT ![o].phase = "read", ![o].record = NoRecord]
         /\ attempts' = attempts + 1
         /\ UNCHANGED <<worker, ctl, bootVars>>
    ELSE IF op[o].kind = "withdraw" /\ WithdrawRetries
    THEN /\ op' = [op EXCEPT ![o].phase = "read", ![o].record = NoRecord]
         /\ UNCHANGED <<worker, attempts, ctl, bootVars>>
    ELSE IF op[o].kind = "interrupt"
    THEN /\ op' = [op EXCEPT ![o] = InterruptOver]
         /\ recovering' = FALSE
         /\ recoverer' = [x \in Recoverers |->
                            IF recoverer[x] = "interrupting" THEN "idle" ELSE recoverer[x]]
         /\ UNCHANGED <<worker, attempts, ctl, ready, hidden>>
    ELSE Finish(o, op, ctl) /\ UNCHANGED attempts

StoreFails(o) ==
    /\ op[o].phase \in {"read", "write"}
    /\ faults + lostAcks < MaxFaults
    /\ faults' = faults + 1
    /\ Failed(o)
    /\ UNCHANGED <<rec, created, creating, expiryVars, disposed, lostAcks, crashes, touches>>

\* The store commits and reports an error all the same.
AckLost(o) ==
    /\ op[o].phase = "write"
    /\ rec # NoRecord /\ rec.revision = op[o].record.revision
    /\ faults + lostAcks < MaxFaults
    /\ lostAcks' = lostAcks + 1
    /\ rec' = Committed(o)
    /\ IF op[o].kind \in Settles
       THEN Finish(o, op, ctl) /\ UNCHANGED attempts
       ELSE Failed(o)
    /\ UNCHANGED <<created, creating, expiryVars, disposed, faults, crashes, touches>>

-----------------------------------------------------------------------------
(* Expiry, disposal, restart and recovery. *)

Elapse ==
    /\ HasTTL /\ created /\ ~expired
    /\ expired' = TRUE
    /\ UNCHANGED <<rec, created, creating, opVars, bootVars, expiring, disposed, boundVars>>

\* #expire, from the sweep or from an access: the deletion is unconditional.
DeleteExpired ==
    /\ ready /\ expired /\ rec # NoRecord
    /\ rec' = NoRecord
    /\ expiring' = TRUE
    /\ UNCHANGED <<created, creating, opVars, bootVars, expired, disposed, boundVars>>

TellExpired ==
    /\ expiring
    /\ expiring' = FALSE
    /\ hidden' = FALSE
    /\ op' = AbortedIfLive(Told(op, NoRecord))
    /\ ctl' = CtlAborted
    /\ UNCHANGED <<rec, created, creating, worker, attempts, ready, recovering, recoverer, expired,
                   disposed, boundVars>>

Dispose ==
    /\ ready /\ ~disposed
    /\ disposed' = TRUE
    /\ op' = AbortedIfLive(op)
    /\ ctl' = CtlAborted
    /\ UNCHANGED <<rec, created, creating, worker, attempts, bootVars, expiryVars, boundVars>>

\* The process dies and a new manager starts on the same store: #initialise hides
\* the active task, and is done unless it must fail it first.
Crash ==
    /\ crashes < MaxCrashes
    /\ crashes' = crashes + 1
    /\ creating' = FALSE
    /\ op' = [o \in Ops |-> Idle]
    /\ worker' = "none" /\ attempts' = 0 /\ ctl' = "none"
    /\ hidden' = IsActive(rec)
    /\ \E given \in RecoverGiven : ready' = (given \/ ~IsActive(rec))
    /\ recovering' = FALSE
    /\ recoverer' = [c \in Recoverers |-> "idle"]
    /\ expiring' = FALSE /\ disposed' = FALSE
    /\ UNCHANGED <<rec, created, expired, faults, lostAcks, touches>>

BeginInterrupt(o) == Begin(o, [Idle EXCEPT !.kind = "interrupt"])

\* #initialise without a recover callback: once in the life of a manager.
FailInterrupted(o) ==
    /\ ~ready /\ hidden
    /\ \A x \in Ops : op[x].kind # "interrupt"
    /\ Free(o)
    /\ BeginInterrupt(o)
    /\ UNCHANGED <<rec, created, creating, worker, attempts, ctl, bootVars, expiryVars, disposed,
                   boundVars>>

\* Fault: recover() does not look at #recovering.
RecoverTwice(c) ==
    /\ ready /\ ~disposed /\ recoverer[c] = "idle"
    /\ hidden
    /\ rec # NoRecord /\ ~expired
    /\ recovering' = TRUE
    /\ recoverer' = [recoverer EXCEPT ![c] = "callback"]
    /\ UNCHANGED <<rec, created, creating, opVars, ready, hidden, expiryVars, disposed, boundVars>>

\* recover(): given a callback (the manager without one is ready only when nothing is
\* hidden), it is called with the record of a hidden task.
Recover(c) ==
    /\ ready /\ ~disposed /\ recoverer[c] = "idle"
    /\ hidden /\ ~recovering
    /\ rec # NoRecord /\ ~expired
    /\ recovering' = TRUE
    /\ recoverer' = [recoverer EXCEPT ![c] = "callback"]
    /\ UNCHANGED <<rec, created, creating, opVars, ready, hidden, expiryVars, disposed, boundVars>>

\* The callback has resumed the task, or declined to, or thrown.
CallbackReturns(c) ==
    /\ recoverer[c] = "callback"
    /\ IF disposed
       THEN recoverer' = [recoverer EXCEPT ![c] = "idle"] /\ recovering' = FALSE
       ELSE /\ \E how \in {"resumed", "declined"} : recoverer' = [recoverer EXCEPT ![c] = how]
            /\ UNCHANGED recovering
    /\ UNCHANGED <<rec, created, creating, opVars, ready, hidden, expiryVars, disposed, boundVars>>

CallbackThrows(c, o) ==
    /\ recoverer[c] = "callback" /\ ~disposed
    /\ Free(o)
    /\ BeginInterrupt(o)
    /\ recoverer' = [recoverer EXCEPT ![c] = "interrupting"]
    /\ UNCHANGED <<rec, created, creating, worker, attempts, ctl, ready, hidden, recovering,
                   expiryVars, disposed, boundVars>>

\* The record is read again: gone, expired by now, ended, or to be resumed.
RecoverEnds(c) ==
    /\ recoverer[c] \in {"resumed", "declined"}
    /\ \/ /\ disposed \/ rec = NoRecord
          /\ UNCHANGED <<rec, expiring, hidden, worker, attempts, ctl>>
       \/ /\ ~disposed /\ rec # NoRecord /\ expired
          /\ rec' = NoRecord /\ expiring' = TRUE
          /\ UNCHANGED <<hidden, worker, attempts, ctl>>
       \/ /\ ~disposed /\ ~expired /\ rec # NoRecord /\ IsTerminal(rec)
          /\ hidden' = FALSE
          /\ UNCHANGED <<rec, expiring, worker, attempts, ctl>>
       \/ /\ ~disposed /\ ~expired /\ IsActive(rec) /\ recoverer[c] = "resumed"
          /\ hidden' = FALSE /\ Attach
          /\ UNCHANGED <<rec, expiring>>
    /\ recoverer' = [recoverer EXCEPT ![c] = "idle"]
    /\ recovering' = FALSE
    /\ UNCHANGED <<created, creating, op, ready, expired, disposed, boundVars>>

\* Fault: a task nobody resumed is unhidden as it is.
DeclineUnhides(c, o) ==
    /\ recoverer[c] = "declined" /\ ~disposed /\ ~expired /\ IsActive(rec)
    /\ Free(o)
    /\ hidden' = FALSE
    /\ recovering' = FALSE
    /\ recoverer' = [recoverer EXCEPT ![c] = "idle"]
    /\ UNCHANGED <<rec, created, creating, opVars, ready, expiryVars, disposed, boundVars>>

RecoverDeclined(c, o) ==
    /\ recoverer[c] = "declined" /\ ~disposed /\ ~expired /\ IsActive(rec)
    /\ Free(o)
    /\ BeginInterrupt(o)
    /\ recoverer' = [recoverer EXCEPT ![c] = "interrupting"]
    /\ UNCHANGED <<rec, created, creating, worker, attempts, ctl, ready, hidden, recovering,
                   expiryVars, disposed, boundVars>>

-----------------------------------------------------------------------------

Start(o) ==
    \/ \E given \in Given : BeginAnswer(o, given)
    \/ BeginCancel(o)
    \/ \E p \in Payloads : BeginAsk(o, p)
    \/ BeginTouch(o)
    \/ BeginCancelFromHandle(o)
    \/ \E how \in Settles : WorkEnds(o, how)
    \/ \E w \in Ops \ {o} : AbortAsk(o, w)

Progress(o) == Read(o) \/ Write(o) \/ Notify(o) \/ WaiterReads(o) \/ WaiterRetries(o)

Trouble(o) == StoreFails(o) \/ AckLost(o) \/ WaiterReadFails(o)

ManagerStep ==
    \/ CreateRecord
    \/ CreateAckLost
    \/ AttachCreated
    \/ Elapse
    \/ DeleteExpired
    \/ TellExpired
    \/ Dispose
    \/ Crash

Recovery ==
    \/ \E o \in Ops : FailInterrupted(o)
    \/ \E c \in Recoverers :
          \/ Recover(c)
          \/ CallbackReturns(c)
          \/ RecoverEnds(c)
          \/ \E o \in Ops : CallbackThrows(c, o) \/ RecoverDeclined(c, o)

Next == (\E o \in Ops : Start(o) \/ Progress(o) \/ Trouble(o)) \/ ManagerStep \/ Recovery

Spec == Init /\ [][Next]_vars
\* The promise turns and timers of the manager run; the store answers.  That the
\* work ends, that a client answers or that recovery is called is not assumed.
Fairness ==
    /\ \A o \in Ops : WF_vars(Read(o)) /\ WF_vars(Write(o)) /\ WF_vars(Notify(o))
                     /\ WF_vars(WaiterReads(o)) /\ WF_vars(WaiterRetries(o))
    /\ WF_vars(TellExpired)

FairSpec == Spec /\ Fairness

-----------------------------------------------------------------------------
(* The promise of a task, implemented. *)

LifeOf ==
    IF ~created THEN "absent"
    ELSE IF rec = NoRecord THEN "expired"
    ELSE IF IsTerminal(rec) THEN rec.status ELSE "active"

FateOf(p) ==
    IF rec = NoRecord \/ Same(rec, p) = {} THEN "never"
    ELSE rec.inputs[CHOOSE i \in Same(rec, p) : TRUE].outcome

\* The entry of r in which key k was issued, as a set.
IssuedIn(r, k) == {i \in DOMAIN r.inputs : k \in KeysOf[r.inputs[i].payload]}

ReplyTo(k) ==
    IF rec = NoRecord \/ IssuedIn(rec, k) = {} THEN NoValue
    ELSE rec.inputs[CHOOSE i \in IssuedIn(rec, k) : TRUE].responses[k]

Lifecycle == INSTANCE TaskLifecycle WITH
    life    <- LifeOf,
    fate    <- [p \in Payloads |-> FateOf(p)],
    replies <- [k \in Keys |-> ReplyTo(k)]

\* Interleaved reads and conditional writes, crashes, retries and lost store
\* acknowledgements never show: the stored record moves as if every operation
\* were one step.  A terminal status is final, a settled entry never changes, a
\* stored answer is never replaced, a key is never issued twice, and a deleted
\* task never comes back (task-manager.ts #mutate and its callers).
ImplementsLifecycle == Lifecycle!LifecycleSpec

-----------------------------------------------------------------------------
(* Properties. *)

\* A visible task that is still active has its work running or being settled: the
\* client never polls a task nobody will end, unless the store refused its outcome
\* as often as the manager tries.
ActiveTaskHasWork ==
    (ready /\ ~hidden /\ ~disposed /\ ~creating /\ IsActive(rec)) =>
        worker \in {"running", "settling"} \/ attempts = SettleAttempts

\* While a task waits for recovery no client and no work writes its record: it can only be
\* failed as interrupted or expire; and work is attached to it once in the life of a manager,
\* however often and concurrently recover() is called.
RecoveryIsExclusive ==
    [][/\ hidden /\ rec' # rec =>
             rec' = NoRecord \/ (rec'.status = "failed" /\ rec'.inputs = rec.inputs)
       /\ worker' = "running" /\ worker # "running" => worker = "none"]_vars

\* No wake-up is lost: once the entry a requestInput call waits for is settled, or the task
\* has ended or is gone, the call settles, although the commit may precede its listener and its
\* reads may fail; and once the signal of the call is aborted it settles, whether an answer, a
\* cancellation or the outcome of the work wins against the withdrawal.  Two exceptions:
\* nobody is told of a write that was committed and reported as an error, and a call left
\* behind by work that is over is not told once the manager is disposed.
WaitersSettle ==
    \A o \in Ops :
        /\ (Waiting(o) /\ Decides(rec, op[o].id) /\ lostAcks = 0)
              ~> (~Waiting(o) \/ lostAcks > 0)
        /\ (Waiting(o) /\ op[o].signalled /\ lostAcks = 0)
              ~> (~Waiting(o) \/ lostAcks > 0 \/ (disposed /\ ctl = "released"))

\* The work of a cancelled task is told through its signal, unless the store committed
\* the cancellation and reported an error: then nobody tells the work.
CancelReachesWork ==
    (rec # NoRecord /\ rec.status = "cancelled" /\ worker = "running" /\ lostAcks = 0)
        ~> (ctl # "live" \/ lostAcks > 0)
=============================================================================
