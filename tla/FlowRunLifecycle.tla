--------------------------- MODULE FlowRunLifecycle ---------------------------
(***************************************************************************)
(* What a flow run promises to whoever started it: approved before it is   *)
(* launched, launched once however often the host restarts, completed only *)
(* when its task is, cancelled only when somebody asked or the task itself *)
(* was, and final once it has ended.  FlowRun is shown to implement this.  *)
(***************************************************************************)
EXTENDS Integers

VARIABLES
    life,       \* of the run, as its record tells it
    launches,   \* tasks ever created for it
    work,       \* none, active, or how the task ended
    asked       \* somebody asked for the run to be cancelled

runVars == <<life, launches, work, asked>>

TaskEndings == {"completed", "failed", "cancelled"}

LifecycleInit ==
    /\ life = "absent"
    /\ launches = 0
    /\ work = "none"
    /\ asked = FALSE

Create ==
    /\ life = "absent"
    /\ life' = "awaiting_approval"
    /\ UNCHANGED <<launches, work, asked>>

RequestCancel ==
    /\ asked' = TRUE
    /\ UNCHANGED <<life, launches, work>>

\* The request is turned down, or cancelled before it was decided.
Reject(how) ==
    /\ life = "awaiting_approval"
    /\ life' = how
    /\ asked' = (asked \/ how = "cancelled")
    /\ UNCHANGED <<launches, work>>

Approve ==
    /\ life = "awaiting_approval"
    /\ life' = "running"
    /\ UNCHANGED <<launches, work, asked>>

Launch ==
    /\ life = "running" /\ launches = 0
    /\ launches' = 1
    /\ work' = "active"
    /\ UNCHANGED <<life, asked>>

WorkEnds(how) ==
    /\ work = "active"
    /\ work' = how
    /\ UNCHANGED <<life, launches, asked>>

\* The run may fail for reasons of its own; every other end has its cause.
EndRun(how) ==
    /\ life = "running"
    /\ how = "completed" => work = "completed"
    /\ how = "cancelled" => asked \/ work = "cancelled"
    /\ life' = how
    /\ UNCHANGED <<launches, work, asked>>

LifecycleNext ==
    \/ Create
    \/ RequestCancel
    \/ \E how \in {"denied", "cancelled"} : Reject(how)
    \/ Approve
    \/ Launch
    \/ \E how \in TaskEndings : WorkEnds(how) \/ EndRun(how)

LifecycleSpec == LifecycleInit /\ [][LifecycleNext]_runVars
=============================================================================
