------------------------------ MODULE SchedWait ------------------------------
(***************************************************************************)
(* How long a ready task waits: Sched with a history variable that only    *)
(* observes it.  The kernel keeps t_switch, which task_create() and the    *)
(* switch to a task write; how many switches have passed a ready task over *)
(* it does not know.                                                       *)
(***************************************************************************)
EXTENDS Sched

CONSTANT MAX_PASSED \* how many switches may pass a ready task over

VARIABLE passed  \* switches to others since the task was put in the queue
                 \* or switched out

waitVars == <<vars, passed>>

WaitInit == Init /\ passed = [t \in Task |-> 0]

Waiting == (Linked \intersect ready) \ {task_current}

Switched == task_current # NULL /\ task_current' # task_current

SwitchedOut(t) == Switched /\ t = task_current

Observe ==
  /\ passed' = [t \in Task |->
                  IF t \notin Waiting' \/ SwitchedOut(t) THEN 0
                  ELSE IF Switched THEN passed[t] + 1
                  ELSE passed[t]]

WaitNext == Next /\ Observe

WaitSpec == WaitInit /\ [][WaitNext]_waitVars

\* A ready task is passed over by boundedly many switches before it runs, even
\* though a task that is interrupted between its choice and its switch acts on
\* an old choice, and new tasks keep coming.  (Liveness with a number.)
BoundedOvertaking == \A t \in Task : passed[t] <= MAX_PASSED
=============================================================================
