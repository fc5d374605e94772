------------------------------- MODULE TaskLife -------------------------------
(***************************************************************************)
(* What tasks and processes are promised, without queue, timer, memory or  *)
(* mutexes: the CPU is always with one task that exists; a task that ends  *)
(* keeps the CPU until it is taken from it, and is gone in the same step;  *)
(* so it never runs again.  A process exists as long as a task of its own  *)
(* does, and goes with the last of them that ends.                         *)
(***************************************************************************)
CONSTANTS Task, task_kernel, Proc, proc_kernel, NULL

VARIABLES alive,    \* processes that exist
          members,  \* the tasks of each process
          running,  \* the task that has the CPU
          dying     \* tasks that have ended and are not gone

lifeVars == <<alive, members, running, dying>>

Live == UNION {members[p] : p \in Proc}

LifeInit ==
  /\ alive = {proc_kernel}
  /\ members = [p \in Proc |-> IF p = proc_kernel THEN {task_kernel} ELSE {}]
  /\ running = NULL
  /\ dying = {}

Boot ==
  /\ running = NULL
  /\ running' = task_kernel
  /\ UNCHANGED <<alive, members, dying>>

Create(p) ==
  /\ p \notin alive
  /\ alive' = alive \union {p}
  /\ UNCHANGED <<members, running, dying>>

\* The creation of a process is undone before it has a task.
Discard(p) ==
  /\ p \in alive /\ members[p] = {}
  /\ alive' = alive \ {p}
  /\ UNCHANGED <<members, running, dying>>

Start(t, p) ==
  /\ t \notin Live /\ p \in alive
  /\ members' = [members EXCEPT ![p] = @ \union {t}]
  /\ UNCHANGED <<alive, running, dying>>

Dispatch(t) ==
  /\ t \in Live
  /\ running # NULL /\ running \notin dying
  /\ running' = t
  /\ UNCHANGED <<alive, members, dying>>

End ==
  /\ running \in Live \ {task_kernel}
  /\ dying' = dying \union {running}
  /\ UNCHANGED <<alive, members, running>>

\* The CPU is taken from a task that has ended.
Reap(t, p) ==
  /\ running \in dying /\ running \in members[p]
  /\ t \in Live \ {running}
  /\ running' = t
  /\ dying' = dying \ {running}
  /\ members' = [members EXCEPT ![p] = @ \ {running}]
  /\ alive' = IF members[p] = {running} THEN alive \ {p} ELSE alive

\* A kernel thread is deleted by another task.
Kill(t) ==
  /\ t \in members[proc_kernel] \ {task_kernel, running}
  /\ members' = [members EXCEPT ![proc_kernel] = @ \ {t}]
  /\ UNCHANGED <<alive, running, dying>>

LifeNext ==
  \/ Boot \/ End
  \/ \E p \in Proc : Create(p) \/ Discard(p)
  \/ \E t \in Task : Dispatch(t) \/ Kill(t)
  \/ \E t \in Task, p \in Proc : Start(t, p) \/ Reap(t, p)

LifeSpec == LifeInit /\ [][LifeNext]_lifeVars
=============================================================================
