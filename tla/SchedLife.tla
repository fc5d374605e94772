------------------------------- MODULE SchedLife -------------------------------
(***************************************************************************)
(* The scheduler implements TaskLife.  A task exists from the first write  *)
(* of task_insert() to the last one of its unlinking, and belongs to the   *)
(* process its PID names at that moment.                                   *)
(***************************************************************************)
EXTENDS Sched

Members == [p \in Proc |-> {t \in Linked : proc_get(pid[t]) = p}]
Dying   == {t \in Task : type[t] = "DELETE_PENDING"}

Life == INSTANCE TaskLife WITH alive <- procs, members <- Members,
                               running <- task_current, dying <- Dying

\* Across all interleavings, tasks and processes come and go as TaskLife says:
\* what has ended never gets the CPU again, and PID reuse never hands a task
\* to another process.
ImplementsLife == Life!LifeSpec
=============================================================================
