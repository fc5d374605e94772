------------------------------- MODULE SchedInv -------------------------------
(***************************************************************************)
(* The inductive invariant of the scheduler, from which the safety         *)
(* properties of Sched and the refinement of TaskLife are proved.          *)
(***************************************************************************)
EXTENDS SchedLife

K  == pc[task_kernel]

\* The links as they will be when the half-done task_insert() is finished, or
\* were before the half-done unlinking began.
WholeNext ==
  CASE K = "inserting" -> [next EXCEPT ![task_kernel] = new_task]
    [] K = "deleting"  -> [next EXCEPT ![prev[new_task]] = new_task]
    [] OTHER           -> next

\* The two directions of the queue are inverse of each other.
InvLinks ==
  /\ task_kernel \in Linked
  /\ \A t \in Task : t \notin Linked => prev[t] = NULL
  /\ \A t \in Linked : /\ WholeNext[t] \in Linked /\ prev[WholeNext[t]] = t
                       /\ prev[t] \in Linked      /\ WholeNext[prev[t]] = t
  /\ K = "deleting" => next[prev[new_task]] = WholeNext[new_task]

\* Following the links leaves no task out.
InvCycle ==
  \A S \in SUBSET Linked :
    task_kernel \in S /\ (\A t \in S : WholeNext[t] \in S) => S = Linked

\* What the kernel task has in its local variables at each of its steps, and
\* that yielding is blocked exactly while the links are half written.
InvControl ==
  /\ task_yield_block_cnt = IF K \in {"inserting", "deleting"} THEN 1 ELSE 0
  /\ K \in {"inserting", "deleting"} => task_current = task_kernel
  /\ new_proc \in CASE K \in {"pid_alloc", "elf_load"} -> procs \ {proc_kernel}
                    [] K \in {"task_create", "insert", "inserting"} -> procs
                    [] OTHER -> {NULL}
  /\ new_task \in CASE K \in {"insert", "inserting", "delete", "deleting"} -> Task
                    [] OTHER -> {NULL}
  /\ K # "spin"
  /\ \A t \in Task \ {task_kernel} : pc[t] \in {"run", "cleanup", "selected", "spin"}
  /\ task_current \in Linked \union {NULL}
  /\ task_current = NULL => K = "run"

\* A structure is in the queue, free, or about to be inserted.  Only the
\* running task can have ended.
InvTasks ==
  /\ type[task_kernel] = "KERNEL" /\ pid[task_kernel] = 0
  /\ \A t \in Linked : type[t] # "FREE"
  /\ \A t \in Task : /\ type[t] = "FREE" => pc[t] = "run" /\ t \notin ready
                     /\ type[t] # "FREE" => t \in Linked \/ (K = "insert" /\ t = new_task)
                     /\ type[t] = "DELETE_PENDING" => t = task_current /\ pc[t] = "spin"
  /\ K = "insert" => /\ new_task \notin Linked
                     /\ type[new_task] \in {"KERNEL", "USER"}
                     /\ pid[new_task] = proc_pid[new_proc]
  /\ K \in {"insert", "inserting"} => new_task \in proc_tasks[new_proc] /\ new_task # task_kernel
  /\ K = "inserting" => new_task \in Linked /\ proc_get(pid[new_task]) = new_proc
  /\ K \in {"delete", "deleting"} => /\ new_task \in Linked \ {task_kernel}
                                     /\ type[new_task] = "KERNEL"

\* The PID table.
InvPids ==
  /\ proc_pidtab_len > 0
  /\ \E k \in 1 .. proc_pidtab_len : proc_pidtab_len = k * PROC_PIDTAB_ALLOCSZ
  /\ proc_pidtab_len <= PROC_PIDMAX + 1
  /\ proc_kernel \in procs /\ proc_pidtab[0] = proc_kernel /\ proc_pid[proc_kernel] = 0
  /\ \A i \in Pids : proc_pidtab[i] # NULL =>
       /\ i < proc_pidtab_len
       /\ proc_pidtab[i] \in procs
       /\ proc_pid[proc_pidtab[i]] = i
       /\ K = "pid_alloc" => proc_pidtab[i] # new_proc
  /\ \A p \in procs : (K = "pid_alloc" => p # new_proc) => proc_pidtab[proc_pid[p]] = p

\* Who owns which task.
InvOwned ==
  /\ \A t \in Linked :
       /\ proc_get(pid[t]) \in procs
       /\ \/ t \in proc_tasks[proc_get(pid[t])]
          \/ t = new_task /\ K \in {"delete", "deleting"}
       /\ type[t] = "KERNEL" <=> proc_get(pid[t]) = proc_kernel
       /\ proc_get(pid[t]) # proc_kernel => proc_tasks[proc_get(pid[t])] = {t}
  /\ K = "insert" => (type[new_task] = "KERNEL" <=> new_proc = proc_kernel)
  /\ K \in {"insert", "inserting"} /\ new_proc # proc_kernel =>
       proc_tasks[new_proc] = {new_task}
  /\ task_kernel \in proc_tasks[proc_kernel]
  /\ K \in {"delete", "deleting"} => new_task \notin proc_tasks[proc_kernel]
  /\ \A p \in Proc \ procs : proc_tasks[p] = {}
  /\ K \in {"pid_alloc", "elf_load", "task_create"} /\ fault = "none"
       /\ new_proc # proc_kernel => proc_tasks[new_proc] = {}

\* The page directories.
InvVmms ==
  /\ proc_vmm[proc_kernel] = vmm_kernel
  /\ vmms = {proc_vmm[p] : p \in procs} \union vmm_frstage
  /\ \A p \in procs : proc_vmm[p] \notin vmm_frstage
  /\ \A p, q \in procs : proc_vmm[p] = proc_vmm[q] => p = q
  /\ vmm_current = IF task_current = NULL THEN vmm_kernel
                                          ELSE proc_vmm[proc_get(pid[task_current])]

IInv == /\ TypeOK /\ InvLinks /\ InvCycle /\ InvControl /\ InvTasks
        /\ InvPids /\ InvOwned /\ InvVmms
=============================================================================
