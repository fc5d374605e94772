-------------------------------- MODULE Sched --------------------------------
(***************************************************************************)
(* The scheduler of SysX (exec/task.c, hal/timer.c and the task switch of  *)
(* task_lowlevel.asm) composed with the task queue and the processes.      *)
(*                                                                         *)
(* One CPU.  The task task_current executes its own code, one step of      *)
(* `pc` at a time; the timer interrupt can arrive between any two steps.   *)
(* The interrupt stub turns interrupts back on (desctabs.asm), so a yield  *)
(* asked for by a task (int 0x9F) can itself be interrupted, and resumes   *)
(* later with the local variables it had.  A yield made by the timer       *)
(* handler cannot: the timer is not acknowledged until the switch.         *)
(*                                                                         *)
(* `fault` records the point at which the code would do something from     *)
(* which the kernel cannot go on; the state then stays as it is.           *)
(***************************************************************************)
EXTENDS Process

CONSTANTS TASK_QUANTUM, \* minimum number of ticks between two yields
          TICKS,        \* timer_tick_t counts modulo TICKS
          Deltas,       \* possible increments of one timer interrupt
          BLOCK_LAG     \* bound: no tick inside a blocked section past this lag

ASSUME SchedAssumption == /\ TICKS \in Nat \ {0}
                          /\ TASK_QUANTUM \in Nat
                          /\ Deltas \subseteq Nat
                          /\ BLOCK_LAG \in Nat
                          /\ task_kernel # NULL

VARIABLES
  type, ready, pid, t_switch,       \* task_common_t
  task_current, task_yield_tick, task_yield_block_cnt, timer_tick,
  pc,                  \* where each task is in the kernel code it executes
  vmm_frstage_mutex,   \* held outside interrupts, during vmm_do_cleanup()
  task_selected,       \* local variable of an interrupted task_yield()
  new_proc, new_task,  \* local variables of the kernel task
  fault

taskVars  == <<type, ready, pid>>
clockVars == <<t_switch, task_yield_tick, timer_tick>>
locals    == <<vmm_frstage_mutex, task_selected, new_proc, new_task>>
vars == <<links, procVars, vmmVars, taskVars, clockVars,
          task_current, task_yield_block_cnt, pc, locals, fault>>

Types  == {"FREE", "KERNEL", "USER", "DELETE_PENDING"}
Faults == {"none", "stale_task_selected", "irq_deadlock", "dangling_task"}
Steps  == {"run", "spin", "cleanup", "selected",
           "pid_alloc", "elf_load", "task_create", "insert", "inserting",
           "delete", "deleting"}

\* proc_mutex is held exactly while proc_pid_alloc() searches the PID table.
ProcMutexHeld == pc[task_kernel] = "pid_alloc"

\* Unsigned subtraction of two tick counts.
Since(now, then) == (now - then) % TICKS

Init ==
  /\ QueueInit
  /\ ProcessInit
  /\ type = [t \in Task |-> IF t = task_kernel THEN "KERNEL" ELSE "FREE"]
  /\ ready = {}
  /\ pid = [t \in Task |-> 0]
  /\ t_switch = [t \in Task |-> 0]
  /\ task_current = NULL
  /\ task_yield_tick = 0
  /\ task_yield_block_cnt = 0
  /\ timer_tick = 0
  /\ pc = [t \in Task |-> "run"]
  /\ vmm_frstage_mutex = FALSE
  /\ task_selected = [t \in Task |-> NULL]
  /\ new_proc = NULL /\ new_task = NULL
  /\ fault = "none"

-----------------------------------------------------------------------------
(***************************************************************************)
(* Choosing and switching                                                  *)
(***************************************************************************)
Candidates(now) ==
  {t \in Linked \ {task_current} : t \in ready /\ Since(now, t_switch[t]) > 0}

\* A slip: the comparison turned round.
SelectedShortest(s, now) ==
  /\ s \in Candidates(now)
  /\ \A t \in Candidates(now) : Since(now, t_switch[s]) <= Since(now, t_switch[t])

\* The loop of task_yield(): the largest delta, the first one met on a tie.
Selected(s, now) ==
  /\ s \in Candidates(now)
  /\ \A t \in Candidates(now) :
       \/ Since(now, t_switch[t]) < Since(now, t_switch[s])
       \/ /\ Since(now, t_switch[t]) = Since(now, t_switch[s])
          /\ Distance(task_current, s) <= Distance(task_current, t)

\* A slip: CR3 is left alone.
SwitchToSameSpace(s, now, pidtab) ==
  /\ task_yield_tick' = now
  /\ t_switch' = [t_switch EXCEPT ![s] = now]
  /\ task_current' = s
  /\ UNCHANGED vmm_current

\* Timestamps and task_switch(): CR3 is taken from the task's PID.  The ready
\* bit that the switch sets is set already in every task that is linked and
\* selected.
SwitchTo(s, now, pidtab) ==
  /\ task_yield_tick' = now
  /\ t_switch' = [t_switch EXCEPT ![s] = now]
  /\ task_current' = s
  /\ vmm_current' = proc_vmm[pidtab[pid[s]]]

\* task_delete_stub().  What a freed structure held is forgotten: the next
\* task_create_stub() at this address zeroes it.
FreeTask(t) ==
  /\ type' = [type EXCEPT ![t] = "FREE"]
  /\ ready' = ready \ {t}
  /\ pid' = [pid EXCEPT ![t] = 0]
  /\ pc' = [pc EXCEPT ![t] = "run"]

\* vmm_do_cleanup() when its mutex is free; skipped when somebody holds it.
DoCleanup ==
  IF vmm_frstage_mutex
    THEN UNCHANGED <<vmms, vmm_frstage>>
    ELSE /\ vmms' = vmms \ Cleaned
         /\ vmm_frstage' = vmm_frstage \ Cleaned

-----------------------------------------------------------------------------
(***************************************************************************)
(* The timer interrupt: timer_handler() and the task_yield() it calls      *)
(***************************************************************************)
Advance(d) ==
  /\ fault = "none"
  /\ task_yield_block_cnt > 0 => Since(timer_tick, task_yield_tick) < BLOCK_LAG
  /\ timer_tick' = (timer_tick + d) % TICKS

MayYield(now) ==
  /\ task_current = NULL \/ Since(now, task_yield_tick) >= TASK_QUANTUM
  /\ task_yield_block_cnt = 0

\* A slip: only a task that is no longer ready counts as ended.
EndingNotReady == type[task_current] = "DELETE_PENDING" /\ task_current \notin ready

Ending == type[task_current] = "DELETE_PENDING"

\* Before the quantum is over, while yielding is blocked, or during the boot.
TimerNoYield(d) ==
  /\ Advance(d)
  /\ \/ ~MayYield(timer_tick')
     \/ task_current = NULL /\ task_kernel \notin ready
  /\ UNCHANGED <<links, procVars, vmmVars, taskVars, t_switch,
                 task_yield_tick, task_current, task_yield_block_cnt, pc,
                 locals, fault>>

\* The first switch, from the boot context to kmain.
TimerBoot(d) ==
  /\ Advance(d)
  /\ MayYield(timer_tick')
  /\ task_current = NULL /\ task_kernel \in ready
  /\ DoCleanup
  /\ SwitchTo(task_kernel, timer_tick', proc_pidtab)
  /\ UNCHANGED <<links, procVars, taskVars, task_yield_block_cnt, pc, locals,
                 fault>>

\* No other task can run: the current one goes on.
TimerStay(d) ==
  /\ Advance(d)
  /\ MayYield(timer_tick')
  /\ task_current # NULL
  /\ Candidates(timer_tick') = {}
  /\ DoCleanup
  /\ UNCHANGED <<links, procVars, vmm_current, taskVars, t_switch,
                 task_yield_tick, task_current, task_yield_block_cnt, pc,
                 locals, fault>>

TimerSwitch(d) ==
  /\ Advance(d)
  /\ MayYield(timer_tick')
  /\ task_current # NULL
  /\ ~Ending
  /\ \E s \in Task : /\ Selected(s, timer_tick')
                     /\ SwitchTo(s, timer_tick', proc_pidtab)
  /\ DoCleanup
  /\ UNCHANGED <<links, procVars, taskVars, task_yield_block_cnt, pc, locals,
                 fault>>

(***************************************************************************)
(* The current task is DELETE_PENDING: task_do_delete() runs inside the    *)
(* interrupt.  With the last task of a process goes the process            *)
(* (proc_do_delete), for which two mutexes are needed that a preempted     *)
(* task may hold.                                                          *)
(***************************************************************************)
Owner == proc_get(pid[task_current])
\* A slip: the task itself is counted among those that remain.
LastTaskCounted == proc_tasks[Owner] = {}

LastTask == proc_tasks[Owner] = {task_current}
ReapBlocked == LastTask /\ (ProcMutexHeld \/ vmm_frstage_mutex)

proc_do_delete(p) ==
  /\ vmm_frstage' = (vmm_frstage \ Cleaned) \union Staged(proc_vmm[p])
  /\ vmms' = (vmms \ Cleaned) \ Freed(proc_vmm[p])
  /\ proc_pid_free(proc_pid[p])
  /\ procs' = procs \ {p}
  /\ proc_tasks' = [proc_tasks EXCEPT ![p] = {}]
  /\ mu_tasks' = mu_tasks \ {p}
  /\ UNCHANGED <<proc_pid, proc_vmm, proc_pidtab_len>>

TimerReap(d) ==
  /\ Advance(d)
  /\ MayYield(timer_tick')
  /\ task_current # NULL
  /\ Ending
  /\ ~ReapBlocked
  /\ \E s \in Task :
       /\ Selected(s, timer_tick')
       /\ IF LastTask
            THEN proc_do_delete(Owner)
            ELSE /\ proc_tasks' = [proc_tasks EXCEPT ![Owner] = @ \ {task_current}]
                 /\ DoCleanup
                 /\ UNCHANGED <<pidVars, mu_tasks>>
       /\ SwitchTo(s, timer_tick', proc_pidtab')
  /\ Unlink(task_current)
  /\ FreeTask(task_current)
  /\ UNCHANGED <<task_yield_block_cnt, locals, fault>>

\* mutex_acquire() spins inside the interrupt, its task_yield_noirq() returns
\* at once because task_do_delete() blocks yielding: the CPU never leaves.
TimerReapDeadlock(d) ==
  /\ Advance(d)
  /\ MayYield(timer_tick')
  /\ task_current # NULL
  /\ Ending
  /\ ReapBlocked
  /\ Candidates(timer_tick') # {}
  /\ fault' = "irq_deadlock"
  /\ UNCHANGED <<links, procVars, vmmVars, taskVars, t_switch,
                 task_yield_tick, task_current, task_yield_block_cnt, pc,
                 locals>>

Timer(d) == \/ TimerNoYield(d) \/ TimerBoot(d) \/ TimerStay(d)
            \/ TimerSwitch(d) \/ TimerReap(d) \/ TimerReapDeadlock(d)

-----------------------------------------------------------------------------
(***************************************************************************)
(* task_yield_noirq(): a running task gives the CPU away                   *)
(***************************************************************************)
Running(t, step) ==
  /\ fault = "none"
  /\ task_current = t
  /\ pc[t] = step

Goto(t, step) == pc' = [pc EXCEPT ![t] = step]

\* A yield returns at once while yielding is blocked.  vmm_do_cleanup() tests
\* the mutex and takes it; the test and the acquisition are one step here.
YieldEnter(t) ==
  /\ Running(t, "run")
  /\ task_yield_block_cnt = 0
  /\ ~vmm_frstage_mutex
  /\ vmm_frstage_mutex' = TRUE
  /\ Goto(t, "cleanup")
  /\ UNCHANGED <<links, procVars, vmmVars, taskVars, clockVars, task_current,
                 task_yield_block_cnt, task_selected, new_proc, new_task,
                 fault>>

\* The scan, with its result in a local variable.
Choose(t) ==
  \/ /\ Candidates(timer_tick) = {}
     /\ Goto(t, "run")
     /\ UNCHANGED task_selected
  \/ \E s \in Task :
       /\ Selected(s, timer_tick)
       /\ task_selected' = [task_selected EXCEPT ![t] = s]
       /\ Goto(t, "selected")

YieldCleanupAndChoose(t) ==
  /\ Running(t, "cleanup")
  /\ vmms' = vmms \ Cleaned
  /\ vmm_frstage' = vmm_frstage \ Cleaned
  /\ vmm_frstage_mutex' = FALSE
  /\ Choose(t)
  /\ UNCHANGED <<links, procVars, vmm_current, taskVars, clockVars,
                 task_current, task_yield_block_cnt, new_proc, new_task,
                 fault>>

\* "someone else is doing our work": no cleanup.
YieldChoose(t) ==
  /\ Running(t, "run")
  /\ task_yield_block_cnt = 0
  /\ vmm_frstage_mutex
  /\ Choose(t)
  /\ UNCHANGED <<links, procVars, vmmVars, taskVars, clockVars, task_current,
                 task_yield_block_cnt, vmm_frstage_mutex, new_proc, new_task,
                 fault>>

\* The switch to what was selected, possibly long ago.
YieldSwitch(t) ==
  /\ Running(t, "selected")
  /\ task_selected[t] \in Linked
  /\ SwitchTo(task_selected[t], timer_tick, proc_pidtab)
  /\ task_selected' = [task_selected EXCEPT ![t] = NULL]
  /\ Goto(t, "run")
  /\ UNCHANGED <<links, procVars, vmms, vmm_frstage, taskVars, timer_tick,
                 task_yield_block_cnt, vmm_frstage_mutex, new_proc, new_task,
                 fault>>

\* The selected structure has been freed meanwhile.
YieldSwitchStale(t) ==
  /\ Running(t, "selected")
  /\ task_selected[t] \notin Linked
  /\ fault' = "stale_task_selected"
  /\ UNCHANGED <<links, procVars, vmmVars, taskVars, clockVars, task_current,
                 task_yield_block_cnt, pc, locals>>

Yield(t) == \/ YieldEnter(t) \/ YieldCleanupAndChoose(t) \/ YieldChoose(t)
            \/ YieldSwitch(t) \/ YieldSwitchStale(t)

-----------------------------------------------------------------------------
(***************************************************************************)
(* User tasks: proc_abort(), from the exit system call or an exception     *)
(***************************************************************************)
\* The process has no other task (TasksOwned below), so proc_delete() comes to
\* its last line; mu_tasks is never released.
Exit(t) ==
  /\ Running(t, "run")
  /\ type[t] = "USER"
  /\ type' = [type EXCEPT ![t] = "DELETE_PENDING"]
  /\ mu_tasks' = mu_tasks \union {proc_get(pid[t])}
  /\ Goto(t, "spin")
  /\ UNCHANGED <<links, pidVars, proc_tasks, vmmVars, ready, pid, clockVars,
                 task_current, task_yield_block_cnt, locals, fault>>

-----------------------------------------------------------------------------
(***************************************************************************)
(* The kernel task: kmain() starts programs; kernel code may also start    *)
(* and delete kernel threads, tasks of proc_kernel.                        *)
(***************************************************************************)
Kmain(step) == Running(task_kernel, step)
KmainGoto(step) == Goto(task_kernel, step)

\* The end of kinit(): kmain may be switched to.
BootDone ==
  /\ fault = "none"
  /\ task_current = NULL /\ task_kernel \notin ready
  /\ ready' = ready \union {task_kernel}
  /\ UNCHANGED <<links, procVars, vmmVars, type, pid, clockVars, task_current,
                 task_yield_block_cnt, pc, locals, fault>>

\* proc_create() up to the acquisition of proc_mutex.
ProcCreate ==
  /\ Kmain("run")
  /\ \E p \in Proc \ procs, v \in Vmm \ vmms :
       /\ procs' = procs \union {p}
       /\ vmms' = vmms \union {v}
       /\ proc_vmm' = [proc_vmm EXCEPT ![p] = v]
       /\ new_proc' = p
  /\ KmainGoto("pid_alloc")
  /\ UNCHANGED <<links, proc_pid, proc_tasks, mu_tasks, proc_pidtab,
                 proc_pidtab_len, vmm_current, vmm_frstage, taskVars,
                 clockVars, task_current, task_yield_block_cnt,
                 vmm_frstage_mutex, task_selected, new_task, fault>>

\* proc_pid_alloc() succeeds; the file descriptors are opened elsewhere.
ProcPidAlloc ==
  /\ Kmain("pid_alloc")
  /\ ~PidLimitReached
  /\ \E i \in Pids : FirstFreePid(i) /\ AssignPid(new_proc, i)
  /\ KmainGoto("elf_load")
  /\ UNCHANGED <<links, procs, proc_vmm, proc_tasks, mu_tasks, vmmVars,
                 taskVars, clockVars, task_current, task_yield_block_cnt,
                 locals, fault>>

\* The PID limit, or no memory to extend the table: proc_create() undoes.
ProcPidAllocFails ==
  /\ Kmain("pid_alloc")
  /\ FirstFreePid(proc_pidtab_len)
  /\ vmms' = vmms \ Freed(proc_vmm[new_proc])
  /\ vmm_frstage' = vmm_frstage \union Staged(proc_vmm[new_proc])
  /\ procs' = procs \ {new_proc}
  /\ new_proc' = NULL
  /\ KmainGoto("run")
  /\ UNCHANGED <<links, proc_pid, proc_vmm, proc_tasks, mu_tasks, proc_pidtab,
                 proc_pidtab_len, vmm_current, taskVars, clockVars,
                 task_current, task_yield_block_cnt, vmm_frstage_mutex,
                 task_selected, new_task, fault>>

ElfLoaded ==
  /\ Kmain("elf_load")
  /\ KmainGoto("task_create")
  /\ UNCHANGED <<links, procVars, vmmVars, taskVars, clockVars, task_current,
                 task_yield_block_cnt, locals, fault>>

\* elf_load_exec() fails, or task_create() finds no memory for the structure
\* or its entry: kmain calls proc_delete() on a process that has no task.
\* The failing creation of a kernel thread changes nothing.
StartFails ==
  /\ Kmain("elf_load") \/ Kmain("task_create")
  /\ mu_tasks' = mu_tasks \union ({new_proc} \ {proc_kernel})
  /\ new_proc' = NULL
  /\ KmainGoto("run")
  /\ UNCHANGED <<links, pidVars, proc_tasks, vmmVars, taskVars, clockVars,
                 task_current, task_yield_block_cnt, vmm_frstage_mutex,
                 task_selected, new_task, fault>>

ThreadCreate ==
  /\ Kmain("run")
  /\ new_proc' = proc_kernel
  /\ KmainGoto("task_create")
  /\ UNCHANGED <<links, procVars, vmmVars, taskVars, clockVars, task_current,
                 task_yield_block_cnt, vmm_frstage_mutex, task_selected,
                 new_task, fault>>

\* task_create() up to task_insert().
TaskCreate ==
  /\ Kmain("task_create")
  /\ \E t \in Task :
       /\ type[t] = "FREE"
       /\ proc_tasks' = [proc_tasks EXCEPT ![new_proc] = @ \union {t}]
       /\ pid' = [pid EXCEPT ![t] = proc_pid[new_proc]]
       /\ t_switch' = [t_switch EXCEPT ![t] = timer_tick]
       /\ type' = [type EXCEPT ![t] = IF new_proc = proc_kernel THEN "KERNEL"
                                                                ELSE "USER"]
       /\ ready' = ready \union {t}
       /\ new_task' = t
  /\ KmainGoto("insert")
  /\ UNCHANGED <<links, pidVars, mu_tasks, vmmVars, task_yield_tick,
                 timer_tick, task_current, task_yield_block_cnt,
                 vmm_frstage_mutex, task_selected, new_proc, fault>>

\* No memory for the stack: the structure is freed but stays in proc->tasks.
\* For a user task kmain then calls proc_delete(), which deletes it again.
TaskCreateStackFails ==
  /\ Kmain("task_create")
  /\ \E t \in Task :
       /\ type[t] = "FREE"
       /\ proc_tasks' = [proc_tasks EXCEPT ![new_proc] = @ \union {t}]
  /\ IF new_proc = proc_kernel
       THEN new_proc' = NULL /\ KmainGoto("run") /\ UNCHANGED fault
       ELSE fault' = "dangling_task" /\ UNCHANGED <<new_proc, pc>>
  /\ UNCHANGED <<links, pidVars, mu_tasks, vmmVars, taskVars, clockVars,
                 task_current, task_yield_block_cnt, vmm_frstage_mutex,
                 task_selected, new_task>>

\* task_insert(task, task_kernel), the first three pointer writes.
InsertBegin ==
  /\ Kmain("insert")
  /\ task_yield_block_cnt' = task_yield_block_cnt + 1
  /\ InsertBackLinks(new_task, task_kernel)
  /\ KmainGoto("inserting")
  /\ UNCHANGED <<procVars, vmmVars, taskVars, clockVars, task_current, locals,
                 fault>>

\* A slip: one way out of the section forgets to unblock.
UnblockLost == UNCHANGED task_yield_block_cnt

\* task_yield_unblock() does not go below zero.
Unblock == task_yield_block_cnt' = IF task_yield_block_cnt > 0
                                     THEN task_yield_block_cnt - 1 ELSE 0

InsertEnd ==
  /\ Kmain("inserting")
  /\ InsertForwardLink(new_task, task_kernel)
  /\ Unblock
  /\ new_proc' = NULL /\ new_task' = NULL
  /\ KmainGoto("run")
  /\ UNCHANGED <<procVars, vmmVars, taskVars, clockVars, task_current,
                 vmm_frstage_mutex, task_selected, fault>>

\* proc_delete_task(proc_kernel, t), up to its call of task_delete().
ThreadDelete ==
  /\ Kmain("run")
  /\ \E t \in proc_tasks[proc_kernel] \ {task_kernel} :
       /\ t \in Linked /\ type[t] = "KERNEL"
       /\ proc_tasks' = [proc_tasks EXCEPT ![proc_kernel] = @ \ {t}]
       /\ new_task' = t
  /\ KmainGoto("delete")
  /\ UNCHANGED <<links, pidVars, mu_tasks, vmmVars, taskVars, clockVars,
                 task_current, task_yield_block_cnt, vmm_frstage_mutex,
                 task_selected, new_proc, fault>>

\* task_do_delete() of a task that is not running.  task_kernel remains in
\* proc_kernel, so the process stays.
DeleteBegin ==
  /\ Kmain("delete")
  /\ task_yield_block_cnt' = task_yield_block_cnt + 1
  /\ UnlinkForward(new_task)
  /\ KmainGoto("deleting")
  /\ UNCHANGED <<procVars, vmmVars, taskVars, clockVars, task_current, locals,
                 fault>>

DeleteEnd ==
  /\ Kmain("deleting")
  /\ UnlinkBack(new_task)
  /\ Unblock
  /\ type' = [type EXCEPT ![new_task] = "FREE"]
  /\ ready' = ready \ {new_task}
  /\ pid' = [pid EXCEPT ![new_task] = 0]
  /\ pc' = [pc EXCEPT ![new_task] = "run", ![task_kernel] = "run"]
  /\ task_selected' = [task_selected EXCEPT ![new_task] = NULL]
  /\ new_task' = NULL
  /\ UNCHANGED <<procVars, vmmVars, clockVars, task_current,
                 vmm_frstage_mutex, new_proc, fault>>

ShellStep ==
  \/ ProcCreate \/ ProcPidAlloc \/ ProcPidAllocFails \/ ElfLoaded \/ StartFails
  \/ ThreadCreate \/ TaskCreate \/ TaskCreateStackFails
  \/ InsertBegin \/ InsertEnd \/ ThreadDelete \/ DeleteBegin \/ DeleteEnd

\* After a fault the CPU spins.
Hung == fault # "none" /\ UNCHANGED vars

Next ==
  \/ BootDone
  \/ \E d \in Deltas : Timer(d)
  \/ \E t \in Task : Yield(t) \/ Exit(t)
  \/ ShellStep
  \/ Hung

Spec == Init /\ [][Next]_vars

(***************************************************************************)
(* Fairness: the hardware timer keeps interrupting, kinit() ends, and the  *)
(* CPU executes the kernel code of a task that nothing can switch out.     *)
(* Strong fairness of the timer is due to BLOCK_LAG alone, which disables  *)
(* the model's timer inside a blocked section that has become long.        *)
(***************************************************************************)
Fairness ==
  /\ SF_vars(\E d \in Deltas : Timer(d))
  /\ WF_vars(BootDone)
  /\ WF_vars(InsertEnd \/ DeleteEnd)

FairSpec == Spec /\ Fairness

-----------------------------------------------------------------------------
(***************************************************************************)
(* Properties                                                              *)
(***************************************************************************)
TaskType ==
  /\ type \in [Task -> Types]
  /\ ready \subseteq Task
  /\ pid \in [Task -> Pids]
  /\ t_switch \in [Task -> 0 .. TICKS - 1]

CpuType ==
  /\ task_current \in Task \union {NULL}
  /\ task_yield_tick \in 0 .. TICKS - 1
  /\ task_yield_block_cnt \in 0 .. 1
  /\ timer_tick \in 0 .. TICKS - 1

LocalType ==
  /\ pc \in [Task -> Steps]
  /\ vmm_frstage_mutex \in BOOLEAN
  /\ task_selected \in [Task -> Task \union {NULL}]
  /\ new_proc \in Proc \union {NULL}
  /\ new_task \in Task \union {NULL}
  /\ fault \in Faults

\* Every variable holds values of its C type, and yielding is blocked at most
\* once at a time: no two sections of task_insert() and task_do_delete() nest.
TypeOK == /\ LinksType /\ ProcType /\ VmmType
          /\ TaskType /\ CpuType /\ LocalType

\* Whenever no task_insert() or task_do_delete() is half done, the links form
\* one cycle in both directions; the scan of task_yield() visits every task
\* once and ends.
QueueOK ==
  pc[task_kernel] \notin {"inserting", "deleting"} => (LinksInverse /\ OneCycle)

\* A task in the queue belongs to a process that exists and, until
\* proc_delete_task() takes it out, lists it: the "possibly orphaned" warning
\* of task_do_delete() is never reached and a PID never changes hands while a
\* task carries it.  A user process lists no second task, on which Exit relies.
TasksOwned ==
  \A t \in Linked :
    /\ proc_get(pid[t]) \in procs
    /\ \/ t \in proc_tasks[proc_get(pid[t])]
       \/ t = new_task /\ pc[task_kernel] \in {"delete", "deleting"}
    /\ proc_get(pid[t]) # proc_kernel => proc_tasks[proc_get(pid[t])] = {t}

\* The running task is in the queue and the CPU runs on the address space of
\* its process, across every creation, switch and deletion.
CurrentOK ==
  task_current # NULL =>
    /\ task_current \in Linked
    /\ vmm_current = proc_vmm[proc_get(pid[task_current])]

\* Page directories are neither freed in use nor leaked: those allocated are
\* the kernel's, one per process, and the staged ones, all different, with the
\* one in CR3 among them.
VmmOK ==
  /\ vmms = {proc_vmm[p] : p \in procs} \union vmm_frstage
  /\ vmm_current \in vmms
  /\ \A p \in procs : proc_vmm[p] \notin vmm_frstage
  /\ \A p, q \in procs : proc_vmm[p] = proc_vmm[q] => p = q

\* The PID table and the processes' own PIDs agree, except for the process
\* whose PID is being allocated, and no PID exceeds PROC_PIDMAX.
PidOK ==
  /\ \A i \in Pids : proc_pidtab[i] # NULL =>
       /\ i <= PROC_PIDMAX /\ i < proc_pidtab_len
       /\ proc_pidtab[i] \in procs
       /\ proc_pid[proc_pidtab[i]] = i
  /\ \A p \in procs :
       (pc[task_kernel] = "pid_alloc" => p # new_proc)
         => proc_pidtab[proc_pid[p]] = p

Safety == QueueOK /\ TasksOwned /\ CurrentOK /\ VmmOK /\ PidOK

\* Every task in the queue that is ready gets the CPU, however tasks yield,
\* are created and deleted, and however ticks fall; unless it is deleted or
\* the kernel hangs.
ReadyRuns ==
  \A t \in Task : (t \in Linked /\ t \in ready) ~>
                     (task_current = t \/ t \notin Linked \/ fault # "none")

\* A task that asked for its own deletion is deleted.
PendingReaped ==
  \A t \in Task : (type[t] = "DELETE_PENDING") ~>
                     (type[t] # "DELETE_PENDING" \/ fault # "none")

(***************************************************************************)
(* What the sources say and the code does not keep                         *)
(***************************************************************************)
\* task_lowlevel.asm:18, "ensure that interrupt is off, otherwise it will mess
\* up the task switch": a switch never goes to a task deleted since the scan.
NoStaleSwitch == fault # "stale_task_selected"

\* mutex.h:15, mutex_acquire() "Blocks the task until the specified mutex is
\* free and then acquire it": no acquisition waits for a task that cannot run.
\* Here proc_mutex and vmm_frstage_mutex, taken inside the timer interrupt.
NoIrqDeadlock == fault # "irq_deadlock"

\* process.h:74-85: proc_delete() stages the process for deletion, and it is
\* deallocated.
DeletedProcGoes ==
  \A p \in Proc : (p \in mu_tasks) ~> (p \notin procs \/ fault # "none")
=============================================================================
