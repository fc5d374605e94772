----------------------------- MODULE SchedProofs -----------------------------
(***************************************************************************)
(* The invariant of SchedInv holds in every reachable state, for any set   *)
(* of tasks, processes and page directories, any PID limit and any tick    *)
(* width.                                                                  *)
(***************************************************************************)
EXTENDS SchedInv, TLAPS

-----------------------------------------------------------------------------
(***************************************************************************)
(* The initial state                                                       *)
(***************************************************************************)
LEMMA InitType == Init => TypeOK
<1> SUFFICES ASSUME Init PROVE TypeOK
  OBVIOUS
<1> USE TaskAssumption, ProcAssumption, SchedAssumption
    DEF Init, QueueInit, ProcessInit
<1>1. LinksType
  BY DEF LinksType
<1>2. ProcType
  <2>1. procs \subseteq Proc /\ proc_pid \in [Proc -> Pids] /\ proc_vmm \in [Proc -> Vmm]
    BY DEF Pids
  <2>2. proc_tasks \in [Proc -> SUBSET Task] /\ mu_tasks \subseteq Proc
    OBVIOUS
  <2>3. proc_pidtab \in [Pids -> Proc \union {NULL}] /\ proc_pidtab_len \in Pids
    BY DEF Pids
  <2> QED BY <2>1, <2>2, <2>3 DEF ProcType
<1>3. VmmType
  BY DEF VmmType
<1>4. TaskType
  <2>1. type \in [Task -> Types] /\ pid \in [Task -> Pids] /\ ready \subseteq Task
    BY DEF Types, Pids
  <2>2. t_switch \in [Task -> 0 .. TICKS - 1]
    OBVIOUS
  <2> QED BY <2>1, <2>2 DEF TaskType
<1>5. CpuType
  BY DEF CpuType
<1>6. LocalType
  <2>1. pc \in [Task -> Steps] /\ fault \in Faults
    BY DEF Steps, Faults
  <2> QED BY <2>1 DEF LocalType
<1> QED BY <1>1, <1>2, <1>3, <1>4, <1>5, <1>6 DEF TypeOK

\* The kernel starts, after proc_init() and task_init_stub(), in the invariant.
LEMMA InitIInv == Init => IInv
<1> SUFFICES ASSUME Init PROVE IInv
  OBVIOUS
<1>0. TypeOK
  BY InitType
<1> USE TaskAssumption, ProcAssumption, SchedAssumption
    DEF Init, QueueInit, ProcessInit
<1>k. K = "run" /\ Linked = {task_kernel}
  BY DEF K, Linked
<1>1. InvLinks
  BY <1>k DEF InvLinks, WholeNext
<1>c. InvCycle
  BY <1>k DEF InvCycle
<1>2. InvControl
  BY <1>k DEF InvControl
<1>3. InvTasks
  BY <1>k DEF InvTasks
<1>4. InvPids
  <2>1. proc_pidtab_len = 1 * PROC_PIDTAB_ALLOCSZ /\ 1 \in 1 .. proc_pidtab_len
    OBVIOUS
  <2>2. proc_pidtab_len <= PROC_PIDMAX + 1
    OBVIOUS
  <2>3. proc_pidtab[0] = proc_kernel
    BY DEF Pids
  <2>4. \A i \in Pids : proc_pidtab[i] # NULL => i = 0
    OBVIOUS
  <2> QED BY <1>k, <2>1, <2>2, <2>3, <2>4 DEF InvPids
<1>5. InvOwned
  <2>1. proc_get(pid[task_kernel]) = proc_kernel
    BY DEF proc_get, Pids
  <2> QED BY <1>k, <2>1 DEF InvOwned
<1>6. InvVmms
  BY DEF InvVmms
<1> QED BY <1>0, <1>1, <1>c, <1>2, <1>3, <1>4, <1>5, <1>6 DEF IInv

-----------------------------------------------------------------------------
(***************************************************************************)
(* Consequences of the invariant                                           *)
(***************************************************************************)
\* A task in the queue belongs to a process of the PID table.
LEMMA LinkedOwner ==
  ASSUME IInv, NEW t \in Linked
  PROVE  /\ t \in Task
         /\ pid[t] \in Pids /\ pid[t] < proc_pidtab_len
         /\ proc_get(pid[t]) = proc_pidtab[pid[t]]
         /\ proc_pidtab[pid[t]] \in procs /\ proc_pidtab[pid[t]] \in Proc
         /\ proc_pid[proc_pidtab[pid[t]]] = pid[t]
<1>1. t \in Task /\ pid[t] \in Pids
  BY DEF IInv, TypeOK, TaskType, Linked
<1>2. proc_get(pid[t]) \in procs /\ procs \subseteq Proc
  BY DEF IInv, InvOwned, TypeOK, ProcType
<1>3. pid[t] < proc_pidtab_len /\ proc_get(pid[t]) = proc_pidtab[pid[t]]
  BY <1>2, ProcAssumption DEF proc_get
<1>4. proc_pid[proc_pidtab[pid[t]]] = pid[t]
  BY <1>1, <1>2, <1>3, ProcAssumption DEF IInv, InvPids
<1> QED BY <1>1, <1>2, <1>3, <1>4

\* The links are whole except while the kernel task is at one of two steps,
\* during which it is the one that runs.
LEMMA WholeLinks ==
  ASSUME IInv, K \notin {"inserting", "deleting"}
  PROVE  /\ WholeNext = next
         /\ \A t \in Linked : /\ next[t] \in Linked /\ prev[t] \in Linked
                              /\ prev[next[t]] = t /\ next[prev[t]] = t
  BY DEF IInv, InvLinks, WholeNext

\* The timer only takes the CPU away while the links are whole.
LEMMA YieldWhole ==
  ASSUME IInv, task_yield_block_cnt = 0
  PROVE  K \notin {"inserting", "deleting"}
  BY DEF IInv, InvControl

\* The address space in use is never among the staged ones.
LEMMA CurrentNotStaged ==
  ASSUME IInv
  PROVE  /\ vmm_current \notin vmm_frstage
         /\ vmm_kernel \notin vmm_frstage
         /\ Cleaned = vmm_frstage
<1>1. vmm_kernel \notin vmm_frstage
  BY DEF IInv, InvVmms, InvPids
<1>2. CASE task_current = NULL
  BY <1>1, <1>2 DEF IInv, InvVmms, Cleaned
<1>3. CASE task_current # NULL
  <2>1. task_current \in Linked
    BY <1>3 DEF IInv, InvControl
  <2>2. vmm_current \notin vmm_frstage
    BY <1>3, <2>1, LinkedOwner DEF IInv, InvVmms
  <2> QED BY <1>1, <2>2 DEF Cleaned
<1> QED BY <1>2, <1>3

\* What the timer does to a task that has ended: it is the only task of its
\* process, which goes with it; its page directory is the current one and is
\* staged, while those staged before are freed.
LEMMA ReapEffect ==
  ASSUME IInv, NEW d \in Deltas, TimerReap(d)
  PROVE  \E p \in procs \ {proc_kernel}, s \in Linked \ {task_current} :
           /\ task_current \in Linked \ {task_kernel}
           /\ K \notin {"inserting", "deleting"}
           /\ p = proc_get(pid[task_current]) /\ p = proc_pidtab[pid[task_current]]
           /\ proc_tasks[p] = {task_current}
           /\ proc_pid[p] = pid[task_current]
           /\ vmm_current = proc_vmm[p]
           /\ vmm_frstage' = {vmm_current} /\ vmms' = vmms \ vmm_frstage
           /\ procs' = procs \ {p}
           /\ proc_pidtab' = [proc_pidtab EXCEPT ![pid[task_current]] = NULL]
           /\ proc_tasks' = [proc_tasks EXCEPT ![p] = {}]
           /\ mu_tasks' = mu_tasks \ {p}
           /\ UNCHANGED <<proc_pid, proc_vmm, proc_pidtab_len>>
           /\ s \in ready
           /\ SwitchTo(s, timer_tick', proc_pidtab')
<1> DEFINE p == proc_get(pid[task_current])
<1>1. /\ task_current # NULL /\ Ending /\ ~ReapBlocked /\ task_yield_block_cnt = 0
  BY DEF TimerReap, MayYield
<1>2. task_current \in Linked
  BY <1>1 DEF IInv, InvControl
<1>3. task_current # task_kernel /\ K \notin {"inserting", "deleting"}
  BY <1>1, YieldWhole DEF IInv, InvTasks, Ending
<1>4. /\ p = proc_pidtab[pid[task_current]] /\ p \in procs /\ p \in Proc
      /\ proc_pid[p] = pid[task_current] /\ pid[task_current] < proc_pidtab_len
  BY <1>2, LinkedOwner
<1>5. p # proc_kernel /\ proc_tasks[p] = {task_current}
  BY <1>1, <1>2 DEF IInv, InvOwned, Ending
<1>6. vmm_current = proc_vmm[p] /\ proc_vmm[p] # vmm_kernel
  BY <1>1, <1>4, <1>5 DEF IInv, InvVmms, InvPids
<1>7. LastTask /\ ~vmm_frstage_mutex
  BY <1>1, <1>5 DEF LastTask, Owner, ReapBlocked
<1>8. proc_do_delete(p)
  BY <1>7 DEF TimerReap, Owner
<1>9. /\ vmm_frstage' = {vmm_current}
      /\ vmms' = vmms \ vmm_frstage
  <2>1. Staged(proc_vmm[p]) = {vmm_current} /\ Freed(proc_vmm[p]) = {}
    BY <1>6 DEF Staged, Freed
  <2> QED BY <1>8, <2>1, CurrentNotStaged DEF proc_do_delete
<1>10. PICK s \in Task : Selected(s, timer_tick') /\ SwitchTo(s, timer_tick', proc_pidtab')
  BY DEF TimerReap
<1>11. s \in Linked \ {task_current} /\ s \in ready
  BY <1>10 DEF Selected, Candidates
<1>12. proc_pidtab' = [proc_pidtab EXCEPT ![pid[task_current]] = NULL]
  BY <1>4, <1>8 DEF proc_do_delete, proc_pid_free
<1>13. /\ procs' = procs \ {p}
       /\ proc_tasks' = [proc_tasks EXCEPT ![p] = {}]
       /\ mu_tasks' = mu_tasks \ {p}
       /\ UNCHANGED <<proc_pid, proc_vmm, proc_pidtab_len>>
  BY <1>8 DEF proc_do_delete
<1> QED
  BY <1>2, <1>3, <1>4, <1>5, <1>6, <1>9, <1>10, <1>11, <1>12, <1>13

-----------------------------------------------------------------------------
(***************************************************************************)
(* Who writes what                                                         *)
(***************************************************************************)
LEMMA LinksWriters ==
  ASSUME Next
  PROVE  \/ UNCHANGED links
         \/ \E d \in Deltas : TimerReap(d)
         \/ InsertBegin \/ InsertEnd \/ DeleteBegin \/ DeleteEnd
  BY DEF Next, Timer, TimerNoYield, TimerBoot, TimerStay, TimerSwitch,
    TimerReapDeadlock, Yield, YieldEnter, YieldCleanupAndChoose, YieldChoose,
    YieldSwitch, YieldSwitchStale, Exit, BootDone, ShellStep, ProcCreate,
    ProcPidAlloc, ProcPidAllocFails, ElfLoaded, StartFails, ThreadCreate,
    TaskCreate, TaskCreateStackFails, ThreadDelete, Hung, vars

\* Only these steps change a process, its task list, its mutex or the PID table.
LEMMA ProcWriters ==
  ASSUME Next
  PROVE  \/ UNCHANGED procVars
         \/ \E d \in Deltas : TimerReap(d)
         \/ \E t \in Task : Exit(t)
         \/ ProcCreate \/ ProcPidAlloc \/ ProcPidAllocFails \/ StartFails
         \/ TaskCreate \/ TaskCreateStackFails \/ ThreadDelete
  BY DEF Next, Timer, TimerNoYield, TimerBoot, TimerStay, TimerSwitch,
    TimerReapDeadlock, Yield, YieldEnter, YieldCleanupAndChoose, YieldChoose,
    YieldSwitch, YieldSwitchStale, BootDone, ShellStep, ElfLoaded, ThreadCreate,
    InsertBegin, InsertEnd, DeleteBegin, DeleteEnd, Hung, vars

\* Only these steps change CR3 or the page directories.
LEMMA VmmWriters ==
  ASSUME Next
  PROVE  \/ UNCHANGED vmmVars
         \/ \E d \in Deltas : TimerBoot(d) \/ TimerStay(d) \/ TimerSwitch(d) \/ TimerReap(d)
         \/ \E t \in Task : YieldCleanupAndChoose(t) \/ YieldSwitch(t)
         \/ ProcCreate \/ ProcPidAllocFails
  BY DEF Next, Timer, TimerNoYield, TimerReapDeadlock, Yield, YieldEnter,
    YieldChoose, YieldSwitchStale, Exit, BootDone, ShellStep, ProcPidAlloc,
    ElfLoaded, StartFails, ThreadCreate, TaskCreate, TaskCreateStackFails,
    InsertBegin, InsertEnd, ThreadDelete, DeleteBegin, DeleteEnd, Hung, vars

\* Only these steps change a task's type, readiness or PID.
LEMMA TaskWriters ==
  ASSUME Next
  PROVE  \/ UNCHANGED taskVars
         \/ \E d \in Deltas : TimerReap(d)
         \/ \E t \in Task : Exit(t)
         \/ BootDone \/ TaskCreate \/ DeleteEnd
  BY DEF Next, Timer, TimerNoYield, TimerBoot, TimerStay, TimerSwitch,
    TimerReapDeadlock, Yield, YieldEnter, YieldCleanupAndChoose, YieldChoose,
    YieldSwitch, YieldSwitchStale, ShellStep, ProcCreate, ProcPidAlloc,
    ProcPidAllocFails, ElfLoaded, StartFails, ThreadCreate,
    TaskCreateStackFails, InsertBegin, InsertEnd, ThreadDelete, DeleteBegin,
    Hung, vars

\* While the links are half written nothing happens to them but the end of it;
\* and only two steps begin it.
LEMMA HalfWritten ==
  ASSUME IInv, Next
  PROVE  \/ InsertBegin \/ InsertEnd \/ DeleteBegin \/ DeleteEnd
         \/ K \notin {"inserting", "deleting"} /\ K' \notin {"inserting", "deleting"}
         \/ UNCHANGED <<pc, new_task>>
<1>t. pc \in [Task -> Steps] /\ task_kernel \in Task
  BY TaskAssumption DEF IInv, TypeOK, LocalType
<1>1. CASE \E d \in Deltas : TimerReap(d)
  <2> PICK d \in Deltas : TimerReap(d)
    BY <1>1
  <2>1. task_current # task_kernel /\ K \notin {"inserting", "deleting"}
    BY ReapEffect
  <2>2. K' = K
    BY <1>t, <2>1 DEF TimerReap, FreeTask, K
  <2> QED BY <2>1, <2>2
<1>2. CASE \E d \in Deltas : Timer(d) /\ ~TimerReap(d)
  BY <1>2 DEF Timer, TimerNoYield, TimerBoot, TimerStay, TimerSwitch,
    TimerReapDeadlock, locals
<1>3. CASE \E t \in Task : Yield(t) \/ Exit(t)
  <2> PICK t \in Task : Yield(t) \/ Exit(t)
    BY <1>3
  <2>1. CASE YieldSwitchStale(t)
    BY <2>1 DEF YieldSwitchStale, locals
  <2>2. CASE ~YieldSwitchStale(t)
    <3>1. pc[t] \in {"run", "cleanup", "selected"}
      BY <2>2 DEF Yield, YieldEnter, YieldCleanupAndChoose, YieldChoose,
        YieldSwitch, Exit, Running
    <3>2. \E step \in {"run", "cleanup", "selected", "spin"} : Goto(t, step)
      BY <2>2 DEF Yield, YieldEnter, YieldCleanupAndChoose, YieldChoose,
        YieldSwitch, Exit, Choose
    <3>3. task_current = t
      BY <2>2 DEF Yield, YieldEnter, YieldCleanupAndChoose, YieldChoose,
        YieldSwitch, Exit, Running
    <3>4. CASE t = task_kernel
      BY <1>t, <3>1, <3>2, <3>4 DEF Goto, K
    <3>5. CASE t # task_kernel
      BY <1>t, <3>2, <3>3, <3>5 DEF Goto, K, IInv, InvControl
    <3> QED BY <3>4, <3>5
  <2> QED BY <2>1, <2>2
<1>4. CASE BootDone \/ Hung
  BY <1>4 DEF BootDone, Hung, vars, locals
<1>5. CASE ShellStep
  BY <1>5, <1>t DEF ShellStep, ProcCreate, ProcPidAlloc, ProcPidAllocFails,
    ElfLoaded, StartFails, ThreadCreate, TaskCreate, TaskCreateStackFails,
    ThreadDelete, Kmain, Running, KmainGoto, Goto, K
<1> QED BY <1>1, <1>2, <1>3, <1>4, <1>5 DEF Next

-----------------------------------------------------------------------------
(***************************************************************************)
(* The queue                                                               *)
(***************************************************************************)
LEMMA LinksStep ==
  ASSUME IInv, Next
  PROVE  LinksType' /\ InvLinks'
<1> DEFINE n == new_task
<1>t. /\ LinksType /\ task_kernel \in Task /\ NULL \notin Task
      /\ Linked \subseteq Task /\ InvLinks
  BY TaskAssumption DEF IInv, TypeOK, Linked
<1>1. CASE UNCHANGED links /\ UNCHANGED <<pc, new_task>>
  BY <1>t, <1>1 DEF LinksType, InvLinks, WholeNext, Linked, K, links
<1>2. CASE UNCHANGED links /\ K \notin {"inserting", "deleting"}
                         /\ K' \notin {"inserting", "deleting"}
  BY <1>t, <1>2 DEF LinksType, InvLinks, WholeNext, Linked, links
<1>3. CASE \E d \in Deltas : TimerReap(d)
  <2> PICK d \in Deltas : TimerReap(d)
    BY <1>3
  <2> DEFINE c == task_current
  <2>1. c \in Linked \ {task_kernel} /\ K \notin {"inserting", "deleting"}
    BY ReapEffect
  <2>2. K' = K
    BY <1>t, <2>1 DEF TimerReap, FreeTask, K, IInv, TypeOK, LocalType
  <2>3. /\ next' = [next EXCEPT ![prev[c]] = next[c], ![c] = NULL]
        /\ prev' = [prev EXCEPT ![next[c]] = prev[c], ![c] = NULL]
    BY DEF TimerReap, Unlink
  <2>4. /\ WholeNext = next /\ WholeNext' = next'
    BY <2>1, <2>2 DEF WholeNext
  <2>5. Linked' = Linked \ {c}
    BY <1>t, <2>1, <2>3, <2>4, WholeLinks DEF Linked, LinksType
  <2>6. LinksType'
    BY <1>t, <2>1, <2>3, <2>4, WholeLinks DEF LinksType
  <2>7. \A t \in Linked' : /\ next'[t] \in Linked' /\ prev'[next'[t]] = t
                           /\ prev'[t] \in Linked' /\ next'[prev'[t]] = t
    BY <1>t, <2>1, <2>3, <2>5, WholeLinks DEF LinksType
  <2>8. \A t \in Task : t \notin Linked' => prev'[t] = NULL
    BY <1>t, <2>1, <2>3, <2>5, WholeLinks DEF LinksType, InvLinks
  <2> QED BY <2>1, <2>2, <2>4, <2>5, <2>6, <2>7, <2>8, <1>t DEF InvLinks
<1>4. CASE InsertBegin
  <2>1. /\ K = "insert" /\ K' = "inserting" /\ n' = n
        /\ n \in Task \ Linked /\ n # task_kernel
    BY <1>4, <1>t DEF InsertBegin, Kmain, Running, KmainGoto, Goto, K, locals,
      IInv, InvTasks, InvControl, TypeOK, LocalType
  <2>2. /\ next' = [next EXCEPT ![n] = next[task_kernel]]
        /\ prev' = [prev EXCEPT ![n] = task_kernel, ![next[task_kernel]] = n]
    BY <1>4 DEF InsertBegin, InsertBackLinks
  <2>3. /\ WholeNext' = [next' EXCEPT ![task_kernel] = n]
        /\ WholeNext = next
    BY <2>1 DEF WholeNext
  <2>4. Linked' = Linked \union {n}
    BY <1>t, <2>1, <2>2, <2>3 DEF Linked, LinksType, InvLinks
  <2>5. LinksType'
    BY <1>t, <2>1, <2>2, <2>3 DEF LinksType, InvLinks
  <2>6. \A t \in Linked' : /\ WholeNext'[t] \in Linked' /\ prev'[WholeNext'[t]] = t
                           /\ prev'[t] \in Linked' /\ WholeNext'[prev'[t]] = t
    BY <1>t, <2>1, <2>2, <2>3, <2>4 DEF LinksType, InvLinks
  <2>7. \A t \in Task : t \notin Linked' => prev'[t] = NULL
    BY <1>t, <2>1, <2>2, <2>3, <2>4 DEF LinksType, InvLinks
  <2> QED BY <2>1, <2>4, <2>5, <2>6, <2>7, <1>t DEF InvLinks
<1>5. CASE InsertEnd
  <2>1. K = "inserting" /\ K' = "run" /\ n \in Linked
    BY <1>5, <1>t DEF InsertEnd, Kmain, Running, KmainGoto, Goto, K,
      IInv, InvTasks, TypeOK, LocalType
  <2>2. next' = [next EXCEPT ![task_kernel] = n] /\ prev' = prev
    BY <1>5 DEF InsertEnd, InsertForwardLink
  <2>3. WholeNext' = WholeNext
    BY <2>1, <2>2 DEF WholeNext
  <2>4. Linked' = Linked
    BY <1>t, <2>1, <2>2 DEF Linked, LinksType, InvLinks
  <2> QED BY <1>t, <2>1, <2>2, <2>3, <2>4 DEF LinksType, InvLinks
<1>6. CASE DeleteBegin
  <2>1. K = "delete" /\ K' = "deleting" /\ n' = n /\ n \in Linked
    BY <1>6, <1>t DEF DeleteBegin, Kmain, Running, KmainGoto, Goto, K, locals,
      IInv, InvTasks, TypeOK, LocalType
  <2>2. next' = [next EXCEPT ![prev[n]] = next[n]] /\ prev' = prev
    BY <1>6 DEF DeleteBegin, UnlinkForward
  <2>3. WholeNext = next /\ WholeNext' = [next' EXCEPT ![prev[n]] = n]
    BY <2>1, <2>2 DEF WholeNext
  <2>4. WholeNext' = WholeNext
    BY <1>t, <2>1, <2>2, <2>3 DEF LinksType, InvLinks
  <2>5. Linked' = Linked
    BY <1>t, <2>1, <2>2, <2>3 DEF Linked, LinksType, InvLinks
  <2>6. next'[prev[n]] = WholeNext[n]
    BY <1>t, <2>1, <2>2, <2>3 DEF LinksType, InvLinks
  <2> QED BY <1>t, <2>1, <2>2, <2>3, <2>4, <2>5, <2>6 DEF LinksType, InvLinks
<1>7. CASE DeleteEnd
  <2>1. /\ K = "deleting" /\ K' = "run"
        /\ n \in Linked \ {task_kernel}
    BY <1>7, <1>t DEF DeleteEnd, Kmain, Running, K, IInv, InvTasks, TypeOK,
      LocalType
  <2>2. /\ next' = [next EXCEPT ![n] = NULL]
        /\ prev' = [prev EXCEPT ![next[n]] = prev[n], ![n] = NULL]
    BY <1>7 DEF DeleteEnd, UnlinkBack
  <2>3. WholeNext = [next EXCEPT ![prev[n]] = n] /\ WholeNext' = next'
    BY <2>1 DEF WholeNext
  <2>4. Linked' = Linked \ {n}
    BY <1>t, <2>1, <2>2 DEF Linked, LinksType
  <2>5. next[prev[n]] = WholeNext[n] /\ next[n] = WholeNext[n]
    BY <1>t, <2>1, <2>3 DEF InvLinks, LinksType
  <2>6. LinksType'
    BY <1>t, <2>1, <2>2, <2>5 DEF LinksType, InvLinks
  <2>7. \A t \in Linked' : /\ next'[t] \in Linked' /\ prev'[next'[t]] = t
                           /\ prev'[t] \in Linked' /\ next'[prev'[t]] = t
    BY <1>t, <2>1, <2>2, <2>3, <2>4, <2>5 DEF LinksType, InvLinks
  <2>8. \A t \in Task : t \notin Linked' => prev'[t] = NULL
    BY <1>t, <2>1, <2>2, <2>4, <2>5 DEF LinksType, InvLinks
  <2> QED BY <2>1, <2>3, <2>4, <2>6, <2>7, <2>8, <1>t DEF InvLinks
<1> QED BY <1>1, <1>2, <1>3, <1>4, <1>5, <1>6, <1>7, LinksWriters, HalfWritten

-----------------------------------------------------------------------------
(***************************************************************************)
(* The queue stays one cycle                                               *)
(***************************************************************************)
\* Putting a task into the cycle after the kernel task.
LEMMA CycleInsert ==
  ASSUME InvCycle, task_kernel \in Linked, \A t \in Linked : WholeNext[t] \in Linked,
         NEW n, n \notin Linked, Linked' = Linked \union {n},
         WholeNext'[task_kernel] = n, WholeNext'[n] = WholeNext[task_kernel],
         \A t \in Linked \ {task_kernel} : WholeNext'[t] = WholeNext[t]
  PROVE  InvCycle'
<1> SUFFICES ASSUME NEW S \in SUBSET Linked', task_kernel \in S,
                    \A t \in S : WholeNext'[t] \in S
             PROVE  S = Linked'
  BY DEF InvCycle
<1>1. n \in S /\ WholeNext[task_kernel] \in S
  OBVIOUS
<1>2. \A t \in S \ {n} : WholeNext[t] \in S \ {n}
  BY <1>1
<1>3. S \ {n} \in SUBSET Linked /\ task_kernel \in S \ {n}
  OBVIOUS
<1>4. S \ {n} = Linked
  BY <1>2, <1>3 DEF InvCycle
<1> QED BY <1>1, <1>4

\* Taking a task other than the kernel task, c, out of it; b precedes c.
LEMMA CycleRemove ==
  ASSUME InvCycle, NEW c \in Linked \ {task_kernel}, NEW b \in Linked,
         task_kernel \in Linked, \A t \in Linked \ {b} : WholeNext[t] # c,
         \A t \in Linked : WholeNext[t] \in Linked,
         WholeNext[b] = c, Linked' = Linked \ {c},
         b # c => WholeNext'[b] = WholeNext[c],
         \A t \in Linked \ {b, c} : WholeNext'[t] = WholeNext[t]
  PROVE  InvCycle'
<1>1. b # c
  <2> SUFFICES ASSUME b = c PROVE FALSE
    OBVIOUS
  <2>1. \A t \in Linked \ {c} : WholeNext[t] \in Linked \ {c}
    OBVIOUS
  <2>2. Linked \ {c} = Linked
    BY <2>1 DEF InvCycle
  <2> QED BY <2>2
<1> SUFFICES ASSUME NEW S \in SUBSET Linked', task_kernel \in S,
                    \A t \in S : WholeNext'[t] \in S
             PROVE  S = Linked'
  BY DEF InvCycle
<1>2. b \in S
  <2> SUFFICES ASSUME b \notin S PROVE FALSE
    OBVIOUS
  <2>1. \A t \in S : WholeNext[t] \in S
    OBVIOUS
  <2>2. S = Linked
    BY <2>1 DEF InvCycle
  <2> QED BY <2>2
<1>3. \A t \in S \union {c} : WholeNext[t] \in S \union {c}
  BY <1>1, <1>2
<1>4. S \union {c} \in SUBSET Linked /\ task_kernel \in S \union {c}
  OBVIOUS
<1>5. S \union {c} = Linked
  BY <1>3, <1>4 DEF InvCycle
<1> QED BY <1>5

\* task_insert(), task_do_delete() and everything in between keep the queue one
\* cycle.
LEMMA CycleStep ==
  ASSUME IInv, Next
  PROVE  InvCycle'
<1> DEFINE n == new_task
<1>t. /\ LinksType /\ LocalType /\ InvLinks /\ InvCycle /\ InvTasks
      /\ Linked \subseteq Task /\ NULL \notin Task /\ task_kernel \in Linked
      /\ \A t \in Linked : WholeNext[t] \in Linked
      /\ \A t \in Linked : /\ prev[t] \in Linked /\ WholeNext[prev[t]] = t
                           /\ prev[WholeNext[t]] = t
  BY TaskAssumption DEF IInv, TypeOK, InvLinks, Linked
<1>1. CASE Linked' = Linked /\ \A t \in Linked : WholeNext'[t] = WholeNext[t]
  BY <1>t, <1>1 DEF InvCycle
<1>2. CASE \E d \in Deltas : TimerReap(d)
  <2> PICK d \in Deltas : TimerReap(d)
    BY <1>2
  <2> DEFINE c == task_current
  <2>1. c \in Linked \ {task_kernel} /\ K \notin {"inserting", "deleting"}
    BY ReapEffect
  <2>2. K' = K
    BY <1>t, <2>1 DEF TimerReap, FreeTask, K, LocalType
  <2>3. WholeNext = next /\ WholeNext' = next'
    BY <2>1, <2>2 DEF WholeNext
  <2>4. next' = [next EXCEPT ![prev[c]] = next[c], ![c] = NULL]
    BY DEF TimerReap, Unlink
  <2>5. /\ prev[c] # c => next'[prev[c]] = next[c]
        /\ \A t \in Linked \ {prev[c], c} : next'[t] = next[t]
    BY <1>t, <2>1, <2>4 DEF LinksType
  <2>6. Linked' = Linked \ {c}
    BY <1>t, <2>1, <2>3, <2>4 DEF Linked, LinksType
  <2>7. \A t \in Linked \ {prev[c]} : WholeNext[t] # c
    BY <1>t
  <2> HIDE DEF c
  <2> QED BY <1>t, <2>1, <2>3, <2>5, <2>6, <2>7, CycleRemove
<1>3. CASE InsertBegin
  <2>1. /\ K = "insert" /\ K' = "inserting" /\ n' = n
        /\ n \in Task \ Linked /\ n # task_kernel
    BY <1>3, <1>t DEF InsertBegin, Kmain, Running, KmainGoto, Goto, K, locals,
      IInv, InvTasks, InvControl, LocalType
  <2>2. WholeNext = next /\ WholeNext' = [next' EXCEPT ![task_kernel] = n]
    BY <2>1 DEF WholeNext
  <2>3. next' = [next EXCEPT ![n] = next[task_kernel]]
    BY <1>3 DEF InsertBegin, InsertBackLinks
  <2>4. /\ WholeNext'[task_kernel] = n /\ WholeNext'[n] = WholeNext[task_kernel]
        /\ \A t \in Linked \ {task_kernel} : WholeNext'[t] = WholeNext[t]
    BY <1>t, <2>1, <2>2, <2>3 DEF LinksType
  <2>5. Linked' = Linked \union {n}
    BY <1>t, <2>1, <2>2, <2>3 DEF Linked, LinksType
  <2> HIDE DEF n
  <2> QED BY <1>t, <2>1, <2>4, <2>5, CycleInsert
<1>4. CASE InsertEnd
  <2>1. K = "inserting" /\ K' = "run" /\ n \in Linked
    BY <1>4, <1>t DEF InsertEnd, Kmain, Running, KmainGoto, Goto, K, InvTasks, LocalType
  <2>2. next' = [next EXCEPT ![task_kernel] = n]
    BY <1>4 DEF InsertEnd, InsertForwardLink
  <2>3. WholeNext' = WholeNext
    BY <2>1, <2>2 DEF WholeNext
  <2>4. Linked' = Linked
    BY <1>t, <2>1, <2>2 DEF Linked, LinksType
  <2> QED BY <1>1, <2>3, <2>4
<1>5. CASE DeleteBegin
  <2>1. K = "delete" /\ K' = "deleting" /\ n' = n /\ n \in Linked
    BY <1>5, <1>t DEF DeleteBegin, Kmain, Running, KmainGoto, Goto, K, locals,
      InvTasks, LocalType
  <2>2. next' = [next EXCEPT ![prev[n]] = next[n]] /\ prev' = prev
    BY <1>5 DEF DeleteBegin, UnlinkForward
  <2>3. WholeNext = next /\ WholeNext' = [next' EXCEPT ![prev[n]] = n]
    BY <2>1, <2>2 DEF WholeNext
  <2>4. WholeNext' = WholeNext
    BY <1>t, <2>1, <2>2, <2>3 DEF LinksType
  <2>5. Linked' = Linked
    BY <1>t, <2>1, <2>2, <2>3 DEF Linked, LinksType
  <2> QED BY <1>1, <2>4, <2>5
<1>6. CASE DeleteEnd
  <2>1. K = "deleting" /\ K' = "run" /\ n \in Linked \ {task_kernel}
    BY <1>6, <1>t DEF DeleteEnd, Kmain, Running, K, InvTasks, LocalType
  <2>2. next' = [next EXCEPT ![n] = NULL]
    BY <1>6 DEF DeleteEnd, UnlinkBack
  <2>3. WholeNext = [next EXCEPT ![prev[n]] = n] /\ WholeNext' = next'
    BY <2>1 DEF WholeNext
  <2>4. next[prev[n]] = WholeNext[n]
    BY <2>1 DEF IInv, InvLinks
  <2>5. /\ prev[n] # n => WholeNext'[prev[n]] = WholeNext[n]
        /\ \A t \in Linked \ {prev[n], n} : WholeNext'[t] = WholeNext[t]
    BY <1>t, <2>1, <2>2, <2>3, <2>4 DEF LinksType
  <2>6. Linked' = Linked \ {n}
    BY <1>t, <2>1, <2>2 DEF Linked, LinksType
  <2>7. \A t \in Linked \ {prev[n]} : WholeNext[t] # n
    BY <1>t
  <2> HIDE DEF n
  <2> QED BY <1>t, <2>1, <2>5, <2>6, <2>7, CycleRemove
<1>7. CASE UNCHANGED links /\ (K' = K \/ {K, K'} \intersect {"inserting", "deleting"} = {})
                         /\ (K \in {"inserting", "deleting"} => new_task' = new_task)
  <2>1. Linked' = Linked /\ WholeNext' = WholeNext
    BY <1>7 DEF Linked, WholeNext, links
  <2> QED BY <1>1, <2>1
<1>8. CASE UNCHANGED links /\ ~InsertBegin /\ ~InsertEnd /\ ~DeleteBegin /\ ~DeleteEnd
  BY <1>7, <1>8, HalfWritten DEF K
<1> QED BY <1>2, <1>3, <1>4, <1>5, <1>6, <1>8, LinksWriters

-----------------------------------------------------------------------------
(***************************************************************************)
(* The local state of the kernel task                                      *)
(***************************************************************************)
LEMMA TickArithmetic ==
  ASSUME NEW d \in Nat, NEW now \in Nat
  PROVE  (now + d) % TICKS \in 0 .. TICKS - 1
  BY SchedAssumption

\* Whatever is not a step of the kernel's own code leaves its locals alone, and
\* moves its control at most between the steps of a yield.
LEMMA OtherSteps ==
  ASSUME IInv, Next, ~ShellStep
  PROVE  /\ UNCHANGED <<new_proc, new_task, task_yield_block_cnt>>
         /\ \/ K' = K
            \/ /\ K \in {"run", "cleanup", "selected"}
               /\ K' \in {"run", "cleanup", "selected"}
<1>t. pc \in [Task -> Steps] /\ task_kernel \in Task
  BY TaskAssumption DEF IInv, TypeOK, LocalType
<1>1. CASE \E d \in Deltas : TimerReap(d)
  <2> PICK d \in Deltas : TimerReap(d)
    BY <1>1
  <2>1. task_current # task_kernel
    BY ReapEffect
  <2> QED BY <1>t, <2>1 DEF TimerReap, FreeTask, K, locals
<1>2. CASE \E d \in Deltas : Timer(d) /\ ~TimerReap(d)
  BY <1>2 DEF Timer, TimerNoYield, TimerBoot, TimerStay, TimerSwitch,
    TimerReapDeadlock, locals, K
<1>3. CASE \E t \in Task : Yield(t)
  <2> PICK t \in Task : Yield(t)
    BY <1>3
  <2>1. /\ UNCHANGED <<new_proc, new_task, task_yield_block_cnt>>
        /\ UNCHANGED pc \/
           /\ pc[t] \in {"run", "cleanup", "selected"}
           /\ \E step \in {"run", "cleanup", "selected"} : Goto(t, step)
    BY DEF Yield, YieldEnter, YieldCleanupAndChoose, YieldChoose, YieldSwitch,
      YieldSwitchStale, Choose, Running, locals
  <2> QED BY <1>t, <2>1 DEF Goto, K
<1>4. CASE \E t \in Task : Exit(t)
  <2> PICK t \in Task : Exit(t)
    BY <1>4
  <2>1. t # task_kernel
    BY DEF Exit, IInv, InvTasks
  <2> QED BY <1>t, <2>1 DEF Exit, Goto, K, locals
<1>5. CASE BootDone \/ Hung
  BY <1>5 DEF BootDone, Hung, vars, locals, K
<1> QED BY <1>1, <1>2, <1>3, <1>4, <1>5 DEF Next

\* The counters and the current task keep their types; blocked sections do not
\* nest.
LEMMA CpuStep ==
  ASSUME IInv, Next
  PROVE  CpuType'
<1> USE TaskAssumption, SchedAssumption
<1>t. CpuType /\ ~(NULL \in Task)
  BY DEF IInv, TypeOK
<1>1. timer_tick' \in 0 .. TICKS - 1
  <2>1. CASE \E d \in Deltas : Timer(d)
    <3> PICK d \in Deltas : Timer(d)
      BY <2>1
    <3>1. timer_tick' = (timer_tick + d) % TICKS
      BY DEF Timer, TimerNoYield, TimerBoot, TimerStay, TimerSwitch, TimerReap,
        TimerReapDeadlock, Advance
    <3> QED BY <3>1, <1>t, TickArithmetic DEF CpuType
  <2>2. CASE ~\E d \in Deltas : Timer(d)
    <3>1. UNCHANGED timer_tick
      BY <2>2 DEF Next, Yield, YieldEnter, YieldCleanupAndChoose, YieldChoose,
        YieldSwitch, YieldSwitchStale, Exit, BootDone, ShellStep, ProcCreate,
        ProcPidAlloc, ProcPidAllocFails, ElfLoaded, StartFails, ThreadCreate,
        TaskCreate, TaskCreateStackFails, InsertBegin, InsertEnd, ThreadDelete,
        DeleteBegin, DeleteEnd, Hung, vars, clockVars
    <3> QED BY <1>t, <3>1 DEF CpuType
  <2> QED BY <2>1, <2>2
<1>2. \/ UNCHANGED <<task_current, task_yield_tick>>
      \/ \E d \in Deltas, s \in Task :
           /\ TimerBoot(d) \/ TimerSwitch(d) \/ TimerReap(d)
           /\ task_current' = s /\ task_yield_tick' = timer_tick'
      \/ \E t \in Task : /\ YieldSwitch(t)
                         /\ task_current' = task_selected[t]
                         /\ task_yield_tick' = timer_tick
  BY DEF Next, Timer, TimerNoYield, TimerBoot, TimerStay, TimerSwitch, TimerReap,
    TimerReapDeadlock, SwitchTo, Yield, YieldEnter, YieldCleanupAndChoose,
    YieldChoose, YieldSwitch, YieldSwitchStale, Exit, BootDone, ShellStep,
    ProcCreate, ProcPidAlloc, ProcPidAllocFails, ElfLoaded, StartFails,
    ThreadCreate, TaskCreate, TaskCreateStackFails, InsertBegin, InsertEnd,
    ThreadDelete, DeleteBegin, DeleteEnd, Hung, vars, clockVars
<1>3. task_current' \in Task \union {NULL} /\ task_yield_tick' \in 0 .. TICKS - 1
  BY <1>t, <1>1, <1>2 DEF CpuType, YieldSwitch, Linked
<1>4. task_yield_block_cnt' \in 0 .. 1
  <2>1. CASE ~ShellStep
    BY <2>1, <1>t, OtherSteps DEF CpuType
  <2>2. CASE ShellStep
    BY <2>2, <1>t DEF ShellStep, ProcCreate, ProcPidAlloc, ProcPidAllocFails,
      ElfLoaded, StartFails, ThreadCreate, TaskCreate, TaskCreateStackFails,
      ThreadDelete, InsertBegin, InsertEnd, DeleteBegin, DeleteEnd, Unblock,
      CpuType, Kmain, Running, IInv, InvControl, K
  <2> QED BY <2>1, <2>2
<1> QED BY <1>1, <1>3, <1>4 DEF CpuType

-----------------------------------------------------------------------------
(***************************************************************************)
(* Processes and the PID table                                             *)
(***************************************************************************)
\* Growing a table that has not reached the limit keeps it within the limit.
LEMMA GrowWithinLimit ==
  ASSUME NEW a \in Nat \ {0}, NEW k \in Nat, NEW m \in Nat, k * a < m * a
  PROVE  (k + 1) * a <= m * a
<1>1. k < m
  <2> SUFFICES ASSUME k >= m PROVE FALSE
    OBVIOUS
  <2> QED OBVIOUS
<1>2. PICK e \in Nat : m = (k + 1) + e
  BY <1>1
<1>3. m * a = (k + 1) * a + e * a /\ e * a >= 0
  BY <1>2
<1> QED BY <1>3

\* What a successful proc_pid_alloc() does, for a PID within the limit.
LEMMA PidAllocEffect ==
  ASSUME IInv, ProcPidAlloc
  PROVE  \E i \in Pids :
           /\ i <= PROC_PIDMAX /\ i <= proc_pidtab_len
           /\ proc_pidtab[i] = NULL
           /\ proc_pidtab' = [proc_pidtab EXCEPT ![i] = new_proc]
           /\ proc_pid' = [proc_pid EXCEPT ![new_proc] = i]
           /\ i < proc_pidtab_len' /\ proc_pidtab_len' >= proc_pidtab_len
           /\ proc_pidtab_len' <= PROC_PIDMAX + 1
           /\ \E k \in 1 .. proc_pidtab_len' : proc_pidtab_len' = k * PROC_PIDTAB_ALLOCSZ
<1> DEFINE len == proc_pidtab_len
           a == PROC_PIDTAB_ALLOCSZ
<1> USE ProcAssumption
<1>1. PICK i \in Pids : FirstFreePid(i) /\ AssignPid(new_proc, i)
  BY DEF ProcPidAlloc
<1>2. len \in Nat /\ len > 0 /\ len <= PROC_PIDMAX + 1 /\ i \in Nat
  BY DEF IInv, TypeOK, ProcType, InvPids, Pids
<1>3. PICK k \in 1 .. len : len = k * a
  BY DEF IInv, InvPids
<1>4. CASE i # len
  <2>1. i < len /\ proc_pidtab[i] = NULL /\ proc_pidtab_len' = len
    BY <1>1, <1>2, <1>4 DEF FirstFreePid, AssignPid
  <2>2. i <= PROC_PIDMAX /\ i <= len /\ i < len' /\ len' >= len /\ len' <= PROC_PIDMAX + 1
    BY <1>2, <2>1
  <2>3. \E j \in 1 .. len' : len' = j * a
    BY <1>3, <2>1
  <2>4. /\ proc_pidtab' = [proc_pidtab EXCEPT ![i] = new_proc]
        /\ proc_pid' = [proc_pid EXCEPT ![new_proc] = i]
    BY <1>1 DEF AssignPid
  <2> QED BY <2>1, <2>2, <2>3, <2>4
<1>5. CASE i = len
  <2>1. len <= PROC_PIDMAX
    BY <1>1, <1>2, <1>5 DEF ProcPidAlloc, PidLimitReached
  <2>2. PICK m \in 1 .. PROC_PIDMAX + 1 : PROC_PIDMAX + 1 = m * a
    OBVIOUS
  <2>3. (k + 1) * a <= PROC_PIDMAX + 1
    <3>1. k * a < m * a
      BY <1>2, <1>3, <2>1, <2>2
    <3>2. (k + 1) * a <= m * a
      BY <1>2, <3>1, GrowWithinLimit
    <3> QED BY <2>2, <3>2
  <2>4. proc_pidtab_len' = (k + 1) * a /\ k + 1 \in 1 .. proc_pidtab_len'
    <3>1. (k + 1) * a = len + a
      BY <1>3
    <3>2. proc_pidtab_len' = len + a
      BY <1>1, <1>5 DEF AssignPid
    <3> QED BY <1>2, <1>3, <3>1, <3>2
  <2>5. proc_pidtab[i] = NULL
    BY <1>2, <1>5 DEF IInv, InvPids
  <2>6. proc_pidtab_len' = len + a
    BY <1>1, <1>5 DEF AssignPid
  <2>7. i <= PROC_PIDMAX /\ i <= len /\ i < len' /\ len' >= len /\ len' <= PROC_PIDMAX + 1
    BY <1>2, <1>5, <2>1, <2>3, <2>4, <2>6
  <2>8. /\ proc_pidtab' = [proc_pidtab EXCEPT ![i] = new_proc]
        /\ proc_pid' = [proc_pid EXCEPT ![new_proc] = i]
    BY <1>1 DEF AssignPid
  <2> QED BY <2>4, <2>5, <2>7, <2>8
<1> QED BY <1>4, <1>5

\* Only three steps concern a process that has no PID yet.
LEMMA PidAllocSteps ==
  ASSUME IInv, Next
  PROVE  \/ ProcCreate \/ ProcPidAlloc \/ ProcPidAllocFails
         \/ /\ K' = "pid_alloc" <=> K = "pid_alloc"
            /\ K = "pid_alloc" => new_proc' = new_proc
<1>1. CASE ~ShellStep
  BY <1>1, OtherSteps
<1>2. CASE ShellStep
  BY <1>2, TaskAssumption DEF ShellStep, ElfLoaded, StartFails, ThreadCreate,
    TaskCreate, TaskCreateStackFails, InsertBegin, InsertEnd, ThreadDelete,
    DeleteBegin, DeleteEnd, Kmain, Running, KmainGoto, Goto, K, IInv, TypeOK,
    LocalType
<1> QED BY <1>1, <1>2

\* The kernel's process is never the one without a PID or the one reaped.
LEMMA ProcStep ==
  ASSUME IInv, Next
  PROVE  ProcType' /\ InvPids'
<1> USE ProcAssumption, TaskAssumption
<1>t. /\ ProcType /\ InvPids /\ LinksType /\ CpuType /\ LocalType
      /\ pc \in [Task -> Steps]
  BY DEF IInv, TypeOK, LocalType
<1>1. CASE /\ UNCHANGED pidVars
           /\ K' = "pid_alloc" <=> K = "pid_alloc"
           /\ K = "pid_alloc" => new_proc' = new_proc
  <2>1. InvPids'
    BY <1>1, <1>t DEF InvPids, pidVars
  <2>2. proc_tasks' \in [Proc -> SUBSET Task] /\ mu_tasks' \subseteq Proc
    <3>1. CASE UNCHANGED procVars
      BY <3>1, <1>t DEF procVars, ProcType
    <3>2. CASE \E d \in Deltas : TimerReap(d)
      <4>1. PICK d \in Deltas : TimerReap(d)
        BY <3>2
      <4> QED BY <4>1, <1>t, ReapEffect DEF ProcType
    <3>3. CASE \E t \in Task : Exit(t)
      <4>1. PICK t \in Task : Exit(t)
        BY <3>3
      <4>2. t \in Linked
        BY <4>1 DEF Exit, Running, IInv, InvControl
      <4>3. proc_get(pid[t]) \in Proc
        BY <4>2, LinkedOwner
      <4> QED BY <4>1, <4>3, <1>t DEF Exit, ProcType
    <3>4. CASE ProcCreate \/ ProcPidAlloc \/ ProcPidAllocFails
      BY <3>4, <1>t DEF ProcCreate, ProcPidAlloc, ProcPidAllocFails, ProcType
    <3>5. CASE StartFails
      <4>1. new_proc \in procs
        BY <3>5 DEF StartFails, Kmain, Running, K, IInv, InvControl
      <4> QED BY <3>5, <4>1, <1>t DEF StartFails, ProcType
    <3>6. CASE TaskCreate \/ TaskCreateStackFails
      BY <3>6, <1>t DEF TaskCreate, TaskCreateStackFails, ProcType
    <3>7. CASE ThreadDelete
      BY <3>7, <1>t DEF ThreadDelete, ProcType
    <3> QED BY <3>1, <3>2, <3>3, <3>4, <3>5, <3>6, <3>7, ProcWriters
  <2> QED BY <1>1, <1>t, <2>1, <2>2 DEF ProcType, pidVars
<1>2. CASE \E d \in Deltas : TimerReap(d)
  <2> PICK d \in Deltas : TimerReap(d)
    BY <1>2
  <2> DEFINE i == pid[task_current]
  <2>1. PICK p \in procs \ {proc_kernel} :
          /\ task_current \in Linked
          /\ p = proc_pidtab[i] /\ proc_pid[p] = i
          /\ procs' = procs \ {p}
          /\ proc_pidtab' = [proc_pidtab EXCEPT ![i] = NULL]
          /\ proc_tasks' = [proc_tasks EXCEPT ![p] = {}]
          /\ mu_tasks' = mu_tasks \ {p}
          /\ UNCHANGED <<proc_pid, proc_vmm, proc_pidtab_len>>
    BY ReapEffect
  <2>2. i \in Pids /\ i # 0
    BY <2>1, <1>t, LinkedOwner DEF InvPids
  <2>3. ProcType'
    BY <1>t, <2>1, <2>2 DEF ProcType
  <2>4. /\ K' = "pid_alloc" <=> K = "pid_alloc"
        /\ K = "pid_alloc" => new_proc' = new_proc /\ new_proc # p
    <3>1. K' = K /\ new_proc' = new_proc
      <4>1. task_current # task_kernel
        BY ReapEffect
      <4> QED BY <1>t, <4>1 DEF TimerReap, FreeTask, K, locals
    <3>2. K = "pid_alloc" => new_proc # p
      BY <2>1, <2>2, <1>t DEF InvPids, ProcType
    <3> QED BY <3>1, <3>2
  <2>5. \A j \in Pids : proc_pidtab'[j] # NULL => j # i /\ proc_pidtab'[j] = proc_pidtab[j]
    BY <1>t, <2>1, <2>2 DEF ProcType
  <2>6. \A q \in procs' : (K' = "pid_alloc" => q # new_proc') =>
          proc_pidtab'[proc_pid'[q]] = q
    <3> SUFFICES ASSUME NEW q \in procs', K' = "pid_alloc" => q # new_proc'
                 PROVE  proc_pidtab'[proc_pid'[q]] = q
      OBVIOUS
    <3>1. proc_pidtab[proc_pid[q]] = q /\ q # p
      BY <2>1, <2>4, <1>t DEF InvPids
    <3>2. proc_pid[q] # i /\ proc_pid[q] \in Pids
      BY <2>1, <3>1, <1>t DEF ProcType
    <3> QED BY <1>t, <2>1, <2>2, <3>1, <3>2 DEF ProcType
  <2>7. proc_pidtab'[0] = proc_kernel
    BY <1>t, <2>1, <2>2 DEF ProcType, InvPids
  <2>8. \A j \in Pids : proc_pidtab'[j] # NULL =>
          /\ j < proc_pidtab_len'
          /\ proc_pidtab'[j] \in procs'
          /\ proc_pid'[proc_pidtab'[j]] = j
          /\ K' = "pid_alloc" => proc_pidtab'[j] # new_proc'
    BY <1>t, <2>1, <2>4, <2>5 DEF InvPids
  <2> QED BY <1>t, <2>1, <2>3, <2>6, <2>7, <2>8 DEF InvPids
<1>3. CASE ProcCreate
  <2>1. /\ K = "run" /\ K' = "pid_alloc"
        /\ new_proc' \in Proc \ procs /\ procs' = procs \union {new_proc'}
        /\ UNCHANGED <<proc_pid, proc_tasks, mu_tasks, proc_pidtab, proc_pidtab_len>>
    BY <1>3, <1>t DEF ProcCreate, Kmain, Running, KmainGoto, Goto, K
  <2>2. ProcType'
    BY <1>3, <1>t, <2>1 DEF ProcCreate, ProcType
  <2> QED BY <1>t, <2>1, <2>2 DEF InvPids
<1>4. CASE ProcPidAlloc
  <2>1. PICK i \in Pids :
          /\ i <= PROC_PIDMAX /\ i <= proc_pidtab_len
          /\ proc_pidtab[i] = NULL
          /\ proc_pidtab' = [proc_pidtab EXCEPT ![i] = new_proc]
          /\ proc_pid' = [proc_pid EXCEPT ![new_proc] = i]
          /\ i < proc_pidtab_len' /\ proc_pidtab_len' >= proc_pidtab_len
          /\ proc_pidtab_len' <= PROC_PIDMAX + 1
          /\ \E k \in 1 .. proc_pidtab_len' : proc_pidtab_len' = k * PROC_PIDTAB_ALLOCSZ
    BY <1>4, PidAllocEffect
  <2>2. /\ K = "pid_alloc" /\ K' = "elf_load" /\ new_proc' = new_proc
        /\ new_proc \in procs \ {proc_kernel}
        /\ UNCHANGED <<procs, proc_vmm, proc_tasks, mu_tasks>>
    BY <1>4, <1>t DEF ProcPidAlloc, Kmain, Running, KmainGoto, Goto, K, locals,
      IInv, InvControl
  <2>3. proc_pidtab_len' \in Nat /\ proc_pidtab_len' > 0 /\ proc_pidtab_len' \in Pids
    BY <2>1 DEF Pids
  <2>4. ProcType'
    BY <1>t, <2>1, <2>2, <2>3 DEF ProcType
  <2>5. \A j \in Pids : proc_pidtab'[j] # NULL =>
          /\ j < proc_pidtab_len'
          /\ proc_pidtab'[j] \in procs'
          /\ proc_pid'[proc_pidtab'[j]] = j
    <3> SUFFICES ASSUME NEW j \in Pids, proc_pidtab'[j] # NULL
                 PROVE  /\ j < proc_pidtab_len'
                        /\ proc_pidtab'[j] \in procs'
                        /\ proc_pid'[proc_pidtab'[j]] = j
      OBVIOUS
    <3>1. CASE j = i
      BY <1>t, <2>1, <2>2, <3>1 DEF ProcType
    <3>2. CASE j # i
      <4>1. proc_pidtab'[j] = proc_pidtab[j] /\ proc_pidtab[j] # new_proc
        BY <1>t, <2>1, <2>2, <3>2 DEF ProcType, InvPids
      <4>2. j < proc_pidtab_len /\ j < proc_pidtab_len'
        BY <1>t, <2>1, <2>3, <4>1 DEF ProcType, InvPids, Pids
      <4> QED BY <1>t, <2>1, <2>2, <4>1, <4>2 DEF ProcType, InvPids
    <3> QED BY <3>1, <3>2
  <2>6. \A q \in procs' : proc_pidtab'[proc_pid'[q]] = q
    BY <1>t, <2>1, <2>2 DEF ProcType, InvPids
  <2>7. /\ proc_kernel \in procs' /\ proc_pidtab'[0] = proc_kernel
        /\ proc_pid'[proc_kernel] = 0
    BY <1>t, <2>1, <2>2 DEF ProcType, InvPids
  <2> QED BY <2>1, <2>2, <2>3, <2>4, <2>5, <2>6, <2>7 DEF InvPids
<1>5. CASE ProcPidAllocFails
  <2>1. /\ K = "pid_alloc" /\ K' = "run"
        /\ new_proc \in procs \ {proc_kernel} /\ procs' = procs \ {new_proc}
        /\ UNCHANGED <<proc_pid, proc_vmm, proc_tasks, mu_tasks, proc_pidtab,
                       proc_pidtab_len>>
    BY <1>5, <1>t DEF ProcPidAllocFails, Kmain, Running, KmainGoto, Goto, K,
      IInv, InvControl
  <2> QED BY <1>t, <2>1 DEF InvPids, ProcType
<1>6. CASE UNCHANGED pidVars
  BY <1>1, <1>3, <1>4, <1>5, <1>6, PidAllocSteps
<1>7. \/ UNCHANGED pidVars
      \/ \E d \in Deltas : TimerReap(d)
      \/ ProcCreate \/ ProcPidAlloc \/ ProcPidAllocFails
  BY ProcWriters DEF procVars, Exit, StartFails, TaskCreate,
    TaskCreateStackFails, ThreadDelete
<1> QED BY <1>2, <1>3, <1>4, <1>5, <1>6, <1>7

-----------------------------------------------------------------------------
(***************************************************************************)
(* Control                                                                 *)
(***************************************************************************)
LEMMA LocalStep ==
  ASSUME IInv, Next
  PROVE  LocalType'
<1> USE TaskAssumption DEF Steps, Faults
<1>t. LocalType /\ Linked \subseteq Task /\ task_current \in Task \union {NULL}
  BY DEF IInv, TypeOK, CpuType, Linked
<1>1. CASE \E d \in Deltas : Timer(d)
  <2> PICK d \in Deltas : Timer(d)
    BY <1>1
  <2>1. CASE TimerReap(d)
    BY <2>1, <1>t DEF TimerReap, FreeTask, locals, LocalType
  <2>2. CASE TimerReapDeadlock(d)
    BY <2>2, <1>t DEF TimerReapDeadlock, locals, LocalType
  <2>3. CASE TimerNoYield(d) \/ TimerBoot(d) \/ TimerStay(d) \/ TimerSwitch(d)
    BY <2>3, <1>t DEF TimerNoYield, TimerBoot, TimerStay, TimerSwitch, locals,
      LocalType
  <2> QED BY <2>1, <2>2, <2>3 DEF Timer
<1>2. CASE \E t \in Task : Yield(t) \/ Exit(t)
  <2> PICK t \in Task : Yield(t) \/ Exit(t)
    BY <1>2
  <2>1. \/ UNCHANGED pc
        \/ \E step \in Steps : Goto(t, step)
    BY DEF Yield, YieldEnter, YieldCleanupAndChoose, YieldChoose, YieldSwitch,
      YieldSwitchStale, Exit, Choose
  <2>2. \/ UNCHANGED task_selected
        \/ \E s \in Task \union {NULL} : task_selected' = [task_selected EXCEPT ![t] = s]
    BY DEF Yield, YieldEnter, YieldCleanupAndChoose, YieldChoose, YieldSwitch,
      YieldSwitchStale, Exit, Choose, locals
  <2>3. /\ UNCHANGED <<new_proc, new_task>>
        /\ vmm_frstage_mutex' \in {TRUE, FALSE, vmm_frstage_mutex}
        /\ fault' \in {fault, "stale_task_selected"}
    BY DEF Yield, YieldEnter, YieldCleanupAndChoose, YieldChoose, YieldSwitch,
      YieldSwitchStale, Exit, Choose, locals
  <2>4. pc' \in [Task -> Steps] /\ task_selected' \in [Task -> Task \union {NULL}]
    BY <1>t, <2>1, <2>2 DEF Goto, LocalType
  <2>5. vmm_frstage_mutex' \in BOOLEAN /\ fault' \in Faults
    BY <1>t, <2>3 DEF LocalType
  <2> QED BY <1>t, <2>3, <2>4, <2>5 DEF LocalType
<1>3. CASE BootDone \/ Hung
  BY <1>3, <1>t DEF BootDone, Hung, vars, locals, LocalType
<1>4. CASE ShellStep
  <2>1. CASE ProcCreate \/ ProcPidAlloc \/ ProcPidAllocFails \/ ElfLoaded \/ StartFails
    BY <2>1, <1>t, ProcAssumption DEF ProcCreate, ProcPidAlloc,
      ProcPidAllocFails, ElfLoaded, StartFails, KmainGoto, Goto, locals, LocalType
  <2>2. CASE ThreadCreate \/ TaskCreate \/ TaskCreateStackFails
    BY <2>2, <1>t, ProcAssumption DEF ThreadCreate, TaskCreate,
      TaskCreateStackFails, KmainGoto, Goto, LocalType
  <2>3. CASE InsertBegin \/ InsertEnd \/ ThreadDelete \/ DeleteBegin
    BY <2>3, <1>t DEF InsertBegin, InsertEnd, ThreadDelete, DeleteBegin,
      KmainGoto, Goto, locals, LocalType
  <2>4. CASE DeleteEnd
    BY <2>4, <1>t DEF DeleteEnd, LocalType
  <2> QED BY <1>4, <2>1, <2>2, <2>3, <2>4 DEF ShellStep
<1> QED BY <1>1, <1>2, <1>3, <1>4 DEF Next

\* Once freed, a structure is not what the kernel task works on, and no step
\* but its own takes the running task out of the queue.
LEMMA ControlStep ==
  ASSUME IInv, Next
  PROVE  InvControl'
<1> USE TaskAssumption, ProcAssumption
<1>t. /\ InvControl /\ LocalType /\ Linked \subseteq Task
      /\ CpuType /\ InvLinks /\ LinksType
      /\ procs \subseteq Proc
  BY DEF IInv, TypeOK, Linked, ProcType
<1>1. CASE ~ShellStep
  <2>1. /\ UNCHANGED <<new_proc, new_task, task_yield_block_cnt>>
        /\ \/ K' = K
           \/ /\ K \in {"run", "cleanup", "selected"}
              /\ K' \in {"run", "cleanup", "selected"}
    BY <1>1, OtherSteps
  <2>2. \A t \in Task \ {task_kernel} :
          pc'[t] \in {"run", "cleanup", "selected", "spin"}
    <3>1. \/ UNCHANGED pc
          \/ \E t \in Task, step \in {"run", "cleanup", "selected", "spin"} : Goto(t, step)
      <4>1. CASE \E d \in Deltas : TimerReap(d)
        BY <4>1, ReapEffect, <1>t DEF TimerReap, FreeTask, Goto
      <4>2. CASE ~\E d \in Deltas : TimerReap(d)
        BY <1>1, <4>2 DEF Next, Timer, TimerNoYield, TimerBoot, TimerStay,
          TimerSwitch, TimerReapDeadlock, Yield, YieldEnter,
          YieldCleanupAndChoose, YieldChoose, YieldSwitch, YieldSwitchStale,
          Choose, Exit, BootDone, Hung, vars
      <4> QED BY <4>1, <4>2
    <3> QED BY <1>t, <3>1 DEF Goto, LocalType, InvControl
  <2>3. new_proc' \in CASE K \in {"pid_alloc", "elf_load"} -> procs' \ {proc_kernel}
                      [] K \in {"task_create", "insert", "inserting"} -> procs'
                      [] OTHER -> {NULL}
    <3>1. CASE \E d \in Deltas : TimerReap(d)
      \* The process reaped is that of the running task, and has it in its list.
      <4> PICK d \in Deltas : TimerReap(d)
        BY <3>1
      <4>1. PICK p \in procs \ {proc_kernel} :
              /\ task_current \in Linked \ {task_kernel}
              /\ p = proc_get(pid[task_current])
              /\ proc_tasks[p] = {task_current} /\ procs' = procs \ {p}
        BY ReapEffect
      <4>2. K \in {"pid_alloc", "elf_load", "task_create"} => new_proc # p
        <5>1. fault = "none"
          BY DEF TimerReap, Advance
        <5> QED BY <4>1, <5>1 DEF IInv, InvOwned
      <4>3. K \in {"insert", "inserting"} => new_proc # p
        <5>1. K = "insert" => new_task \notin Linked
          BY DEF IInv, InvTasks
        <5>2. K # "inserting"
          BY ReapEffect
        <5> QED BY <4>1, <5>1, <5>2 DEF IInv, InvOwned
      <4> QED BY <2>1, <4>1, <4>2, <4>3, <1>t DEF InvControl
    <3>2. CASE UNCHANGED procs
      BY <2>1, <3>2, <1>t DEF InvControl
    <3> QED BY <1>1, <3>1, <3>2, ProcWriters DEF procVars, pidVars, Exit, ShellStep
  <2>4. task_current' \in Linked' \union {NULL} /\ (task_current' = NULL => K' = "run")
    <3>1. CASE \E d \in Deltas : TimerReap(d)
      <4> PICK d \in Deltas : TimerReap(d)
        BY <3>1
      <4>1. PICK s \in Linked \ {task_current} : SwitchTo(s, timer_tick', proc_pidtab')
        BY ReapEffect
      <4>2. next' = [next EXCEPT ![prev[task_current]] = next[task_current],
                                 ![task_current] = NULL]
        BY DEF TimerReap, Unlink
      <4>3. next[task_current] \in Linked
        BY ReapEffect, WholeLinks
      <4>4. s \in Linked'
        BY <1>t, <4>1, <4>2, <4>3 DEF Linked, LinksType
      <4> QED BY <4>1, <4>4, <1>t DEF SwitchTo
    <3>2. CASE ~\E d \in Deltas : TimerReap(d)
      <4>1. UNCHANGED links
        BY <1>1, <3>2, LinksWriters DEF ShellStep
      <4>2. Linked' = Linked
        BY <4>1 DEF Linked, links
      <4>3. task_current' \in Linked \/ UNCHANGED <<task_current, pc>> \/ UNCHANGED task_current
        BY <1>1, <3>2, TaskAssumption, <1>t DEF InvLinks, Next, Timer, TimerNoYield, TimerBoot,
          TimerStay, TimerSwitch, TimerReapDeadlock, SwitchTo, Selected,
          Candidates, Yield, YieldEnter, YieldCleanupAndChoose, YieldChoose,
          YieldSwitch, YieldSwitchStale, Exit, BootDone, Hung, vars
      <4>4. task_current' = NULL => K' = "run"
        <5> SUFFICES ASSUME task_current' = NULL PROVE K' = "run"
          OBVIOUS
        <5>1. task_current = NULL
          BY <4>3, <1>t
        <5>2. UNCHANGED pc
          BY <1>1, <3>2, <5>1 DEF Next, Timer, TimerNoYield, TimerBoot,
            TimerStay, TimerSwitch, TimerReapDeadlock, Yield, YieldEnter,
            YieldCleanupAndChoose, YieldChoose, YieldSwitch, YieldSwitchStale,
            Exit, Running, BootDone, Hung, vars
        <5> QED BY <5>1, <5>2, <1>t DEF InvControl, K
      <4> QED BY <4>2, <4>3, <4>4, <1>t DEF InvControl
    <3> QED BY <3>1, <3>2
  <2>5. K' \in {"inserting", "deleting"} => task_current' = task_kernel
    <3>1. CASE task_yield_block_cnt = 0
      BY <2>1, <3>1, <1>t DEF InvControl
    <3>2. CASE task_yield_block_cnt # 0
      <4>1. UNCHANGED task_current
        BY <1>1, <3>2 DEF Next, Timer, TimerNoYield, TimerBoot, TimerStay,
          TimerSwitch, TimerReap, TimerReapDeadlock, MayYield, Yield, YieldEnter,
          YieldCleanupAndChoose, YieldChoose, YieldSwitch, YieldSwitchStale,
          Exit, BootDone, Hung, vars, Running, IInv, InvControl, K
      <4> QED BY <2>1, <4>1, <1>t DEF InvControl
    <3> QED BY <3>1, <3>2
  <2>6. K' # "spin"
    BY <2>1, <1>t DEF InvControl
  <2> QED BY <2>1, <2>2, <2>3, <2>4, <2>5, <2>6, <1>t DEF InvControl
<1>2. CASE ShellStep
  <2>1. task_current = task_kernel /\ task_current' = task_kernel
    BY <1>2 DEF ShellStep, ProcCreate, ProcPidAlloc, ProcPidAllocFails,
      ElfLoaded, StartFails, ThreadCreate, TaskCreate, TaskCreateStackFails,
      InsertBegin, InsertEnd, ThreadDelete, DeleteBegin, DeleteEnd, Kmain, Running
  <2>2. task_kernel \in Linked'
    BY LinksStep DEF InvLinks
  <2>3. \A t \in Task \ {task_kernel} :
          pc'[t] \in {"run", "cleanup", "selected", "spin"}
    BY <1>2, <1>t DEF ShellStep, ProcCreate, ProcPidAlloc, ProcPidAllocFails,
      ElfLoaded, StartFails, ThreadCreate, TaskCreate, TaskCreateStackFails,
      InsertBegin, InsertEnd, ThreadDelete, DeleteBegin, DeleteEnd, Kmain,
      KmainGoto, Goto, InvControl, LocalType
  <2>4. CASE ProcCreate \/ ProcPidAlloc \/ ProcPidAllocFails \/ ElfLoaded \/ StartFails
    BY <2>1, <2>2, <2>3, <2>4, <1>t DEF ProcCreate, ProcPidAlloc,
      ProcPidAllocFails, ElfLoaded, StartFails, Kmain, Running, KmainGoto, Goto,
      K, locals, InvControl, LocalType, procVars, pidVars, IInv, InvPids
  <2>5. CASE ThreadCreate \/ TaskCreate \/ TaskCreateStackFails
    BY <2>1, <2>2, <2>3, <2>5, <1>t DEF ThreadCreate, TaskCreate,
      TaskCreateStackFails, Kmain, Running, KmainGoto, Goto, K, locals,
      InvControl, LocalType, procVars, pidVars, IInv, InvPids
  <2>6. CASE InsertBegin \/ InsertEnd
    BY <2>1, <2>2, <2>3, <2>6, <1>t DEF InsertBegin, InsertEnd, Unblock, Kmain,
      Running, KmainGoto, Goto, K, locals, InvControl, LocalType, procVars, pidVars
  <2>7. CASE ThreadDelete \/ DeleteBegin \/ DeleteEnd
    BY <2>1, <2>2, <2>3, <2>7, <1>t DEF ThreadDelete, DeleteBegin, DeleteEnd,
      Unblock, Kmain, Running, KmainGoto, Goto, K, locals, InvControl, LocalType,
      procVars, pidVars
  <2> QED BY <1>2, <2>4, <2>5, <2>6, <2>7 DEF ShellStep
<1> QED BY <1>1, <1>2

-----------------------------------------------------------------------------
(***************************************************************************)
(* Task structures                                                         *)
(***************************************************************************)
LEMMA TaskTypeStep ==
  ASSUME IInv, Next
  PROVE  TaskType'
<1> USE TaskAssumption, ProcAssumption, SchedAssumption DEF Types
<1>t. TaskType /\ CpuType /\ CpuType' /\ LocalType /\ ProcType
  BY CpuStep DEF IInv, TypeOK
<1>1. type' \in [Task -> Types] /\ ready' \subseteq Task /\ pid' \in [Task -> Pids]
  <2>1. CASE UNCHANGED taskVars
    BY <2>1, <1>t DEF taskVars, TaskType
  <2>2. CASE \E d \in Deltas : TimerReap(d)
    <3> PICK d \in Deltas : TimerReap(d)
      BY <2>2
    <3>1. task_current \in Task /\ 0 \in Pids
      BY ReapEffect DEF Linked, Pids
    <3>2. /\ type' = [type EXCEPT ![task_current] = "FREE"]
          /\ ready' = ready \ {task_current}
          /\ pid' = [pid EXCEPT ![task_current] = 0]
      BY DEF TimerReap, FreeTask
    <3> QED BY <1>t, <3>1, <3>2 DEF TaskType
  <2>3. CASE \E t \in Task : Exit(t)
    BY <2>3, <1>t DEF Exit, TaskType
  <2>4. CASE BootDone
    BY <2>4, <1>t DEF BootDone, TaskType
  <2>5. CASE TaskCreate
    <3>1. new_proc \in Proc
      BY <2>5 DEF TaskCreate, Kmain, Running, IInv, InvControl, K, TypeOK, ProcType
    <3>2. proc_pid[new_proc] \in Pids
      BY <3>1, <1>t DEF ProcType
    <3> QED BY <2>5, <3>1, <3>2, <1>t DEF TaskCreate, TaskType
  <2>6. CASE DeleteEnd
    <3>1. /\ type' = [type EXCEPT ![new_task] = "FREE"]
          /\ ready' = ready \ {new_task}
          /\ pid' = [pid EXCEPT ![new_task] = 0]
      BY <2>6 DEF DeleteEnd
    <3>2. 0 \in Pids
      BY DEF Pids
    <3> QED BY <1>t, <3>1, <3>2 DEF TaskType
  <2> QED BY <2>1, <2>2, <2>3, <2>4, <2>5, <2>6, TaskWriters
<1>2. \/ UNCHANGED t_switch
      \/ \E s \in Task, now \in {timer_tick, timer_tick'} :
           t_switch' = [t_switch EXCEPT ![s] = now]
  <2>1. CASE \E t \in Task : YieldSwitch(t)
    BY <2>1, <1>t DEF YieldSwitch, SwitchTo, Linked
  <2>2. CASE ~\E t \in Task : YieldSwitch(t)
    BY <2>2 DEF Next, Timer, TimerNoYield, TimerBoot, TimerStay, TimerSwitch,
      TimerReap, TimerReapDeadlock, SwitchTo, Yield, YieldEnter,
      YieldCleanupAndChoose, YieldChoose, YieldSwitchStale, Exit, BootDone,
      ShellStep, ProcCreate, ProcPidAlloc, ProcPidAllocFails, ElfLoaded,
      StartFails, ThreadCreate, TaskCreate, TaskCreateStackFails, InsertBegin,
      InsertEnd, ThreadDelete, DeleteBegin, DeleteEnd, Hung, vars, clockVars
  <2> QED BY <2>1, <2>2
<1>3. t_switch' \in [Task -> 0 .. TICKS - 1]
  BY <1>t, <1>2 DEF TaskType, CpuType
<1> QED BY <1>1, <1>3 DEF TaskType

\* The process that is being given its first task is not the one the timer
\* reaps, and what the kernel task deletes has not ended.
LEMMA ReapOther ==
  ASSUME IInv, NEW d \in Deltas, TimerReap(d)
  PROVE  /\ K \in {"insert", "inserting"} =>
              new_proc # proc_get(pid[task_current]) /\ new_task # task_current
         /\ K \in {"delete", "deleting"} => new_task # task_current
         /\ K \in {"pid_alloc", "elf_load", "task_create"} =>
              new_proc # proc_get(pid[task_current])
<1>1. /\ task_current \in Linked \ {task_kernel}
      /\ K \notin {"inserting", "deleting"}
      /\ proc_tasks[proc_get(pid[task_current])] = {task_current}
      /\ proc_get(pid[task_current]) # proc_kernel
  BY ReapEffect
<1>2. type[task_current] = "DELETE_PENDING" /\ fault = "none"
  BY DEF TimerReap, Ending, Advance
<1> QED BY <1>1, <1>2 DEF IInv, InvTasks, InvOwned

\* The kernel task's own steps: it is the one that runs, so no task has ended.
LEMMA ShellTasks ==
  ASSUME IInv, ShellStep
  PROVE  InvTasks'
<1> USE TaskAssumption, ProcAssumption
<1>t. /\ InvTasks /\ InvControl /\ LocalType /\ LinksType /\ InvLinks
      /\ TaskType /\ ProcType /\ Linked \subseteq Task
  BY DEF IInv, TypeOK, Linked
<1>c. task_current = task_kernel /\ task_current' = task_kernel
  BY DEF ShellStep, ProcCreate, ProcPidAlloc, ProcPidAllocFails, ElfLoaded,
    StartFails, ThreadCreate, TaskCreate, TaskCreateStackFails, InsertBegin,
    InsertEnd, ThreadDelete, DeleteBegin, DeleteEnd, Kmain, Running
<1>p. \A t \in Task : type[t] # "DELETE_PENDING"
  BY <1>t, <1>c DEF InvTasks
<1>n. task_kernel \in Linked /\ type[task_kernel] = "KERNEL" /\ pid[task_kernel] = 0
  BY <1>t DEF InvTasks, InvLinks
<1>1. CASE \/ ProcCreate \/ ProcPidAlloc \/ ProcPidAllocFails \/ ElfLoaded
           \/ StartFails \/ ThreadCreate \/ TaskCreateStackFails
  <2>1. /\ UNCHANGED <<next, prev, type, ready, pid>>
        /\ K \notin {"insert", "inserting", "delete", "deleting"}
        /\ K' \notin {"insert", "inserting", "delete", "deleting"}
        /\ \A t \in Task \ {task_kernel} : pc'[t] = pc[t]
    BY <1>1, <1>t DEF ProcCreate, ProcPidAlloc, ProcPidAllocFails, ElfLoaded,
      StartFails, ThreadCreate, TaskCreateStackFails, Kmain, Running, KmainGoto,
      Goto, K, LocalType, links, taskVars
  <2>2. Linked' = Linked
    BY <2>1 DEF Linked
  <2> QED BY <1>t, <1>c, <1>p, <1>n, <2>1, <2>2 DEF InvTasks
<1>2. CASE TaskCreate
  <2>1. PICK t \in Task :
          /\ type[t] = "FREE" /\ new_task' = t
          /\ proc_tasks' = [proc_tasks EXCEPT ![new_proc] = @ \union {t}]
          /\ pid' = [pid EXCEPT ![t] = proc_pid[new_proc]]
          /\ type' = [type EXCEPT ![t] = IF new_proc = proc_kernel THEN "KERNEL" ELSE "USER"]
          /\ ready' = ready \union {t}
    BY <1>2 DEF TaskCreate
  <2>2. /\ K = "task_create" /\ K' = "insert"
        /\ UNCHANGED <<next, prev, new_proc, proc_pid, task_current>>
        /\ \A u \in Task \ {task_kernel} : pc'[u] = pc[u]
    BY <1>2, <1>t DEF TaskCreate, Kmain, Running, KmainGoto, Goto, K, LocalType,
      links, pidVars
  <2>3. t # task_kernel /\ t \notin Linked /\ Linked' = Linked
    BY <1>t, <1>n, <2>1, <2>2 DEF InvTasks, Linked
  <2>4. new_proc \in Proc
    BY <1>t, <2>2 DEF InvControl, ProcType
  <2>5. t \in proc_tasks'[new_proc] /\ pid'[t] = proc_pid[new_proc]
    BY <1>t, <2>1, <2>4 DEF ProcType, TaskType
  <2>6. /\ type'[t] \in {"KERNEL", "USER"}
        /\ \A u \in Task \ {t} : type'[u] = type[u] /\ pid'[u] = pid[u]
    BY <1>t, <2>1 DEF TaskType
  <2> QED BY <1>t, <1>c, <1>p, <1>n, <2>1, <2>2, <2>3, <2>5, <2>6 DEF InvTasks
<1>3. CASE InsertBegin \/ InsertEnd
  <2>1. /\ UNCHANGED <<type, ready, pid, proc_tasks, proc_pid, proc_pidtab, proc_pidtab_len>>
        /\ \/ InsertBegin /\ K = "insert" /\ K' = "inserting" /\ UNCHANGED <<new_task, new_proc>>
           \/ InsertEnd /\ K = "inserting" /\ K' = "run"
        /\ \A u \in Task \ {task_kernel} : pc'[u] = pc[u]
    BY <1>3, <1>t DEF InsertBegin, InsertEnd, Kmain, Running, KmainGoto, Goto, K,
      LocalType, taskVars, procVars, pidVars, locals
  <2>2. new_task \in Task /\ new_task # task_kernel
    BY <1>t, <2>1 DEF InvTasks, InvControl
  <2>3. Linked' = Linked \union {new_task}
    <3>1. CASE InsertBegin
      <4>1. K = "insert"
        BY <2>1, <3>1 DEF InsertBegin, Kmain, Running, K
      <4>2. next[task_kernel] \in Linked
        BY <1>n, <4>1, WholeLinks
      <4> QED BY <1>t, <2>2, <3>1, <4>2 DEF InsertBegin, InsertBackLinks, Linked, LinksType
    <3>2. CASE InsertEnd
      <4>1. new_task \in Linked
        BY <3>2, <1>t DEF InsertEnd, Kmain, Running, K, InvTasks
      <4> QED BY <1>t, <1>n, <2>2, <3>2, <4>1 DEF InsertEnd, InsertForwardLink, Linked, LinksType
    <3> QED BY <1>3, <3>1, <3>2
  <2>4. K = "insert" => proc_get(pid[new_task]) = new_proc /\ type[new_task] \in {"KERNEL", "USER"}
    <3> SUFFICES ASSUME K = "insert"
                 PROVE  proc_get(pid[new_task]) = new_proc /\ type[new_task] \in {"KERNEL", "USER"}
      OBVIOUS
    <3>1. new_proc \in procs /\ pid[new_task] = proc_pid[new_proc]
      BY <1>t DEF InvControl, InvTasks
    <3>2. proc_pidtab[pid[new_task]] = new_proc /\ pid[new_task] \in Pids
      BY <1>t, <3>1 DEF IInv, InvPids, ProcType
    <3>3. pid[new_task] < proc_pidtab_len
      BY <3>1, <3>2, <1>t DEF IInv, InvPids, ProcType
    <3> QED BY <3>2, <3>3, <1>t DEF proc_get, InvTasks
  <2> QED BY <1>t, <1>c, <1>p, <1>n, <2>1, <2>2, <2>3, <2>4 DEF InvTasks, proc_get
<1>4. CASE ThreadDelete \/ DeleteBegin
  <2>1. /\ UNCHANGED <<type, ready, pid>>
        /\ K \in {"run", "delete"} /\ K' \in {"delete", "deleting"}
        /\ new_task' \in Linked \ {task_kernel} /\ type[new_task'] = "KERNEL"
        /\ \A u \in Task \ {task_kernel} : pc'[u] = pc[u]
    BY <1>4, <1>t DEF ThreadDelete, DeleteBegin, Kmain, Running, KmainGoto, Goto,
      K, LocalType, taskVars, locals, InvTasks
  <2>2. Linked' = Linked
    <3>1. CASE ThreadDelete
      BY <3>1 DEF ThreadDelete, links, Linked
    <3>2. CASE DeleteBegin
      <4>1. K = "delete" /\ new_task \in Linked
        BY <3>2, <1>t DEF DeleteBegin, Kmain, Running, K, InvTasks
      <4>2. next[new_task] \in Linked /\ prev[new_task] \in Linked
        BY <4>1, WholeLinks
      <4> QED BY <1>t, <3>2, <4>1, <4>2 DEF DeleteBegin, UnlinkForward, Linked, LinksType
    <3> QED BY <1>4, <3>1, <3>2
  <2> QED BY <1>t, <1>c, <1>p, <1>n, <2>1, <2>2 DEF InvTasks
<1>5. CASE DeleteEnd
  <2>1. /\ K = "deleting" /\ new_task \in Linked \ {task_kernel}
    BY <1>5, <1>t DEF DeleteEnd, Kmain, Running, K, InvTasks
  <2>2. /\ type' = [type EXCEPT ![new_task] = "FREE"]
        /\ ready' = ready \ {new_task}
        /\ pid' = [pid EXCEPT ![new_task] = 0]
        /\ pc' = [pc EXCEPT ![new_task] = "run", ![task_kernel] = "run"]
        /\ next' = [next EXCEPT ![new_task] = NULL]
    BY <1>5 DEF DeleteEnd, UnlinkBack
  <2>3. Linked' = Linked \ {new_task} /\ K' = "run"
    BY <1>t, <2>1, <2>2 DEF Linked, LinksType, K, LocalType
  <2>4. \A t \in Task \ {new_task} : type'[t] = type[t] /\ pid'[t] = pid[t]
    BY <1>t, <2>2 DEF TaskType
  <2>5. type'[new_task] = "FREE" /\ pc'[new_task] = "run"
    BY <1>t, <2>1, <2>2 DEF TaskType, LocalType
  <2>6. \A t \in Task \ {new_task, task_kernel} : pc'[t] = pc[t]
    BY <1>t, <2>2 DEF LocalType
  <2> QED BY <1>t, <1>c, <1>p, <1>n, <2>1, <2>2, <2>3, <2>4, <2>5, <2>6 DEF InvTasks
<1> QED BY <1>1, <1>2, <1>3, <1>4, <1>5 DEF ShellStep

\* Every step leaves each structure queued, free, or about to be inserted.
LEMMA TasksStep ==
  ASSUME IInv, Next
  PROVE  InvTasks'
<1> USE TaskAssumption, ProcAssumption
<1>t. /\ InvTasks /\ InvControl /\ LocalType /\ LinksType /\ InvLinks
      /\ TaskType /\ ProcType /\ Linked \subseteq Task
      /\ task_current \in Task \union {NULL}
  BY DEF IInv, TypeOK, CpuType, Linked
<1>1. CASE \E d \in Deltas : TimerReap(d)
  <2> PICK d \in Deltas : TimerReap(d)
    BY <1>1
  <2> DEFINE c == task_current
  <2>1. /\ c \in Linked \ {task_kernel}
        /\ type' = [type EXCEPT ![c] = "FREE"] /\ ready' = ready \ {c}
        /\ pid' = [pid EXCEPT ![c] = 0] /\ pc' = [pc EXCEPT ![c] = "run"]
        /\ UNCHANGED <<new_proc, new_task, proc_pid>>
        /\ type[c] = "DELETE_PENDING"
    BY ReapEffect DEF TimerReap, FreeTask, locals, Ending
  <2>2. K \notin {"inserting", "deleting"} /\ K' = K
    BY <1>t, <2>1, ReapEffect DEF K, LocalType
  <2>3. Linked' = Linked \ {c}
    <3>1. next' = [next EXCEPT ![prev[c]] = next[c], ![c] = NULL]
      BY DEF TimerReap, Unlink
    <3> QED BY <1>t, <2>1, <2>2, <3>1, WholeLinks DEF Linked, LinksType
  <2>4. K = "insert" => new_task \in proc_tasks'[new_proc]
    <3>1. PICK p \in procs : p = proc_get(pid[c]) /\ proc_tasks' = [proc_tasks EXCEPT ![p] = {}]
      BY ReapEffect
    <3>2. K = "insert" => new_proc # p /\ new_proc \in Proc
      BY <3>1, ReapOther, <1>t DEF InvControl, ProcType
    <3> QED BY <1>t, <3>1, <3>2 DEF ProcType, InvTasks
  <2>5. \A t \in Task : type'[t] = "DELETE_PENDING" => FALSE
    BY <1>t, <2>1 DEF InvTasks, TaskType
  <2>6. \A t \in Task : /\ type'[t] = "FREE" => pc'[t] = "run" /\ t \notin ready'
                        /\ type'[t] # "FREE" => t \in Linked' \/ (K = "insert" /\ t = new_task)
    BY <1>t, <2>1, <2>3 DEF InvTasks, TaskType, LocalType
  <2>7. \A t \in Linked' : type'[t] # "FREE"
    BY <1>t, <2>1, <2>3 DEF InvTasks, TaskType
  <2>8. K = "insert" => /\ new_task \notin Linked'
                        /\ type'[new_task] \in {"KERNEL", "USER"}
                        /\ pid'[new_task] = proc_pid[new_proc]
                        /\ new_task # task_kernel
    BY <1>t, <2>1, <2>3, ReapOther DEF InvTasks, TaskType, InvControl
  <2>9. K = "delete" => new_task \in Linked' \ {task_kernel} /\ type'[new_task] = "KERNEL"
    BY <1>t, <2>1, <2>3, ReapOther DEF InvTasks, TaskType
  <2>10. type'[task_kernel] = "KERNEL" /\ pid'[task_kernel] = 0
    BY <1>t, <2>1 DEF InvTasks, TaskType
  <2> QED BY <2>1, <2>2, <2>4, <2>5, <2>6, <2>7, <2>8, <2>9, <2>10 DEF InvTasks
<1>2. CASE \E t \in Task : Exit(t)
  <2> PICK t \in Task : Exit(t)
    BY <1>2
  <2>1. /\ t = task_current /\ type[t] = "USER" /\ pc[t] = "run"
        /\ type' = [type EXCEPT ![t] = "DELETE_PENDING"]
        /\ pc' = [pc EXCEPT ![t] = "spin"]
        /\ UNCHANGED <<next, prev, ready, pid, task_current, new_proc, new_task,
                       proc_pid, proc_tasks, proc_pidtab, proc_pidtab_len>>
    BY DEF Exit, Running, Goto, locals, links, pidVars
  <2>2. K' = K /\ t # task_kernel /\ Linked' = Linked
    BY <1>t, <2>1 DEF K, LocalType, InvTasks, Linked
  <2>3. t \in Linked /\ \A u \in Task : type[u] # "DELETE_PENDING"
    BY <1>t, <2>1 DEF InvControl, InvTasks
  <2> QED BY <1>t, <2>1, <2>2, <2>3 DEF InvTasks, TaskType, LocalType, proc_get, InvControl
<1>3. CASE ~ShellStep /\ ~(\E d \in Deltas : TimerReap(d)) /\ ~(\E t \in Task : Exit(t))
  <2>1. /\ UNCHANGED <<next, prev, type, pid, new_proc, new_task, proc_pid,
                       proc_tasks, proc_pidtab, proc_pidtab_len>>
        /\ ready' \subseteq ready \union {task_kernel}
    <3>1. UNCHANGED <<links, procVars>>
      BY <1>3, LinksWriters, ProcWriters DEF ShellStep
    <3>2. UNCHANGED <<type, pid>> /\ ready' \subseteq ready \union {task_kernel}
      BY <1>3, TaskWriters DEF taskVars, ShellStep, BootDone
    <3> QED BY <1>3, <3>1, <3>2, OtherSteps DEF links, procVars, pidVars
  <2>2. /\ Linked' = Linked
        /\ \/ K' = K
           \/ /\ K \in {"run", "cleanup", "selected"}
              /\ K' \in {"run", "cleanup", "selected"}
    BY <1>3, <2>1, OtherSteps DEF Linked
  <2>3. \/ UNCHANGED pc
        \/ /\ task_current \in Task
           /\ pc[task_current] # "spin"
           /\ \E step \in Steps : Goto(task_current, step)
    BY <1>3, <1>t DEF Next, Timer, TimerNoYield, TimerBoot, TimerStay, TimerSwitch,
      TimerReapDeadlock, Yield, YieldEnter, YieldCleanupAndChoose, YieldChoose,
      YieldSwitch, YieldSwitchStale, Choose, Running, BootDone, Hung, vars, Steps
  <2>4. \/ UNCHANGED task_current
        \/ task_current = NULL \/ ~Ending \/ pc[task_current] # "spin"
    BY <1>3 DEF Next, Timer, TimerNoYield, TimerBoot, TimerStay, TimerSwitch,
      TimerReapDeadlock, Yield, YieldEnter, YieldCleanupAndChoose, YieldChoose,
      YieldSwitch, YieldSwitchStale, Running, BootDone, Hung, vars
  <2>5. \A t \in Task : type[t] = "DELETE_PENDING" => t = task_current' /\ pc'[t] = "spin"
    <3> SUFFICES ASSUME NEW t \in Task, type[t] = "DELETE_PENDING"
                 PROVE  t = task_current' /\ pc'[t] = "spin"
      OBVIOUS
    <3>1. t = task_current /\ pc[t] = "spin"
      BY <1>t DEF InvTasks
    <3> QED BY <2>3, <2>4, <3>1 DEF Ending
  <2>6. \A t \in Task : type[t] = "FREE" => pc'[t] = "run" /\ t \notin ready'
    <3> SUFFICES ASSUME NEW t \in Task, type[t] = "FREE"
                 PROVE  pc'[t] = "run" /\ t \notin ready'
      OBVIOUS
    <3>1. pc[t] = "run" /\ t \notin ready /\ t # task_kernel
      BY <1>t DEF InvTasks
    <3>2. t # task_current
      BY <1>t DEF InvTasks, InvControl
    <3> QED BY <2>1, <2>3, <3>1, <3>2, <1>t DEF Goto, LocalType
  <2> QED BY <1>t, <2>1, <2>2, <2>5, <2>6 DEF InvTasks, proc_get
<1>4. CASE ShellStep
  BY <1>4, ShellTasks
<1> QED BY <1>1, <1>2, <1>3, <1>4

-----------------------------------------------------------------------------
(***************************************************************************)
(* Ownership                                                               *)
(***************************************************************************)
\* Which step puts a task in the queue and which ones take one out.
LEMMA LinkedStep ==
  ASSUME IInv, Next
  PROVE  \/ (\E d \in Deltas : TimerReap(d)) /\ Linked' = Linked \ {task_current}
         \/ InsertBegin /\ Linked' = Linked \union {new_task}
         \/ DeleteEnd /\ Linked' = Linked \ {new_task}
         \/ ~(\E d \in Deltas : TimerReap(d)) /\ ~InsertBegin /\ ~DeleteEnd
              /\ Linked' = Linked
<1>t. /\ LinksType /\ task_kernel \in Linked /\ NULL \notin Task
      /\ Linked \subseteq Task /\ LocalType
  BY TaskAssumption DEF IInv, TypeOK, Linked, InvLinks
<1>1. CASE \E d \in Deltas : TimerReap(d)
  <2>1. PICK d \in Deltas : TimerReap(d)
    BY <1>1
  <2>2. task_current \in Linked /\ K \notin {"inserting", "deleting"}
    BY <2>1, ReapEffect
  <2>3. next[task_current] \in Linked /\ prev[task_current] \in Linked
    BY <2>2, WholeLinks
  <2>4. next' = [next EXCEPT ![prev[task_current]] = next[task_current],
                             ![task_current] = NULL]
    BY <2>1 DEF TimerReap, Unlink
  <2> QED BY <1>1, <1>t, <2>2, <2>3, <2>4 DEF Linked, LinksType
<1>2. CASE InsertBegin
  <2>1. K = "insert" /\ new_task \in Task
    BY <1>2 DEF InsertBegin, Kmain, Running, K, IInv, InvControl
  <2>2. next[task_kernel] \in Linked
    BY <1>t, <2>1, WholeLinks
  <2> QED BY <1>t, <1>2, <2>1, <2>2 DEF InsertBegin, InsertBackLinks, Linked, LinksType
<1>3. CASE DeleteEnd
  <2>1. K = "deleting" /\ new_task \in Task
    BY <1>3 DEF DeleteEnd, Kmain, Running, K, IInv, InvControl
  <2> QED BY <1>t, <1>3, <2>1 DEF DeleteEnd, UnlinkBack, Linked, LinksType
<1>4. CASE InsertEnd
  <2>1. new_task \in Linked /\ K' = "run" /\ K = "inserting"
    BY <1>4, <1>t DEF InsertEnd, Kmain, Running, KmainGoto, Goto, K, LocalType,
      IInv, InvTasks
  <2>2. Linked' = Linked
    BY <1>t, <1>4, <2>1 DEF InsertEnd, InsertForwardLink, Linked, LinksType
  <2>3. ~(\E d \in Deltas : TimerReap(d)) /\ ~InsertBegin /\ ~DeleteEnd
    BY <2>1, ReapEffect DEF InsertBegin, DeleteEnd, Kmain, Running, K
  <2> QED BY <2>2, <2>3
<1>5. CASE DeleteBegin
  <2>1. K = "delete" /\ new_task \in Linked
    BY <1>5 DEF DeleteBegin, Kmain, Running, K, IInv, InvTasks
  <2>2. next[new_task] \in Linked /\ prev[new_task] \in Linked
    BY <2>1, WholeLinks
  <2>3. Linked' = Linked
    BY <1>t, <1>5, <2>1, <2>2 DEF DeleteBegin, UnlinkForward, Linked, LinksType
  <2>4. ~InsertBegin /\ ~DeleteEnd
    BY <2>1 DEF InsertBegin, DeleteEnd, Kmain, Running, K
  <2> QED BY <1>1, <2>3, <2>4
<1>6. CASE UNCHANGED links
  BY <1>1, <1>2, <1>3, <1>6 DEF links, Linked
<1> QED BY <1>1, <1>2, <1>3, <1>4, <1>5, <1>6, LinksWriters

\* As long as a task is in the queue its PID names the same process: a PID is
\* given away again only when no task carries it.
LEMMA OwnerKept ==
  ASSUME IInv, Next, NEW t \in Linked, t \in Linked'
  PROVE  /\ pid'[t] = pid[t]
         /\ proc_get(pid[t])' = proc_get(pid[t])
         /\ \A d \in Deltas : TimerReap(d) =>
              proc_get(pid[t]) # proc_get(pid[task_current])
<1> USE ProcAssumption
<1>t. /\ TaskType /\ ProcType /\ ProcType' /\ t \in Task
  BY ProcStep DEF IInv, TypeOK, Linked
<1>o. /\ pid[t] \in Pids /\ pid[t] < proc_pidtab_len
      /\ proc_get(pid[t]) = proc_pidtab[pid[t]]
      /\ proc_pidtab[pid[t]] \in procs /\ proc_pidtab[pid[t]] # NULL
  BY LinkedOwner DEF IInv, TypeOK, ProcType
<1>1. ASSUME NEW d \in Deltas, TimerReap(d)
      PROVE  /\ pid' = [pid EXCEPT ![task_current] = 0] /\ t # task_current
             /\ proc_get(pid[t]) # proc_get(pid[task_current])
             /\ proc_pidtab' = [proc_pidtab EXCEPT ![pid[task_current]] = NULL]
             /\ proc_pidtab_len' = proc_pidtab_len
  <2>1. PICK p \in procs \ {proc_kernel} :
          /\ p = proc_get(pid[task_current]) /\ proc_tasks[p] = {task_current}
          /\ proc_pidtab' = [proc_pidtab EXCEPT ![pid[task_current]] = NULL]
          /\ UNCHANGED proc_pidtab_len
    BY <1>1, ReapEffect
  <2>2. t # task_current
    BY <1>1, ReapEffect, LinkedStep DEF InsertBegin, DeleteEnd, Kmain, Running,
      TimerReap, Ending, IInv, InvTasks
  <2>3. p # proc_get(pid[t])
    BY <2>1, <2>2 DEF IInv, InvOwned, InvTasks
  <2> QED BY <1>1, <2>1, <2>2, <2>3 DEF TimerReap, FreeTask
<1>2. pid'[t] = pid[t]
  <2>1. CASE TaskCreate
    <3>1. type[t] # "FREE"
      BY DEF IInv, InvTasks
    <3> QED BY <1>t, <2>1, <3>1 DEF TaskCreate, TaskType
  <2>2. CASE DeleteEnd
    <3>1. t # new_task
      BY <2>2, <1>t DEF DeleteEnd, UnlinkBack, Linked, IInv, TypeOK, LinksType
    <3> QED BY <1>t, <2>2, <3>1 DEF DeleteEnd, TaskType
  <2> QED BY <1>t, <1>1, <2>1, <2>2, TaskWriters DEF taskVars, Exit, BootDone, TaskType
<1>3. CASE \E d \in Deltas : TimerReap(d)
  <2>1. PICK d \in Deltas : TimerReap(d)
    BY <1>3
  <2>2. pid[t] # pid[task_current]
    BY <1>1, <2>1
  <2> QED BY <1>t, <1>o, <1>1, <1>2, <2>1, <2>2 DEF proc_get, ProcType
<1>4. CASE ProcPidAlloc
  <2>1. PICK i \in Pids : /\ proc_pidtab[i] = NULL
                          /\ proc_pidtab' = [proc_pidtab EXCEPT ![i] = new_proc]
                          /\ proc_pidtab_len' >= proc_pidtab_len
    BY <1>4, PidAllocEffect
  <2>2. pid[t] < proc_pidtab_len'
    BY <1>o, <1>t, <2>1 DEF Pids, ProcType
  <2> QED BY <1>t, <1>o, <1>1, <1>2, <2>1, <2>2 DEF proc_get, ProcType
<1>5. CASE UNCHANGED <<proc_pidtab, proc_pidtab_len>>
  BY <1>1, <1>2, <1>5 DEF proc_get
<1>6. \/ UNCHANGED <<proc_pidtab, proc_pidtab_len>>
      \/ ProcPidAlloc
      \/ \E d \in Deltas : TimerReap(d)
  <2>1. UNCHANGED pidVars => UNCHANGED <<proc_pidtab, proc_pidtab_len>>
    BY DEF pidVars
  <2>2. UNCHANGED procVars => UNCHANGED pidVars
    BY DEF procVars
  <2> QED BY <2>1, <2>2, ProcWriters DEF Exit, ProcCreate, ProcPidAllocFails,
    StartFails, TaskCreate, TaskCreateStackFails, ThreadDelete
<1> QED BY <1>3, <1>4, <1>5, <1>6

\* Nothing goes on after a fault.
LEMMA FaultStays ==
  ASSUME Next, fault' = "none"
  PROVE  fault = "none"
  BY DEF Next, Timer, TimerNoYield, TimerBoot, TimerStay, TimerSwitch, TimerReap,
    TimerReapDeadlock, Advance, Yield, YieldEnter, YieldCleanupAndChoose,
    YieldChoose, YieldSwitch, YieldSwitchStale, Exit, Running, BootDone,
    ShellStep, ProcCreate, ProcPidAlloc, ProcPidAllocFails, ElfLoaded,
    StartFails, ThreadCreate, TaskCreate, TaskCreateStackFails, InsertBegin,
    InsertEnd, ThreadDelete, DeleteBegin, DeleteEnd, Kmain, Hung, vars

\* The kernel task's locals name tasks and processes that nobody else touches,
\* so they still mean the same after a step that is not its own.
LEMMA OtherOwned ==
  ASSUME IInv, Next, ~ShellStep
  PROVE  /\ \A q \in procs' : proc_tasks'[q] = proc_tasks[q]
         /\ procs' \subseteq procs
         /\ \A p \in Proc \ procs' : proc_tasks'[p] = {}
         /\ proc_kernel \in procs'
         /\ \A t \in Linked' : /\ t \in Linked /\ (type'[t] = "KERNEL" <=> type[t] = "KERNEL")
                               /\ proc_get(pid[t])' = proc_get(pid[t])
                               /\ proc_get(pid[t])' \in procs'
         /\ K = "insert" => type'[new_task] = type[new_task]
<1>t. /\ ProcType /\ InvOwned /\ TaskType /\ InvTasks /\ InvControl
      /\ proc_kernel \in procs
  BY DEF IInv, TypeOK, InvPids
<1>1. CASE \E d \in Deltas : TimerReap(d)
  <2> PICK d \in Deltas : TimerReap(d)
    BY <1>1
  <2>1. PICK p \in procs \ {proc_kernel} :
          /\ task_current \in Linked /\ p = proc_get(pid[task_current])
          /\ procs' = procs \ {p} /\ proc_tasks' = [proc_tasks EXCEPT ![p] = {}]
    BY ReapEffect
  <2>2. \A q \in procs' : proc_tasks'[q] = proc_tasks[q]
    BY <1>t, <2>1 DEF ProcType
  <2>3. \A q \in Proc \ procs' : proc_tasks'[q] = {}
    BY <1>t, <2>1 DEF ProcType, InvOwned
  <2>4. type' = [type EXCEPT ![task_current] = "FREE"]
    BY DEF TimerReap, FreeTask
  <2>5. Linked' = Linked \ {task_current}
    BY LinkedStep, ReapEffect DEF ShellStep
  <2>6. \A t \in Linked' : t \in Linked /\ type'[t] = type[t]
    BY <1>t, <2>4, <2>5 DEF TaskType, Linked
  <2>7. K = "insert" => type'[new_task] = type[new_task]
    <3>1. K = "insert" => new_task # task_current /\ new_task \in Task
      BY <1>t, ReapOther DEF InvControl
    <3> QED BY <1>t, <2>4, <3>1 DEF TaskType
  <2>8. \A t \in Linked' : /\ proc_get(pid[t])' = proc_get(pid[t])
                          /\ proc_get(pid[t])' \in procs'
    BY <1>t, <2>1, <2>6, OwnerKept, ReapEffect DEF InvOwned
  <2> QED BY <1>t, <2>1, <2>2, <2>3, <2>6, <2>7, <2>8
<1>2. CASE ~\E d \in Deltas : TimerReap(d)
  <2>1. Linked' = Linked
    BY <1>2, LinkedStep DEF ShellStep
  <2>2. UNCHANGED <<procs, proc_tasks>>
    BY <1>2, ProcWriters DEF ShellStep, procVars, pidVars, Exit
  <2>o. \A t \in Linked' : /\ proc_get(pid[t])' = proc_get(pid[t])
                          /\ proc_get(pid[t])' \in procs'
    BY <1>t, <2>1, <2>2, OwnerKept DEF InvOwned
  <2>3. CASE \E t \in Task : Exit(t)
    <3> PICK t \in Task : Exit(t)
      BY <2>3
    <3>1. type[t] = "USER" /\ type' = [type EXCEPT ![t] = "DELETE_PENDING"]
      BY DEF Exit
    <3>2. \A u \in Task : type'[u] = "KERNEL" <=> type[u] = "KERNEL"
      BY <1>t, <3>1 DEF TaskType
    <3>3. K = "insert" => new_task # t
      BY <1>t DEF InvTasks, InvControl, Exit, Running, Linked
    <3> QED BY <1>t, <2>1, <2>2, <2>o, <3>1, <3>2, <3>3 DEF InvOwned, InvControl, TaskType, Linked
  <2>4. CASE UNCHANGED type
    BY <1>t, <2>1, <2>2, <2>o, <2>4 DEF InvOwned
  <2>5. \/ UNCHANGED type
        \/ \E t \in Task : Exit(t)
    BY <1>2, TaskWriters DEF taskVars, BootDone, ShellStep
  <2> QED BY <2>3, <2>4, <2>5
<1> QED BY <1>1, <1>2

\* Every step keeps each queued task with an existing process that lists it.
LEMMA OwnedStep ==
  ASSUME IInv, Next
  PROVE  InvOwned'
<1> USE ProcAssumption, TaskAssumption
<1>t. /\ ProcType /\ ProcType' /\ TaskType /\ LocalType /\ InvOwned /\ InvTasks
      /\ InvControl /\ InvControl' /\ proc_kernel \in procs /\ Linked \subseteq Task
  BY ProcStep, ControlStep DEF IInv, TypeOK, InvPids, Linked
<1>1. CASE ~ShellStep
  <2>1. /\ UNCHANGED <<new_proc, new_task>>
        /\ \/ K' = K
           \/ /\ K \in {"run", "cleanup", "selected"}
              /\ K' \in {"run", "cleanup", "selected"}
    BY <1>1, OtherSteps
  <2>2. /\ \A q \in procs' : proc_tasks'[q] = proc_tasks[q]
        /\ \A p \in Proc \ procs' : proc_tasks'[p] = {}
        /\ proc_kernel \in procs'
        /\ \A t \in Linked' : /\ t \in Linked /\ (type'[t] = "KERNEL" <=> type[t] = "KERNEL")
                              /\ proc_get(pid[t])' = proc_get(pid[t])
                              /\ proc_get(pid[t])' \in procs'
        /\ K = "insert" => type'[new_task] = type[new_task]
    BY <1>1, OtherOwned
  <2>3. K' \in {"pid_alloc", "elf_load", "task_create", "insert", "inserting"} =>
          /\ new_proc' \in procs' /\ proc_tasks'[new_proc'] = proc_tasks[new_proc]
    BY <1>t, <2>1, <2>2 DEF InvControl
  <2>4. fault' = "none" => fault = "none"
    BY FaultStays
  <2> QED BY <1>t, <2>1, <2>2, <2>3, <2>4 DEF InvOwned
<1>2. CASE ShellStep
  <2>f. fault = "none" /\ task_current = task_kernel
    BY <1>2 DEF ShellStep, ProcCreate, ProcPidAlloc, ProcPidAllocFails, ElfLoaded,
      StartFails, ThreadCreate, TaskCreate, TaskCreateStackFails, InsertBegin,
      InsertEnd, ThreadDelete, DeleteBegin, DeleteEnd, Kmain, Running
  <2>r. ~\E d \in Deltas : TimerReap(d)
    BY <2>f, ReapEffect
  <2>k. \A t \in Linked : t \in Linked' => proc_get(pid[t])' = proc_get(pid[t])
    BY OwnerKept
  <2>o. \A t \in Linked : proc_get(pid[t]) \in procs /\ proc_get(pid[t]) \in Proc
    BY <1>t, LinkedOwner
  <2>1. CASE \/ ProcCreate \/ ProcPidAlloc \/ ProcPidAllocFails \/ ElfLoaded
             \/ StartFails \/ ThreadCreate
    <3>1. /\ UNCHANGED <<type, proc_tasks>>
          /\ K \notin {"insert", "inserting", "delete", "deleting"}
          /\ K' \notin {"insert", "inserting", "delete", "deleting"}
      BY <2>1, <1>t DEF ProcCreate, ProcPidAlloc, ProcPidAllocFails, ElfLoaded,
        StartFails, ThreadCreate, Kmain, Running, KmainGoto, Goto, K, LocalType,
        procVars, taskVars
    <3>2. Linked' = Linked
      BY <2>r, <3>1, LinkedStep DEF InsertBegin, DeleteEnd, Kmain, Running, K
    <3>3. K' \in {"pid_alloc", "elf_load", "task_create"} /\ new_proc' # proc_kernel =>
            proc_tasks[new_proc'] = {}
      BY <2>1, <2>f, <1>t DEF ProcCreate, ProcPidAlloc, ProcPidAllocFails,
        ElfLoaded, StartFails, ThreadCreate, Kmain, Running, KmainGoto, Goto, K,
        LocalType, InvOwned, locals
    <3>4. \A p \in Proc \ procs' : proc_tasks[p] = {}
      BY <2>1, <2>f, <1>t DEF ProcCreate, ProcPidAlloc, ProcPidAllocFails,
        ElfLoaded, StartFails, ThreadCreate, Kmain, Running, K, InvOwned,
        InvControl, procVars, pidVars
    <3>5. \A t \in Linked : proc_get(pid[t]) \in procs'
      <4>1. CASE ProcPidAllocFails
        <5>1. \A t \in Linked : proc_get(pid[t]) # new_proc
          BY <4>1, LinkedOwner DEF ProcPidAllocFails, Kmain, Running, K, IInv,
            InvPids, InvControl, TypeOK, ProcType
        <5> QED BY <4>1, <5>1, <2>o DEF ProcPidAllocFails
      <4>2. CASE ~ProcPidAllocFails
        BY <2>1, <4>2, <2>o DEF ProcCreate, ProcPidAlloc, ElfLoaded, StartFails,
          ThreadCreate, procVars, pidVars
      <4> QED BY <4>1, <4>2
    <3> QED BY <1>t, <2>k, <3>1, <3>2, <3>3, <3>4, <3>5 DEF InvOwned
  <2>2. CASE TaskCreate
    <3>1. PICK t \in Task :
            /\ type[t] = "FREE" /\ new_task' = t
            /\ proc_tasks' = [proc_tasks EXCEPT ![new_proc] = @ \union {t}]
            /\ type' = [type EXCEPT ![t] = IF new_proc = proc_kernel THEN "KERNEL" ELSE "USER"]
      BY <2>2 DEF TaskCreate
    <3>2. K = "task_create" /\ K' = "insert" /\ UNCHANGED <<new_proc, procs>>
      BY <2>2, <1>t DEF TaskCreate, Kmain, Running, KmainGoto, Goto, K, LocalType, pidVars
    <3>3. Linked' = Linked /\ t \notin Linked
      BY <1>t, <2>r, <3>1, <3>2, LinkedStep DEF InsertBegin, DeleteEnd, Kmain, Running, K, InvTasks
    <3>4. new_proc \in procs /\ (new_proc # proc_kernel => proc_tasks[new_proc] = {})
      BY <1>t, <2>f, <3>2 DEF InvOwned, InvControl
    <3>5. \A u \in Linked : type'[u] = type[u]
      BY <1>t, <3>1, <3>3 DEF TaskType
    <3>6. type'[t] = "KERNEL" <=> new_proc = proc_kernel
      BY <1>t, <3>1 DEF TaskType
    <3>7. /\ \A p \in Proc \ {new_proc} : proc_tasks'[p] = proc_tasks[p]
          /\ proc_tasks'[new_proc] = proc_tasks[new_proc] \union {t}
      BY <1>t, <3>1, <3>4 DEF ProcType
    <3>8. \A u \in Linked :
            /\ u \in proc_tasks'[proc_get(pid[u])]
            /\ proc_get(pid[u]) # proc_kernel => proc_tasks'[proc_get(pid[u])] = {u}
      BY <1>t, <2>o, <3>2, <3>4, <3>7 DEF InvOwned
    <3> QED BY <1>t, <2>k, <2>o, <3>1, <3>2, <3>3, <3>4, <3>5, <3>6, <3>7, <3>8 DEF InvOwned
  <2>3. CASE TaskCreateStackFails
    <3>1. PICK t \in Task :
            /\ type[t] = "FREE"
            /\ proc_tasks' = [proc_tasks EXCEPT ![new_proc] = @ \union {t}]
      BY <2>3 DEF TaskCreateStackFails
    <3>2. /\ K = "task_create" /\ UNCHANGED <<type, procs>>
          /\ K' \in {"run", "task_create"}
          /\ K' = "task_create" => fault' # "none"
      BY <2>3, <1>t DEF TaskCreateStackFails, Kmain, Running, KmainGoto, Goto, K,
        LocalType, pidVars, taskVars
    <3>3. Linked' = Linked
      BY <2>r, <3>2, LinkedStep DEF InsertBegin, DeleteEnd, Kmain, Running, K
    <3>4. new_proc \in procs /\ (new_proc # proc_kernel => proc_tasks[new_proc] = {})
      BY <1>t, <2>f, <3>2 DEF InvOwned, InvControl
    <3>5. /\ \A p \in Proc \ {new_proc} : proc_tasks'[p] = proc_tasks[p]
          /\ proc_tasks'[new_proc] = proc_tasks[new_proc] \union {t}
      BY <1>t, <3>1, <3>4 DEF ProcType
    <3>6. \A u \in Linked :
            /\ u \in proc_tasks'[proc_get(pid[u])]
            /\ proc_get(pid[u]) # proc_kernel => proc_tasks'[proc_get(pid[u])] = {u}
      BY <1>t, <2>o, <3>2, <3>4, <3>5 DEF InvOwned
    <3> QED BY <1>t, <2>k, <2>o, <3>1, <3>2, <3>3, <3>4, <3>5, <3>6 DEF InvOwned
  <2>4. CASE InsertBegin
    <3>1. /\ K = "insert" /\ K' = "inserting"
          /\ UNCHANGED <<new_proc, new_task, procs, proc_tasks, type>>
      BY <2>4, <1>t DEF InsertBegin, Kmain, Running, KmainGoto, Goto, K, LocalType,
        procVars, pidVars, taskVars, locals
    <3>2. Linked' = Linked \union {new_task}
      BY <2>4, <2>r, <3>1, LinkedStep DEF DeleteEnd, Kmain, Running, K
    <3>3. proc_get(pid[new_task])' = new_proc
      BY <3>1, TasksStep DEF InvTasks
    <3>4. new_task \in proc_tasks[new_proc] /\ new_proc \in procs
      BY <1>t, <3>1 DEF InvTasks, InvControl
    <3> QED BY <1>t, <2>k, <2>o, <3>1, <3>2, <3>3, <3>4 DEF InvOwned
  <2>5. CASE InsertEnd
    <3>1. /\ K = "inserting" /\ K' = "run" /\ UNCHANGED <<procs, proc_tasks, type>>
      BY <2>5, <1>t DEF InsertEnd, Kmain, Running, KmainGoto, Goto, K, LocalType,
        procVars, pidVars, taskVars
    <3>2. Linked' = Linked
      BY <2>r, <3>1, LinkedStep DEF InsertBegin, DeleteEnd, Kmain, Running, K
    <3> QED BY <1>t, <2>k, <2>o, <3>1, <3>2 DEF InvOwned
  <2>6. CASE ThreadDelete
    <3>1. PICK t \in proc_tasks[proc_kernel] \ {task_kernel} :
            /\ t \in Linked /\ type[t] = "KERNEL" /\ new_task' = t
            /\ proc_tasks' = [proc_tasks EXCEPT ![proc_kernel] = @ \ {t}]
      BY <2>6 DEF ThreadDelete
    <3>2. K = "run" /\ K' = "delete" /\ UNCHANGED <<procs, type>>
      BY <2>6, <1>t DEF ThreadDelete, Kmain, Running, KmainGoto, Goto, K, LocalType,
        pidVars, taskVars
    <3>3. Linked' = Linked
      BY <2>r, <3>2, LinkedStep DEF InsertBegin, DeleteEnd, Kmain, Running, K
    <3>4. /\ \A p \in Proc \ {proc_kernel} : proc_tasks'[p] = proc_tasks[p]
          /\ proc_tasks'[proc_kernel] = proc_tasks[proc_kernel] \ {t}
      BY <1>t, <3>1 DEF ProcType
    <3> QED BY <1>t, <2>k, <2>o, <3>1, <3>2, <3>3, <3>4 DEF InvOwned
  <2>7. CASE DeleteBegin
    <3>1. /\ K = "delete" /\ K' = "deleting"
          /\ UNCHANGED <<procs, proc_tasks, type, new_task>>
      BY <2>7, <1>t DEF DeleteBegin, Kmain, Running, KmainGoto, Goto, K, LocalType,
        procVars, pidVars, taskVars, locals
    <3>2. Linked' = Linked
      BY <2>r, <3>1, LinkedStep DEF InsertBegin, DeleteEnd, Kmain, Running, K
    <3> QED BY <1>t, <2>k, <2>o, <3>1, <3>2 DEF InvOwned
  <2>8. CASE DeleteEnd
    <3>1. /\ K = "deleting" /\ UNCHANGED <<procs, proc_tasks>>
          /\ new_task \in Linked \ {task_kernel}
          /\ type' = [type EXCEPT ![new_task] = "FREE"]
      BY <2>8, <1>t DEF DeleteEnd, Kmain, Running, K, InvTasks, procVars, pidVars
    <3>2. K' = "run"
      BY <2>8, <1>t, <3>1 DEF DeleteEnd, K, LocalType
    <3>3. Linked' = Linked \ {new_task}
      BY <2>8, <2>r, <3>1, LinkedStep DEF InsertBegin, Kmain, Running, K
    <3>4. \A t \in Linked' : type'[t] = type[t]
      BY <1>t, <3>1, <3>3 DEF TaskType
    <3> QED BY <1>t, <2>k, <2>o, <3>1, <3>2, <3>3, <3>4 DEF InvOwned
  <2> QED BY <1>2, <2>1, <2>2, <2>3, <2>4, <2>5, <2>6, <2>7, <2>8 DEF ShellStep
<1> QED BY <1>1, <1>2

-----------------------------------------------------------------------------
(***************************************************************************)
(* Address spaces                                                          *)
(***************************************************************************)
\* Every step but three at most frees what is staged and switches to the
\* address space of a task in the queue.
LEMMA VmmEffect ==
  ASSUME IInv, Next, ~(\E d \in Deltas : TimerReap(d)), ~ProcCreate, ~ProcPidAllocFails
  PROVE  /\ UNCHANGED <<procs, proc_vmm>>
         /\ \/ UNCHANGED <<vmms, vmm_frstage>>
            \/ vmms' = vmms \ vmm_frstage /\ vmm_frstage' = {}
         /\ \/ UNCHANGED <<task_current, vmm_current>>
            \/ \E s \in Linked : /\ task_current' = s
                                 /\ vmm_current' = proc_vmm[proc_pidtab[pid[s]]]
<1>1. UNCHANGED <<procs, proc_vmm>>
  BY ProcWriters DEF procVars, pidVars, Exit, ProcPidAlloc, StartFails, TaskCreate,
    TaskCreateStackFails, ThreadDelete
<1>2. \/ UNCHANGED <<vmms, vmm_frstage>>
      \/ vmms' = vmms \ vmm_frstage /\ vmm_frstage' = {}
  <2>1. Cleaned = vmm_frstage
    BY CurrentNotStaged
  <2> QED BY <2>1, VmmWriters DEF vmmVars, TimerBoot, TimerStay, TimerSwitch, DoCleanup,
        YieldCleanupAndChoose, YieldSwitch
<1>3. \/ UNCHANGED <<task_current, vmm_current>>
      \/ \E s \in Linked : /\ task_current' = s
                           /\ vmm_current' = proc_vmm[proc_pidtab[pid[s]]]
  <2>1. task_kernel \in Linked
    BY DEF IInv, InvLinks
  <2>2. CASE \E d \in Deltas : Timer(d)
    BY <2>1, <2>2 DEF Timer, TimerNoYield, TimerBoot, TimerStay, TimerSwitch,
      TimerReapDeadlock, SwitchTo, Selected, Candidates, vmmVars
  <2>3. CASE \E t \in Task : Yield(t) \/ Exit(t)
    BY <2>3 DEF Yield, YieldEnter, YieldCleanupAndChoose, YieldChoose, YieldSwitch,
      YieldSwitchStale, Exit, SwitchTo, vmmVars
  <2>4. CASE BootDone \/ ShellStep \/ Hung
    BY <2>4 DEF BootDone, ShellStep, ProcPidAlloc, ElfLoaded, StartFails,
      ThreadCreate, TaskCreate, TaskCreateStackFails, InsertBegin, InsertEnd,
      ThreadDelete, DeleteBegin, DeleteEnd, Hung, vars, vmmVars
  <2> QED BY <2>2, <2>3, <2>4 DEF Next
<1> QED BY <1>1, <1>2, <1>3

\* Every step keeps the page directories accounted for, and CR3 on the address
\* space of the running task.
LEMMA VmmStep ==
  ASSUME IInv, Next
  PROVE  VmmType' /\ InvVmms'
<1> USE ProcAssumption, TaskAssumption
<1>t. /\ VmmType /\ InvVmms /\ ProcType /\ ProcType' /\ InvControl'
      /\ proc_kernel \in procs /\ task_current \in Linked \union {NULL}
      /\ vmm_current \notin vmm_frstage /\ Linked \subseteq Task
  BY ProcStep, ControlStep, CurrentNotStaged DEF IInv, TypeOK, InvPids, InvControl, Linked
<1>o. \A t \in Linked : /\ proc_get(pid[t]) \in procs
                        /\ proc_get(pid[t]) = proc_pidtab[pid[t]]
  BY LinkedOwner
<1>k. \A t \in Linked : t \in Linked' => proc_get(pid[t])' = proc_get(pid[t])
  BY OwnerKept
<1>1. CASE \E d \in Deltas : TimerReap(d)
  <2> PICK d \in Deltas : TimerReap(d)
    BY <1>1
  <2>1. PICK p \in procs \ {proc_kernel}, s \in Linked \ {task_current} :
          /\ p = proc_get(pid[task_current])
          /\ vmm_current = proc_vmm[p]
          /\ vmm_frstage' = {vmm_current} /\ vmms' = vmms \ vmm_frstage
          /\ procs' = procs \ {p}
          /\ proc_pidtab' = [proc_pidtab EXCEPT ![pid[task_current]] = NULL]
          /\ UNCHANGED <<proc_pid, proc_vmm, proc_pidtab_len>>
          /\ SwitchTo(s, timer_tick', proc_pidtab')
    BY ReapEffect
  <2>2. task_current' = s /\ s \in Linked' /\ s # NULL
    BY <2>1, <1>t DEF SwitchTo, InvControl
  <2>3. vmm_current' = proc_vmm[proc_get(pid[s])']
    <3>1. proc_get(pid[s])' = proc_get(pid[s]) /\ proc_get(pid[s]) # p
      BY <2>1, <2>2, OwnerKept
    <3>2. pid[s] # pid[task_current]
      BY <2>1, <3>1
    <3>3. proc_pidtab'[pid[s]] = proc_get(pid[s])
      BY <2>1, <3>2, <1>o, LinkedOwner, <1>t DEF ProcType
    <3> QED BY <2>1, <3>1, <3>3 DEF SwitchTo
  <2>4. vmms' = {proc_vmm'[q] : q \in procs'} \union vmm_frstage'
    BY <1>t, <2>1 DEF InvVmms
  <2>5. \A q \in procs' : proc_vmm'[q] \notin vmm_frstage'
    BY <1>t, <2>1 DEF InvVmms
  <2>6. VmmType'
    <3>1. proc_get(pid[s])' \in procs
      BY <2>1, <2>2, <1>o, <1>k
    <3> QED BY <1>t, <2>1, <2>3, <3>1 DEF VmmType, ProcType
  <2> QED BY <1>t, <2>1, <2>2, <2>3, <2>4, <2>5, <2>6 DEF InvVmms
<1>2. CASE ProcCreate
  <2>1. PICK p \in Proc \ procs, v \in Vmm \ vmms :
          /\ procs' = procs \union {p} /\ vmms' = vmms \union {v}
          /\ proc_vmm' = [proc_vmm EXCEPT ![p] = v]
          /\ UNCHANGED <<vmm_current, vmm_frstage, task_current>>
    BY <1>2 DEF ProcCreate
  <2>2. \A q \in procs : proc_vmm'[q] = proc_vmm[q]
    BY <1>t, <2>1 DEF ProcType
  <2>3. proc_vmm'[p] = v
    BY <1>t, <2>1 DEF ProcType
  <2>4. VmmType'
    BY <1>t, <2>1 DEF VmmType
  <2>5. task_current # NULL => proc_get(pid[task_current])' = proc_get(pid[task_current])
    BY <1>t, <1>k, <2>1 DEF InvControl
  <2>6. /\ vmms' = {proc_vmm'[q] : q \in procs'} \union vmm_frstage'
        /\ \A q \in procs' : proc_vmm'[q] \notin vmm_frstage'
        /\ \A q, r \in procs' : proc_vmm'[q] = proc_vmm'[r] => q = r
    BY <1>t, <2>1, <2>2, <2>3 DEF InvVmms
  <2> QED BY <1>t, <1>o, <2>1, <2>2, <2>4, <2>5, <2>6 DEF InvVmms
<1>3. CASE ProcPidAllocFails
  <2>1. /\ task_current = task_kernel /\ task_current' = task_kernel
        /\ new_proc \in procs \ {proc_kernel}
        /\ procs' = procs \ {new_proc}
        /\ vmms' = vmms \ Freed(proc_vmm[new_proc])
        /\ vmm_frstage' = vmm_frstage \union Staged(proc_vmm[new_proc])
        /\ UNCHANGED <<vmm_current, proc_vmm>>
    BY <1>3 DEF ProcPidAllocFails, Kmain, Running, K, IInv, InvControl
  <2>2. proc_get(pid[task_kernel]) = proc_kernel /\ task_kernel \in Linked
    BY DEF IInv, InvTasks, InvPids, InvLinks, proc_get
  <2>3. vmm_current = vmm_kernel /\ proc_vmm[new_proc] # vmm_kernel
    BY <1>t, <2>1, <2>2 DEF InvVmms
  <2>4. vmms' = vmms \ {proc_vmm[new_proc]} /\ vmm_frstage' = vmm_frstage
    BY <2>1, <2>3 DEF Freed, Staged
  <2>5. proc_get(pid[task_kernel])' = proc_kernel
    BY <1>t, <1>k, <2>1, <2>2 DEF InvControl
  <2>6. VmmType'
    BY <1>t, <2>1, <2>4 DEF VmmType
  <2> QED BY <1>t, <2>1, <2>2, <2>3, <2>4, <2>5, <2>6 DEF InvVmms
<1>4. CASE ~(\E d \in Deltas : TimerReap(d)) /\ ~ProcCreate /\ ~ProcPidAllocFails
  <2>1. /\ UNCHANGED <<procs, proc_vmm>>
        /\ \/ UNCHANGED <<vmms, vmm_frstage>>
           \/ vmms' = vmms \ vmm_frstage /\ vmm_frstage' = {}
        /\ \/ UNCHANGED <<task_current, vmm_current>>
           \/ \E s \in Linked : /\ task_current' = s
                                /\ vmm_current' = proc_vmm[proc_pidtab[pid[s]]]
    BY <1>4, VmmEffect
  <2>2. /\ vmms' = {proc_vmm'[q] : q \in procs'} \union vmm_frstage'
        /\ \A q \in procs' : proc_vmm'[q] \notin vmm_frstage'
    BY <1>t, <2>1 DEF InvVmms
  <2>3. vmm_current' = IF task_current' = NULL THEN vmm_kernel
                       ELSE proc_vmm[proc_get(pid[task_current])']
    <3>1. CASE UNCHANGED <<task_current, vmm_current>>
      BY <1>t, <1>k, <3>1 DEF InvVmms, InvControl
    <3>2. CASE \E s \in Linked : /\ task_current' = s
                                 /\ vmm_current' = proc_vmm[proc_pidtab[pid[s]]]
      <4>1. PICK s \in Linked : /\ task_current' = s
                                /\ vmm_current' = proc_vmm[proc_pidtab[pid[s]]]
        BY <3>2
      <4>2. s # NULL /\ s \in Linked'
        BY <1>t, <4>1 DEF InvControl
      <4> QED BY <1>k, <1>o, <4>1, <4>2
    <3> QED BY <2>1, <3>1, <3>2
  <2>4. vmm_current' \in Vmm
    <3>1. task_current' # NULL => proc_get(pid[task_current])' \in Proc
      BY OwnedStep, <1>t DEF InvOwned, InvControl, ProcType
    <3> QED BY <1>t, <2>3, <3>1 DEF ProcType
  <2>5. VmmType'
    BY <1>t, <2>1, <2>4 DEF VmmType
  <2> QED BY <1>t, <2>1, <2>2, <2>3, <2>5 DEF InvVmms
<1> QED BY <1>1, <1>2, <1>3, <1>4

-----------------------------------------------------------------------------
(***************************************************************************)
(* The theorems                                                            *)
(***************************************************************************)
LEMMA IInvStep ==
  ASSUME IInv, [Next]_vars
  PROVE  IInv'
<1>1. CASE Next
  BY <1>1, LinksStep, CycleStep, ProcStep, VmmStep, TaskTypeStep, CpuStep, LocalStep,
    ControlStep, TasksStep, OwnedStep DEF IInv, TypeOK
<1>2. CASE UNCHANGED vars
  <2>1. UNCHANGED <<links, procVars, vmmVars, taskVars, clockVars, task_current,
                    task_yield_block_cnt, pc, locals, fault>>
    BY <1>2 DEF vars
  <2>2. TypeOK'
    BY <2>1 DEF IInv, TypeOK, LinksType, ProcType, VmmType, TaskType, CpuType,
      LocalType, links, procVars, pidVars, vmmVars, taskVars, clockVars, locals
  <2>3. K' = K /\ Linked' = Linked /\ WholeNext' = WholeNext
    BY <2>1 DEF K, Linked, WholeNext, links, locals
  <2>4. \A t \in Task : proc_get(pid[t])' = proc_get(pid[t])
    BY <2>1 DEF proc_get, procVars, pidVars, taskVars
  <2>5. InvLinks' /\ InvControl'
    BY <2>1, <2>3 DEF IInv, InvLinks, InvControl, links, procVars, pidVars, locals
  <2>c. InvCycle'
    BY <2>3 DEF IInv, InvCycle
  <2>6. InvTasks'
    BY <2>1, <2>3 DEF IInv, InvTasks, proc_get, links, procVars, pidVars, taskVars, locals
  <2>7. InvPids'
    BY <2>1, <2>3 DEF IInv, InvPids, procVars, pidVars, locals
  <2>8. InvOwned'
    BY <2>1, <2>3 DEF IInv, InvOwned, proc_get, procVars, pidVars, taskVars, locals
  <2>9. InvVmms'
    BY <2>1, <2>3 DEF IInv, InvVmms, proc_get, procVars, pidVars, vmmVars, taskVars
  <2> QED BY <2>2, <2>5, <2>c, <2>6, <2>7, <2>8, <2>9 DEF IInv
<1> QED BY <1>1, <1>2

\* The inductive invariant holds in every reachable state of the scheduler.
THEOREM Invariance == Spec => []IInv
<1>1. Init => IInv
  BY InitIInv
<1>2. IInv /\ [Next]_vars => IInv'
  BY IInvStep
<1> QED BY <1>1, <1>2, PTL DEF Spec

\* Every variable of the kernel keeps its type; blocked sections never nest.
THEOREM TypeSafety == Spec => []TypeOK
<1>1. IInv => TypeOK
  BY DEF IInv
<1> QED BY <1>1, Invariance, PTL

\* Between the two halves of an insertion or a deletion apart, the queue is one
\* cycle in both directions.
THEOREM QueueSafety == Spec => []QueueOK
<1>1. IInv => QueueOK
  BY WholeLinks DEF IInv, InvCycle, QueueOK, OneCycle, LinksInverse, K
<1> QED BY <1>1, Invariance, PTL

\* A task in the queue always belongs to an existing process that lists it.
THEOREM TasksOwnedSafety == Spec => []TasksOwned
<1>1. IInv => TasksOwned
  BY DEF IInv, InvOwned, TasksOwned, K
<1> QED BY <1>1, Invariance, PTL

\* The CPU always runs a queued task, in the address space of its process.
THEOREM CurrentSafety == Spec => []CurrentOK
<1>1. IInv => CurrentOK
  BY DEF IInv, InvControl, InvVmms, CurrentOK
<1> QED BY <1>1, Invariance, PTL

\* No page directory is freed while in use, and none is lost.
THEOREM VmmSafety == Spec => []VmmOK
<1>1. IInv => VmmOK
  <2> SUFFICES ASSUME IInv PROVE VmmOK
    OBVIOUS
  <2>1. vmm_current \in vmms
    <3>1. CASE task_current = NULL
      BY <3>1 DEF IInv, InvVmms, InvPids
    <3>2. CASE task_current # NULL
      <4>1. proc_get(pid[task_current]) \in procs
        BY <3>2 DEF IInv, InvControl, InvOwned
      <4> QED BY <3>2, <4>1 DEF IInv, InvVmms
    <3> QED BY <3>1, <3>2
  <2> QED BY <2>1 DEF IInv, InvVmms, VmmOK
<1> QED BY <1>1, Invariance, PTL

\* The PID table and the processes agree, up to any PID limit.
THEOREM PidSafety == Spec => []PidOK
<1>1. IInv => PidOK
  <2> SUFFICES ASSUME IInv PROVE PidOK
    OBVIOUS
  <2>1. \A i \in Pids : proc_pidtab[i] # NULL => i <= PROC_PIDMAX
    BY ProcAssumption DEF IInv, InvPids, TypeOK, ProcType, Pids
  <2> QED BY <2>1 DEF IInv, InvPids, PidOK, K
<1> QED BY <1>1, Invariance, PTL

-----------------------------------------------------------------------------
(***************************************************************************)
(* The scheduler implements TaskLife                                       *)
(***************************************************************************)
\* No step moves a task that stays in the queue to another process.
LEMMA MembersStep ==
  ASSUME IInv, Next
  PROVE  Members' = [p \in Proc |-> {t \in Linked' : \/ t \in Members[p]
                                                     \/ /\ t \notin Linked
                                                        /\ InsertBegin /\ p = new_proc}]
<1>1. \A t \in Linked : t \in Linked' => proc_get(pid[t])' = proc_get(pid[t])
  BY OwnerKept
<1>2. \A t \in Linked' : t \notin Linked => InsertBegin /\ t = new_task
  BY LinkedStep
<1>3. InsertBegin => proc_get(pid[new_task])' = new_proc
  <2> SUFFICES ASSUME InsertBegin PROVE proc_get(pid[new_task])' = new_proc
    OBVIOUS
  <2>1. K' = "inserting" /\ UNCHANGED <<new_task, new_proc>>
    BY TaskAssumption DEF InsertBegin, KmainGoto, Goto, K, IInv, TypeOK, LocalType,
      locals
  <2> QED BY <2>1, TasksStep DEF InvTasks
<1>4. ASSUME NEW p \in Proc, NEW t \in Linked'
      PROVE  proc_get(pid[t])' = p <=> \/ t \in Members[p]
                                       \/ t \notin Linked /\ InsertBegin /\ p = new_proc
  <2>1. CASE t \in Linked
    <3>1. t \in Members[p] <=> proc_get(pid[t]) = p
      BY <2>1 DEF Members
    <3> QED BY <1>1, <2>1, <3>1
  <2>2. CASE t \notin Linked
    <3>1. t \notin Members[p] /\ InsertBegin /\ t = new_task
      BY <1>2, <2>2 DEF Members
    <3>2. proc_get(pid[t])' = proc_get(pid[new_task])'
      BY <3>1, <1>3 DEF InsertBegin, locals
    <3> QED BY <1>3, <2>2, <3>1, <3>2
  <2> QED BY <2>1, <2>2
<1>5. ASSUME NEW p \in Proc
      PROVE  {t \in Linked' : proc_get(pid[t])' = p}
               = {t \in Linked' : \/ t \in Members[p]
                                  \/ t \notin Linked /\ InsertBegin /\ p = new_proc}
  BY <1>4
<1>6. Members' = [p \in Proc |-> {t \in Linked' : proc_get(pid[t])' = p}]
  BY DEF Members
<1> QED BY <1>5, <1>6

\* The initial state of the kernel is one of TaskLife.
LEMMA LifeInitial == Init => Life!LifeInit
<1> SUFFICES ASSUME Init PROVE Life!LifeInit
  OBVIOUS
<1>1. Linked = {task_kernel} /\ proc_get(pid[task_kernel]) = proc_kernel
  BY TaskAssumption, ProcAssumption DEF Init, QueueInit, ProcessInit, Linked,
    proc_get, Pids
<1>2. Members = [p \in Proc |-> IF p = proc_kernel THEN {task_kernel} ELSE {}]
  BY <1>1 DEF Members
<1>3. Dying = {}
  BY DEF Dying, Init
<1> QED BY <1>2, <1>3 DEF Life!LifeInit, Init, ProcessInit

\* A step that leaves the queue and the processes alone is a step of the CPU
\* alone, or none.
LEMMA LifeStep ==
  ASSUME IInv, Next
  PROVE  Life!LifeNext \/ UNCHANGED Life!lifeVars
<1> USE TaskAssumption, ProcAssumption
<1>t. /\ InvControl /\ InvTasks /\ InvOwned /\ TaskType /\ LocalType /\ ProcType
      /\ task_kernel \in Linked /\ Linked \subseteq Task
  BY DEF IInv, TypeOK, InvLinks, Linked
<1>m. \A t \in Linked : /\ proc_get(pid[t]) \in procs /\ proc_get(pid[t]) \in Proc
                        /\ t \in Members[proc_get(pid[t])]
  BY <1>t, LinkedOwner DEF Members
<1>l. Life!Live = Linked
  BY <1>m DEF Life!Live, Members
<1>1. CASE \E d \in Deltas : TimerReap(d)
  <2> PICK d \in Deltas : TimerReap(d)
    BY <1>1
  <2> DEFINE c == task_current
  <2>1. PICK p \in procs \ {proc_kernel}, s \in Linked \ {c} :
          /\ c \in Linked \ {task_kernel}
          /\ p = proc_get(pid[c])
          /\ proc_tasks[p] = {c}
          /\ procs' = procs \ {p}
          /\ SwitchTo(s, timer_tick', proc_pidtab')
    BY ReapEffect
  <2>2. p \in Proc /\ Linked' = Linked \ {c}
    BY <1>t, <2>1, LinkedStep DEF ProcType, InsertBegin, DeleteEnd, Kmain, Running
  <2>3. Members[p] = {c}
    <3>1. \A t \in Linked : proc_get(pid[t]) = p => t = c
      BY <1>t, <2>1 DEF InvOwned
    <3> QED BY <2>1, <2>2, <3>1 DEF Members
  <2>4. Members' = [Members EXCEPT ![p] = @ \ {c}]
    <3>1. ~InsertBegin
      BY <2>1 DEF InsertBegin, Kmain, Running
    <3>2. Members' = [q \in Proc |-> {t \in Linked' : t \in Members[q]}]
      BY <3>1, MembersStep
    <3>3. \A q \in Proc : {t \in Linked' : t \in Members[q]}
                            = IF q = p THEN Members[q] \ {c} ELSE Members[q]
      BY <2>1, <2>2 DEF Members
    <3> QED BY <3>2, <3>3 DEF Members
  <2>5. Dying' = Dying \ {c} /\ c \in Dying
    <3>1. type' = [type EXCEPT ![c] = "FREE"] /\ type[c] = "DELETE_PENDING"
      BY DEF TimerReap, FreeTask, Ending
    <3> QED BY <1>t, <2>1, <3>1 DEF Dying, TaskType
  <2>6. Life!Reap(s, p)
    BY <1>l, <2>1, <2>2, <2>3, <2>4, <2>5 DEF Life!Reap, SwitchTo
  <2> QED BY <1>t, <2>1, <2>2, <2>6 DEF Life!LifeNext
<1>2. CASE InsertBegin
  <2>1. /\ UNCHANGED <<procs, type, task_current>> /\ K = "insert"
        /\ new_proc \in procs /\ new_proc \in Proc /\ new_task \in Task \ Linked
    BY <1>t, <1>2 DEF InsertBegin, Kmain, Running, K, InvControl, InvTasks, procVars,
      pidVars, taskVars, ProcType
  <2>2. Linked' = Linked \union {new_task}
    BY <1>1, <1>2, <2>1, LinkedStep, ReapEffect DEF DeleteEnd, Kmain, Running, K, InsertBegin
  <2>3. Members' = [Members EXCEPT ![new_proc] = @ \union {new_task}]
    <3>1. \A p \in Proc :
            {t \in Linked' : t \in Members[p] \/ (t \notin Linked /\ InsertBegin /\ p = new_proc)}
              = IF p = new_proc THEN Members[p] \union {new_task} ELSE Members[p]
      BY <1>2, <2>1, <2>2 DEF Members
    <3> QED BY <3>1, MembersStep DEF Members
  <2>4. Dying' = Dying
    BY <2>1 DEF Dying
  <2>5. Life!Start(new_task, new_proc)
    BY <1>l, <2>1, <2>3, <2>4 DEF Life!Start
  <2> QED BY <2>1, <2>5 DEF Life!LifeNext
<1>3. CASE DeleteEnd
  <2>1. /\ UNCHANGED <<procs, task_current>> /\ K = "deleting"
        /\ new_task \in Linked \ {task_kernel} /\ type[new_task] = "KERNEL"
        /\ task_current = task_kernel
        /\ type' = [type EXCEPT ![new_task] = "FREE"]
    BY <1>t, <1>3 DEF DeleteEnd, Kmain, Running, K, InvTasks, procVars, pidVars
  <2>2. Linked' = Linked \ {new_task}
    BY <1>3, <2>1, LinkedStep, ReapEffect DEF InsertBegin, Kmain, Running, K
  <2>3. proc_get(pid[new_task]) = proc_kernel
    BY <1>t, <2>1 DEF InvOwned
  <2>4. Members' = [Members EXCEPT ![proc_kernel] = @ \ {new_task}]
    <3>1. ~InsertBegin
      BY <2>1 DEF InsertBegin, Kmain, Running, K
    <3>2. Members' = [q \in Proc |-> {t \in Linked' : t \in Members[q]}]
      BY <3>1, MembersStep
    <3>3. \A q \in Proc : {t \in Linked' : t \in Members[q]}
            = IF q = proc_kernel THEN Members[q] \ {new_task} ELSE Members[q]
      BY <2>2, <2>3 DEF Members
    <3> QED BY <3>2, <3>3 DEF Members
  <2>5. Dying' = Dying
    BY <1>t, <2>1 DEF Dying, TaskType
  <2>6. Life!Kill(new_task)
    BY <1>m, <2>1, <2>3, <2>4, <2>5 DEF Life!Kill
  <2> QED BY <1>t, <2>1, <2>6 DEF Life!LifeNext
<1>4. CASE ~(\E d \in Deltas : TimerReap(d)) /\ ~InsertBegin /\ ~DeleteEnd
  <2>1. Linked' = Linked /\ Members' = Members
    <3>1. Linked' = Linked
      BY <1>4, LinkedStep
    <3>2. Members' = [p \in Proc |-> {t \in Linked : t \in Members[p]}]
      BY <1>4, <3>1, MembersStep
    <3> QED BY <3>1, <3>2 DEF Members
  <2>2. CASE ProcCreate
    <3>1. /\ \E p \in Proc \ procs : procs' = procs \union {p}
          /\ UNCHANGED <<type, task_current>>
      BY <2>2 DEF ProcCreate, taskVars
    <3> QED BY <2>1, <3>1 DEF Dying, Life!Create, Life!LifeNext
  <2>3. CASE ProcPidAllocFails
    <3>1. /\ K = "pid_alloc" /\ new_proc \in procs /\ new_proc \in Proc
          /\ procs' = procs \ {new_proc} /\ UNCHANGED <<type, task_current>>
      BY <1>t, <2>3 DEF ProcPidAllocFails, Kmain, Running, K, InvControl, ProcType, taskVars
    <3>2. Members[new_proc] = {}
      <4>1. \A i \in Pids : proc_pidtab[i] # new_proc
        BY <3>1 DEF IInv, InvPids
      <4>2. \A t \in Linked : proc_get(pid[t]) # new_proc
        BY <4>1, LinkedOwner
      <4> QED BY <3>1, <4>2 DEF Members
    <3>3. Life!Discard(new_proc)
      BY <2>1, <3>1, <3>2 DEF Dying, Life!Discard
    <3> QED BY <3>1, <3>3 DEF Life!LifeNext
  <2>4. CASE \E t \in Task : Exit(t)
    <3> PICK t \in Task : Exit(t)
      BY <2>4
    <3>1. /\ t = task_current /\ type[t] = "USER" /\ UNCHANGED <<procs, task_current>>
          /\ type' = [type EXCEPT ![t] = "DELETE_PENDING"]
      BY DEF Exit, Running, pidVars
    <3>2. t \in Linked \ {task_kernel}
      BY <1>t, <3>1 DEF InvControl, InvTasks
    <3>3. Dying' = Dying \union {t}
      BY <1>t, <3>1 DEF Dying, TaskType
    <3> QED BY <1>l, <2>1, <3>1, <3>2, <3>3 DEF Life!End, Life!LifeNext
  <2>5. CASE ~ProcCreate /\ ~ProcPidAllocFails /\ ~\E t \in Task : Exit(t)
    <3>1. UNCHANGED procs
      BY <1>4, <2>5, ProcWriters DEF procVars, pidVars, ProcPidAlloc, StartFails,
        TaskCreate, TaskCreateStackFails, ThreadDelete
    <3>2. Dying' = Dying
      <4>1. CASE TaskCreate
        BY <1>t, <4>1 DEF TaskCreate, TaskType, Dying
      <4>2. UNCHANGED type \/ TaskCreate
        BY <1>4, <2>5, TaskWriters DEF taskVars, BootDone
      <4> QED BY <4>1, <4>2 DEF Dying
    <3>3. \/ UNCHANGED task_current
          \/ task_current = NULL /\ task_current' = task_kernel
          \/ /\ task_current # NULL /\ task_current \notin Dying
             /\ \E s \in Linked : task_current' = s
      <4>1. CASE \E d \in Deltas : TimerBoot(d) \/ TimerSwitch(d)
        BY <4>1 DEF TimerBoot, TimerSwitch, SwitchTo, Selected, Candidates, Ending, Dying
      <4>2. CASE \E t \in Task : YieldSwitch(t)
        BY <1>t, <4>2 DEF YieldSwitch, SwitchTo, Running, Dying, InvTasks
      <4>3. CASE ~(\E d \in Deltas : TimerBoot(d) \/ TimerSwitch(d)) /\ ~\E t \in Task : YieldSwitch(t)
        BY <1>4, <4>3, <2>5 DEF Next, Timer, TimerNoYield, TimerStay, TimerReapDeadlock,
          Yield, YieldEnter, YieldCleanupAndChoose, YieldChoose, YieldSwitchStale,
          BootDone, ShellStep, ProcPidAlloc, ElfLoaded, StartFails, ThreadCreate,
          TaskCreate, TaskCreateStackFails, InsertEnd, ThreadDelete, DeleteBegin,
          Hung, vars
      <4> QED BY <4>1, <4>2, <4>3
    <3> QED BY <1>l, <1>t, <2>1, <3>1, <3>2, <3>3 DEF Life!LifeNext, Life!Boot,
          Life!Dispatch, Life!lifeVars
  <2> QED BY <2>2, <2>3, <2>4, <2>5
<1> QED BY <1>1, <1>2, <1>3, <1>4

\* Every step of the scheduler is a step of the abstract life of tasks and
\* processes, or leaves it unchanged.
THEOREM Refinement == Spec => ImplementsLife
<1>1. Init => Life!LifeInit
  BY LifeInitial
<1>2. IInv /\ [Next]_vars => [Life!LifeNext]_Life!lifeVars
  <2> SUFFICES ASSUME IInv, [Next]_vars
               PROVE  Life!LifeNext \/ UNCHANGED Life!lifeVars
    OBVIOUS
  <2>1. CASE Next
    BY <2>1, LifeStep
  <2>2. CASE UNCHANGED vars
    <3>1. UNCHANGED <<links, procVars, taskVars, task_current>>
      BY <2>2 DEF vars
    <3>2. UNCHANGED <<procs, task_current>> /\ Dying' = Dying
      BY <3>1 DEF procVars, pidVars, taskVars, Dying
    <3>3. Members' = Members
      BY <3>1 DEF procVars, pidVars, taskVars, links, Members, Linked, proc_get
    <3> QED BY <3>2, <3>3 DEF Life!lifeVars
  <2> QED BY <2>1, <2>2
<1> QED BY <1>1, <1>2, Invariance, PTL DEF Spec, ImplementsLife, Life!LifeSpec

=============================================================================
