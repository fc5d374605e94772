------------------------------- MODULE Process -------------------------------
(***************************************************************************)
(* Processes and address spaces as the scheduler sees them: the PID table  *)
(* and struct proc of exec/process.c, and the life of a VMM configuration  *)
(* (mm/vmm.c, arch/x86cpu/vmm.c) from vmm_clone() to vmm_free(), which     *)
(* stages the configuration the CPU is running on instead of freeing it.   *)
(* Memory is abstracted to which structures are allocated.                 *)
(***************************************************************************)
EXTENDS TaskQueue

CONSTANTS Proc,             \* addresses of process structures
          proc_kernel,      \* the one made by proc_init()
          Vmm,              \* page directories
          vmm_kernel,
          PROC_PIDMAX,      \* maximum PID that can be allocated
          PROC_PIDTAB_ALLOCSZ

\* The limit is a multiple of the growth step, less one (65535 and 4 in the
\* code), so a table that may still grow ends at PROC_PIDMAX exactly.
ASSUME ProcAssumption ==
  /\ proc_kernel \in Proc /\ NULL \notin Proc
  /\ vmm_kernel \in Vmm
  /\ PROC_PIDMAX \in Nat
  /\ PROC_PIDTAB_ALLOCSZ \in Nat \ {0}
  /\ \E m \in 1 .. PROC_PIDMAX + 1 : PROC_PIDMAX + 1 = m * PROC_PIDTAB_ALLOCSZ

VARIABLES
  procs,            \* allocated process structures
  proc_pid,         \* struct proc: pid
  proc_vmm,         \*              vmm
  proc_tasks,       \*              tasks, the non-NULL entries
  mu_tasks,         \* processes whose mu_tasks mutex is held
  proc_pidtab, proc_pidtab_len,
  vmms,             \* page directories whose frames are allocated
  vmm_current,      \* the one in CR3
  vmm_frstage       \* configurations staged for deletion

pidVars  == <<procs, proc_pid, proc_vmm, proc_pidtab, proc_pidtab_len>>
procVars == <<pidVars, proc_tasks, mu_tasks>>
vmmVars  == <<vmms, vmm_current, vmm_frstage>>

\* Every index the table can have.
Pids == 0 .. PROC_PIDMAX + PROC_PIDTAB_ALLOCSZ

ProcType ==
  /\ procs \subseteq Proc
  /\ proc_pid \in [Proc -> Pids]
  /\ proc_vmm \in [Proc -> Vmm]
  /\ proc_tasks \in [Proc -> SUBSET Task]
  /\ mu_tasks \subseteq Proc
  /\ proc_pidtab \in [Pids -> Proc \union {NULL}]
  /\ proc_pidtab_len \in Pids

VmmType ==
  /\ vmms \subseteq Vmm
  /\ vmm_current \in Vmm
  /\ vmm_frstage \subseteq Vmm

\* proc_init(): the kernel process has PID 0, runs on the kernel VMM and owns
\* task_kernel.
ProcessInit ==
  /\ procs = {proc_kernel}
  /\ proc_pid = [p \in Proc |-> 0]
  /\ proc_vmm = [p \in Proc |-> vmm_kernel]
  /\ proc_tasks = [p \in Proc |-> IF p = proc_kernel THEN {task_kernel} ELSE {}]
  /\ mu_tasks = {}
  /\ proc_pidtab = [i \in Pids |-> IF i = 0 THEN proc_kernel ELSE NULL]
  /\ proc_pidtab_len = PROC_PIDTAB_ALLOCSZ
  /\ vmms = {vmm_kernel}
  /\ vmm_current = vmm_kernel
  /\ vmm_frstage = {}

\* proc_get().
proc_get(pid) == IF pid < proc_pidtab_len THEN proc_pidtab[pid] ELSE NULL

\* A slip: the search ends one entry early and takes the last, whatever it holds.
LastPid(pid) ==
  LET last == IF proc_pidtab_len = 0 THEN 0 ELSE proc_pidtab_len - 1
  IN  /\ pid \in 0 .. last
      /\ \A i \in 0 .. pid - 1 : proc_pidtab[i] # NULL
      /\ pid < last => proc_pidtab[pid] = NULL

\* proc_pid_alloc() takes the first NULL entry, or the first one past the end
\* when the table is full.
FirstFreePid(pid) ==
  /\ pid \in 0 .. proc_pidtab_len
  /\ pid < proc_pidtab_len => proc_pidtab[pid] = NULL
  /\ \A i \in 0 .. pid - 1 : proc_pidtab[i] # NULL

PidLimitReached ==
  /\ proc_pidtab_len > PROC_PIDMAX
  /\ FirstFreePid(proc_pidtab_len)

AssignPid(p, pid) ==
  /\ proc_pidtab' = [proc_pidtab EXCEPT ![pid] = p]
  /\ proc_pidtab_len' = IF pid = proc_pidtab_len
                          THEN proc_pidtab_len + PROC_PIDTAB_ALLOCSZ
                          ELSE proc_pidtab_len
  /\ proc_pid' = [proc_pid EXCEPT ![p] = pid]

\* A slip: the entry of a process that is gone stays.
PidKept(pid) == UNCHANGED proc_pidtab

\* proc_pid_free().
proc_pid_free(pid) ==
  proc_pidtab' = IF pid < proc_pidtab_len
                   THEN [proc_pidtab EXCEPT ![pid] = NULL]
                   ELSE proc_pidtab

(***************************************************************************)
(* vmm_free(vmm): the kernel's configuration is kept, the current one is   *)
(* staged, any other is freed.  vmm_do_cleanup() frees what is staged,     *)
(* except the current one.                                                 *)
(***************************************************************************)
Staged(vmm) == IF vmm # vmm_kernel /\ vmm = vmm_current THEN {vmm} ELSE {}

\* A slip: what has been staged is freed as well.
FreedToo(vmm) == IF vmm # vmm_kernel THEN {vmm} ELSE {}

Freed(vmm)  == IF vmm # vmm_kernel /\ vmm # vmm_current THEN {vmm} ELSE {}

Cleaned == vmm_frstage \ {vmm_current}
=============================================================================
