\* task_lowlevel.asm:18, against the interrupts that task_yield() leaves on.
SPECIFICATION Spec
CONSTANTS
  kt = kt  t1 = t1  t2 = t2
  kp = kp  p1 = p1  p2 = p2
  kv = kv  v1 = v1  v2 = v2
  NULL = NULL
  Task <- MCTasks3
  task_kernel = kt
  Proc <- MCProc2
  proc_kernel = kp
  Vmm <- MCVmm3
  vmm_kernel = kv
  PROC_PIDMAX = 1
  PROC_PIDTAB_ALLOCSZ = 2
  TASK_QUANTUM = 1
  TICKS = 4
  Deltas = {1}
  BLOCK_LAG = 1
INVARIANT NoStaleSwitch
