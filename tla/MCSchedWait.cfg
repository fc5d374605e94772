\* Three kernel tasks that come, go and yield, counting how often a ready task is passed over.
SPECIFICATION WaitSpec
CONSTANTS
  kt = kt  t1 = t1  t2 = t2
  kp = kp  p1 = p1  p2 = p2
  kv = kv  v1 = v1  v2 = v2
  NULL = NULL
  Task <- MCTasks3
  task_kernel = kt
  Proc <- MCProc1
  proc_kernel = kp
  Vmm <- MCVmm1
  vmm_kernel = kv
  PROC_PIDMAX = 0
  PROC_PIDTAB_ALLOCSZ = 1
  TASK_QUANTUM = 1
  TICKS = 6
  Deltas = {1}
  BLOCK_LAG = 1
  MAX_PASSED = 5
INVARIANT BoundedOvertaking
