\* Two processes, two files, tables that fill up.
SPECIFICATION FileSpec
CONSTANTS
  kp = kp  p1 = p1  p2 = p2  k = k  a = a  b = b  con = con  x = x
  NULL = NULL
  Proc <- MCProc2
  proc_kernel = kp
  Thread <- MCThread2
  owner <- MCOwner2
  Node <- MCNode2
  dev_console = con
  FTAB_ALLOCSZ = 2
  PROC_FDS_ALLOCSZ = 2
  STDFDS = 1
  Exclusive = {TRUE, FALSE}
  Duplicate = {TRUE}
  Mode = {"w"}
  Openable = {TRUE}
  CloseAlone = TRUE
  OutOfMemory = TRUE
  MAX_FTAB = 2
  MAX_FDS = 2
  MAX_REFS = 2
\* Opening stops at MAX_REFS.
CHECK_DEADLOCK FALSE
INVARIANTS RefsCover FilesStayOpen ExclKept MutexesReleased NoDeadlock
