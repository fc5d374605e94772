\* Three processes that fork, start others and exit; open hooks that fail.
SPECIFICATION ForkSpec
CONSTANTS
  kp = kp  p1 = p1  p2 = p2  k = k  a = a  b = b  con = con  x = x
  NULL = NULL
  Proc <- MCProc3
  proc_kernel = kp
  Thread <- MCThread1
  owner <- MCOwner1
  Node <- MCNode2
  dev_console = con
  FTAB_ALLOCSZ = 2
  PROC_FDS_ALLOCSZ = 2
  STDFDS = 1
  Exclusive = {TRUE, FALSE}
  Duplicate = {TRUE, FALSE}
  Mode = {"w"}
  Openable = {TRUE, FALSE}
  CloseAlone = FALSE
  OutOfMemory = FALSE
  MAX_FTAB = 2
  MAX_FDS = 2
  MAX_REFS = 3
\* Opening stops at MAX_REFS.
CHECK_DEADLOCK FALSE
INVARIANT FilesKept
