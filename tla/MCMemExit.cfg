SPECIFICATION Spec
CONSTANTS
  Frame <- MCFrame
  PTES = 5  UPDES = 3  KPDES = 2
  vmm_kernel = 0
  kernel_end = 16
  VMM_TRAP_ALLOCSZ = 4  MAX_TRAPS = 8  Moves = FALSE
  Value = {0, 1}  Zero = 0
  UserPages = {7, 8}
  HeapPages = {24}
  Low <- MCLow
  MAX_SPACES = 3
  OneSharer = TRUE
  SourceExits = TRUE
  Space = {0, 1}  Device = {40, 46}  RangePages <- MCRangePages  Lengths = {1, 5, 6}
  MAX_RANGES = 3
  pmm_frames = 5  WORD = 3  Past = FALSE
  Reserved = {0}
  Thread = {t1, t2}
  Sizes = {1, 2}
  Split = {TRUE, FALSE}  Preempted = FALSE
  HeapFrame = {1, 2, 3}
  framesz = 3
  KHEAP_MAX_SIZE = 10
  Increments = {1, 4}
  pagesize = 32  HEAP_MAX = 96  max_fast = 16  MIN_LARGE_SIZE = 40
  FASTBIN_CONSOLIDATION_THRESHOLD = 48  trim_threshold = 64
  Requests = {4, 20}  Alignments = {16}  MAX_USED = 3
  Parts = {"vmem"}
CHECK_DEADLOCK FALSE
INVARIANT Isolation
