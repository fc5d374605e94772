SPECIFICATION Spec
CONSTANTS
  File <- MCFile  PGSZ = 4  LoadPages <- MCLoadPages  FrameCounts = {0, 1, 2, 4}
  WORD32 = 256  WORD16 = 16  WORD8 = 4
  SYM_ALLOC_MIN = 2  KernelSyms <- MCKernelSyms  Cut <- MCCut  ELF_KMOD_INIT_FUNC = "kmod_init"
  NULL = NULL  UNSET = UNSET  INFO = INFO
  Archive <- MCArchive  SECTOR = 2  TAR_HIERARCHY_ITEM_INCREMENT = 4  VFS_DIRENT_SIZE = 2
  Device <- MCDevice  MemPath <- MCMemPath  DevPath <- MCDevPath
  Machine <- MCMachine  DEVICES = 2  FUNCS = 3  Space <- MCSpace  MpTable <- MCMpTable
  UMAX64 = 255  UMAX32 = 63  UNSTORED = UNSTORED
  Numbers <- MCNumbers  Blocks <- MCBlocks  Strings <- MCStrings  Lines <- MCLines
  BUFFER = 8  DEN = 32  DEFAULT_PREC = 3  MAX_PREC = 4  Bits <- MCBits  Format <- MCFormat  Stream <- MCStream
  UNGIVEN = UNGIVEN  UNWRITTEN = UNWRITTEN
  Parts = {"elf", "vfs", "pci", "lib", "print"}
CHECK_DEADLOCK FALSE
INVARIANTS
  LoadedExact LoadBalanced SymbolsResolve NodesExact PciExact LibraryExact
