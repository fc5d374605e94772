-------------------------------- MODULE FileTab --------------------------------
(***************************************************************************)
(* Open files of SysX: the file table (fs/ftab.c), the descriptor tables   *)
(* of processes that point into it (proc_fd_*() in exec/process.c), and    *)
(* what creating, forking and deleting a process does to both.             *)
(*                                                                         *)
(* Threads are preempted anywhere; a step is what a thread does between    *)
(* two points where another's step can matter.  Mutexes know no owner.     *)
(* Offsets and contents are left out.                                      *)
(***************************************************************************)
EXTENDS Integers, Sequences, FiniteSets

CONSTANTS Proc, proc_kernel,   \* process structures
          Thread, owner,       \* threads, and the process each belongs to
          Node, dev_console,   \* nodes of the virtual file system
          NULL,
          FTAB_ALLOCSZ, PROC_FDS_ALLOCSZ,
          STDFDS,              \* descriptors that proc_create() opens
          Exclusive,           \* values of excl that callers pass
          Duplicate,           \* values of duplicate that callers pass
          Mode,                \* modes that callers open in, of "r" and "w"
          Openable,            \* results of the open hooks of nodes
          CloseAlone,          \* nobody closes a file while another opens one
          OutOfMemory,         \* a table may fail to grow
          MAX_FTAB, MAX_FDS,   \* bounds: memory for the tables
          MAX_REFS             \* bound: nothing is opened while an entry has as many references

ASSUME FileTabAssumption ==
  /\ proc_kernel \in Proc /\ dev_console \in Node
  /\ IsFiniteSet(Proc) /\ IsFiniteSet(Thread)
  /\ NULL \notin Proc \union Node
  /\ owner \in [Thread -> Proc]
  /\ \E t \in Thread : {u \in Thread : owner[u] = proc_kernel} = {t}
  /\ {FTAB_ALLOCSZ, PROC_FDS_ALLOCSZ, STDFDS} \subseteq Nat \ {0}
  /\ {MAX_FTAB, MAX_FDS, MAX_REFS} \subseteq Nat
  /\ {Exclusive, Duplicate, Openable} \subseteq SUBSET BOOLEAN
  /\ Mode \subseteq {"r", "w"} /\ {CloseAlone, OutOfMemory} \subseteq BOOLEAN

VARIABLES
  ftab, ftab_mutex,
  ftab_base,     \* which allocation the table is in: krealloc() may move it
  procs,         \* life of each structure: "free", "new" or "alive"
  fds,           \* descriptor table of each process
  pc, local      \* each thread: position and local variables

vars == <<ftab, ftab_mutex, ftab_base, procs, fds, pc, local>>
table == <<ftab, ftab_mutex, ftab_base>>

NoEntry == [node |-> NULL, read |-> FALSE, write |-> FALSE, refs |-> 0,
            excl |-> NULL, mutex |-> FALSE]
\* A pointer to an entry: which allocation, and the index in it.
NoPointer == <<0, 0>>
\* for: the file that the descriptor was opened for (history).
NoFd == [ftab |-> NoPointer, read |-> FALSE, write |-> FALSE, mutex |-> FALSE,
         for |-> NULL]
NoLocal == [op |-> "none", proc |-> NULL, left |-> 0, node |-> NULL,
            duplicate |-> FALSE, read |-> FALSE, write |-> FALSE, excl |-> FALSE,
            idx |-> 0, mode |-> {}, ptr |-> NoPointer, fd |-> 0]

Steps == {"idle", "ftab_lock", "scan", "entry_lock", "entry", "vfs_open",
          "vfs_reopen", "unlock", "opened", "slot", "fill", "done",
          "fd_lock", "io_lock", "io", "close_check", "close_lock", "close",
          "close_unlock", "copy", "reopen", "reopen_lock"}

\* proc_create() is about to open the console for process p for the first time.
Creating(op, p) ==
  [NoLocal EXCEPT !.op = op, !.proc = p, !.left = STDFDS, !.node = dev_console,
                  !.duplicate = TRUE, !.read = TRUE]

\* proc_init() creates the kernel's process.
Init ==
  /\ ftab = <<>> /\ ftab_mutex = FALSE /\ ftab_base = 0
  /\ procs = [p \in Proc |-> IF p = proc_kernel THEN "alive" ELSE "free"]
  /\ fds = [p \in Proc |-> <<>>]
  /\ pc = [t \in Thread |-> IF owner[t] = proc_kernel THEN "ftab_lock" ELSE "idle"]
  /\ local = [t \in Thread |-> IF owner[t] = proc_kernel
                                  THEN Creating("start", proc_kernel) ELSE NoLocal]

Running(t) == procs[owner[t]] = "alive"
At(t, step) == Running(t) /\ pc[t] = step
Goto(t, step) == pc' = [pc EXCEPT ![t] = step]
Return(t) == Goto(t, "idle") /\ local' = [local EXCEPT ![t] = NoLocal]

\* The entry that ptr points to is in the table, which has not moved since.
Valid(ptr) == ptr[1] = ftab_base /\ ptr[2] \in DOMAIN ftab

Modes(read, write) == {m \in {"r", "w"} : IF m = "r" THEN read ELSE write}

-----------------------------------------------------------------------------
(***************************************************************************)
(* proc_fd_open(), and ftab_open() in it                                   *)
(***************************************************************************)
\* Whether op may begin, if CloseAlone.
MayBegin(op) ==
  CloseAlone => \A t \in Thread :
                  IF op = "close" THEN local[t].op \notin {"open", "start", "fork"}
                                  ELSE local[t].op # "close"

Bounded == \A k \in DOMAIN ftab : ftab[k].refs < MAX_REFS

FdOpen(t) ==
  /\ At(t, "idle")
  /\ Bounded /\ MayBegin("open")
  /\ \E node \in Node, dup \in Duplicate, ex \in Exclusive, mode \in Mode :
       local' = [local EXCEPT ![t] = [NoLocal EXCEPT
                   !.op = "open", !.proc = owner[t], !.node = node,
                   !.duplicate = dup, !.read = (mode = "r"),
                   !.write = (mode = "w"), !.excl = ex]]
  /\ Goto(t, "ftab_lock")
  /\ UNCHANGED <<table, procs, fds>>

\* proc_fd_open() has returned: to the caller, or in proc_create(), which opens
\* the console again whatever the result, or in the end to its caller.
OpenReturned(t) ==
  IF local[t].op = "open"
    THEN Return(t)
    ELSE /\ local' = [local EXCEPT ![t] = [NoLocal EXCEPT
              !.op = local[t].op, !.proc = local[t].proc, !.left = local[t].left - 1,
              !.node = dev_console, !.duplicate = TRUE, !.write = TRUE]]
         /\ Goto(t, IF local[t].left > 1 THEN "ftab_lock" ELSE "done")

OpenLock(t) ==
  /\ At(t, "ftab_lock")
  /\ ~ftab_mutex
  /\ ftab_mutex' = TRUE
  /\ local' = [local EXCEPT ![t].idx = 1]
  /\ Goto(t, "scan")
  /\ UNCHANGED <<ftab, ftab_base, procs, fds>>

Fits(t, i) == ftab[i].node \in {NULL, local[t].node}

ScanNext(t) ==
  /\ At(t, "scan")
  /\ local[t].idx \in DOMAIN ftab
  /\ ~Fits(t, local[t].idx)
  /\ local' = [local EXCEPT ![t].idx = @ + 1]
  /\ UNCHANGED <<table, procs, fds, pc>>

ScanFits(t) ==
  /\ At(t, "scan")
  /\ local[t].idx \in DOMAIN ftab
  /\ Fits(t, local[t].idx)
  /\ Goto(t, "entry_lock")
  /\ UNCHANGED <<table, procs, fds, local>>

FtabFits == Len(ftab) + FTAB_ALLOCSZ <= MAX_FTAB

Grow(t) ==
  /\ At(t, "scan")
  /\ local[t].idx \notin DOMAIN ftab
  /\ FtabFits
  /\ ftab' = ftab \o [i \in 1 .. FTAB_ALLOCSZ |-> NoEntry]
  /\ ftab_base' = ftab_base + 1
  /\ Goto(t, "entry_lock")
  /\ UNCHANGED <<ftab_mutex, procs, fds, local>>

GrowFails(t) ==
  /\ At(t, "scan")
  /\ local[t].idx \notin DOMAIN ftab
  /\ OutOfMemory \/ ~FtabFits
  /\ ftab_mutex' = FALSE
  /\ OpenReturned(t)
  /\ UNCHANGED <<ftab, ftab_base, procs, fds>>

EntryFree(i) == ~ftab[i].mutex

EntryLock(t) ==
  /\ At(t, "entry_lock")
  /\ EntryFree(local[t].idx)
  /\ ftab' = [ftab EXCEPT ![local[t].idx].mutex = TRUE]
  /\ Goto(t, "entry")
  /\ UNCHANGED <<ftab_mutex, ftab_base, procs, fds, local>>

\* The entry is not in use: the file is opened for the first time.
OpenFirst(t) ==
  /\ At(t, "entry")
  /\ ftab[local[t].idx].node = NULL
  /\ Goto(t, "vfs_open")
  /\ UNCHANGED <<table, procs, fds, local>>

OpenFirstDone(t) ==
  /\ At(t, "vfs_open")
  /\ TRUE \in Openable
  /\ ftab' = [ftab EXCEPT ![local[t].idx] =
                [node |-> local[t].node, read |-> local[t].read,
                 write |-> local[t].write, refs |-> 1,
                 excl |-> IF local[t].excl THEN local[t].proc ELSE NULL,
                 mutex |-> @.mutex]]
  /\ Goto(t, "unlock")
  /\ UNCHANGED <<ftab_mutex, ftab_base, procs, fds, local>>

\* The return that leaves both mutexes taken.
OpenFirstFails(t) ==
  /\ At(t, "vfs_open")
  /\ FALSE \in Openable
  /\ OpenReturned(t)
  /\ UNCHANGED <<table, procs, fds>>

\* A slip: the holder is not looked at.
DeniedInUse(t, e) == local[t].excl /\ e.refs # 0

Denied(t, e) ==
  \/ e.excl \notin {NULL, local[t].proc}
  \/ local[t].excl /\ e.refs # 0

\* A slip: the entry stays locked.
UnlockedTable(i) == ftab' = ftab /\ ftab_mutex' = FALSE

Unlocked(i) == ftab' = [ftab EXCEPT ![i].mutex = FALSE] /\ ftab_mutex' = FALSE

OpenDenied(t) ==
  /\ At(t, "entry")
  /\ ftab[local[t].idx].node # NULL
  /\ Denied(t, ftab[local[t].idx])
  /\ Unlocked(local[t].idx)
  /\ OpenReturned(t)
  /\ UNCHANGED <<ftab_base, procs, fds>>

\* A slip: the mode asked for replaces the one the others opened with.
Replaced(t, e) == Modes(local[t].read, local[t].write)

Widened(t, e) == Modes(local[t].read \/ e.read, local[t].write \/ e.write)

\* A slip: the reference is not counted.
Uncounted(e) == e

Counted(e) == [e EXCEPT !.refs = @ + 1]

OpenAgain(t) ==
  /\ At(t, "entry")
  /\ LET i == local[t].idx
         e == ftab[i]
     IN  /\ e.node # NULL /\ ~Denied(t, e)
         /\ IF Widened(t, e) = Modes(e.read, e.write)
              THEN /\ ftab' = [ftab EXCEPT ![i] = Counted(e)]
                   /\ Goto(t, "unlock")
                   /\ UNCHANGED local
              ELSE /\ local' = [local EXCEPT ![t].mode = Widened(t, e)]
                   /\ Goto(t, "vfs_reopen")
                   /\ UNCHANGED ftab
  /\ UNCHANGED <<ftab_mutex, ftab_base, procs, fds>>

OpenAgainDone(t) ==
  /\ At(t, "vfs_reopen")
  /\ TRUE \in Openable
  /\ ftab' = [ftab EXCEPT ![local[t].idx] =
                Counted([@ EXCEPT !.read = "r" \in local[t].mode,
                                  !.write = "w" \in local[t].mode])]
  /\ Goto(t, "unlock")
  /\ UNCHANGED <<ftab_mutex, ftab_base, procs, fds, local>>

OpenAgainFails(t) ==
  /\ At(t, "vfs_reopen")
  /\ FALSE \in Openable
  /\ Unlocked(local[t].idx)
  /\ OpenReturned(t)
  /\ UNCHANGED <<ftab_base, procs, fds>>

OpenUnlock(t) ==
  /\ At(t, "unlock")
  /\ Unlocked(local[t].idx)
  /\ Goto(t, "opened")
  /\ UNCHANGED <<ftab_base, procs, fds, local>>

\* return &ftab[idx], computed after the mutex was given back.
Opened(t) ==
  /\ At(t, "opened")
  /\ local' = [local EXCEPT ![t].ptr = <<ftab_base, local[t].idx>>, ![t].idx = 0,
                            ![t].excl = FALSE, ![t].mode = {}]
  /\ Goto(t, "slot")
  /\ UNCHANGED <<table, procs, fds>>

\* The slot is chosen while mu_fds is held, ...
Usable(t, fd) == \/ fd.ftab = NoPointer
                 \/ ~local[t].duplicate /\ fd.ftab = local[t].ptr

SlotChosen(t) ==
  /\ At(t, "slot")
  /\ \E i \in DOMAIN fds[local[t].proc] :
       /\ Usable(t, fds[local[t].proc][i])
       /\ \A j \in 1 .. i - 1 : ~Usable(t, fds[local[t].proc][j])
       /\ local' = [local EXCEPT ![t].fd = i]
  /\ Goto(t, "fill")
  /\ UNCHANGED <<table, procs, fds>>

NoSlot(t) == \A i \in DOMAIN fds[local[t].proc] : ~Usable(t, fds[local[t].proc][i])

FdsFit(t) == Len(fds[local[t].proc]) + PROC_FDS_ALLOCSZ <= MAX_FDS

SlotGrow(t) ==
  /\ At(t, "slot")
  /\ NoSlot(t)
  /\ FdsFit(t)
  /\ fds' = [fds EXCEPT ![local[t].proc] =
               @ \o [i \in 1 .. PROC_FDS_ALLOCSZ |-> NoFd]]
  /\ local' = [local EXCEPT ![t].fd = Len(fds[local[t].proc]) + 1]
  /\ Goto(t, "fill")
  /\ UNCHANGED <<table, procs>>

SlotGrowFails(t) ==
  /\ At(t, "slot")
  /\ NoSlot(t)
  /\ OutOfMemory \/ ~FdsFit(t)
  /\ OpenReturned(t)
  /\ UNCHANGED <<table, procs, fds>>

\* ... and filled after it was given back.
Fill(t) ==
  /\ At(t, "fill")
  /\ ~fds[local[t].proc][local[t].fd].mutex
  /\ fds' = [fds EXCEPT ![local[t].proc][local[t].fd] =
               [ftab |-> local[t].ptr, read |-> local[t].read,
                write |-> local[t].write, mutex |-> FALSE, for |-> local[t].node]]
  /\ OpenReturned(t)
  /\ UNCHANGED <<table, procs>>

FdOpenStep(t) ==
  \/ FdOpen(t) \/ OpenLock(t) \/ ScanNext(t) \/ ScanFits(t) \/ Grow(t)
  \/ GrowFails(t) \/ EntryLock(t) \/ OpenFirst(t) \/ OpenFirstDone(t)
  \/ OpenFirstFails(t) \/ OpenDenied(t) \/ OpenAgain(t) \/ OpenAgainDone(t)
  \/ OpenAgainFails(t) \/ OpenUnlock(t) \/ Opened(t) \/ SlotChosen(t)
  \/ SlotGrow(t) \/ SlotGrowFails(t) \/ Fill(t)

-----------------------------------------------------------------------------
(***************************************************************************)
(* proc_fd_read(), proc_fd_write() and proc_fd_close()                     *)
(***************************************************************************)
Fd(t) == fds[local[t].proc][local[t].fd]

\* proc_fd_check() finds the descriptor in use.
FdUse(t, op) ==
  /\ At(t, "idle")
  /\ op = "close" => MayBegin(op)
  /\ \E i \in DOMAIN fds[owner[t]] :
       /\ ~fds[owner[t]][i].mutex
       /\ fds[owner[t]][i].ftab # NoPointer
       /\ local' = [local EXCEPT ![t] = [NoLocal EXCEPT
                      !.op = op, !.proc = owner[t], !.fd = i]]
  /\ Goto(t, "fd_lock")
  /\ UNCHANGED <<table, procs, fds>>

SetFd(t, fd) == fds' = [fds EXCEPT ![local[t].proc][local[t].fd] = fd]

FdAllows(t) == \/ local[t].op = "read" /\ Fd(t).read
               \/ local[t].op = "write" /\ Fd(t).write

FdRefused(t) ==
  /\ At(t, "fd_lock")
  /\ ~Fd(t).mutex
  /\ local[t].op # "close" /\ ~FdAllows(t)
  /\ Return(t)
  /\ UNCHANGED <<table, procs, fds>>

FdLock(t) ==
  /\ At(t, "fd_lock")
  /\ ~Fd(t).mutex
  /\ local[t].op = "close" \/ FdAllows(t)
  /\ SetFd(t, [Fd(t) EXCEPT !.mutex = TRUE])
  /\ local' = [local EXCEPT ![t].ptr = Fd(t).ftab]
  /\ Goto(t, IF local[t].op = "close" THEN "close_check" ELSE "io_lock")
  /\ UNCHANGED <<table, procs>>

\* ftab_read() and ftab_write().
IoLock(t) ==
  /\ At(t, "io_lock")
  /\ Valid(local[t].ptr)
  /\ EntryFree(local[t].ptr[2])
  /\ ftab' = [ftab EXCEPT ![local[t].ptr[2]].mutex = TRUE]
  /\ Goto(t, "io")
  /\ UNCHANGED <<ftab_mutex, ftab_base, procs, fds, local>>

IoDone(t) ==
  /\ At(t, "io")
  /\ Valid(local[t].ptr)
  /\ ftab' = [ftab EXCEPT ![local[t].ptr[2]].mutex = FALSE]
  /\ SetFd(t, [Fd(t) EXCEPT !.mutex = FALSE])
  /\ Return(t)
  /\ UNCHANGED <<ftab_mutex, ftab_base, procs>>

\* ftab_close(): the holder is looked at before the mutex is taken.  If it is
\* another process, nothing is closed and the descriptor is cleared.
CloseCheck(t) ==
  /\ At(t, "close_check")
  /\ Valid(local[t].ptr)
  /\ IF ftab[local[t].ptr[2]].excl \in {NULL, local[t].proc}
       THEN Goto(t, "close_lock") /\ UNCHANGED <<fds, local>>
       ELSE SetFd(t, NoFd) /\ Return(t)
  /\ UNCHANGED <<table, procs>>

CloseLock(t) ==
  /\ At(t, "close_lock")
  /\ Valid(local[t].ptr)
  /\ EntryFree(local[t].ptr[2])
  /\ ftab' = [ftab EXCEPT ![local[t].ptr[2]].mutex = TRUE]
  /\ Goto(t, "close")
  /\ UNCHANGED <<ftab_mutex, ftab_base, procs, fds, local>>

\* A slip: the entry of a file still in use is cleared.
ClearedAlways(e) == NoEntry

\* The last reference clears the whole entry, the mutex with it.
Dropped(e) == IF e.refs = 1 THEN NoEntry ELSE [e EXCEPT !.refs = @ - 1]

Close(t) ==
  /\ At(t, "close")
  /\ Valid(local[t].ptr)
  /\ ftab' = [ftab EXCEPT ![local[t].ptr[2]] = Dropped(@)]
  /\ Goto(t, "close_unlock")
  /\ UNCHANGED <<ftab_mutex, ftab_base, procs, fds, local>>

FdCleared(fd) == NoFd

CloseUnlock(t) ==
  /\ At(t, "close_unlock")
  /\ Valid(local[t].ptr)
  /\ ftab' = [ftab EXCEPT ![local[t].ptr[2]].mutex = FALSE]
  /\ SetFd(t, FdCleared(Fd(t)))
  /\ Return(t)
  /\ UNCHANGED <<ftab_mutex, ftab_base, procs>>

FdIo(t) ==
  \/ \E op \in {"read", "write"} : FdUse(t, op)
  \/ FdRefused(t) \/ FdLock(t) \/ IoLock(t) \/ IoDone(t)

FdClose(t) ==
  \/ FdUse(t, "close")
  \/ FdLock(t) \/ CloseCheck(t) \/ CloseLock(t) \/ Close(t)
  \/ CloseUnlock(t)

-----------------------------------------------------------------------------
(***************************************************************************)
(* Processes                                                               *)
(***************************************************************************)
\* proc_create(), by a program that forks or by whoever starts a program.
ProcCreate(t, op) ==
  /\ At(t, "idle")
  /\ Bounded /\ MayBegin(op)
  /\ \E p \in Proc :
       /\ procs[p] = "free"
       /\ procs' = [procs EXCEPT ![p] = "new"]
       /\ local' = [local EXCEPT ![t] = Creating(op, p)]
  /\ Goto(t, "ftab_lock")
  /\ UNCHANGED <<table, fds>>

\* A task is added to the process, and runs.
ProcStart(t) ==
  /\ At(t, "done")
  /\ local[t].op = "start"
  /\ procs' = [procs EXCEPT ![local[t].proc] = "alive"]
  /\ Return(t)
  /\ UNCHANGED <<table, fds>>

\* proc_fork() copies the descriptors of the parent over those just opened, ...
ForkCopy(t) ==
  /\ At(t, "done")
  /\ local[t].op = "fork"
  /\ fds' = [fds EXCEPT ![local[t].proc] = fds[owner[t]]]
  /\ local' = [local EXCEPT ![t].fd = STDFDS + 1]
  /\ Goto(t, "reopen")
  /\ UNCHANGED <<table, procs>>

\* ... and goes through all but the first three: not in use, ...
ReopenNone(t) ==
  /\ At(t, "reopen")
  /\ local[t].fd \in DOMAIN fds[local[t].proc]
  /\ Fd(t).ftab = NoPointer
  /\ local' = [local EXCEPT ![t].fd = @ + 1]
  /\ UNCHANGED <<table, procs, fds, pc>>

\* ... held exclusively, ...
ReopenExclusive(t) ==
  /\ At(t, "reopen")
  /\ local[t].fd \in DOMAIN fds[local[t].proc]
  /\ Valid(Fd(t).ftab)
  /\ ftab[Fd(t).ftab[2]].excl # NULL
  /\ SetFd(t, NoFd)
  /\ local' = [local EXCEPT ![t].fd = @ + 1]
  /\ UNCHANGED <<table, procs, pc>>

\* ... or one reference more.
ReopenShared(t) ==
  /\ At(t, "reopen")
  /\ local[t].fd \in DOMAIN fds[local[t].proc]
  /\ Valid(Fd(t).ftab)
  /\ ftab[Fd(t).ftab[2]].excl = NULL
  /\ Goto(t, "reopen_lock")
  /\ UNCHANGED <<table, procs, fds, local>>

ReopenCount(t) ==
  /\ At(t, "reopen_lock")
  /\ Valid(Fd(t).ftab)
  /\ EntryFree(Fd(t).ftab[2])
  /\ ftab' = [ftab EXCEPT ![Fd(t).ftab[2]] = Counted(@)]
  /\ local' = [local EXCEPT ![t].fd = @ + 1]
  /\ Goto(t, "reopen")
  /\ UNCHANGED <<ftab_mutex, ftab_base, procs, fds>>

ForkEnd(t) ==
  /\ At(t, "reopen")
  /\ local[t].fd \notin DOMAIN fds[local[t].proc]
  /\ procs' = [procs EXCEPT ![local[t].proc] = "alive"]
  /\ Return(t)
  /\ UNCHANGED <<table, fds>>

\* No memory for the descriptors or the task.  The child, which proc_delete()
\* does not delete since it has no task, stays as it is.
ForkFails(t) ==
  /\ \/ At(t, "done") /\ local[t].op = "fork"
     \/ At(t, "reopen") /\ local[t].fd \notin DOMAIN fds[local[t].proc]
  /\ Return(t)
  /\ UNCHANGED <<table, procs, fds>>

\* The process ends, with all its threads, and its structure is freed; nothing
\* is closed.
Exit(t) ==
  /\ At(t, "idle")
  /\ owner[t] # proc_kernel
  /\ procs' = [procs EXCEPT ![owner[t]] = "free"]
  /\ fds' = [fds EXCEPT ![owner[t]] = <<>>]
  /\ pc' = [u \in Thread |-> IF owner[u] = owner[t] THEN "idle" ELSE pc[u]]
  /\ local' = [u \in Thread |-> IF owner[u] = owner[t] THEN NoLocal ELSE local[u]]
  /\ UNCHANGED table

Start(t) == ProcCreate(t, "start") \/ ProcStart(t)

Fork(t) ==
  \/ ProcCreate(t, "fork") \/ ForkCopy(t) \/ ReopenNone(t) \/ ReopenExclusive(t)
  \/ ReopenShared(t) \/ ReopenCount(t) \/ ForkEnd(t) \/ ForkFails(t)

-----------------------------------------------------------------------------
\* Programs open, use and close files, are started and exit.
FileNext == \E t \in Thread :
              FdOpenStep(t) \/ FdIo(t) \/ FdClose(t) \/ Start(t) \/ Exit(t)
FileSpec == Init /\ [][FileNext]_vars

\* Programs fork and close nothing: there is no system call that closes a file.
ForkNext == \E t \in Thread : FdOpenStep(t) \/ FdIo(t) \/ Start(t) \/ Fork(t) \/ Exit(t)
ForkSpec == Init /\ [][ForkNext]_vars

(***************************************************************************)
(* Properties                                                              *)
(***************************************************************************)
Pointer == {NoPointer} \union ((1 .. MAX_FTAB) \X (1 .. MAX_FTAB))

Entry == [node : Node \union {NULL}, read : BOOLEAN, write : BOOLEAN,
          refs : 0 .. MAX_REFS + Cardinality(Thread) * (STDFDS + MAX_FDS), excl : Proc \union {NULL}, mutex : BOOLEAN]

TypeOK ==
  /\ ftab \in Seq(Entry) /\ Len(ftab) <= MAX_FTAB
  /\ ftab_mutex \in BOOLEAN /\ ftab_base \in 0 .. MAX_FTAB
  /\ procs \in [Proc -> {"free", "new", "alive"}]
  /\ \A p \in Proc :
       /\ Len(fds[p]) <= MAX_FDS
       /\ fds[p] \in Seq([ftab : Pointer, read : BOOLEAN, write : BOOLEAN,
                          mutex : BOOLEAN, for : Node \union {NULL}])
  /\ pc \in [Thread -> Steps]
  /\ \A t \in Thread :
       /\ local[t].op \in {"none", "open", "read", "write", "close", "start", "fork"}
       /\ local[t].proc \in Proc \union {NULL} /\ local[t].node \in Node \union {NULL}
       /\ local[t].left \in 0 .. STDFDS /\ local[t].mode \subseteq {"r", "w"}
       /\ {local[t].duplicate, local[t].read, local[t].write, local[t].excl} \subseteq BOOLEAN
       /\ local[t].idx \in 0 .. MAX_FTAB + 1 /\ local[t].fd \in 0 .. MAX_FDS + 1
       /\ local[t].ptr \in Pointer

\* The descriptors that refer to entry k and are counted in it: not the one whose
\* close has already dropped its reference, and not those that a fork has copied
\* and not yet counted.
Descriptors(k) ==
  {d \in Proc \X (1 .. MAX_FDS) :
     /\ d[2] \in DOMAIN fds[d[1]]
     /\ fds[d[1]][d[2]].ftab = <<ftab_base, k>>
     /\ \A t \in Thread : local[t].proc = d[1] =>
          /\ ~(pc[t] = "close_unlock" /\ local[t].fd = d[2])
          /\ ~(pc[t] \in {"reopen", "reopen_lock"} /\ local[t].fd <= d[2])}

\* The threads that have opened entry k and have not yet filled a descriptor.
Opening(k) ==
  {t \in Thread : \/ pc[t] \in {"unlock", "opened"} /\ local[t].idx = k
                  \/ pc[t] \in {"slot", "fill"} /\ local[t].ptr = <<ftab_base, k>>}

\* ftab.h:22, "number of processes opening the file": the count of an entry never
\* falls behind those who use it, so no file is closed, and no entry given away,
\* under a descriptor that refers to it.
RefsCover ==
  \A k \in DOMAIN ftab :
    /\ ftab[k].refs >= Cardinality(Descriptors(k)) + Cardinality(Opening(k))
    /\ ftab[k].node = NULL <=> ftab[k].refs = 0

\* A descriptor refers to an entry that is open, for the file it was opened for
\* and in the modes it was opened in.
FilesStayOpen ==
  \A k \in DOMAIN ftab : \A d \in Descriptors(k) :
    LET fd == fds[d[1]][d[2]]
    IN  /\ ftab[k].node = fd.for
        /\ Modes(fd.read, fd.write) \subseteq Modes(ftab[k].read, ftab[k].write)
\* What is open stays open for as many as use it, through forks that copy the
\* descriptors and exits that close none (proc_fork(), exec/process.c:302).
FilesKept == RefsCover /\ FilesStayOpen

\* An entry that is held exclusively is referred to by its holder alone.
ExclKept ==
  \A k \in DOMAIN ftab :
    ftab[k].excl # NULL => \A d \in Descriptors(k) : d[1] = ftab[k].excl

\* A mutex that is taken is held by a thread that is still inside and gives it
\* back: no path out of ftab_open() or ftab_close() keeps one, as long as open
\* hooks succeed.
MutexesReleased ==
  /\ ftab_mutex => \E t \in Thread : pc[t] \in {"scan", "entry_lock", "entry",
                                     "vfs_open", "vfs_reopen", "unlock"}
  /\ \A k \in DOMAIN ftab : ftab[k].mutex =>
       \E t \in Thread :
         \/ pc[t] \in {"entry", "vfs_open", "vfs_reopen", "unlock"} /\ local[t].idx = k
         \/ pc[t] \in {"io", "close", "close_unlock"} /\ local[t].ptr[2] = k

\* Waiting for a mutex that is taken.
Waiting(t) ==
  \/ pc[t] = "ftab_lock" /\ ftab_mutex
  \/ pc[t] = "entry_lock" /\ ~EntryFree(local[t].idx)
  \/ pc[t] \in {"fd_lock", "fill"} /\ Fd(t).mutex
  \/ pc[t] \in {"io_lock", "close_lock"} /\ ~EntryFree(local[t].ptr[2])
  \/ pc[t] = "reopen_lock" /\ ~EntryFree(Fd(t).ftab[2])

\* Those who are inside never all wait for each other's mutexes.
NoDeadlock ==
  (\E t \in Thread : pc[t] # "idle") => \E t \in Thread : pc[t] # "idle" /\ ~Waiting(t)
=============================================================================
