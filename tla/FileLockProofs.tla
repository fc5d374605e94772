---------------------------- MODULE FileLockProofs ----------------------------
(***************************************************************************)
(* The mutexes of open files, for any number of processes of one thread    *)
(* each, where open hooks succeed: a mutex that is taken is held by a      *)
(* thread that gives it back, and nobody waits for ever.  And programs     *)
(* that fork: what is open stays open for as many as use it.               *)
(***************************************************************************)
EXTENDS FileTabProofs

\* The hooks return 0 (ftab_open() keeps its mutexes where one does not), and no
\* thread ends while another of its process is inside.
HooksSucceed == Openable \subseteq {TRUE}
OneThread == \A t, u \in Thread : owner[t] = owner[u] => t = u

HoldsEntry(t, k) ==
  \/ pc[t] \in {"entry", "vfs_open", "vfs_reopen", "unlock"} /\ local[t].idx = k
  \/ pc[t] \in {"io", "close", "close_unlock"} /\ local[t].ptr[2] = k
\* Who holds the mutexes of the table and of its entries, ...
InvMutexes ==
  /\ ftab_mutex = TRUE => \E t \in Thread : pc[t] \in InTable
  /\ \A k \in 1 .. Len(ftab) : ftab[k].mutex = TRUE => \E t \in Thread : HoldsEntry(t, k)
\* ... who those of the descriptors, ...
InvFds ==
  \A p \in Proc : \A i \in 1 .. Len(fds[p]) : fds[p][i].mutex = TRUE =>
    \E u \in Thread : pc[u] \in FdSteps /\ owner[u] = p /\ local[u].fd = i
\* ... and that pointers are to places in the table.
PointsIn(ptr) == ptr = NoPointer \/ ptr[2] \in 1 .. Len(ftab)
InvPlaces ==
  /\ \A p \in Proc : \A i \in 1 .. Len(fds[p]) : PointsIn(fds[p][i].ftab)
  /\ \A t \in Thread : pc[t] \in FdSteps \union {"fd_lock"} =>
       fds[owner[t]][local[t].fd].ftab # NoPointer
  /\ \A t \in Thread : pc[t] \in {"slot", "fill"} => local[t].ptr[2] \in 1 .. Len(ftab)
LockInv == InvMutexes /\ InvFds /\ InvPlaces

-----------------------------------------------------------------------------
(***************************************************************************)
(* Mutexes of the table and of its entries (fs/ftab.c).                    *)
(***************************************************************************)
\* A mutex is taken by the thread that then holds it, and given back by the one
\* that held it (mutex_acquire() and mutex_release() in fs/ftab.c).
LEMMA MutexStep ==
  ASSUME InvMutexes, NEW t \in Thread, Mine(t),
         ftab_mutex' = TRUE => \/ pc'[t] \in InTable
                               \/ ftab_mutex = TRUE /\ pc[t] \notin InTable,
         \A k \in 1 .. Len(ftab') : ftab'[k].mutex = TRUE =>
           \/ HoldsEntry(t, k)'
           \/ k \in 1 .. Len(ftab) /\ ftab[k].mutex = TRUE /\ ~HoldsEntry(t, k)
  PROVE  InvMutexes'
<1>1. ftab_mutex' = TRUE => \E u \in Thread : pc'[u] \in InTable
  BY DEF InvMutexes, Mine
<1>2. ASSUME NEW k \in 1 .. Len(ftab'), ftab'[k].mutex = TRUE
      PROVE  \E u \in Thread : HoldsEntry(u, k)'
  <2>1. CASE HoldsEntry(t, k)'
    BY <2>1
  <2>2. CASE k \in 1 .. Len(ftab) /\ ftab[k].mutex = TRUE /\ ~HoldsEntry(t, k)
    <3>1. PICK u \in Thread : HoldsEntry(u, k)
      BY <2>2 DEF InvMutexes
    <3>2. HoldsEntry(u, k)'
      BY <2>2, <3>1 DEF HoldsEntry, Mine
    <3> QED
      BY <3>2
  <2> QED
    BY <1>2, <2>1, <2>2
<1> QED
  BY <1>1, <1>2 DEF InvMutexes

\* Steps outside of the table (exec/process.c).
Outside == {"idle", "ftab_lock", "opened", "slot", "fill", "fd_lock", "close_check", "done"}
LEMMA OutsideStep ==
  ASSUME InvMutexes, NEW t \in Thread, Mine(t), UNCHANGED <<ftab, ftab_mutex>>, pc[t] \in Outside
  PROVE  InvMutexes'
<1>1. pc[t] \notin InTable /\ \A k : ~HoldsEntry(t, k)
  BY DEF Outside, InTable, HoldsEntry
<1> QED
  BY <1>1, MutexStep

\* A step that takes no mutex of an entry and gives none back (fs/ftab.c).
LEMMA InsideStep ==
  ASSUME InvMutexes, NEW t \in Thread, Mine(t), Len(ftab') = Len(ftab),
         \A k \in 1 .. Len(ftab) : ftab'[k].mutex = TRUE => ftab[k].mutex = TRUE,
         ftab_mutex' = TRUE => \/ pc'[t] \in InTable
                               \/ ftab_mutex = TRUE /\ pc[t] \notin InTable,
         \A k : HoldsEntry(t, k) => HoldsEntry(t, k)'
  PROVE  InvMutexes'
BY MutexStep

\* The mutex of one entry (fs/ftab.c).
LEMMA OneMutex ==
  ASSUME FileType, NEW i \in 1 .. Len(ftab), NEW b \in BOOLEAN,
         ftab' = [ftab EXCEPT ![i].mutex = b]
  PROVE  /\ Len(ftab') = Len(ftab) /\ ftab'[i].mutex = b
         /\ \A k \in 1 .. Len(ftab) : k # i => ftab'[k] = ftab[k]
<1> DEFINE e == [ftab[i] EXCEPT !.mutex = b]
<1>1. ftab[i] \in EntryType
  BY EntryFields
<1>2. e \in EntryType /\ e.mutex = b
  BY <1>1 DEF EntryType
<1>3. ftab' = [ftab EXCEPT ![i] = e]
  OBVIOUS
<1> HIDE DEF e
<1> QED
  BY <1>2, <1>3, EntrySet

\* proc_fd_open() takes both mutexes and gives both back, where the hook succeeds
\* (ftab_open() in fs/ftab.c).
LEMMA OpenMutexes ==
  ASSUME FileInv, InvMutexes, HooksSucceed, NEW t \in Thread, FdOpenStep(t), Mine(t)
  PROVE  InvMutexes'
<1>1. FileType /\ ScanAt(t) /\ pc \in [Thread -> FileSteps] /\ local \in [Thread -> LocalType]
      /\ ftab \in Seq(EntryType) /\ Len(ftab) \in Nat /\ local[t] \in LocalType
  BY DEF FileInv, InvThreads, InvScan, FileType
<1> DEFINE i == local[t].idx
<1>2. CASE FdOpen(t) \/ Opened(t) \/ SlotChosen(t) \/ SlotGrow(t) \/ SlotGrowFails(t) \/ Fill(t)
  <2>1. UNCHANGED <<ftab, ftab_mutex>> /\ pc[t] \in Outside
    BY <1>2 DEF FdOpen, Opened, SlotChosen, SlotGrow, SlotGrowFails, Fill, At, Outside, table
  <2> QED
    BY <2>1, OutsideStep
<1>3. CASE \/ OpenLock(t) \/ ScanNext(t) \/ ScanFits(t) \/ OpenFirst(t)
           \/ (OpenAgain(t) /\ ftab' = ftab)
  <2>1. ftab' = ftab /\ pc'[t] \in InTable
    BY <1>1, <1>3 DEF OpenLock, ScanNext, ScanFits, OpenFirst, OpenAgain, At, Goto, table, InTable
  <2>2. \A k : HoldsEntry(t, k) => HoldsEntry(t, k)'
    <3>1. CASE OpenLock(t) \/ ScanNext(t) \/ ScanFits(t)
      BY <3>1 DEF OpenLock, ScanNext, ScanFits, At, HoldsEntry
    <3>2. CASE OpenFirst(t)
      BY <1>1, <3>2 DEF OpenFirst, At, Goto, HoldsEntry
    <3>3. CASE OpenAgain(t)
      <4>1. pc[t] = "entry" /\ pc'[t] \in {"unlock", "vfs_reopen"}
        BY <1>1, <3>3 DEF OpenAgain, At, Goto
      <4>2. \/ local' = local
            \/ local' = [local EXCEPT ![t] = [local[t] EXCEPT !.mode = Widened(t, ftab[i])]]
        BY <3>3 DEF OpenAgain
      <4>3. local'[t].idx = i
        BY <1>1, <4>2 DEF LocalType
      <4> QED
        BY <4>1, <4>3 DEF HoldsEntry
    <3> QED
      BY <1>3, <3>1, <3>2, <3>3
  <2> QED
    BY <2>1, <2>2, InsideStep
<1>4. CASE GrowFails(t)
  <2>1. ftab' = ftab /\ ftab_mutex' = FALSE /\ \A k : ~HoldsEntry(t, k)
    BY <1>4 DEF GrowFails, At, HoldsEntry
  <2> QED
    BY <2>1, InsideStep
<1>5. CASE Grow(t)
  <2> DEFINE more == [j \in 1 .. FTAB_ALLOCSZ |-> NoEntry]
  <2>1. ftab' = ftab \o more /\ pc'[t] \in InTable /\ \A k : ~HoldsEntry(t, k)
    BY <1>1, <1>5 DEF Grow, At, Goto, HoldsEntry, InTable
  <2>2. FTAB_ALLOCSZ \in Nat \ {0} /\ NoEntry \in EntryType /\ NoEntry.mutex = FALSE
    BY Constants DEF NoEntry, EntryType
  <2>3. more \in Seq(EntryType) /\ Len(more) = FTAB_ALLOCSZ
        /\ \A j \in 1 .. FTAB_ALLOCSZ : more[j] = NoEntry
    BY <2>2
  <2> HIDE DEF more
  <2>4. Len(ftab') = Len(ftab) + FTAB_ALLOCSZ
    <3>1. \A a, b \in Seq(EntryType) : Len(a \o b) = Len(a) + Len(b)
      OBVIOUS
    <3> QED
      BY <1>1, <2>1, <2>3, <3>1, Zenon
  <2>5. ASSUME NEW k \in 1 .. Len(ftab'), ftab'[k].mutex = TRUE
        PROVE  k \in 1 .. Len(ftab) /\ ftab[k].mutex = TRUE
    <3>1. CASE k \in 1 .. Len(ftab)
      BY <1>1, <2>1, <2>3, <2>5, <3>1
    <3>2. CASE k \notin 1 .. Len(ftab)
      <4>1. k - Len(ftab) \in 1 .. FTAB_ALLOCSZ
        BY <1>1, <2>2, <2>4, <3>2
      <4>2. ftab'[k] = more[k - Len(ftab)]
        BY <1>1, <2>1, <2>3, <2>4, <3>2
      <4> QED
        BY <2>2, <2>3, <2>5, <4>1, <4>2
    <3> QED
      BY <3>1, <3>2
  <2> QED
    BY <2>1, <2>5, MutexStep
<1>6. CASE EntryLock(t)
  <2>1. i \in 1 .. Len(ftab) /\ pc[t] = "entry_lock" /\ pc'[t] = "entry" /\ local' = local
        /\ ftab' = [ftab EXCEPT ![i].mutex = TRUE]
    BY <1>1, <1>6 DEF EntryLock, At, Goto, ScanAt, InTable
  <2>2. /\ Len(ftab') = Len(ftab)
        /\ \A k \in 1 .. Len(ftab) : k # i => ftab'[k] = ftab[k]
    BY <1>1, <2>1, OneMutex
  <2>3. HoldsEntry(t, i)' /\ pc'[t] \in InTable /\ \A k : ~HoldsEntry(t, k)
    BY <2>1 DEF HoldsEntry, InTable
  <2>4. \A k : k = i => HoldsEntry(t, k)'
    BY <2>1 DEF HoldsEntry
  <2> QED
    BY <2>2, <2>3, <2>4, MutexStep
<1>7. CASE OpenFirstDone(t) \/ (OpenAgain(t) /\ ftab' # ftab) \/ OpenAgainDone(t)
  <2>1. i \in 1 .. Len(ftab) /\ pc[t] \in {"entry", "vfs_open", "vfs_reopen"}
    BY <1>1, <1>7 DEF OpenFirstDone, OpenAgain, OpenAgainDone, At, ScanAt, InTable
  <2>2. pc'[t] = "unlock" /\ local' = local
    BY <1>1, <1>7 DEF OpenFirstDone, OpenAgain, OpenAgainDone, Goto
  <2>3. ftab[i] \in EntryType /\ ftab[i].refs \in Nat
    BY <1>1, <2>1, EntryFields
  <2>4. Len(ftab') = Len(ftab) /\ \A k \in 1 .. Len(ftab) : ftab'[k].mutex = ftab[k].mutex
    <3>1. CASE OpenFirstDone(t)
      BY <1>1, <2>1, <3>1 DEF OpenFirstDone
    <3>2. CASE OpenAgain(t) /\ ftab' # ftab
      <4>1. ftab' = [ftab EXCEPT ![i] = [ftab[i] EXCEPT !.refs = @ + 1]]
        BY <3>2 DEF OpenAgain, Counted
      <4> QED
        BY <1>1, <2>1, <2>3, <4>1 DEF EntryType
    <3>3. CASE OpenAgainDone(t)
      <4> DEFINE r == "r" \in local[t].mode
                 w == "w" \in local[t].mode
                 m == [ftab[i] EXCEPT !.read = r, !.write = w]
                 e == [m EXCEPT !.refs = @ + 1]
      <4>1. ftab' = [ftab EXCEPT ![i] = e] /\ r \in BOOLEAN /\ w \in BOOLEAN
        BY <3>3 DEF OpenAgainDone, Counted
      <4> HIDE DEF r, w
      <4>2. m.mutex = ftab[i].mutex /\ m \in EntryType /\ m.refs = ftab[i].refs
        BY <2>3, <4>1 DEF EntryType
      <4> HIDE DEF m
      <4>3. e.mutex = ftab[i].mutex /\ e \in EntryType
        BY <2>3, <4>2 DEF EntryType
      <4> HIDE DEF e
      <4>4. /\ Len(ftab') = Len(ftab) /\ ftab'[i] = e
            /\ \A k \in 1 .. Len(ftab) : k # i => ftab'[k] = ftab[k]
        BY <1>1, <2>1, <4>1, <4>3, EntrySet
      <4> QED
        BY <4>3, <4>4
    <3> QED
      BY <1>7, <3>1, <3>2, <3>3
  <2>5. pc'[t] \in InTable /\ \A k : HoldsEntry(t, k) => HoldsEntry(t, k)'
    BY <2>1, <2>2 DEF HoldsEntry, InTable
  <2> QED
    BY <2>4, <2>5, InsideStep
<1>8. CASE OpenDenied(t) \/ OpenUnlock(t)
  <2>1. i \in 1 .. Len(ftab) /\ pc[t] \in {"entry", "unlock"} /\ ftab_mutex' = FALSE
        /\ ftab' = [ftab EXCEPT ![i].mutex = FALSE]
    BY <1>1, <1>8 DEF OpenDenied, OpenUnlock, Unlocked, At, ScanAt, InTable
  <2>2. /\ Len(ftab') = Len(ftab) /\ ftab'[i].mutex = FALSE
        /\ \A k \in 1 .. Len(ftab) : k # i => ftab'[k] = ftab[k]
    BY <1>1, <2>1, OneMutex
  <2>3. \A k : HoldsEntry(t, k) => k = i
    BY <2>1 DEF HoldsEntry
  <2> QED
    BY <2>1, <2>2, <2>3, MutexStep
<1>9. ~OpenFirstFails(t) /\ ~OpenAgainFails(t)
  BY DEF OpenFirstFails, OpenAgainFails, HooksSucceed
<1> QED
  BY <1>2, <1>3, <1>4, <1>5, <1>6, <1>7, <1>8, <1>9 DEF FdOpenStep

\* A read, a write and a close give the mutex of the entry back (ftab_read(),
\* ftab_write() and ftab_close() in fs/ftab.c).
LEMMA UseMutexes ==
  ASSUME FileInv, InvMutexes, NEW t \in Thread, FdIo(t) \/ FdClose(t), Mine(t)
  PROVE  InvMutexes'
<1>1. FileType /\ pc \in [Thread -> FileSteps] /\ ftab \in Seq(EntryType) /\ Len(ftab) \in Nat
  BY DEF FileInv, FileType
<1> DEFINE i == local[t].ptr[2]
<1>2. ASSUME \/ \E op \in {"read", "write", "close"} : FdUse(t, op)
             \/ FdRefused(t) \/ FdLock(t) \/ CloseCheck(t)
      PROVE  InvMutexes'
  <2>1. UNCHANGED <<ftab, ftab_mutex>> /\ pc[t] \in Outside
    BY <1>2 DEF FdUse, FdRefused, FdLock, CloseCheck, At, Outside, table
  <2> QED
    BY <2>1, OutsideStep
<1>3. CASE IoLock(t) \/ CloseLock(t)
  <2>1. i \in 1 .. Len(ftab) /\ pc[t] \in {"io_lock", "close_lock"} /\ pc'[t] \in {"io", "close"}
        /\ local' = local /\ ftab_mutex' = ftab_mutex /\ ftab' = [ftab EXCEPT ![i].mutex = TRUE]
    BY <1>1, <1>3 DEF IoLock, CloseLock, At, Goto, Valid
  <2>2. /\ Len(ftab') = Len(ftab)
        /\ \A k \in 1 .. Len(ftab) : k # i => ftab'[k] = ftab[k]
    BY <1>1, <2>1, OneMutex
  <2>3. \A k : k = i => HoldsEntry(t, k)'
    BY <2>1 DEF HoldsEntry
  <2>4. pc[t] \notin InTable /\ \A k : ~HoldsEntry(t, k)
    BY <2>1 DEF HoldsEntry, InTable
  <2> QED
    BY <2>1, <2>2, <2>3, <2>4, MutexStep
<1>4. CASE IoDone(t) \/ CloseUnlock(t)
  <2>1. i \in 1 .. Len(ftab) /\ pc[t] \in {"io", "close_unlock"} /\ ftab_mutex' = ftab_mutex
        /\ ftab' = [ftab EXCEPT ![i].mutex = FALSE]
    BY <1>1, <1>4 DEF IoDone, CloseUnlock, At, Valid
  <2>2. /\ Len(ftab') = Len(ftab) /\ ftab'[i].mutex = FALSE
        /\ \A k \in 1 .. Len(ftab) : k # i => ftab'[k] = ftab[k]
    BY <1>1, <2>1, OneMutex
  <2>3. pc[t] \notin InTable /\ \A k : HoldsEntry(t, k) => k = i
    BY <2>1 DEF HoldsEntry, InTable
  <2> QED
    BY <2>1, <2>2, <2>3, MutexStep
<1>5. CASE Close(t)
  <2>1. i \in 1 .. Len(ftab) /\ pc[t] = "close" /\ pc'[t] = "close_unlock" /\ local' = local
        /\ ftab_mutex' = ftab_mutex /\ ftab' = [ftab EXCEPT ![i] = Dropped(ftab[i])]
    BY <1>1, <1>5 DEF Close, At, Goto, Valid
  <2>2. ftab[i] \in EntryType
    BY <1>1, <2>1
  <2>3. Dropped(ftab[i]).mutex = TRUE => ftab[i].mutex = TRUE
    BY <2>2 DEF Dropped, NoEntry, EntryType
  <2>4. Len(ftab') = Len(ftab) /\ \A k \in 1 .. Len(ftab) : ftab'[k].mutex = TRUE => ftab[k].mutex = TRUE
    BY <1>1, <2>1, <2>3
  <2>5. pc[t] \notin InTable /\ \A k : HoldsEntry(t, k) => HoldsEntry(t, k)'
    BY <2>1 DEF HoldsEntry, InTable
  <2> QED
    BY <2>1, <2>4, <2>5, InsideStep
<1>6. FdIo(t) \/ FdClose(t) =>
        \/ \E op \in {"read", "write", "close"} : FdUse(t, op)
        \/ FdRefused(t) \/ FdLock(t) \/ IoLock(t) \/ IoDone(t)
        \/ CloseCheck(t) \/ CloseLock(t) \/ Close(t) \/ CloseUnlock(t)
  BY Zenon DEF FdIo, FdClose
<1> QED
  BY <1>2, <1>3, <1>4, <1>5, <1>6
-----------------------------------------------------------------------------
(***************************************************************************)
(* Mutexes of descriptors (exec/process.c).                                *)
(***************************************************************************)
\* The table keeps its places (fs/ftab.c).
LEMMA TableKept ==
  ASSUME FileInv, FileInv', NEW t \in Thread, FdOpenStep(t) \/ FdIo(t) \/ FdClose(t)
  PROVE  Len(ftab) \in Nat /\ Len(ftab') \in Nat /\ Len(ftab) <= Len(ftab')
<1>1. FileType /\ FileType' /\ ftab \in Seq(EntryType) /\ ftab' \in Seq(EntryType)
      /\ Len(ftab) \in Nat /\ Len(ftab') \in Nat
  BY DEF FileInv, FileType
<1>2. CASE ftab' = ftab
  BY <1>1, <1>2
<1>3. CASE \E i, e : ftab' = [ftab EXCEPT ![i] = e]
  <2>1. DOMAIN ftab' = DOMAIN ftab
    BY <1>3
  <2>2. 1 .. Len(ftab') = 1 .. Len(ftab)
    BY <1>1, <2>1
  <2> QED
    BY <1>1, <2>2
<1>4. CASE Grow(t)
  <2> DEFINE more == [j \in 1 .. FTAB_ALLOCSZ |-> NoEntry]
  <2>1. ftab' = ftab \o more
    BY <1>4 DEF Grow
  <2>2. FTAB_ALLOCSZ \in Nat \ {0} /\ NoEntry \in EntryType
    BY Constants DEF NoEntry, EntryType
  <2>3. more \in Seq(EntryType) /\ Len(more) = FTAB_ALLOCSZ
    BY <2>2
  <2> HIDE DEF more
  <2>4. Len(ftab') = Len(ftab) + FTAB_ALLOCSZ
    <3>1. \A a, b \in Seq(EntryType) : Len(a \o b) = Len(a) + Len(b)
      OBVIOUS
    <3> QED
      BY <1>1, <2>1, <2>3, <3>1, Zenon
  <2> QED
    BY <1>1, <2>2, <2>4
<1>5. FdOpenStep(t) => ftab' = ftab \/ Grow(t) \/ \E i, e : ftab' = [ftab EXCEPT ![i] = e]
  <2>1. OpenAgain(t) => ftab' = ftab \/ \E i, e : ftab' = [ftab EXCEPT ![i] = e]
    BY DEF OpenAgain
  <2>2. OpenDenied(t) \/ OpenAgainFails(t) \/ OpenUnlock(t) \/ EntryLock(t) \/ OpenFirstDone(t)
          \/ OpenAgainDone(t) => \E i, e : ftab' = [ftab EXCEPT ![i] = e]
    BY DEF OpenDenied, OpenAgainFails, OpenUnlock, EntryLock, OpenFirstDone, OpenAgainDone, Unlocked
  <2>3. \/ FdOpen(t) \/ OpenLock(t) \/ ScanNext(t) \/ ScanFits(t) \/ GrowFails(t) \/ OpenFirst(t)
        \/ OpenFirstFails(t) \/ Opened(t) \/ SlotChosen(t) \/ SlotGrow(t) \/ SlotGrowFails(t)
        \/ Fill(t)
        => ftab' = ftab
    BY DEF FdOpen, OpenLock, ScanNext, ScanFits, GrowFails, OpenFirst, OpenFirstFails, Opened,
           SlotChosen, SlotGrow, SlotGrowFails, Fill, table
  <2> QED
    BY <2>1, <2>2, <2>3, Zenon DEF FdOpenStep
<1>6. FdIo(t) \/ FdClose(t) => ftab' = ftab \/ \E i, e : ftab' = [ftab EXCEPT ![i] = e]
  BY DEF FdIo, FdClose, FdUse, FdRefused, FdLock, IoLock, IoDone, CloseCheck, CloseLock, Close,
         CloseUnlock, table
<1> QED
  BY <1>2, <1>3, <1>4, <1>5, <1>6

\* The descriptors stay as they are (exec/process.c).
LEMMA SameFds ==
  ASSUME InvFds, InvPlaces, NEW t \in Thread, Mine(t), fds' = fds,
         Len(ftab) \in Nat, Len(ftab') \in Nat, Len(ftab) <= Len(ftab'),
         pc[t] \in FdSteps => pc'[t] \in FdSteps /\ local'[t].fd = local[t].fd,
         pc'[t] \in FdSteps \union {"fd_lock"} =>
           fds[owner[t]][local'[t].fd].ftab # NoPointer,
         pc'[t] \in {"slot", "fill"} => local'[t].ptr[2] \in 1 .. Len(ftab)
  PROVE  InvFds' /\ InvPlaces'
<1>1. \A k \in 1 .. Len(ftab) : k \in 1 .. Len(ftab')
  OBVIOUS
<1>2. InvFds'
  <2> SUFFICES ASSUME NEW p \in Proc, NEW i \in 1 .. Len(fds[p]), fds[p][i].mutex = TRUE
               PROVE  \E u \in Thread : pc'[u] \in FdSteps /\ owner[u] = p /\ local'[u].fd = i
    BY DEF InvFds
  <2>1. PICK u \in Thread : pc[u] \in FdSteps /\ owner[u] = p /\ local[u].fd = i
    BY DEF InvFds
  <2>2. pc'[u] \in FdSteps /\ local'[u].fd = i
    BY <2>1 DEF Mine
  <2> QED
    BY <2>1, <2>2
<1>3. \A p \in Proc : \A i \in 1 .. Len(fds'[p]) : PointsIn(fds[p][i].ftab)'
  BY <1>1 DEF InvPlaces, PointsIn
<1>4. \A u \in Thread : pc'[u] \in FdSteps \union {"fd_lock"} =>
        fds'[owner[u]][local'[u].fd].ftab # NoPointer
  BY DEF InvPlaces, Mine
<1>5. \A u \in Thread : pc'[u] \in {"slot", "fill"} => local'[u].ptr[2] \in 1 .. Len(ftab')
  BY <1>1 DEF InvPlaces, Mine
<1> QED
  BY <1>2, <1>3, <1>4, <1>5 DEF InvPlaces

\* One descriptor is written (exec/process.c).
LEMMA OneFd ==
  ASSUME FileInv, InvFds, InvPlaces, NEW t \in Thread, Mine(t), Len(ftab') = Len(ftab),
         NEW p \in Proc, NEW i \in 1 .. Len(fds[p]), NEW f \in FdType, FdWritten(p, i, f),
         PointsIn(f.ftab),
         f.mutex = TRUE => pc'[t] \in FdSteps /\ owner[t] = p /\ local'[t].fd = i,
         pc[t] \in FdSteps => p = owner[t] /\ i = local[t].fd,
         f.ftab = NoPointer => \A u \in Thread \ {t} : owner[u] # p,
         pc'[t] \in FdSteps \union {"fd_lock"} =>
           owner[t] = p /\ local'[t].fd = i /\ f.ftab # NoPointer,
         pc'[t] \notin {"slot", "fill"}
  PROVE  InvFds' /\ InvPlaces'
<1>1. FileType /\ InvHolder /\ owner \in [Thread -> Proc]
  BY Constants DEF FileInv, InvThreads
<1>2. /\ \A q \in Proc : Len(fds'[q]) = Len(fds[q])
      /\ fds'[p][i] = f
      /\ \A q \in Proc : \A j \in 1 .. Len(fds[q]) : q # p \/ j # i => fds'[q][j] = fds[q][j]
  BY <1>1, FdSet
<1>3. InvFds'
  <2> SUFFICES ASSUME NEW q \in Proc, NEW j \in 1 .. Len(fds'[q]), fds'[q][j].mutex = TRUE
               PROVE  \E u \in Thread : pc'[u] \in FdSteps /\ owner[u] = q /\ local'[u].fd = j
    BY DEF InvFds
  <2>3. j \in 1 .. Len(fds[q])
    BY <1>2
  <2>1. CASE q = p /\ j = i
    BY <1>2, <2>1
  <2>2. CASE q # p \/ j # i
    <3>1. fds[q][j].mutex = TRUE
      BY <1>2, <2>2, <2>3
    <3>2. PICK u \in Thread : pc[u] \in FdSteps /\ owner[u] = q /\ local[u].fd = j
      BY <2>3, <3>1 DEF InvFds
    <3>3. u # t
      BY <2>2, <3>2
    <3>4. pc'[u] \in FdSteps /\ local'[u].fd = j
      BY <3>2, <3>3 DEF Mine
    <3> QED
      BY <3>2, <3>4
  <2> QED
    BY <2>1, <2>2
<1>4. \A q \in Proc : \A j \in 1 .. Len(fds'[q]) : PointsIn(fds[q][j].ftab)'
  <2> SUFFICES ASSUME NEW q \in Proc, NEW j \in 1 .. Len(fds[q]) PROVE PointsIn(fds[q][j].ftab)'
    BY <1>2
  <2>1. PointsIn(fds[q][j].ftab)
    BY DEF InvPlaces
  <2> QED
    BY <1>2, <2>1 DEF PointsIn
<1>5. \A u \in Thread : pc'[u] \in FdSteps \union {"fd_lock"} =>
        fds'[owner[u]][local'[u].fd].ftab # NoPointer
  <2> SUFFICES ASSUME NEW u \in Thread, u # t, pc[u] \in FdSteps \union {"fd_lock"}
               PROVE  fds'[owner[u]][local[u].fd].ftab # NoPointer
    BY <1>2 DEF Mine
  <2>1. owner[u] \in Proc /\ local[u].fd \in 1 .. Len(fds[owner[u]])
        /\ fds[owner[u]][local[u].fd].ftab # NoPointer
    BY <1>1 DEF InvHolder, InvPlaces
  <2>2. CASE owner[u] = p /\ local[u].fd = i
    BY <1>2, <2>2
  <2>3. CASE owner[u] # p \/ local[u].fd # i
    BY <1>2, <2>1, <2>3
  <2> QED
    BY <2>2, <2>3
<1>6. \A u \in Thread : pc'[u] \in {"slot", "fill"} => local'[u].ptr[2] \in 1 .. Len(ftab')
  BY DEF InvPlaces, Mine
<1> QED
  BY <1>3, <1>4, <1>5, <1>6 DEF InvPlaces

\* proc_fd_open() fills a descriptor with a place in the table, and takes no
\* mutex of one (exec/process.c).
LEMMA OpenFds ==
  ASSUME FileInv, FileInv', InvProcs, InvFds, InvPlaces, NEW t \in Thread, FdOpenStep(t), Mine(t)
  PROVE  InvFds' /\ InvPlaces'
<1>1. FileType /\ ScanAt(t) /\ OpsAt(t) /\ InvHolder /\ pc \in [Thread -> FileSteps]
      /\ local \in [Thread -> LocalType] /\ local[t] \in LocalType
      /\ fds \in [Proc -> Seq(FdType)]
  BY DEF FileInv, InvThreads, InvScan, InvOps, FileType
<1>2. pc[t] \in OpenSteps \union {"idle"} /\ pc[t] \notin FdSteps
  BY DEF FdOpenStep, FdOpen, OpenLock, ScanNext, ScanFits, Grow, GrowFails, EntryLock, OpenFirst,
         OpenFirstDone, OpenFirstFails, OpenDenied, OpenAgain, OpenAgainDone, OpenAgainFails,
         OpenUnlock, Opened, SlotChosen, SlotGrow, SlotGrowFails, Fill, At, OpenSteps, FdSteps,
         CloseSteps
<1>3. Len(ftab) \in Nat /\ Len(ftab') \in Nat /\ Len(ftab) <= Len(ftab')
  BY TableKept
<1> DEFINE Elsewhere == (OpenSteps \union {"idle", "done"}) \ {"slot", "fill"}
<1>4. Elsewhere \cap (FdSteps \union {"fd_lock", "slot", "fill"}) = {}
  BY DEF OpenSteps, FdSteps, CloseSteps
<1>5. ASSUME fds' = fds, pc'[t] \in Elsewhere PROVE InvFds' /\ InvPlaces'
  BY <1>2, <1>3, <1>4, <1>5, SameFds
<1>6. ASSUME OpenReturned(t), pc[t] \in OpenSteps PROVE pc'[t] \in Elsewhere
  <2>1. PICK L \in LocalType, s \in {"idle", "ftab_lock", "done"} : GoesTo(t, L, s)
    BY <1>6, Returned
  <2>2. pc'[t] = s
    BY <1>1, <2>1, WhereItGoes
  <2> QED
    BY <2>2 DEF OpenSteps
<1>7. CASE \/ GrowFails(t) \/ OpenFirstFails(t) \/ OpenDenied(t) \/ OpenAgainFails(t)
           \/ SlotGrowFails(t)
  <2>1. OpenReturned(t) /\ pc[t] \in OpenSteps /\ fds' = fds
    BY <1>7 DEF GrowFails, OpenFirstFails, OpenDenied, OpenAgainFails, SlotGrowFails, At, OpenSteps
  <2> QED
    BY <1>5, <1>6, <2>1
<1>8. CASE \/ FdOpen(t) \/ OpenLock(t) \/ ScanNext(t) \/ ScanFits(t) \/ Grow(t) \/ EntryLock(t)
           \/ OpenFirst(t) \/ OpenFirstDone(t) \/ OpenAgain(t) \/ OpenAgainDone(t) \/ OpenUnlock(t)
  <2>1. fds' = fds
    BY <1>8 DEF FdOpen, OpenLock, ScanNext, ScanFits, Grow, EntryLock, OpenFirst, OpenFirstDone,
                OpenAgain, OpenAgainDone, OpenUnlock
  <2>2. pc'[t] \in {"ftab_lock", "scan", "entry_lock", "entry", "vfs_open", "unlock", "vfs_reopen",
                    "opened"}
    BY <1>1, <1>8 DEF FdOpen, OpenLock, ScanNext, ScanFits, Grow, EntryLock, OpenFirst,
                      OpenFirstDone, OpenAgain, OpenAgainDone, OpenUnlock, Goto, At
  <2>3. pc'[t] \in Elsewhere
    BY <2>2 DEF OpenSteps
  <2> QED
    BY <1>5, <2>1, <2>3
<1>9. CASE Opened(t) \/ SlotChosen(t)
  <2>1. fds' = fds /\ pc'[t] \in {"slot", "fill"} /\ pc'[t] \notin FdSteps \union {"fd_lock"}
    BY <1>1, <1>9 DEF Opened, SlotChosen, Goto, FdSteps, CloseSteps
  <2>2. local'[t].ptr[2] \in 1 .. Len(ftab)
    <3>1. CASE Opened(t)
      <4>1. local' = [local EXCEPT ![t] = [local[t] EXCEPT
                        !.ptr = <<ftab_base, local[t].idx>>, !.idx = 0, !.excl = FALSE, !.mode = {}]]
        BY <1>1, <3>1 DEF Opened
      <4>2. local'[t].ptr = <<ftab_base, local[t].idx>>
        BY <1>1, <4>1 DEF LocalType
      <4>3. local[t].idx \in 1 .. Len(ftab)
        BY <1>1, <3>1 DEF Opened, At, ScanAt, InTable
      <4> QED
        BY <4>2, <4>3
    <3>2. CASE SlotChosen(t)
      <4>1. \E n : local' = [local EXCEPT ![t] = [local[t] EXCEPT !.fd = n]]
        BY <3>2 DEF SlotChosen
      <4>2. local'[t].ptr = local[t].ptr
        BY <1>1, <4>1 DEF LocalType
      <4>3. pc[t] = "slot"
        BY <3>2 DEF SlotChosen, At
      <4> QED
        BY <4>2, <4>3 DEF InvPlaces
    <3> QED
      BY <1>9, <3>1, <3>2
  <2> QED
    BY <1>2, <1>3, <2>1, <2>2, SameFds
<1>10. CASE SlotGrow(t)
  <2> DEFINE p == local[t].proc
             more == [j \in 1 .. PROC_FDS_ALLOCSZ |-> NoFd]
  <2>1. pc[t] = "slot" /\ pc'[t] = "fill" /\ fds' = [fds EXCEPT ![p] = fds[p] \o more]
        /\ ftab' = ftab /\ p \in Proc
    BY <1>1, <1>10 DEF SlotGrow, At, Goto, table, OpsAt, OpenSteps
  <2>2. fds[p] \in Seq(FdType) /\ PROC_FDS_ALLOCSZ \in Nat \ {0} /\ Len(fds[p]) \in Nat
    BY <1>1, <2>1, Constants DEF FileType
  <2>3. more \in Seq(FdType) /\ Len(more) = PROC_FDS_ALLOCSZ
        /\ \A j \in 1 .. PROC_FDS_ALLOCSZ : more[j] = NoFd
    BY <2>2, NoFdFields
  <2> HIDE DEF more
  <2>4. fds'[p] = fds[p] \o more /\ \A q \in Proc : q # p => fds'[q] = fds[q]
    BY <1>1, <2>1
  <2>5. Len(fds'[p]) = Len(fds[p]) + PROC_FDS_ALLOCSZ
    <3>1. \A a, b \in Seq(FdType) : Len(a \o b) = Len(a) + Len(b)
      OBVIOUS
    <3> QED
      BY <2>2, <2>3, <2>4, <3>1, Zenon
  <2>6. \A j \in 1 .. Len(fds[p]) : fds'[p][j] = fds[p][j]
    BY <2>2, <2>3, <2>4
  <2>7. ASSUME NEW j \in 1 .. Len(fds'[p]), j \notin 1 .. Len(fds[p]) PROVE fds'[p][j] = NoFd
    <3>1. j - Len(fds[p]) \in 1 .. PROC_FDS_ALLOCSZ
      BY <2>2, <2>5, <2>7
    <3>2. fds'[p][j] = more[j - Len(fds[p])]
      BY <2>2, <2>3, <2>4, <2>5, <2>7
    <3> QED
      BY <2>3, <3>1, <3>2
  <2>8. ASSUME NEW q \in Proc, NEW j \in 1 .. Len(fds'[q])
        PROVE  \/ fds'[q][j] = NoFd
               \/ j \in 1 .. Len(fds[q]) /\ fds'[q][j] = fds[q][j]
    BY <2>4, <2>6, <2>7
  <2>9. InvFds'
    <3> SUFFICES ASSUME NEW q \in Proc, NEW j \in 1 .. Len(fds'[q]), fds'[q][j].mutex = TRUE
                 PROVE  \E u \in Thread : pc'[u] \in FdSteps /\ owner[u] = q /\ local'[u].fd = j
      BY DEF InvFds
    <3>1. j \in 1 .. Len(fds[q]) /\ fds[q][j].mutex = TRUE
      BY <2>8 DEF NoFd
    <3>2. PICK u \in Thread : pc[u] \in FdSteps /\ owner[u] = q /\ local[u].fd = j
      BY <3>1 DEF InvFds
    <3>3. u # t
      BY <1>2, <3>2
    <3> QED
      BY <3>2, <3>3 DEF Mine
  <2>10. InvPlaces'
    <3>1. \A q \in Proc : \A j \in 1 .. Len(fds'[q]) : PointsIn(fds[q][j].ftab)'
      <4> SUFFICES ASSUME NEW q \in Proc, NEW j \in 1 .. Len(fds'[q])
                   PROVE  PointsIn(fds[q][j].ftab)'
        OBVIOUS
      <4> QED
        BY <2>1, <2>8, NoFdFields DEF PointsIn, InvPlaces
    <3>2. \A u \in Thread : pc'[u] \in FdSteps \union {"fd_lock"} =>
            fds'[owner[u]][local'[u].fd].ftab # NoPointer
      <4> SUFFICES ASSUME NEW u \in Thread, pc'[u] \in FdSteps \union {"fd_lock"}
                   PROVE  fds'[owner[u]][local'[u].fd].ftab # NoPointer
        OBVIOUS
      <4>1. u # t
        BY <2>1 DEF FdSteps, CloseSteps
      <4>2. pc[u] \in FdSteps \union {"fd_lock"} /\ local'[u] = local[u] /\ owner[u] \in Proc
        BY <4>1, Constants DEF Mine
      <4>3. local[u].fd \in 1 .. Len(fds[owner[u]]) /\ fds[owner[u]][local[u].fd].ftab # NoPointer
        BY <1>1, <4>2 DEF InvHolder, InvPlaces
      <4> QED
        BY <2>4, <2>6, <4>2, <4>3
    <3>3. \A u \in Thread : pc'[u] \in {"slot", "fill"} => local'[u].ptr[2] \in 1 .. Len(ftab')
      <4>1. local' = [local EXCEPT ![t] = [local[t] EXCEPT !.fd = Len(fds[p]) + 1]]
        BY <1>10 DEF SlotGrow
      <4>2. local'[t].ptr = local[t].ptr
        BY <1>1, <4>1 DEF LocalType
      <4> QED
        BY <2>1, <4>2 DEF InvPlaces, Mine
    <3> QED
      BY <3>1, <3>2, <3>3 DEF InvPlaces
  <2> QED
    BY <2>9, <2>10
<1>11. CASE Fill(t)
  <2> DEFINE p == local[t].proc
             i == local[t].fd
             f == [ftab |-> local[t].ptr, read |-> local[t].read, write |-> local[t].write,
                   mutex |-> FALSE, for |-> local[t].node]
  <2>1. pc[t] = "fill" /\ p \in Proc /\ i \in 1 .. Len(fds[p]) /\ ftab' = ftab
    BY <1>1, <1>11 DEF Fill, At, OpsAt, OpenSteps, InvProcs, table
  <2>2. FdWritten(p, i, f) /\ OpenReturned(t)
    BY <1>11 DEF Fill, FdWritten
  <2>3. f \in FdType /\ f.ftab = local[t].ptr /\ f.mutex = FALSE
    BY <1>1, LocalFields DEF FdType
  <2> HIDE DEF f
  <2>4. local[t].ptr[2] \in 1 .. Len(ftab) /\ local[t].ptr # NoPointer
    <3>1. local[t].ptr[2] \in 1 .. Len(ftab)
      BY <2>1 DEF InvPlaces
    <3>2. NoPointer[2] = 0
      BY DEF NoPointer
    <3> QED
      BY <1>3, <3>1, <3>2
  <2>5. pc'[t] \in Elsewhere
    BY <1>6, <2>1, <2>2 DEF OpenSteps
  <2>6. pc'[t] \notin FdSteps \union {"fd_lock", "slot", "fill"}
    BY <1>4, <2>5
  <2>7. PointsIn(f.ftab)
    BY <2>3, <2>4 DEF PointsIn
  <2> HIDE DEF Elsewhere, p, i
  <2> QED
    BY <1>2, <2>1, <2>2, <2>3, <2>4, <2>6, <2>7, OneFd
<1> QED
  BY <1>7, <1>8, <1>9, <1>10, <1>11 DEF FdOpenStep

\* A read, a write and a close take the mutex of a descriptor in use and give it
\* back (proc_fd_read(), proc_fd_write() and proc_fd_close() in exec/process.c).
LEMMA UseFds ==
  ASSUME FileInv, FileInv', OneThread, InvFds, InvPlaces, NEW t \in Thread,
         FdIo(t) \/ FdClose(t), Mine(t)
  PROVE  InvFds' /\ InvPlaces'
<1>1. FileType /\ OpsAt(t) /\ InvHolder /\ pc \in [Thread -> FileSteps]
      /\ local \in [Thread -> LocalType] /\ local[t] \in LocalType
      /\ fds \in [Proc -> Seq(FdType)] /\ owner[t] \in Proc
  BY Constants DEF FileInv, InvThreads, InvOps, FileType
<1>2. Len(ftab) \in Nat /\ Len(ftab') \in Nat /\ Len(ftab) <= Len(ftab')
  BY TableKept
<1> DEFINE i == local[t].fd
           p == owner[t]
<1>3. ASSUME NEW op, FdUse(t, op) PROVE InvFds' /\ InvPlaces'
  <2>1. PICK n \in DOMAIN fds[p] : /\ fds[p][n].ftab # NoPointer
                                   /\ local' = [local EXCEPT ![t] = [NoLocal EXCEPT
                                                  !.op = op, !.proc = p, !.fd = n]]
    BY <1>3 DEF FdUse
  <2>2. local'[t].fd = n
    BY <1>1, <2>1 DEF NoLocal
  <2>3. pc[t] = "idle" /\ pc'[t] = "fd_lock" /\ fds' = fds
    BY <1>1, <1>3 DEF FdUse, At, Goto
  <2> QED
    BY <1>2, <2>1, <2>2, <2>3, SameFds DEF FdSteps, CloseSteps
<1>4. CASE FdRefused(t)
  <2>1. pc[t] = "fd_lock" /\ pc'[t] = "idle" /\ fds' = fds
    BY <1>1, <1>4 DEF FdRefused, At, Return, Goto
  <2> QED
    BY <1>2, <2>1, SameFds DEF FdSteps, CloseSteps
<1>5. CASE IoLock(t) \/ CloseLock(t) \/ Close(t) \/ (CloseCheck(t) /\ pc'[t] = "close_lock")
  <2>1. pc[t] \in FdSteps /\ pc'[t] \in FdSteps /\ local' = local /\ fds' = fds
    <3>1. CASE IoLock(t) \/ CloseLock(t) \/ Close(t)
      BY <1>1, <3>1 DEF IoLock, CloseLock, Close, At, Goto, FdSteps, CloseSteps
    <3>2. CASE CloseCheck(t) /\ pc'[t] = "close_lock"
      BY <1>1, <3>2 DEF CloseCheck, At, Return, Goto, FdSteps, CloseSteps
    <3> QED
      BY <1>5, <3>1, <3>2
  <2>2. fds[p][i].ftab # NoPointer
    BY <2>1 DEF InvPlaces
  <2>3. pc'[t] \notin {"slot", "fill"}
    BY <2>1 DEF FdSteps, CloseSteps
  <2> QED
    BY <1>2, <2>1, <2>2, <2>3, SameFds
<1>6. CASE FdLock(t)
  <2> DEFINE f == [fds[p][i] EXCEPT !.mutex = TRUE]
  <2>1. pc[t] = "fd_lock" /\ pc'[t] \in {"close_check", "io_lock"} /\ ftab' = ftab
        /\ local[t].proc = p /\ i \in 1 .. Len(fds[p])
        /\ local' = [local EXCEPT ![t] = [local[t] EXCEPT !.ptr = Fd(t).ftab]]
    BY <1>1, <1>6 DEF FdLock, At, Goto, table, OpsAt, InvHolder
  <2>2. FdWritten(p, i, f)
    BY <1>6, <2>1 DEF FdLock, SetFd, Fd, FdWritten
  <2>3. fds[p][i] \in FdType /\ fds[p][i].ftab # NoPointer /\ PointsIn(fds[p][i].ftab)
    BY <1>1, <2>1, FdFields DEF InvPlaces
  <2>4. f \in FdType /\ f.ftab = fds[p][i].ftab
    BY <2>3 DEF FdType
  <2> HIDE DEF f
  <2>5. pc[t] \notin FdSteps /\ pc'[t] \in FdSteps /\ pc'[t] \notin {"slot", "fill"}
    BY <2>1 DEF FdSteps, CloseSteps
  <2>6. local'[t].fd = i
    BY <1>1, <2>1 DEF LocalType
  <2>7. f.ftab # NoPointer /\ PointsIn(f.ftab)
    BY <2>3, <2>4
  <2>8. Len(ftab') = Len(ftab)
    BY <2>1
  <2> HIDE DEF i, p
  <2> QED
    BY <1>1, <2>1, <2>2, <2>4, <2>5, <2>6, <2>7, <2>8, OneFd DEF p
<1>7. CASE IoDone(t) \/ CloseUnlock(t) \/ (CloseCheck(t) /\ pc'[t] # "close_lock")
  <2>1. pc[t] \in FdSteps /\ pc'[t] = "idle" /\ Len(ftab') = Len(ftab)
    <3>1. CASE IoDone(t) \/ CloseUnlock(t)
      <4>1. /\ pc[t] \in FdSteps /\ pc'[t] = "idle"
            /\ ftab' = [ftab EXCEPT ![local[t].ptr[2]].mutex = FALSE]
        BY <1>1, <3>1 DEF IoDone, CloseUnlock, At, Return, Goto, FdSteps, CloseSteps
      <4>2. Len(ftab') = Len(ftab)
        BY <1>1, <4>1 DEF FileType
      <4> QED
        BY <4>1, <4>2
    <3>2. CASE CloseCheck(t) /\ pc'[t] # "close_lock"
      BY <1>1, <3>2 DEF CloseCheck, At, Return, Goto, FdSteps, CloseSteps, table
    <3> QED
      BY <1>7, <3>1, <3>2
  <2>2. local[t].proc = p /\ i \in 1 .. Len(fds[p])
    BY <1>1, <2>1 DEF OpsAt, InvHolder
  <2>3. \E f : FdWritten(p, i, f) /\ (f = [fds[p][i] EXCEPT !.mutex = FALSE] \/ f = NoFd)
    <3>1. CASE IoDone(t)
      BY <2>2, <3>1 DEF IoDone, SetFd, Fd, FdWritten
    <3>2. CASE CloseUnlock(t)
      BY <2>2, <3>2 DEF CloseUnlock, SetFd, Fd, FdCleared, FdWritten
    <3>3. CASE CloseCheck(t) /\ pc'[t] # "close_lock"
      BY <1>1, <2>2, <3>3 DEF CloseCheck, SetFd, Goto, FdWritten
    <3> QED
      BY <1>7, <3>1, <3>2, <3>3
  <2>4. PICK f : FdWritten(p, i, f) /\ (f = [fds[p][i] EXCEPT !.mutex = FALSE] \/ f = NoFd)
    BY <2>3
  <2>5. fds[p][i] \in FdType /\ PointsIn(fds[p][i].ftab)
    BY <1>1, <2>2, FdFields DEF InvPlaces
  <2>6. f \in FdType /\ f.mutex = FALSE /\ PointsIn(f.ftab)
    <3>1. CASE f = [fds[p][i] EXCEPT !.mutex = FALSE]
      BY <2>5, <3>1 DEF FdType
    <3>2. CASE f = NoFd
      BY <3>2, NoFdFields DEF NoFd, PointsIn
    <3> QED
      BY <2>4, <3>1, <3>2
  <2>7. \A u \in Thread \ {t} : owner[u] # p
    BY DEF OneThread
  <2>8. pc'[t] \notin FdSteps \union {"fd_lock"} /\ pc'[t] \notin {"slot", "fill"}
    BY <2>1 DEF FdSteps, CloseSteps
  <2>9. p \in Proc /\ p = owner[t] /\ i = local[t].fd
    BY <1>1
  <2> HIDE DEF i, p
  <2> QED
    BY <2>1, <2>2, <2>4, <2>6, <2>7, <2>8, <2>9, OneFd
<1>8. FdIo(t) \/ FdClose(t) =>
        \/ \E op \in {"read", "write", "close"} : FdUse(t, op)
        \/ FdRefused(t) \/ FdLock(t) \/ IoLock(t) \/ IoDone(t)
        \/ CloseCheck(t) \/ CloseLock(t) \/ Close(t) \/ CloseUnlock(t)
  BY Zenon DEF FdIo, FdClose
<1> QED
  BY <1>3, <1>4, <1>5, <1>6, <1>7, <1>8

-----------------------------------------------------------------------------
(***************************************************************************)
(* Every step keeps them.                                                  *)
(***************************************************************************)
\* A process is created and started (proc_create() in exec/process.c).
LEMMA StartLocks ==
  ASSUME FileInv, LockInv, NEW t \in Thread, Start(t)
  PROVE  LockInv'
<1>1. FileType /\ pc \in [Thread -> FileSteps] /\ local \in [Thread -> LocalType]
      /\ Len(ftab) \in Nat
  BY DEF FileInv, FileType
<1>2. pc[t] \in {"idle", "done"} /\ pc'[t] \in {"ftab_lock", "idle"} /\ Mine(t)
      /\ UNCHANGED <<ftab, ftab_mutex, fds>>
  BY <1>1 DEF Start, ProcCreate, ProcStart, At, Return, Goto, Mine, table
<1>3. InvMutexes'
  BY <1>2, OutsideStep DEF LockInv, Outside
<1>4. pc[t] \notin FdSteps /\ pc'[t] \notin FdSteps \union {"fd_lock", "slot", "fill"}
  BY <1>2 DEF FdSteps, CloseSteps
<1>5. InvFds' /\ InvPlaces'
  BY <1>1, <1>2, <1>4, SameFds DEF LockInv
<1> QED
  BY <1>3, <1>5 DEF LockInv

\* A process of one thread ends while that thread is outside (proc_delete() in
\* exec/process.c).
LEMMA ExitLocks ==
  ASSUME FileInv, LockInv, OneThread, NEW t \in Thread, Exit(t)
  PROVE  LockInv'
<1>1. FileType /\ pc \in [Thread -> FileSteps] /\ owner \in [Thread -> Proc]
      /\ fds \in [Proc -> Seq(FdType)]
  BY Constants DEF FileInv, FileType
<1>2. pc[t] = "idle" /\ pc'[t] = "idle" /\ Mine(t) /\ UNCHANGED <<ftab, ftab_mutex>>
      /\ fds' = [fds EXCEPT ![owner[t]] = <<>>]
  BY <1>1 DEF Exit, At, Mine, OneThread, table
<1>3. InvMutexes'
  BY <1>2, OutsideStep DEF LockInv, Outside
<1>4. fds'[owner[t]] = <<>> /\ \A q \in Proc : q # owner[t] => fds'[q] = fds[q]
  BY <1>1, <1>2
<1>5. InvFds'
  <2> SUFFICES ASSUME NEW q \in Proc, NEW j \in 1 .. Len(fds'[q]), fds'[q][j].mutex = TRUE
               PROVE  \E u \in Thread : pc'[u] \in FdSteps /\ owner[u] = q /\ local'[u].fd = j
    BY DEF InvFds
  <2>1. q # owner[t]
    <3>1. Len(<<>>) = 0
      OBVIOUS
    <3> QED
      BY <1>4, <3>1
  <2>2. j \in 1 .. Len(fds[q]) /\ fds[q][j].mutex = TRUE
    BY <1>4, <2>1
  <2>3. PICK u \in Thread : pc[u] \in FdSteps /\ owner[u] = q /\ local[u].fd = j
    BY <2>2 DEF LockInv, InvFds
  <2> QED
    BY <1>2, <2>1, <2>3 DEF Mine
<1>6. \A q \in Proc : \A j \in 1 .. Len(fds'[q]) : PointsIn(fds[q][j].ftab)'
  <2> SUFFICES ASSUME NEW q \in Proc, NEW j \in 1 .. Len(fds'[q]) PROVE PointsIn(fds[q][j].ftab)'
    OBVIOUS
  <2>1. q # owner[t]
    <3>1. Len(<<>>) = 0
      OBVIOUS
    <3> QED
      BY <1>4, <3>1
  <2> QED
    BY <1>2, <1>4, <2>1 DEF LockInv, InvPlaces, PointsIn
<1>7. \A u \in Thread : pc'[u] \in FdSteps \union {"fd_lock"} =>
        fds'[owner[u]][local'[u].fd].ftab # NoPointer
  <2> SUFFICES ASSUME NEW u \in Thread, pc'[u] \in FdSteps \union {"fd_lock"}
               PROVE  fds'[owner[u]][local'[u].fd].ftab # NoPointer
    OBVIOUS
  <2>1. u # t
    BY <1>2 DEF FdSteps, CloseSteps
  <2>2. owner[u] # owner[t] /\ owner[u] \in Proc
    BY <1>1, <2>1 DEF OneThread
  <2> QED
    BY <1>2, <1>4, <2>1, <2>2 DEF Mine, LockInv, InvPlaces
<1>8. \A u \in Thread : pc'[u] \in {"slot", "fill"} => local'[u].ptr[2] \in 1 .. Len(ftab')
  BY <1>2 DEF Mine, LockInv, InvPlaces
<1> QED
  BY <1>3, <1>5, <1>6, <1>7, <1>8 DEF LockInv, InvPlaces

\* proc_init() (exec/process.c) begins with an empty table.
LEMMA FirstLocks == Init => LockInv
<1> SUFFICES ASSUME Init PROVE LockInv
  OBVIOUS
<1>1. Len(ftab) = 0 /\ ftab_mutex = FALSE /\ \A p \in Proc : Len(fds[p]) = 0
  BY DEF Init
<1>2. \A t \in Thread : pc[t] \notin FdSteps \union {"fd_lock", "slot", "fill"}
  BY DEF Init, FdSteps, CloseSteps
<1>3. InvMutexes
  BY <1>1 DEF InvMutexes
<1>4. InvFds
  BY <1>1 DEF InvFds
<1>5. InvPlaces
  BY <1>1, <1>2 DEF InvPlaces
<1> QED
  BY <1>3, <1>4, <1>5 DEF LockInv

\* What the program does keeps them (fs/ftab.c, exec/process.c).
LEMMA LocksKept ==
  ASSUME FileInv, FileInv', InvProcs, LockInv, HooksSucceed, OneThread, [FileNext]_vars
  PROVE  LockInv'
<1>1. CASE UNCHANGED vars
  BY <1>1 DEF vars, LockInv, InvMutexes, InvFds, InvPlaces, HoldsEntry, PointsIn
<1>2. ASSUME NEW t \in Thread, FdOpenStep(t) PROVE LockInv'
  <2>1. Mine(t)
    BY <1>2, SlotsNeverFewer, OpenStays DEF StaysWith
  <2>2. InvMutexes'
    BY <1>2, <2>1, OpenMutexes DEF LockInv
  <2>3. InvFds' /\ InvPlaces'
    BY <1>2, <2>1, OpenFds DEF LockInv
  <2> QED
    BY <2>2, <2>3 DEF LockInv
<1>3. ASSUME NEW t \in Thread, FdIo(t) \/ FdClose(t) PROVE LockInv'
  <2>1. Mine(t)
    BY <1>3, SlotsNeverFewer, UseStays DEF StaysWith
  <2>2. InvMutexes'
    BY <1>3, <2>1, UseMutexes DEF LockInv
  <2>3. InvFds' /\ InvPlaces'
    BY <1>3, <2>1, UseFds DEF LockInv
  <2> QED
    BY <2>2, <2>3 DEF LockInv
<1> QED
  BY <1>1, <1>2, <1>3, StartLocks, ExitLocks DEF FileNext

-----------------------------------------------------------------------------
(***************************************************************************)
(* What follows.                                                           *)
(***************************************************************************)
\* A mutex that is taken has a holder (fs/ftab.c).
LEMMA LocksMeanReleased == FileInv /\ LockInv => MutexesReleased
<1> SUFFICES ASSUME FileInv, LockInv PROVE MutexesReleased
  OBVIOUS
<1>1. FileType /\ ftab_mutex \in BOOLEAN /\ DOMAIN ftab = 1 .. Len(ftab)
  BY DEF FileInv, FileType
<1>2. \A k \in 1 .. Len(ftab) : ftab[k].mutex \in BOOLEAN
  BY <1>1, EntryFields
<1> QED
  BY <1>1, <1>2 DEF LockInv, InvMutexes, InTable, HoldsEntry, MutexesReleased

\* If everyone inside waited, nobody would hold an entry, then nobody the table,
\* then nobody a descriptor (fs/ftab.c, exec/process.c).
LEMMA LocksMeanProgress == FileInv /\ InvProcs /\ LockInv => NoDeadlock
<1> SUFFICES ASSUME FileInv, InvProcs, LockInv, NEW t \in Thread, pc[t] # "idle",
                    \A u \in Thread : pc[u] # "idle" => Waiting(u)
             PROVE  FALSE
  BY DEF NoDeadlock
<1>1. /\ FileType /\ InvScan /\ InvHolder /\ InvOps /\ pc \in [Thread -> FileSteps]
      /\ ftab_mutex \in BOOLEAN /\ owner \in [Thread -> Proc]
  BY Constants DEF FileInv, InvThreads, FileType
<1>2. \A u \in Thread : pc[u] \in {"idle", "ftab_lock", "entry_lock", "fd_lock", "fill", "io_lock",
                                   "close_lock"}
  BY <1>1 DEF Waiting, FileSteps, OpenSteps, FdSteps, CloseSteps
<1>3. \A k \in 1 .. Len(ftab) : EntryFree(k)
  <2>1. \A k \in 1 .. Len(ftab) : ftab[k].mutex \in BOOLEAN
    BY <1>1, EntryFields
  <2>2. \A u \in Thread : \A k : ~HoldsEntry(u, k)
    BY <1>2 DEF HoldsEntry
  <2> QED
    BY <2>1, <2>2 DEF LockInv, InvMutexes, EntryFree
<1>4. \A u \in Thread : pc[u] # "entry_lock"
  <2> SUFFICES ASSUME NEW u \in Thread, pc[u] = "entry_lock" PROVE FALSE
    OBVIOUS
  <2>1. local[u].idx \in 1 .. Len(ftab)
    BY <1>1 DEF InvScan, ScanAt, InTable
  <2> QED
    BY <1>3, <2>1 DEF Waiting
<1>5. \A u \in Thread : pc[u] # "ftab_lock"
  <2>1. ftab_mutex = FALSE
    BY <1>1, <1>2, <1>4 DEF LockInv, InvMutexes, InTable
  <2> QED
    BY <2>1 DEF Waiting
<1>6. \A u \in Thread : pc[u] \notin {"io_lock", "close_lock"}
  <2> SUFFICES ASSUME NEW u \in Thread, pc[u] \in {"io_lock", "close_lock"} PROVE FALSE
    OBVIOUS
  <2>1. pc[u] \in FdSteps
    BY DEF FdSteps, CloseSteps
  <2>2. owner[u] \in Proc /\ local[u].fd \in 1 .. Len(fds[owner[u]])
        /\ fds[owner[u]][local[u].fd].ftab = local[u].ptr
    BY <1>1, <2>1 DEF InvHolder
  <2>3. local[u].ptr # NoPointer /\ PointsIn(local[u].ptr)
    BY <2>1, <2>2 DEF LockInv, InvPlaces
  <2>4. local[u].ptr[2] \in 1 .. Len(ftab)
    BY <2>3 DEF PointsIn
  <2> QED
    BY <1>3, <2>4 DEF Waiting
<1>7. \A p \in Proc : \A i \in 1 .. Len(fds[p]) : fds[p][i].mutex = FALSE
  <2>1. \A p \in Proc : \A i \in 1 .. Len(fds[p]) : fds[p][i].mutex \in BOOLEAN
    BY <1>1, FdFields
  <2>2. \A u \in Thread : pc[u] \notin FdSteps
    BY <1>2, <1>6 DEF FdSteps, CloseSteps
  <2> QED
    BY <2>1, <2>2 DEF LockInv, InvFds
<1>8. \A u \in Thread : pc[u] \notin {"fd_lock", "fill"}
  <2> SUFFICES ASSUME NEW u \in Thread, pc[u] \in {"fd_lock", "fill"} PROVE FALSE
    OBVIOUS
  <2>1. local[u].proc \in Proc /\ local[u].fd \in 1 .. Len(fds[local[u].proc])
    BY <1>1 DEF InvOps, OpsAt, InvHolder, InvProcs, OpenSteps
  <2>2. Fd(u).mutex = FALSE
    BY <1>7, <2>1 DEF Fd
  <2> QED
    BY <2>2 DEF Waiting
<1> QED
  BY <1>2, <1>4, <1>5, <1>6, <1>8

\* In every state of programs that open, use and close files: the invariant.
LEMMA LockInvHolds ==
  ASSUME CloseAlone, HooksSucceed, OneThread
  PROVE  FileSpec => [](FileInv /\ InvProcs /\ LockInv)
<1>1. Init => FileInv /\ InvProcs /\ LockInv
  BY Initially, FirstLocks
<1>2. FileInv /\ InvProcs /\ LockInv /\ [FileNext]_vars => FileInv' /\ InvProcs' /\ LockInv'
  BY FileKeeps, LocksKept
<1> QED
  BY <1>1, <1>2, PTL DEF FileSpec

\* No path out of ftab_open(), ftab_read(), ftab_write() or ftab_close() (fs/ftab.c)
\* keeps a mutex, where open hooks succeed and processes are one thread each.
THEOREM MutexesReleasedHolds ==
  CloseAlone /\ HooksSucceed /\ OneThread => (FileSpec => []MutexesReleased)
<1> SUFFICES ASSUME CloseAlone, HooksSucceed, OneThread PROVE FileSpec => []MutexesReleased
  OBVIOUS
<1>1. FileSpec => [](FileInv /\ InvProcs /\ LockInv)
  BY LockInvHolds
<1> QED
  BY <1>1, LocksMeanReleased, PTL

\* Of the threads inside, one is not waiting for a mutex (fs/ftab.c, exec/process.c).
THEOREM NoDeadlockHolds ==
  CloseAlone /\ HooksSucceed /\ OneThread => (FileSpec => []NoDeadlock)
<1> SUFFICES ASSUME CloseAlone, HooksSucceed, OneThread PROVE FileSpec => []NoDeadlock
  OBVIOUS
<1>1. FileSpec => [](FileInv /\ InvProcs /\ LockInv)
  BY LockInvHolds
<1> QED
  BY <1>1, LocksMeanProgress, PTL

-----------------------------------------------------------------------------
(* Programs fork: what is open stays open for as many as use it.           *)

\* The hooks of the console, which has none (fs/devfs_std.c:72), do not fail.
ConsoleOpens ==
  \A t \in Thread : local[t].node = dev_console => ~OpenFirstFails(t) /\ ~OpenAgainFails(t)
\* Memory for the first entries and descriptors.
RoomForStd ==
  /\ ~OutOfMemory
  /\ FTAB_ALLOCSZ <= MAX_FTAB /\ STDFDS <= PROC_FDS_ALLOCSZ /\ PROC_FDS_ALLOCSZ <= MAX_FDS

ForkLocalType == [op : {"none", "open", "read", "write", "start", "fork"},
                  proc : Proc \union {NULL}, left : Nat, node : Node \union {NULL},
                  duplicate : BOOLEAN, read : BOOLEAN, write : BOOLEAN, excl : BOOLEAN,
                  idx : Nat, mode : SUBSET {"r", "w"}, ptr : Nat \X Nat, fd : Nat]
Copying == {"reopen", "reopen_lock"}
Using == {"fd_lock", "io_lock", "io"}
ForkSteps == OpenSteps \union Copying \union Using \union {"idle", "done"}
ForkType ==
  /\ ftab \in Seq(EntryType) /\ ftab_mutex \in BOOLEAN /\ ftab_base \in Nat
  /\ fds \in [Proc -> Seq(FdType)] /\ procs \in [Proc -> {"free", "new", "alive"}]
  /\ pc \in [Thread -> ForkSteps] /\ local \in [Thread -> ForkLocalType]

\* An entry that was opened is never given back: it is there for any pointer to
\* it, into this table or one that has moved since.
Points(ptr, node, read, write) ==
  /\ ptr[1] <= ftab_base /\ ptr[2] \in 1 .. Len(ftab)
  /\ node \in Node /\ ftab[ptr[2]].node = node
  /\ Modes(read, write) \subseteq Modes(ftab[ptr[2]].read, ftab[ptr[2]].write)
PointsFd(fd) == fd.ftab = NoPointer \/ Points(fd.ftab, fd.for, fd.read, fd.write)

\* What a thread does, and for which process.
DoesAt(t) ==
  /\ pc[t] = "idle" => local[t].op = "none"
  /\ pc[t] \in OpenSteps => local[t].op \in {"open", "start", "fork"} /\ local[t].node \in Node
  /\ pc[t] = "done" => local[t].op \in {"start", "fork"}
  /\ pc[t] \in Copying => local[t].op = "fork" /\ local[t].fd > STDFDS
  /\ pc[t] \in Using => local[t].op \in {"read", "write"}
ForAt(t) ==
  pc[t] # "idle" =>
    /\ procs[owner[t]] = "alive" /\ local[t].proc \in Proc
    /\ local[t].op \in {"open", "read", "write"} => local[t].proc = owner[t]
    /\ local[t].op = "start" =>
         \/ procs[local[t].proc] = "new"
         \/ local[t].proc = owner[t] /\ owner[t] = proc_kernel
    /\ local[t].op = "fork" => procs[local[t].proc] = "new"
\* The entry that an open has come to.
WalksAt(t) ==
  LET i == local[t].idx IN
  /\ pc[t] = "scan" => i \in 1 .. Len(ftab) + 1
  /\ pc[t] \in (InTable \ {"scan"}) \union {"opened"} => i \in 1 .. Len(ftab)
  /\ pc[t] \in {"entry_lock", "entry"} => ftab[i].node \in {NULL, local[t].node}
  /\ pc[t] = "vfs_open" => ftab[i].node = NULL
  /\ pc[t] = "vfs_reopen" => ftab[i].node = local[t].node /\ local[t].mode = Widened(t, ftab[i])
\* What it has opened is there, and the descriptor it is at.
OpenedAt(t) ==
  LET l == local[t] IN
  /\ pc[t] \in {"unlock", "opened"} => Points(<<ftab_base, l.idx>>, l.node, l.read, l.write)
  /\ pc[t] \in {"slot", "fill"} => Points(l.ptr, l.node, l.read, l.write)
  /\ pc[t] \in Using \union {"fill", "reopen_lock"} => l.fd \in 1 .. Len(fds[l.proc])
  /\ pc[t] = "fill" => fds[l.proc][l.fd].ftab \in {NoPointer, l.ptr}
\* The first n descriptors are of the console, whose entry is the first.
Standard(p, n) == \A j \in 1 .. n : j <= Len(fds[p]) /\ fds[p][j].ftab[2] = 1
\* proc_create() opens the console for them, one after the other.
Creates(t) == local[t].op \in {"start", "fork"}
Has(t) == STDFDS - local[t].left
CreatesAt(t) ==
  LET l == local[t]  p == local[t].proc IN
  Creates(t) =>
    /\ pc[t] \in OpenSteps \union {"done"} =>
         /\ l.left <= STDFDS /\ Standard(p, Has(t)) /\ (Len(fds[p]) = 0 \/ Len(fds[p]) >= STDFDS)
         /\ \A j \in 1 .. Len(fds[p]) : j > Has(t) => fds[p][j].ftab = NoPointer
    /\ pc[t] = "done" => l.left = 0
    /\ pc[t] \in OpenSteps => l.left > 0 /\ l.node = dev_console /\ l.duplicate = TRUE /\ l.excl = FALSE
    /\ pc[t] \in InTable \union {"opened"} => l.idx = 1
    /\ pc[t] \in {"slot", "fill"} => l.ptr[2] = 1
    /\ pc[t] = "fill" => l.fd = Has(t) + 1
    /\ pc[t] \in Copying => Standard(p, STDFDS)
\* Those of a child are as new as the ones of its parent that will replace them.
Current(p) == \E j \in 1 .. STDFDS : j <= Len(fds[p]) /\ fds[p][j].ftab[1] = ftab_base
ForksAt(t) ==
  local[t].op = "fork" /\ pc[t] \in OpenSteps \union {"done"} /\ Current(owner[t]) =>
    /\ \A j \in 1 .. Has(t) : fds[local[t].proc][j].ftab[1] = ftab_base
    /\ pc[t] \in {"slot", "fill"} => local[t].ptr[1] = ftab_base
ThreadAt(t) == DoesAt(t) /\ ForAt(t) /\ WalksAt(t) /\ OpenedAt(t) /\ CreatesAt(t) /\ ForksAt(t)

\* No two threads work for one process.
InvApart ==
  \A t, u \in Thread :
    pc[t] # "idle" /\ pc[u] # "idle" /\ local[t].proc = local[u].proc => t = u
\* A process, and who creates it.
NotCreated(p) == \A t \in Thread : Creates(t) => local[t].proc # p
ProcAt(p) ==
  /\ procs[p] = "free" => fds[p] = <<>>
  /\ procs[p] = "alive" /\ NotCreated(p) => Standard(p, STDFDS)
  /\ \A j \in 1 .. Len(fds[p]) : PointsFd(fds[p][j])
\* The console is opened by the process of the kernel, before any other.
ConsoleOpen == Len(ftab) >= 1 /\ ftab[1].node = dev_console /\ ftab[1].excl = NULL
Booting ==
  /\ \A p \in Proc : procs[p] = "alive" => p = proc_kernel
  /\ \A t \in Thread : owner[t] = proc_kernel =>
       Creates(t) /\ pc[t] \in {"ftab_lock", "scan", "entry_lock", "entry", "vfs_open"}
  /\ Len(ftab) >= 1 => ftab[1].node = NULL
InvConsole == ConsoleOpen \/ Booting
\* The count.
CountAt(k) ==
  /\ ftab[k].refs >= Cardinality(Descriptors(k)) + Cardinality(Opening(k))
  /\ ftab[k].node = NULL <=> ftab[k].refs = 0
ForkInv ==
  /\ ForkType /\ InvLock /\ InvApart /\ InvConsole
  /\ \A t \in Thread : ThreadAt(t)
  /\ \A p \in Proc : ProcAt(p)
  /\ \A k \in 1 .. Len(ftab) : CountAt(k)

-----------------------------------------------------------------------------
\* The fields of the state, by type (exec/process.h, fs/ftab.h).
LEMMA ForkFields ==
  ASSUME ForkType, NEW t \in Thread
  PROVE  /\ pc[t] \in ForkSteps /\ local[t] \in ForkLocalType
         /\ local[t].op \in {"none", "open", "read", "write", "start", "fork"}
         /\ local[t].proc \in Proc \union {NULL} /\ local[t].left \in Nat
         /\ local[t].node \in Node \union {NULL} /\ local[t].duplicate \in BOOLEAN
         /\ local[t].read \in BOOLEAN /\ local[t].write \in BOOLEAN /\ local[t].excl \in BOOLEAN
         /\ local[t].idx \in Nat /\ local[t].mode \in SUBSET {"r", "w"}
         /\ local[t].ptr \in Nat \X Nat /\ local[t].fd \in Nat
<1>1. local[t] \in ForkLocalType /\ pc[t] \in ForkSteps
  BY DEF ForkType
<1> QED
  BY <1>1 DEF ForkLocalType
\* What an entry is made of.
LEMMA ForkEntry ==
  ASSUME ForkType, NEW i \in 1 .. Len(ftab)
  PROVE  /\ ftab[i] \in EntryType /\ ftab[i].node \in Node \union {NULL} /\ ftab[i].refs \in Nat
         /\ ftab[i].excl \in Proc \union {NULL} /\ ftab[i].read \in BOOLEAN
         /\ ftab[i].write \in BOOLEAN /\ ftab[i].mutex \in BOOLEAN
<1>1. ftab[i] \in EntryType
  BY DEF ForkType
<1> QED
  BY <1>1 DEF EntryType
\* What a descriptor table is made of.
LEMMA ForkFds ==
  ASSUME ForkType, NEW p \in Proc
  PROVE  /\ fds[p] \in Seq(FdType) /\ Len(fds[p]) \in Nat /\ DOMAIN fds[p] = 1 .. Len(fds[p])
         /\ \A j \in 1 .. Len(fds[p]) :
              /\ fds[p][j] \in FdType /\ fds[p][j].ftab \in Nat \X Nat
              /\ fds[p][j].ftab[1] \in Nat /\ fds[p][j].ftab[2] \in Nat
              /\ fds[p][j].read \in BOOLEAN /\ fds[p][j].write \in BOOLEAN
              /\ fds[p][j].for \in Node \union {NULL}
<1>1. fds[p] \in Seq(FdType)
  BY DEF ForkType
<1>2. /\ Len(fds[p]) \in Nat /\ DOMAIN fds[p] = 1 .. Len(fds[p])
      /\ \A j \in 1 .. Len(fds[p]) : fds[p][j] \in FdType
  BY <1>1
<1>3. \A j \in 1 .. Len(fds[p]) :
        /\ fds[p][j].ftab \in Nat \X Nat /\ fds[p][j].read \in BOOLEAN /\ fds[p][j].write \in BOOLEAN
        /\ fds[p][j].for \in Node \union {NULL}
  BY <1>2 DEF FdType
<1> QED
  BY <1>1, <1>2, <1>3
\* What the file table is made of.
LEMMA ForkTable ==
  ASSUME ForkType
  PROVE  /\ ftab \in Seq(EntryType) /\ Len(ftab) \in Nat /\ DOMAIN ftab = 1 .. Len(ftab)
         /\ ftab_mutex \in BOOLEAN /\ ftab_base \in Nat
BY DEF ForkType

\* An action that moves thread t on, with other locals.
Moves(t, L, s) ==
  /\ pc' = [pc EXCEPT ![t] = s] /\ local' = [local EXCEPT ![t] = L]
  /\ L \in ForkLocalType /\ s \in ForkSteps
\* A thread that moves is where it moved to, and no other thread moves.
LEMMA WhereItMoves ==
  ASSUME ForkType, NEW t \in Thread, NEW L, NEW s, Moves(t, L, s)
  PROVE  /\ pc'[t] = s /\ local'[t] = L /\ Mine(t)
         /\ pc' \in [Thread -> ForkSteps] /\ local' \in [Thread -> ForkLocalType]
BY DEF ForkType, Moves, Mine

-----------------------------------------------------------------------------
\* Entries are added, and what is open stays so, in more modes.
TableGrows ==
  /\ Len(ftab) <= Len(ftab') /\ ftab_base <= ftab_base'
  /\ \A i \in 1 .. Len(ftab) : ftab[i].node # NULL =>
       /\ ftab'[i].node = ftab[i].node /\ ftab'[i].excl = ftab[i].excl
       /\ Modes(ftab[i].read, ftab[i].write) \subseteq Modes(ftab'[i].read, ftab'[i].write)
\* Every entry is of the file it was of, in the modes it was in.
SameFiles ==
  /\ Len(ftab') = Len(ftab) /\ ftab_base' = ftab_base
  /\ \A i \in 1 .. Len(ftab) : /\ ftab'[i].node = ftab[i].node /\ ftab'[i].excl = ftab[i].excl
                               /\ ftab'[i].read = ftab[i].read /\ ftab'[i].write = ftab[i].write
\* A step of t that leaves all processes but w alone; no other thread looks at that one.
Elsewhere(w) == \A p \in Proc \ {w} : fds'[p] = fds[p] /\ procs'[p] = procs[p]
Own(t, w) == \A u \in Thread \ {t} : pc[u] # "idle" => owner[u] # w /\ local[u].proc # w

\* No other thread works for the process that a call is for.
LEMMA OwnProc ==
  ASSUME ForkInv, OneThread, NEW t \in Thread, pc[t] # "idle"
  PROVE  Own(t, local[t].proc) /\ local[t].proc \in Proc
<1>1. \A u \in Thread : ThreadAt(u)
  BY DEF ForkInv
<1>2. ForAt(t) /\ DoesAt(t) /\ local[t].op \in {"none", "open", "read", "write", "start", "fork"}
      /\ pc[t] \in ForkSteps
  BY <1>1, ForkFields DEF ForkInv, ThreadAt
<1>3. local[t].op # "none"
  BY <1>2 DEF DoesAt, ForkSteps, OpenSteps, Copying, Using
<1>4. local[t].proc \in Proc /\ (local[t].proc = owner[t] \/ procs[local[t].proc] = "new")
  BY <1>2, <1>3 DEF ForAt
<1>5. ASSUME NEW u \in Thread \ {t}, pc[u] # "idle" PROVE owner[u] # local[t].proc /\ local[u].proc # local[t].proc
  <2>1. procs[owner[u]] = "alive"
    BY <1>1, <1>5 DEF ThreadAt, ForAt
  <2>2. owner[u] # owner[t]
    BY <1>5 DEF OneThread
  <2>3. local[u].proc # local[t].proc
    BY <1>5 DEF ForkInv, InvApart
  <2> QED
    BY <1>4, <2>1, <2>2, <2>3
<1> QED
  BY <1>4, <1>5 DEF Own
\* No other thread works for the process of a thread.
LEMMA OwnSelf ==
  ASSUME ForkInv, OneThread, NEW t \in Thread, procs[owner[t]] = "alive"
  PROVE  Own(t, owner[t]) /\ owner[t] \in Proc
<1>1. ASSUME NEW u \in Thread \ {t}, pc[u] # "idle" PROVE owner[u] # owner[t] /\ local[u].proc # owner[t]
  <2>1. ForAt(u) /\ DoesAt(u) /\ local[u].op \in {"none", "open", "read", "write", "start", "fork"}
        /\ pc[u] \in ForkSteps
    BY ForkFields DEF ForkInv, ThreadAt
  <2>2. local[u].op # "none"
    BY <1>1, <2>1 DEF DoesAt, ForkSteps, OpenSteps, Copying, Using
  <2>3. local[u].proc = owner[u] \/ procs[local[u].proc] = "new"
    BY <1>1, <2>1, <2>2 DEF ForAt
  <2>4. owner[u] # owner[t]
    BY <1>1 DEF OneThread
  <2> QED
    BY <2>3, <2>4
<1> QED
  BY <1>1, Constants DEF Own
\* No thread works for a structure that is free.
LEMMA OwnFree ==
  ASSUME ForkInv, NEW t \in Thread, NEW w \in Proc, procs[w] = "free"
  PROVE  Own(t, w)
<1>1. ASSUME NEW u \in Thread \ {t}, pc[u] # "idle" PROVE owner[u] # w /\ local[u].proc # w
  <2>1. ForAt(u) /\ DoesAt(u) /\ local[u].op \in {"none", "open", "read", "write", "start", "fork"}
        /\ pc[u] \in ForkSteps
    BY ForkFields DEF ForkInv, ThreadAt
  <2>2. local[u].op # "none"
    BY <1>1, <2>1 DEF DoesAt, ForkSteps, OpenSteps, Copying, Using
  <2>3. procs[owner[u]] = "alive" /\ (local[u].proc = owner[u] \/ procs[local[u].proc] = "new")
    BY <1>1, <2>1, <2>2 DEF ForAt
  <2> QED
    BY <2>3
<1> QED
  BY <1>1 DEF Own

-----------------------------------------------------------------------------
\* The files of SameFiles are those of TableGrows.
LEMMA SameGrows ==
  ASSUME ForkType, SameFiles
  PROVE  TableGrows
BY ForkTable DEF SameFiles, TableGrows
\* A pointer to what is open stays one, of this table or of one that it has moved to.
LEMMA PointsStays ==
  ASSUME ForkType, ForkType', TableGrows, NEW ptr, NEW node, NEW r, NEW x, Points(ptr, node, r, x),
         NEW q, q[2] = ptr[2], q[1] <= ftab_base'
  PROVE  Points(q, node, r, x)'
<1>1. PICK n \in Nat : n = Len(ftab)
  BY ForkTable
<1>2. PICK m \in Nat : m = Len(ftab')
  BY DEF ForkType
<1>3. n <= m /\ q[2] \in 1 .. n
  BY <1>1, <1>2 DEF TableGrows, Points
<1>4. q[2] \in 1 .. Len(ftab')
  BY <1>2, <1>3
<1>5. ftab[q[2]].node = node /\ node \in Node /\ node # NULL
  BY Constants DEF Points
<1>6. /\ ftab'[q[2]].node = node
      /\ Modes(ftab[q[2]].read, ftab[q[2]].write) \subseteq Modes(ftab'[q[2]].read, ftab'[q[2]].write)
  BY <1>1, <1>3, <1>5 DEF TableGrows
<1> QED
  BY <1>4, <1>5, <1>6 DEF Points
\* A descriptor that refers to an open entry still does.
LEMMA StillPoints ==
  ASSUME ForkType, ForkType', TableGrows, NEW fd, PointsFd(fd), fd.ftab[1] \in Nat
  PROVE  PointsFd(fd)'
<1>1. fd.ftab = NoPointer => PointsFd(fd)'
  BY DEF PointsFd
<1>2. ASSUME Points(fd.ftab, fd.for, fd.read, fd.write) PROVE PointsFd(fd)'
  <2>1. fd.ftab[1] <= ftab_base' 
    BY <1>2 DEF Points, TableGrows, ForkType
  <2> QED
    BY <1>2, <2>1, PointsStays DEF PointsFd
<1> QED
  BY <1>1, <1>2 DEF PointsFd
\* A thread that does not move keeps what is known of it.
LEMMA OtherThread ==
  ASSUME ForkInv, ForkType', NEW t \in Thread, NEW u \in Thread \ {t}, NEW w \in Proc, Mine(t),
         TableGrows, pc[u] \in InTable => SameFiles, Own(t, w), Elsewhere(w)
  PROVE  ThreadAt(u)'
<1>1. /\ pc'[u] = pc[u] /\ local'[u] = local[u] /\ DoesAt(u) /\ ForAt(u) /\ WalksAt(u)
      /\ OpenedAt(u) /\ CreatesAt(u) /\ ForksAt(u)
  BY DEF ForkInv, ThreadAt, Mine
<1>2. /\ pc[u] # "idle" => /\ local[u].proc \in Proc /\ owner[u] \in Proc
                           /\ fds'[local[u].proc] = fds[local[u].proc] /\ procs'[local[u].proc] = procs[local[u].proc]
                           /\ fds'[owner[u]] = fds[owner[u]] /\ procs'[owner[u]] = procs[owner[u]]
  BY <1>1, Constants DEF ForAt, Own, Elsewhere
<1>3. /\ Len(ftab) \in Nat /\ ftab_base \in Nat /\ Len(ftab') \in Nat /\ ftab_base' \in Nat
      /\ Len(ftab) <= Len(ftab') /\ ftab_base <= ftab_base'
  BY ForkTable DEF ForkInv, TableGrows, ForkType
<1>4. local[u].op \in {"none", "open", "read", "write", "start", "fork"} /\ pc[u] \in ForkSteps
      /\ local[u].idx \in Nat /\ local[u].ptr \in Nat \X Nat /\ local[u].left \in Nat
  BY ForkFields DEF ForkInv
<1>5. DoesAt(u)'
  BY <1>1 DEF DoesAt
<1>6. ForAt(u)'
  BY <1>1, <1>2 DEF ForAt
<1>7. WalksAt(u)'
  <2>1. CASE pc[u] \in InTable
    <3>1. PICK i : i = local[u].idx
      OBVIOUS
    <3>2. pc[u] # "scan" => i \in 1 .. Len(ftab)
      BY <1>1, <2>1, <3>1 DEF WalksAt, InTable
    <3>3. pc[u] # "scan" => /\ ftab'[i].node = ftab[i].node /\ ftab'[i].read = ftab[i].read
                            /\ ftab'[i].write = ftab[i].write
      BY <2>1, <3>2 DEF SameFiles
    <3>4. pc[u] # "scan" => Widened(u, ftab[i])' = Widened(u, ftab[i])
      BY <1>1, <3>1, <3>3 DEF Widened
    <3>5. Len(ftab') = Len(ftab) /\ local'[u].idx = i
      BY <1>1, <2>1, <3>1 DEF SameFiles
    <3>6. pc[u] = "vfs_reopen" => ftab'[i].node = local'[u].node /\ local'[u].mode = Widened(u, ftab[i])'
      BY <1>1, <3>1, <3>3, <3>4 DEF WalksAt
    <3>7. /\ pc[u] = "scan" => i \in 1 .. Len(ftab') + 1
          /\ pc[u] \in {"entry_lock", "entry"} => ftab'[i].node \in {NULL, local'[u].node}
          /\ pc[u] = "vfs_open" => ftab'[i].node = NULL
      BY <1>1, <3>1, <3>3, <3>5 DEF WalksAt
    <3> QED
      BY <1>1, <3>1, <3>2, <3>5, <3>6, <3>7 DEF WalksAt
  <2>2. CASE pc[u] \notin InTable
    BY <1>1, <1>3, <2>2 DEF WalksAt, InTable
  <2> QED
    BY <2>1, <2>2
<1>8. OpenedAt(u)'
  <2>1. PICK ptr, i, node, r, x : /\ ptr = local[u].ptr /\ i = local[u].idx /\ node = local[u].node
                                  /\ r = local[u].read /\ x = local[u].write
    OBVIOUS
  <2>2. ASSUME pc[u] \in {"unlock", "opened"} PROVE Points(<<ftab_base, i>>, node, r, x)'
    <3>1. Points(<<ftab_base, i>>, node, r, x)
      BY <1>1, <2>1, <2>2 DEF OpenedAt
    <3>2. PICK b, c : b = ftab_base /\ c = ftab_base'
      OBVIOUS
    <3>3. Points(<<b, i>>, node, r, x) /\ <<c, i>>[2] = <<b, i>>[2] /\ <<c, i>>[1] <= ftab_base'
      BY <1>3, <3>1, <3>2
    <3>4. Points(<<c, i>>, node, r, x)'
      BY <3>3, PointsStays DEF ForkInv
    <3> QED
      BY <3>2, <3>4
  <2>3. ASSUME pc[u] \in {"slot", "fill"} PROVE Points(ptr, node, r, x)'
    <3>1. Points(ptr, node, r, x)
      BY <1>1, <2>1, <2>3 DEF OpenedAt
    <3>2. ptr[1] \in Nat /\ ptr[1] <= ftab_base
      BY <1>4, <2>1, <3>1 DEF Points
    <3>3. ptr[1] <= ftab_base'
      BY <1>3, <3>2
    <3> QED
      BY <3>1, <3>3, PointsStays DEF ForkInv
  <2>4. /\ ptr = local'[u].ptr /\ i = local'[u].idx /\ node = local'[u].node
        /\ r = local'[u].read /\ x = local'[u].write
    BY <1>1, <2>1
  <2>5. /\ pc[u] \in Using \union {"fill", "reopen_lock"} => local[u].fd \in 1 .. Len(fds[local[u].proc])
        /\ pc[u] = "fill" => fds[local[u].proc][local[u].fd].ftab \in {NoPointer, local[u].ptr}
    BY <1>1 DEF OpenedAt
  <2> QED
    BY <1>1, <1>2, <2>2, <2>3, <2>4, <2>5 DEF OpenedAt, Using
<1>9. CreatesAt(u)'
  <2>1. Creates(u)' <=> Creates(u)
    BY <1>1 DEF Creates
  <2>2. Creates(u) => pc[u] # "idle"
    BY <1>1 DEF Creates, DoesAt
  <2> QED
    <3>1. CASE ~Creates(u)
      BY <2>1, <3>1 DEF CreatesAt
    <3>2. CASE Creates(u)
      <4>1. fds'[local'[u].proc] = fds[local[u].proc] /\ Has(u)' = Has(u)
        BY <1>1, <1>2, <2>2, <3>2 DEF Has
      <4>2. \A n : Standard(local[u].proc, n)' <=> Standard(local[u].proc, n)
        BY <1>1, <1>2, <2>2, <3>2 DEF Standard
      <4> QED
        BY <1>1, <2>1, <4>1, <4>2, Zenon DEF CreatesAt
    <3> QED
      BY <3>1, <3>2
<1>10. ForksAt(u)'
  <2> SUFFICES ASSUME local[u].op = "fork", pc[u] \in OpenSteps \union {"done"}, Current(owner[u])'
               PROVE  /\ \A j \in 1 .. Has(u) : fds[local[u].proc][j].ftab[1] = ftab_base'
                      /\ pc[u] \in {"slot", "fill"} => local[u].ptr[1] = ftab_base'
    <3>1. pc[u] = "idle" => local[u].op # "fork"
      BY <1>1 DEF DoesAt
    <3> QED
      BY <1>1, <1>2, <3>1 DEF ForksAt, Has
  <2>1. pc[u] # "idle" /\ owner[u] \in Proc
    BY <1>1, Constants DEF DoesAt
  <2>2. PICK j \in 1 .. STDFDS : j <= Len(fds[owner[u]]) /\ fds[owner[u]][j].ftab[1] = ftab_base'
    BY <1>2, <2>1 DEF Current
  <2>3. fds[owner[u]][j].ftab[1] <= ftab_base
    <3>1. Len(fds[owner[u]]) \in Nat /\ STDFDS \in Nat
      BY <2>1, ForkFds, Constants DEF ForkInv
    <3>2. j \in 1 .. Len(fds[owner[u]])
      BY <2>2, <3>1
    <3>3. PointsFd(fds[owner[u]][j])
      BY <2>1, <3>2 DEF ForkInv, ProcAt
    <3>4. PICK ptr : ptr = fds[owner[u]][j].ftab
      OBVIOUS
    <3>5. ptr = <<0, 0>> \/ ptr[1] <= ftab_base
      BY <3>3, <3>4 DEF PointsFd, Points, NoPointer
    <3> QED
      BY <1>3, <3>4, <3>5
  <2>4. ftab_base' = ftab_base
    BY <1>3, <2>2, <2>3
  <2>5. Current(owner[u])
    BY <2>2, <2>4 DEF Current
  <2> QED
    BY <1>1, <2>4, <2>5 DEF ForksAt
<1> QED
  BY <1>5, <1>6, <1>7, <1>8, <1>9, <1>10 DEF ThreadAt

\* A process that a step leaves alone is as it was.
LEMMA OtherProcess ==
  ASSUME ForkInv, ForkType', NEW t \in Thread, NEW w \in Proc, NEW p \in Proc \ {w}, Mine(t),
         TableGrows, Elsewhere(w), pc[t] # "idle" => local[t].proc = w
  PROVE  ProcAt(p)'
<1>1. ProcAt(p) /\ fds'[p] = fds[p] /\ procs'[p] = procs[p] /\ DoesAt(t)
  BY DEF ForkInv, Elsewhere, ThreadAt
<1>2. \A j \in 1 .. Len(fds[p]) : PointsFd(fds[p][j])'
  <2> SUFFICES ASSUME NEW j \in 1 .. Len(fds[p]) PROVE PointsFd(fds[p][j])'
    OBVIOUS
  <2>1. PICK fd : fd = fds[p][j]
    OBVIOUS
  <2>2. PointsFd(fd)
    BY <1>1, <2>1 DEF ProcAt
  <2>3. PointsFd(fd)'
    <3>1. fd.ftab[1] \in Nat
      BY <2>1, ForkFds DEF ForkInv
    <3> QED
      BY <2>2, <3>1, StillPoints DEF ForkInv
  <2>4. fd = fds'[p][j]
    BY <1>1, <2>1
  <2> QED
    BY <2>3, <2>4
<1>3. NotCreated(p)' => NotCreated(p)
  <2> SUFFICES ASSUME NotCreated(p)', NEW u \in Thread, Creates(u) PROVE local[u].proc # p
    BY DEF NotCreated
  <2>1. CASE u = t
    BY <1>1, <2>1 DEF Creates, DoesAt
  <2>2. CASE u # t
    BY <2>2 DEF Mine, NotCreated, Creates
  <2> QED
    BY <2>1, <2>2
<1>4. PICK f : f = fds[p]
  OBVIOUS
<1>5. f = fds'[p] /\ \A j \in 1 .. Len(f) : PointsFd(f[j])'
  BY <1>1, <1>2, <1>4
<1>6. \A j \in 1 .. Len(fds'[p]) : PointsFd(fds[p][j])'
  BY <1>1, <1>2
<1>7. Standard(p, STDFDS)' <=> Standard(p, STDFDS)
  BY <1>1 DEF Standard
<1> QED
  BY <1>1, <1>3, <1>6, <1>7 DEF ProcAt

\* Who is in the table, and the mutex.
LockStep(t) ==
  /\ pc'[t] \in InTable => ftab_mutex' = TRUE /\ (pc[t] \in InTable \/ ftab_mutex = FALSE)
  /\ ftab_mutex' = FALSE => ftab_mutex = FALSE \/ pc[t] \in InTable
\* A step keeps the invariant if it does for the thread, the process and the table it changes.
LEMMA ForkStep ==
  ASSUME ForkInv, ForkType', OneThread, NEW t \in Thread, NEW w \in Proc, Mine(t), TableGrows,
         pc[t] \in InTable \/ SameFiles, LockStep(t), Own(t, w), Elsewhere(w),
         pc[t] # "idle" => local[t].proc = w, pc'[t] # "idle" => local'[t].proc = w,
         ThreadAt(t)', ProcAt(w)', InvConsole', \A i \in 1 .. Len(ftab') : CountAt(i)'
  PROVE  ForkInv'
<1>1. \A u \in Thread : ThreadAt(u)'
  <2> SUFFICES ASSUME NEW u \in Thread \ {t} PROVE ThreadAt(u)'
    OBVIOUS
  <2>1. pc[u] \in InTable => SameFiles
    BY DEF ForkInv, InvLock
  <2> QED
    BY <2>1, OtherThread
<1>2. \A p \in Proc : ProcAt(p)'
  <2> SUFFICES ASSUME NEW p \in Proc \ {w} PROVE ProcAt(p)'
    OBVIOUS
  <2> QED
    BY OtherProcess
<1>3. InvLock'
  <2>1. InvLock /\ ftab_mutex \in BOOLEAN /\ ftab_mutex' \in BOOLEAN
    BY ForkTable DEF ForkInv, ForkType
  <2> QED
    BY <2>1 DEF InvLock, LockStep, Mine
<1>4. InvApart'
  BY DEF ForkInv, InvApart, Own, Mine
<1> QED
  BY <1>1, <1>2, <1>3, <1>4 DEF ForkInv

-----------------------------------------------------------------------------
\* The descriptors of all processes are of the files they were of.
FdsSame ==
  \A p \in Proc : /\ Len(fds'[p]) = Len(fds[p])
                  /\ \A j \in 1 .. Len(fds[p]) :
                       /\ fds'[p][j].ftab = fds[p][j].ftab /\ fds'[p][j].for = fds[p][j].for
                       /\ fds'[p][j].read = fds[p][j].read /\ fds'[p][j].write = fds[p][j].write
RefsSame == \A i \in 1 .. Len(ftab) : ftab'[i].refs = ftab[i].refs
\* Nobody is counted who was not.
LEMMA FewerDescriptors ==
  ASSUME ForkType, ForkType', NEW t \in Thread, Mine(t), FdsSame, ftab_base' = ftab_base,
         pc[t] \notin Copying
  PROVE  \A i : Descriptors(i)' \subseteq Descriptors(i)
<1> SUFFICES ASSUME NEW i, NEW d \in Descriptors(i)' PROVE d \in Descriptors(i)
  OBVIOUS
<1>1. /\ d \in Proc \X (1 .. MAX_FDS) /\ d[2] \in DOMAIN fds'[d[1]]
      /\ fds'[d[1]][d[2]].ftab = <<ftab_base, i>>
      /\ \A u \in Thread : local'[u].proc = d[1] =>
          /\ ~(pc'[u] = "close_unlock" /\ local'[u].fd = d[2])
          /\ ~(pc'[u] \in {"reopen", "reopen_lock"} /\ local'[u].fd <= d[2])
  BY DEF Descriptors
<1>2. DOMAIN fds'[d[1]] = 1 .. Len(fds'[d[1]]) /\ DOMAIN fds[d[1]] = 1 .. Len(fds[d[1]])
      /\ Len(fds'[d[1]]) = Len(fds[d[1]])
  <2>1. d[1] \in Proc
    BY <1>1
  <2> QED
    BY <2>1 DEF ForkType, FdsSame
<1>3. d[2] \in DOMAIN fds[d[1]] /\ fds[d[1]][d[2]].ftab = <<ftab_base, i>>
  BY <1>1, <1>2 DEF FdsSame
<1>4. ASSUME NEW u \in Thread, local[u].proc = d[1]
      PROVE  /\ ~(pc[u] = "close_unlock" /\ local[u].fd = d[2])
             /\ ~(pc[u] \in {"reopen", "reopen_lock"} /\ local[u].fd <= d[2])
  <2>1. pc[u] # "close_unlock"
    BY ForkFields DEF ForkSteps, OpenSteps, Copying, Using
  <2>2. CASE u = t
    BY <2>1, <2>2 DEF Copying
  <2>3. CASE u # t
    BY <1>1, <1>4, <2>3 DEF Mine
  <2> QED
    BY <2>1, <2>2, <2>3
<1> QED
  BY <1>1, <1>3, <1>4 DEF Descriptors
\* No thread is counted that was not.
LEMMA FewerOpening ==
  ASSUME NEW t \in Thread, Mine(t), ftab_base' = ftab_base, NEW i, t \in Opening(i)' => t \in Opening(i)
  PROVE  Opening(i)' \subseteq Opening(i)
BY DEF Opening, Mine
\* The count covers as many or fewer.
LEMMA FewerCounted ==
  ASSUME ForkType, NEW i \in 1 .. Len(ftab), CountAt(i), ftab'[i].refs = ftab[i].refs,
         ftab'[i].node = ftab[i].node,
         Descriptors(i)' \subseteq Descriptors(i), Opening(i)' \subseteq Opening(i)
  PROVE  CountAt(i)'
<1>1. /\ Cardinality(Descriptors(i)') <= Cardinality(Descriptors(i))
      /\ Cardinality(Opening(i)') <= Cardinality(Opening(i))
  BY Users, FewerUsers
<1>2. ftab[i].refs \in Nat
  BY ForkEntry
<1>3. ftab'[i].refs >= Cardinality(Descriptors(i)') + Cardinality(Opening(i)')
  BY <1>1, <1>2, Users DEF CountAt
<1> QED
  BY <1>3 DEF CountAt

\* Of the process that a step is for, if all files are where they were.
MayRun(t, w) ==
  /\ procs' \in [Proc -> {"free", "new", "alive"}]
  /\ procs'[w] = "free" => procs[w] = "free"
  /\ procs'[w] = "alive" => \/ Creates(t)' \/ Standard(w, STDFDS)
                            \/ procs[w] = "alive" /\ ~Creates(t)
\* A process whose descriptors stay as they are.
LEMMA SameProcess ==
  ASSUME ForkInv, ForkType', NEW t \in Thread, NEW w \in Proc, Mine(t), TableGrows, FdsSame, MayRun(t, w),
         DoesAt(t)', pc'[t] # "idle" => local'[t].proc = w
  PROVE  ProcAt(w)'
<1>1. ProcAt(w) /\ fds' \in [Proc -> Seq(FdType)]
  BY DEF ForkInv, ForkType
<1>2. procs'[w] = "free" => fds'[w] = <<>>
  <2> SUFFICES ASSUME procs'[w] = "free" PROVE fds'[w] = <<>>
    OBVIOUS
  <2>1. fds[w] = <<>> /\ fds'[w] \in Seq(FdType) /\ Len(fds'[w]) = Len(fds[w])
    BY <1>1 DEF ProcAt, MayRun, FdsSame
  <2>2. Len(fds'[w]) = 0
    BY <2>1
  <2> QED
    BY <2>1, <2>2
<1>3. Standard(w, STDFDS) => Standard(w, STDFDS)'
  <2>1. STDFDS \in Nat /\ Len(fds[w]) \in Nat
    BY Constants, ForkFds DEF ForkInv
  <2> QED
    BY <2>1 DEF Standard, FdsSame
<1>4. procs'[w] = "alive" /\ NotCreated(w)' => Standard(w, STDFDS)'
  <2> SUFFICES ASSUME procs'[w] = "alive", NotCreated(w)' PROVE Standard(w, STDFDS)
    BY <1>3
  <2>1. ~Creates(t)'
    BY DEF NotCreated, Creates, DoesAt
  <2>2. CASE procs[w] = "alive" /\ ~Creates(t)
    <3>1. NotCreated(w)
      BY <2>2 DEF NotCreated, Creates, Mine
    <3> QED
      BY <1>1, <2>2, <3>1 DEF ProcAt
  <2> QED
    BY <2>1, <2>2 DEF MayRun
<1>5. \A j \in 1 .. Len(fds'[w]) : PointsFd(fds[w][j])'
  <2> SUFFICES ASSUME NEW j \in 1 .. Len(fds[w]) PROVE PointsFd(fds[w][j])'
    BY DEF FdsSame
  <2>1. PICK fd : fd = fds[w][j]
    OBVIOUS
  <2>2. PICK new : new = fds'[w][j]
    OBVIOUS
  <2>3. fd.ftab[1] \in Nat /\ PointsFd(fd)
    BY <1>1, <2>1, ForkFds DEF ForkInv, ProcAt
  <2>4. PointsFd(fd)'
    BY <2>3, StillPoints DEF ForkInv
  <2>5. new.ftab = fd.ftab /\ new.for = fd.for /\ new.read = fd.read /\ new.write = fd.write
    BY <2>1, <2>2 DEF FdsSame
  <2>6. PointsFd(new)'
    BY <2>4, <2>5 DEF PointsFd
  <2> QED
    BY <2>2, <2>6
<1> QED
  BY <1>2, <1>4, <1>5 DEF ProcAt

\* The console stays open.
LEMMA ConsoleStays ==
  ASSUME ForkInv, ForkType', TableGrows, ConsoleOpen
  PROVE  ConsoleOpen'
<1>1. dev_console # NULL
  BY Constants
<1>2. Len(ftab) \in Nat /\ Len(ftab') \in Nat /\ Len(ftab) <= Len(ftab')
  BY ForkTable DEF ForkInv, ForkType, TableGrows
<1>3. 1 \in 1 .. Len(ftab)
  BY <1>2 DEF ConsoleOpen
<1> QED
  BY <1>1, <1>2, <1>3 DEF ConsoleOpen, TableGrows

\* A step that leaves files, counts and descriptors alone.
LEMMA QuietFork ==
  ASSUME ForkInv, OneThread, NEW t \in Thread, NEW w \in Proc, NEW L, NEW s, Moves(t, L, s),
         SameFiles, RefsSame, FdsSame, Elsewhere(w), MayRun(t, w), LockStep(t), Own(t, w),
         ftab' \in Seq(EntryType), fds' \in [Proc -> Seq(FdType)], ftab_mutex' \in BOOLEAN,
         pc[t] # "idle" => local[t].proc = w, s # "idle" => L.proc = w, ThreadAt(t)',
         ConsoleOpen \/ Booting',
         \A i \in 1 .. Len(ftab) : /\ Descriptors(i)' \subseteq Descriptors(i)
                                   /\ t \in Opening(i)' => t \in Opening(i)
  PROVE  ForkInv'
<1>1. /\ pc'[t] = s /\ local'[t] = L /\ Mine(t)
      /\ pc' \in [Thread -> ForkSteps] /\ local' \in [Thread -> ForkLocalType]
  BY WhereItMoves DEF ForkInv
<1>2. ForkType'
  BY <1>1 DEF ForkInv, ForkType, MayRun, SameFiles
<1>3. TableGrows
  BY SameGrows DEF ForkInv
<1>4. ProcAt(w)'
  <2>1. DoesAt(t)'
    BY DEF ThreadAt
  <2> QED
    BY <1>1, <1>2, <1>3, <2>1, SameProcess
<1>5. InvConsole'
  BY <1>2, <1>3, ConsoleStays DEF InvConsole
<1>6. \A i \in 1 .. Len(ftab') : CountAt(i)'
  <2> SUFFICES ASSUME NEW i \in 1 .. Len(ftab) PROVE CountAt(i)'
    BY DEF SameFiles
  <2>1. Opening(i)' \subseteq Opening(i)
    BY <1>1, FewerOpening DEF SameFiles
  <2> QED
    BY <2>1, FewerCounted DEF ForkInv, SameFiles, RefsSame
<1> QED
  BY <1>1, <1>2, <1>3, <1>4, <1>5, <1>6, ForkStep

-----------------------------------------------------------------------------
(* Steps that leave the tables as they are, but for mutexes.               *)

\* Before the console is open, the kernel's thread alone runs, and is opening it.
BootSteps == {"ftab_lock", "scan", "entry_lock", "entry", "vfs_open"}
\* Before the console is open, only the thread of the kernel runs, and opens it.
LEMMA ConsoleFirst ==
  ASSUME ForkInv, NEW t \in Thread, Running(t), ~ConsoleOpen
  PROVE  /\ Booting /\ owner[t] = proc_kernel /\ Creates(t) /\ pc[t] \in BootSteps
         /\ Len(ftab) >= 1 => ftab[1].node = NULL
<1>1. Booting
  BY DEF ForkInv, InvConsole
<1>2. owner[t] = proc_kernel
  BY <1>1, Constants DEF Booting, Running
<1> QED
  BY <1>1, <1>2 DEF Booting, BootSteps
\* That thread has not opened it yet.
LEMMA BootStays ==
  ASSUME ForkInv, OneThread, NEW t \in Thread, Running(t), ~ConsoleOpen, Mine(t), procs' = procs,
         Creates(t)', pc'[t] \in BootSteps, Len(ftab') >= 1 => ftab'[1].node = NULL
  PROVE  Booting'
<1>1. Booting /\ owner[t] = proc_kernel
  BY ConsoleFirst
<1>2. \A u \in Thread : owner[u] = proc_kernel => u = t
  BY <1>1 DEF OneThread
<1> QED
  BY <1>1, <1>2 DEF Booting, BootSteps

\* A call that goes on.
SameCall(L, l) ==
  /\ L.op = l.op /\ L.proc = l.proc /\ L.left = l.left /\ L.node = l.node /\ L.duplicate = l.duplicate
  /\ L.read = l.read /\ L.write = l.write /\ L.excl \in {FALSE, l.excl}
\* An open goes on, and changes no count.
LEMMA WalksOnFork ==
  ASSUME ForkInv, OneThread, NEW t \in Thread, NEW L, NEW s \in OpenSteps, Moves(t, L, s),
         Running(t), pc[t] \in OpenSteps, SameCall(L, local[t]),
         SameFiles, RefsSame, fds' = fds, procs' = procs, LockStep(t),
         ftab' \in Seq(EntryType), ftab_mutex' \in BOOLEAN,
         WalksAt(t)', OpenedAt(t)',
         Creates(t) => /\ s \in InTable \union {"opened"} => L.idx = 1
                       /\ s \in {"slot", "fill"} => L.ptr[2] = 1
                       /\ s = "fill" => L.fd = Has(t) + 1,
         s \in {"slot", "fill"} => \/ L.ptr[1] = ftab_base
                                   \/ L.ptr = local[t].ptr /\ pc[t] \in {"slot", "fill"},
         ConsoleOpen \/ s \in BootSteps,
         \A i : t \in Opening(i)' => t \in Opening(i)
  PROVE  ForkInv'
<1>1. /\ pc'[t] = s /\ local'[t] = L /\ Mine(t) /\ ForkType
  BY WhereItMoves DEF ForkInv
<1>2. DoesAt(t) /\ ForAt(t) /\ CreatesAt(t) /\ ForksAt(t)
  BY DEF ForkInv, ThreadAt
<1>3. pc[t] \notin {"idle", "done"} \union Copying \union Using /\ s \notin {"idle", "done"} \union Copying \union Using
  BY DEF OpenSteps, Copying, Using
<1>4. DoesAt(t)'
  BY <1>1, <1>2, <1>3 DEF DoesAt, SameCall
<1>5. ForAt(t)'
  BY <1>1, <1>2, <1>3 DEF ForAt, SameCall
<1>6. CreatesAt(t)'
  <2>1. (Creates(t)' <=> Creates(t)) /\ local'[t].proc = local[t].proc /\ Has(t)' = Has(t)
    BY <1>1 DEF Creates, SameCall, Has
  <2>2. \A n : Standard(local[t].proc, n)' <=> Standard(local[t].proc, n)
    BY <1>1 DEF Standard, SameCall
  <2>3. CASE Creates(t)
    <3>1. /\ local[t].left <= STDFDS /\ Standard(local[t].proc, Has(t))
          /\ Len(fds[local[t].proc]) = 0 \/ Len(fds[local[t].proc]) >= STDFDS
          /\ \A j \in 1 .. Len(fds[local[t].proc]) : j > Has(t) => fds[local[t].proc][j].ftab = NoPointer
          /\ local[t].left > 0 /\ local[t].node = dev_console /\ local[t].duplicate = TRUE /\ local[t].excl = FALSE
      BY <1>2, <2>3 DEF CreatesAt
    <3>2. /\ L.left <= STDFDS /\ Standard(local[t].proc, Has(t))'
          /\ L.left > 0 /\ L.node = dev_console /\ L.duplicate = TRUE /\ L.excl = FALSE
      BY <2>1, <2>2, <3>1 DEF SameCall
    <3> QED
      BY <1>1, <1>3, <2>1, <2>3, <3>1, <3>2 DEF CreatesAt
  <2>4. CASE ~Creates(t)
    BY <2>1, <2>4 DEF CreatesAt
  <2> QED
    BY <2>3, <2>4
<1>7. ForksAt(t)'
  <2>1. Current(owner[t])' <=> Current(owner[t])
    BY DEF Current, SameFiles
  <2>2. Has(t)' = Has(t) /\ ftab_base' = ftab_base /\ local'[t].op = local[t].op /\ local'[t].proc = local[t].proc
    BY <1>1 DEF SameCall, Has, SameFiles
  <2> QED
    BY <1>1, <1>2, <2>1, <2>2 DEF ForksAt
<1>8. ThreadAt(t)'
  BY <1>4, <1>5, <1>6, <1>7 DEF ThreadAt
<1>9. PICK w : w = local[t].proc
  OBVIOUS
<1>10. Own(t, w) /\ w \in Proc
  BY <1>3, <1>9, OwnProc
<1>11. FdsSame /\ Elsewhere(w)
  BY DEF FdsSame, Elsewhere
<1>12. MayRun(t, w)
  <2>1. Creates(t)' <=> Creates(t)
    BY <1>1 DEF Creates, SameCall
  <2> QED
    BY <1>1, <2>1 DEF MayRun, ForkType
<1>13. ConsoleOpen \/ Booting'
  <2> SUFFICES ASSUME ~ConsoleOpen PROVE Booting'
    OBVIOUS
  <2>1. Creates(t) /\ (Len(ftab) >= 1 => ftab[1].node = NULL)
    BY ConsoleFirst
  <2>2. Creates(t)'
    BY <1>1, <2>1 DEF Creates, SameCall
  <2>3. Len(ftab') >= 1 => ftab'[1].node = NULL
    <3>1. Len(ftab) \in Nat
      BY <1>1, ForkTable
    <3>2. Len(ftab) >= 1 => 1 \in 1 .. Len(ftab)
      BY <3>1
    <3> QED
      BY <2>1, <3>2 DEF SameFiles
  <2> QED
    BY <1>1, <2>2, <2>3, BootStays
<1>14. \A i : Descriptors(i)' \subseteq Descriptors(i)
  <2>1. ForkType'
    BY <1>1, WhereItMoves DEF ForkType, SameFiles
  <2> QED
    BY <1>1, <1>3, <1>11, <2>1, FewerDescriptors DEF SameFiles
<1>15. fds' \in [Proc -> Seq(FdType)]
  BY <1>1 DEF ForkType
<1> QED
  BY <1>1, <1>3, <1>8, <1>9, <1>10, <1>11, <1>12, <1>13, <1>14, <1>15, QuietFork DEF SameCall

\* A thread that has returned.
LEMMA IdleAt ==
  ASSUME NEW t \in Thread, pc'[t] = "idle", local'[t].op = "none"
  PROVE  ThreadAt(t)'
BY DEF ThreadAt, DoesAt, ForAt, WalksAt, OpenedAt, CreatesAt, ForksAt, Creates, OpenSteps, InTable, Copying, Using
\* The local variables of a thread that is in no call.
LEMMA NoForkLocal ==
  NoLocal \in ForkLocalType /\ NoLocal.op = "none" /\ NoLocal.ptr = NoPointer /\ NoLocal.idx = 0
BY DEF NoLocal, ForkLocalType, NoPointer
\* A call returns that creates no process, or one that gives up on it.
LEMMA ReturnsQuietly ==
  ASSUME ForkInv, OneThread, NEW t \in Thread, Running(t), Return(t), pc[t] # "idle",
         ~Creates(t) \/ procs'[local[t].proc] # "alive" \/ Standard(local[t].proc, STDFDS),
         SameFiles, RefsSame, FdsSame, Elsewhere(local[t].proc), procs' \in [Proc -> {"free", "new", "alive"}],
         procs'[local[t].proc] \in {procs[local[t].proc], "alive"},
         ~Creates(t) => procs'[local[t].proc] = procs[local[t].proc], LockStep(t),
         ftab' \in Seq(EntryType), fds' \in [Proc -> Seq(FdType)], ftab_mutex' \in BOOLEAN,
         ConsoleOpen, \A i : Descriptors(i)' \subseteq Descriptors(i)
  PROVE  ForkInv'
<1>1. Moves(t, NoLocal, "idle")
  BY NoForkLocal DEF Return, Goto, Moves, ForkSteps
<1>2. pc'[t] = "idle" /\ local'[t] = NoLocal /\ Mine(t)
  BY <1>1, WhereItMoves DEF ForkInv
<1>3. ThreadAt(t)'
  BY <1>2, NoForkLocal, IdleAt
<1>4. PICK w : w = local[t].proc
  OBVIOUS
<1>5. Own(t, w) /\ w \in Proc
  BY <1>4, OwnProc
<1>6. MayRun(t, w)
  BY <1>4 DEF MayRun
<1>7. \A i : t \in Opening(i)' => t \in Opening(i)
  BY <1>2 DEF Opening
<1> QED
  BY <1>1, <1>2, <1>3, <1>4, <1>5, <1>6, <1>7, QuietFork

\* An entry is replaced (fs/ftab.c).
LEMMA ForkEntrySet ==
  ASSUME ForkType, NEW i \in 1 .. Len(ftab), NEW e \in EntryType, ftab' = [ftab EXCEPT ![i] = e]
  PROVE  /\ ftab' \in Seq(EntryType) /\ Len(ftab') = Len(ftab) /\ ftab'[i] = e
         /\ \A j \in 1 .. Len(ftab) : j # i => ftab'[j] = ftab[j]
BY ForkTable
\* The mutex of an entry is taken or given back.
LEMMA ForkMutexSet ==
  ASSUME ForkType, NEW i \in 1 .. Len(ftab), NEW b \in BOOLEAN, ftab' = [ftab EXCEPT ![i].mutex = b],
         ftab_base' = ftab_base
  PROVE  ftab' \in Seq(EntryType) /\ SameFiles /\ RefsSame
<1>1. PICK e : e = [ftab[i] EXCEPT !.mutex = b]
  OBVIOUS
<1>2. /\ e \in EntryType /\ e.node = ftab[i].node /\ e.excl = ftab[i].excl /\ e.refs = ftab[i].refs
      /\ e.read = ftab[i].read /\ e.write = ftab[i].write
  BY <1>1, ForkEntry DEF EntryType
<1>3. ftab' = [ftab EXCEPT ![i] = e]
  BY <1>1
<1>4. /\ ftab' \in Seq(EntryType) /\ Len(ftab') = Len(ftab) /\ ftab'[i] = e
      /\ \A j \in 1 .. Len(ftab) : j # i => ftab'[j] = ftab[j]
  BY <1>2, <1>3, ForkEntrySet
<1> QED
  BY <1>2, <1>4 DEF SameFiles, RefsSame
\* Both mutexes are given back.
LEMMA ForkUnlocked ==
  ASSUME ForkType, NEW i \in 1 .. Len(ftab), Unlocked(i), ftab_base' = ftab_base
  PROVE  ftab' \in Seq(EntryType) /\ SameFiles /\ RefsSame /\ ftab_mutex' = FALSE
<1>1. PICK b \in BOOLEAN : b = FALSE
  OBVIOUS
<1>2. ftab' = [ftab EXCEPT ![i].mutex = b] /\ ftab_mutex' = FALSE
  BY <1>1 DEF Unlocked
<1> QED
  BY <1>2, ForkMutexSet
\* The table stays as it is.
LEMMA NothingSet ==
  ASSUME ForkType, UNCHANGED <<ftab, ftab_base>>
  PROVE  ftab' \in Seq(EntryType) /\ SameFiles /\ RefsSame
BY DEF ForkType, SameFiles, RefsSame

\* ftab_mutex is taken, the table is gone through (fs/ftab.c).
LEMMA OpenLockForks ==
  ASSUME ForkInv, OneThread, NEW t \in Thread, OpenLock(t)
  PROVE  ForkInv'
<1>1. PICK L : L = [local[t] EXCEPT !.idx = 1]
  OBVIOUS
<1>2. ForkType /\ local[t] \in ForkLocalType /\ ftab_mutex \in BOOLEAN /\ Len(ftab) \in Nat
  BY ForkFields, ForkTable DEF ForkInv
<1>3. /\ Running(t) /\ pc[t] = "ftab_lock" /\ ftab_mutex = FALSE /\ ftab_mutex' = TRUE
      /\ UNCHANGED <<ftab, ftab_base, procs, fds>>
      /\ pc' = [pc EXCEPT ![t] = "scan"] /\ local' = [local EXCEPT ![t] = L]
  BY <1>1, <1>2 DEF OpenLock, At, Goto
<1>4. L \in ForkLocalType /\ SameCall(L, local[t]) /\ L.idx = 1
  BY <1>1, <1>2 DEF ForkLocalType, SameCall
<1>5. Moves(t, L, "scan") /\ "scan" \in OpenSteps /\ pc[t] \in OpenSteps
  BY <1>3, <1>4 DEF Moves, ForkSteps, OpenSteps
<1>6. pc'[t] = "scan" /\ local'[t] = L
  BY <1>2, <1>5, WhereItMoves
<1>7. WalksAt(t)' /\ OpenedAt(t)'
  BY <1>2, <1>3, <1>4, <1>6 DEF WalksAt, OpenedAt, InTable, Using
<1>8. LockStep(t)
  BY <1>3, <1>6 DEF LockStep, InTable
<1>9. \A i : t \notin Opening(i)'
  BY <1>6 DEF Opening
<1>10. ftab' \in Seq(EntryType) /\ SameFiles /\ RefsSame
  BY <1>2, <1>3, NothingSet
<1> QED
  BY <1>3, <1>4, <1>5, <1>7, <1>8, <1>9, <1>10, WalksOnFork DEF BootSteps

\* The entry that a process being created comes to is the first, and the console's.
LEMMA CreatorsFirst ==
  ASSUME ForkInv, NEW t \in Thread, Running(t), pc[t] \in InTable \ {"vfs_open", "vfs_reopen", "unlock"}, Creates(t)
  PROVE  /\ local[t].idx = 1 /\ local[t].node = dev_console /\ local[t].excl = FALSE
         /\ Len(ftab) >= 1 => ftab[1].node \in {NULL, dev_console}
         /\ Len(ftab) >= 1 /\ ftab[1].node # NULL => ConsoleOpen
<1>1. CreatesAt(t) /\ pc[t] \in OpenSteps
  BY DEF ForkInv, ThreadAt, InTable, OpenSteps
<1>2. local[t].idx = 1 /\ local[t].node = dev_console /\ local[t].excl = FALSE
  BY <1>1 DEF CreatesAt
<1>3. CASE ConsoleOpen
  BY <1>2, <1>3 DEF ConsoleOpen
<1>4. CASE ~ConsoleOpen
  BY <1>2, <1>4, ConsoleFirst
<1> QED
  BY <1>3, <1>4

\* The scan goes on: whoever creates a process finds the console first.
LEMMA ScanNextForks ==
  ASSUME ForkInv, OneThread, NEW t \in Thread, ScanNext(t)
  PROVE  ForkInv'
<1>1. PICK i : i = local[t].idx
  OBVIOUS
<1>2. PICK L : L = [local[t] EXCEPT !.idx = i + 1]
  OBVIOUS
<1>3. ForkType /\ local[t] \in ForkLocalType /\ ftab_mutex \in BOOLEAN /\ Len(ftab) \in Nat /\ i \in Nat
      /\ DOMAIN ftab = 1 .. Len(ftab) /\ pc \in [Thread -> ForkSteps] /\ local[t].idx \in Nat
  BY <1>1, ForkFields, ForkTable DEF ForkInv, ForkType
<1>4. /\ Running(t) /\ pc[t] = "scan" /\ i \in 1 .. Len(ftab) /\ ~Fits(t, i)
      /\ UNCHANGED <<ftab, ftab_mutex, ftab_base, procs, fds, pc>>
      /\ local' = [local EXCEPT ![t] = L]
  BY <1>1, <1>2, <1>3 DEF ScanNext, At, table
<1>5. pc' = [pc EXCEPT ![t] = "scan"]
  BY <1>3, <1>4
<1>6. L \in ForkLocalType /\ SameCall(L, local[t]) /\ L.idx = i + 1
  <2>1. i + 1 \in Nat
    BY <1>3
  <2> QED
    BY <1>2, <1>3, <2>1 DEF ForkLocalType, SameCall
<1>7. Moves(t, L, "scan") /\ "scan" \in OpenSteps /\ pc[t] \in OpenSteps /\ pc[t] \in InTable
  BY <1>4, <1>5, <1>6 DEF Moves, ForkSteps, OpenSteps, InTable
<1>8. pc'[t] = "scan" /\ local'[t] = L
  BY <1>3, <1>7, WhereItMoves
<1>9. WalksAt(t)' /\ OpenedAt(t)'
  BY <1>3, <1>4, <1>6, <1>8 DEF WalksAt, OpenedAt, InTable, Using
<1>10. LockStep(t)
  BY <1>4, <1>7 DEF LockStep, ForkInv, InvLock
<1>11. \A j : t \notin Opening(j)'
  BY <1>8 DEF Opening
<1>12. ~Creates(t)
  <2>1. Creates(t) => i = 1 /\ ftab[1].node \in {NULL, local[t].node}
    <3>1. pc[t] \in InTable \ {"vfs_open", "vfs_reopen", "unlock"} /\ Len(ftab) >= 1
      BY <1>3, <1>4, <1>7
    <3> QED
      BY <1>1, <1>4, <3>1, CreatorsFirst
  <2> QED
    BY <1>4, <2>1 DEF Fits
<1>13. ConsoleOpen
  BY <1>4, <1>12, ConsoleFirst
<1>14. ftab' \in Seq(EntryType) /\ SameFiles /\ RefsSame
  BY <1>3, <1>4, NothingSet
<1> QED
  BY <1>3, <1>4, <1>6, <1>7, <1>9, <1>10, <1>11, <1>12, <1>13, <1>14, WalksOnFork

\* The scan ends at an entry that fits, or an open finds its entry not in use.
LEMMA ScanFitsForks ==
  ASSUME ForkInv, OneThread, NEW t \in Thread, ScanFits(t) \/ OpenFirst(t)
  PROVE  ForkInv'
<1>1. PICK s : s = IF pc[t] = "scan" THEN "entry_lock" ELSE "vfs_open"
  OBVIOUS
<1>2. PICK i : i = local[t].idx
  OBVIOUS
<1>3. ForkType /\ local[t] \in ForkLocalType /\ ftab_mutex \in BOOLEAN /\ local \in [Thread -> ForkLocalType]
      /\ DOMAIN ftab = 1 .. Len(ftab) /\ Len(ftab) \in Nat /\ WalksAt(t) /\ CreatesAt(t)
  BY ForkFields, ForkTable DEF ForkInv, ForkType, ThreadAt
<1>4. /\ Running(t) /\ pc[t] \in {"scan", "entry"} /\ s \in {"entry_lock", "vfs_open"}
      /\ UNCHANGED <<ftab, ftab_mutex, ftab_base, procs, fds, local>>
      /\ pc' = [pc EXCEPT ![t] = s]
      /\ s = "entry_lock" => i \in 1 .. Len(ftab) /\ ftab[i].node \in {NULL, local[t].node}
      /\ s = "vfs_open" => pc[t] = "entry" /\ ftab[i].node = NULL
  BY <1>1, <1>2, <1>3 DEF ScanFits, OpenFirst, At, Goto, table, Fits
<1>5. local' = [local EXCEPT ![t] = local[t]]
  BY <1>3, <1>4
<1>6. Moves(t, local[t], s) /\ s \in OpenSteps /\ pc[t] \in OpenSteps /\ pc[t] \in InTable /\ s \in BootSteps
  BY <1>3, <1>4, <1>5 DEF Moves, ForkSteps, OpenSteps, InTable, BootSteps
<1>7. pc'[t] = s /\ local'[t] = local[t]
  BY <1>3, <1>6, WhereItMoves
<1>8. WalksAt(t)' /\ OpenedAt(t)'
  <2>1. i \in 1 .. Len(ftab)
    BY <1>2, <1>3, <1>4 DEF WalksAt, InTable
  <2>2. local'[t].idx = i /\ local'[t].node = local[t].node /\ ftab' = ftab /\ Len(ftab') = Len(ftab)
    BY <1>2, <1>4, <1>7
  <2>3. WalksAt(t)'
    BY <1>4, <1>7, <2>1, <2>2 DEF WalksAt, InTable
  <2> QED
    BY <1>4, <1>7, <2>3 DEF OpenedAt, Using
<1>9. LockStep(t)
  BY <1>4, <1>6 DEF LockStep, ForkInv, InvLock
<1>10. \A j : t \notin Opening(j)'
  BY <1>4, <1>7 DEF Opening
<1>11. Creates(t) => local[t].idx = 1
  BY <1>3, <1>6 DEF CreatesAt
<1>12. ftab' \in Seq(EntryType) /\ SameFiles /\ RefsSame
  BY <1>3, <1>4, NothingSet
<1>13. s \notin {"slot", "fill"} /\ SameCall(local[t], local[t]) /\ ftab_mutex' \in BOOLEAN
  BY <1>3, <1>4 DEF SameCall
<1> QED
  BY <1>4, <1>6, <1>8, <1>9, <1>10, <1>11, <1>12, <1>13, WalksOnFork

\* The mutex of an entry is taken.
LEMMA EntryLockForks ==
  ASSUME ForkInv, OneThread, NEW t \in Thread, EntryLock(t)
  PROVE  ForkInv'
<1>1. PICK i : i = local[t].idx
  OBVIOUS
<1>2. ForkType /\ local[t] \in ForkLocalType /\ ftab_mutex \in BOOLEAN /\ local \in [Thread -> ForkLocalType]
      /\ WalksAt(t) /\ CreatesAt(t)
  BY ForkFields, ForkTable DEF ForkInv, ForkType, ThreadAt
<1>3. /\ Running(t) /\ pc[t] = "entry_lock" /\ ftab' = [ftab EXCEPT ![i].mutex = TRUE]
      /\ UNCHANGED <<ftab_mutex, ftab_base, procs, fds, local>>
      /\ pc' = [pc EXCEPT ![t] = "entry"]
  BY <1>1 DEF EntryLock, At, Goto
<1>4. i \in 1 .. Len(ftab) /\ ftab[i].node \in {NULL, local[t].node}
  BY <1>1, <1>2, <1>3 DEF WalksAt, InTable
<1>5. ftab' \in Seq(EntryType) /\ SameFiles /\ RefsSame
  <2>1. PICK b \in BOOLEAN : b = TRUE
    OBVIOUS
  <2>2. ftab' = [ftab EXCEPT ![i].mutex = b] /\ ftab_base' = ftab_base
    BY <1>3, <2>1
  <2> QED
    BY <1>2, <1>4, <2>2, ForkMutexSet
<1>6. local' = [local EXCEPT ![t] = local[t]]
  BY <1>2, <1>3
<1>7. Moves(t, local[t], "entry") /\ "entry" \in OpenSteps /\ pc[t] \in OpenSteps /\ pc[t] \in InTable
  BY <1>2, <1>3, <1>6 DEF Moves, ForkSteps, OpenSteps, InTable
<1>8. pc'[t] = "entry" /\ local'[t] = local[t]
  BY <1>2, <1>7, WhereItMoves
<1>9. WalksAt(t)' /\ OpenedAt(t)'
  BY <1>1, <1>4, <1>5, <1>8 DEF WalksAt, OpenedAt, SameFiles, InTable, Using
<1>10. LockStep(t)
  BY <1>3, <1>7 DEF LockStep, ForkInv, InvLock
<1>11. \A j : t \notin Opening(j)'
  BY <1>8 DEF Opening
<1>12. Creates(t) => local[t].idx = 1
  BY <1>2, <1>7 DEF CreatesAt
<1>13. SameCall(local[t], local[t]) /\ ftab_mutex' \in BOOLEAN /\ "entry" \in BootSteps
  BY <1>2, <1>3 DEF SameCall, BootSteps
<1> QED
  BY <1>3, <1>5, <1>7, <1>9, <1>10, <1>11, <1>12, <1>13, WalksOnFork

\* Past the first open of the console nothing at an entry is in the boot.
LEMMA InUse ==
  ASSUME ForkInv, NEW t \in Thread, Running(t), pc[t] \in InTable \ {"vfs_open"},
         pc[t] = "entry" => ftab[local[t].idx].node # NULL, pc[t] \notin {"scan", "entry_lock"}
  PROVE  ConsoleOpen
<1> SUFFICES ASSUME ~ConsoleOpen PROVE FALSE
  OBVIOUS
<1>1. Creates(t) /\ pc[t] \in BootSteps /\ (Len(ftab) >= 1 => ftab[1].node = NULL)
  BY ConsoleFirst
<1>2. pc[t] = "entry" /\ CreatesAt(t) /\ WalksAt(t) /\ Len(ftab) \in Nat
  BY <1>1, ForkTable DEF InTable, BootSteps, ForkInv, ThreadAt
<1>3. local[t].idx = 1 /\ local[t].idx \in 1 .. Len(ftab)
  BY <1>1, <1>2 DEF CreatesAt, WalksAt, InTable
<1>4. ftab[1].node = NULL
  BY <1>1, <1>2, <1>3
<1> QED
  BY <1>2, <1>3, <1>4

\* The mode to open a file again in is worked out.
LEMMA ReopensForks ==
  ASSUME ForkInv, OneThread, NEW t \in Thread, OpenAgain(t), pc'[t] = "vfs_reopen"
  PROVE  ForkInv'
<1>1. PICK i, m : i = local[t].idx /\ m = Widened(t, ftab[i])
  OBVIOUS
<1>2. PICK L : L = [local[t] EXCEPT !.mode = m]
  OBVIOUS
<1>3. ForkType /\ local[t] \in ForkLocalType /\ ftab_mutex \in BOOLEAN /\ local \in [Thread -> ForkLocalType]
      /\ pc \in [Thread -> ForkSteps] /\ WalksAt(t) /\ CreatesAt(t)
  BY ForkFields, ForkTable DEF ForkInv, ForkType, ThreadAt
<1>4. /\ Running(t) /\ pc[t] = "entry" /\ ftab[i].node # NULL
      /\ UNCHANGED <<ftab, ftab_mutex, ftab_base, procs, fds>>
      /\ local' = [local EXCEPT ![t].mode = m]
      /\ pc' = [pc EXCEPT ![t] = "vfs_reopen"]
  BY <1>1, <1>3 DEF OpenAgain, At, Goto
<1>5. local' = [local EXCEPT ![t] = L]
  BY <1>2, <1>4
<1>6. m \in SUBSET {"r", "w"}
  BY <1>1 DEF Widened, Modes
<1>7. L \in ForkLocalType /\ SameCall(L, local[t]) /\ L.idx = i /\ L.mode = m
      /\ L.node = local[t].node /\ L.read = local[t].read /\ L.write = local[t].write
  BY <1>1, <1>2, <1>3, <1>6 DEF ForkLocalType, SameCall
<1>8. Moves(t, L, "vfs_reopen") /\ "vfs_reopen" \in OpenSteps /\ pc[t] \in OpenSteps /\ pc[t] \in InTable
  BY <1>4, <1>5, <1>7 DEF Moves, ForkSteps, OpenSteps, InTable
<1>9. pc'[t] = "vfs_reopen" /\ local'[t] = L
  BY <1>3, <1>8, WhereItMoves
<1>10. i \in 1 .. Len(ftab) /\ ftab[i].node = local[t].node
  BY <1>1, <1>3, <1>4 DEF WalksAt, InTable
<1>11. Widened(t, ftab[i])' = m
  BY <1>1, <1>4, <1>7, <1>9 DEF Widened
<1>12. WalksAt(t)' /\ OpenedAt(t)'
  BY <1>4, <1>7, <1>9, <1>10, <1>11 DEF WalksAt, OpenedAt, InTable, Using
<1>13. LockStep(t)
  BY <1>4, <1>8 DEF LockStep, ForkInv, InvLock
<1>14. \A j : t \notin Opening(j)'
  BY <1>9 DEF Opening
<1>15. Creates(t) => L.idx = 1
  BY <1>1, <1>3, <1>7, <1>8 DEF CreatesAt
<1>16. ftab' \in Seq(EntryType) /\ SameFiles /\ RefsSame /\ ftab_mutex' \in BOOLEAN
  BY <1>3, <1>4, NothingSet
<1>17. ConsoleOpen
  BY <1>1, <1>4, <1>8, InUse
<1> QED
  BY <1>4, <1>7, <1>8, <1>12, <1>13, <1>14, <1>15, <1>16, <1>17, WalksOnFork

\* Both mutexes are given back, ...
LEMMA UnlockForks ==
  ASSUME ForkInv, OneThread, NEW t \in Thread, OpenUnlock(t)
  PROVE  ForkInv'
<1>1. PICK i : i = local[t].idx
  OBVIOUS
<1>2. ForkType /\ local[t] \in ForkLocalType /\ local \in [Thread -> ForkLocalType]
      /\ WalksAt(t) /\ CreatesAt(t) /\ OpenedAt(t) /\ ftab_base \in Nat
  BY ForkFields, ForkTable DEF ForkInv, ForkType, ThreadAt
<1>3. /\ Running(t) /\ pc[t] = "unlock" /\ Unlocked(i)
      /\ UNCHANGED <<ftab_base, procs, fds, local>>
      /\ pc' = [pc EXCEPT ![t] = "opened"]
  BY <1>1 DEF OpenUnlock, At, Goto
<1>4. i \in 1 .. Len(ftab) /\ Points(<<ftab_base, i>>, local[t].node, local[t].read, local[t].write)
  BY <1>1, <1>2, <1>3 DEF WalksAt, OpenedAt, InTable
<1>5. ftab' \in Seq(EntryType) /\ SameFiles /\ RefsSame /\ ftab_mutex' = FALSE
  BY <1>2, <1>3, <1>4, ForkUnlocked
<1>6. local' = [local EXCEPT ![t] = local[t]]
  BY <1>2, <1>3
<1>7. Moves(t, local[t], "opened") /\ "opened" \in OpenSteps /\ pc[t] \in OpenSteps /\ pc[t] \in InTable
  BY <1>2, <1>3, <1>6 DEF Moves, ForkSteps, OpenSteps, InTable
<1>8. pc'[t] = "opened" /\ local'[t] = local[t]
  BY <1>2, <1>7, WhereItMoves
<1>9. WalksAt(t)'
  BY <1>1, <1>4, <1>5, <1>8 DEF WalksAt, SameFiles, InTable
<1>10. OpenedAt(t)'
  BY <1>1, <1>3, <1>4, <1>5, <1>8 DEF OpenedAt, Points, SameFiles, Using
<1>11. LockStep(t)
  BY <1>7, <1>8 DEF LockStep, InTable
<1>12. \A j : t \in Opening(j)' => t \in Opening(j)
  BY <1>3, <1>8 DEF Opening
<1>13. Creates(t) => local[t].idx = 1
  BY <1>2, <1>7 DEF CreatesAt
<1>14. SameCall(local[t], local[t]) /\ ftab_mutex' \in BOOLEAN
  BY <1>5 DEF SameCall
<1>15. ConsoleOpen
  BY <1>3, <1>7, InUse
<1> QED
  BY <1>3, <1>5, <1>7, <1>9, <1>10, <1>11, <1>12, <1>13, <1>14, <1>15, WalksOnFork

\* ... the entry's address is worked out, ...
LEMMA OpenedForks ==
  ASSUME ForkInv, OneThread, NEW t \in Thread, Opened(t)
  PROVE  ForkInv'
<1>1. PICK i, b : i = local[t].idx /\ b = ftab_base
  OBVIOUS
<1>2. PICK L : L = [local[t] EXCEPT !.ptr = <<b, i>>, !.idx = 0, !.excl = FALSE, !.mode = {}]
  OBVIOUS
<1>3. ForkType /\ local[t] \in ForkLocalType /\ local \in [Thread -> ForkLocalType] /\ ftab_mutex \in BOOLEAN
      /\ WalksAt(t) /\ CreatesAt(t) /\ OpenedAt(t) /\ b \in Nat /\ i \in Nat
  BY <1>1, ForkFields, ForkTable DEF ForkInv, ForkType, ThreadAt
<1>4. /\ Running(t) /\ pc[t] = "opened" /\ UNCHANGED <<ftab, ftab_mutex, ftab_base, procs, fds>>
      /\ pc' = [pc EXCEPT ![t] = "slot"] /\ local' = [local EXCEPT ![t] = L]
  BY <1>1, <1>2, <1>3 DEF Opened, At, Goto, table
<1>5. Points(<<b, i>>, local[t].node, local[t].read, local[t].write)
  BY <1>1, <1>3, <1>4 DEF OpenedAt
<1>6. L \in ForkLocalType /\ SameCall(L, local[t]) /\ L.ptr = <<b, i>>
      /\ L.node = local[t].node /\ L.read = local[t].read /\ L.write = local[t].write
  <2>1. PICK x \in BOOLEAN : x = FALSE
    OBVIOUS
  <2>2. PICK m \in SUBSET {"r", "w"} : m = {}
    OBVIOUS
  <2>3. L = [local[t] EXCEPT !.ptr = <<b, i>>, !.idx = 0, !.excl = x, !.mode = m]
    BY <1>2, <2>1, <2>2
  <2>4. <<b, i>> \in Nat \X Nat /\ 0 \in Nat
    BY <1>3
  <2>5. L \in ForkLocalType /\ L.ptr = <<b, i>> /\ L.excl = x
    BY <1>3, <2>3, <2>4 DEF ForkLocalType
  <2> QED
    BY <1>3, <2>1, <2>3, <2>5 DEF SameCall, ForkLocalType
<1>7. Moves(t, L, "slot") /\ "slot" \in OpenSteps /\ pc[t] \in OpenSteps
  BY <1>4, <1>6 DEF Moves, ForkSteps, OpenSteps
<1>8. pc'[t] = "slot" /\ local'[t] = L
  BY <1>3, <1>7, WhereItMoves
<1>9. WalksAt(t)'
  BY <1>8 DEF WalksAt, InTable
<1>10. OpenedAt(t)'
  BY <1>4, <1>5, <1>6, <1>8 DEF OpenedAt, Points, Using
<1>11. LockStep(t)
  BY <1>4, <1>8 DEF LockStep, InTable
<1>12. \A j : t \in Opening(j)' => t \in Opening(j)
  BY <1>1, <1>4, <1>6, <1>8 DEF Opening
<1>13. Creates(t) => i = 1
  BY <1>1, <1>3, <1>4 DEF CreatesAt
<1>14. ftab' \in Seq(EntryType) /\ SameFiles /\ RefsSame /\ ftab_mutex' \in BOOLEAN
  BY <1>3, <1>4, NothingSet
<1>15. ConsoleOpen
  BY <1>4, ConsoleFirst DEF BootSteps
<1>16. L.ptr[1] = ftab_base /\ L.ptr[2] = i
  BY <1>1, <1>6
<1> QED
  BY <1>4, <1>6, <1>7, <1>9, <1>10, <1>11, <1>12, <1>13, <1>14, <1>15, <1>16, WalksOnFork DEF InTable

\* The slot of a process being created is the one after those it has.
LEMMA FirstSlot ==
  ASSUME ForkInv, NEW t \in Thread, Creates(t), pc[t] \in {"slot", "fill"},
         NEW i \in 1 .. Len(fds[local[t].proc]), fds[local[t].proc][i].ftab = NoPointer,
         \A j \in 1 .. i - 1 : fds[local[t].proc][j].ftab # NoPointer
  PROVE  i = Has(t) + 1
<1>1. CreatesAt(t) /\ ForAt(t) /\ local[t].left \in Nat /\ STDFDS \in Nat /\ pc[t] \in OpenSteps /\ pc[t] # "idle"
  BY ForkFields, Constants DEF ForkInv, ThreadAt, OpenSteps
<1>2. PICK p : p = local[t].proc
  OBVIOUS
<1>3. p \in Proc
  BY <1>1, <1>2 DEF ForAt, Creates
<1>4. Len(fds[p]) \in Nat
  BY <1>3, ForkFds DEF ForkInv
<1>5. PICK h \in Int : h = Has(t)
  BY <1>1 DEF Has
<1>6. /\ \A j \in 1 .. h : j <= Len(fds[p]) /\ fds[p][j].ftab[2] = 1
      /\ \A j \in 1 .. Len(fds[p]) : j > h => fds[p][j].ftab = NoPointer
      /\ h >= 0
  BY <1>1, <1>2, <1>5 DEF CreatesAt, Standard, Has
<1>7. i > h
  <2>1. ~(i \in 1 .. h)
    BY <1>2, <1>6 DEF NoPointer
  <2> QED
    BY <1>4, <1>5, <2>1, <1>2
<1>8. h + 1 \in 1 .. Len(fds[p])
  BY <1>2, <1>4, <1>5, <1>6, <1>7
<1>9. fds[p][h + 1].ftab = NoPointer
  BY <1>5, <1>6, <1>8
<1>10. ~(h + 1 \in 1 .. i - 1)
  BY <1>2, <1>9
<1>11. i = h + 1
  BY <1>2, <1>4, <1>5, <1>6, <1>7, <1>10
<1> QED
  BY <1>5, <1>11

\* A descriptor is chosen.
LEMMA SlotChosenForks ==
  ASSUME ForkInv, OneThread, NEW t \in Thread, SlotChosen(t)
  PROVE  ForkInv'
<1>1. PICK p : p = local[t].proc
  OBVIOUS
<1>2. /\ ForkType /\ local[t] \in ForkLocalType /\ ftab_mutex \in BOOLEAN
      /\ OpenedAt(t) /\ CreatesAt(t) /\ ForAt(t) /\ DoesAt(t)
  BY ForkFields, ForkTable DEF ForkInv, ForkType, ThreadAt
<1>3. /\ Running(t) /\ pc[t] = "slot" /\ UNCHANGED <<ftab, ftab_mutex, ftab_base, procs, fds>>
      /\ pc' = [pc EXCEPT ![t] = "fill"]
  BY DEF SlotChosen, At, Goto, table
<1>4. PICK i \in DOMAIN fds[p] : /\ Usable(t, fds[p][i])
                                 /\ \A j \in 1 .. i - 1 : ~Usable(t, fds[p][j])
                                 /\ local' = [local EXCEPT ![t].fd = i]
  BY <1>1 DEF SlotChosen
<1>5. PICK L : L = [local[t] EXCEPT !.fd = i]
  OBVIOUS
<1>6. p \in Proc /\ pc[t] \in OpenSteps
  BY <1>1, <1>2, <1>3 DEF ForAt, DoesAt, OpenSteps
<1>7. i \in 1 .. Len(fds[p]) /\ i \in Nat
  BY <1>2, <1>4, <1>6, ForkFds
<1>8. local' = [local EXCEPT ![t] = L]
  BY <1>4, <1>5
<1>9. L \in ForkLocalType /\ SameCall(L, local[t]) /\ L.ptr = local[t].ptr /\ L.fd = i
      /\ L.node = local[t].node /\ L.read = local[t].read /\ L.write = local[t].write /\ L.proc = p
  BY <1>1, <1>2, <1>5, <1>7 DEF ForkLocalType, SameCall
<1>10. Moves(t, L, "fill") /\ "fill" \in OpenSteps
  BY <1>3, <1>8, <1>9 DEF Moves, ForkSteps, OpenSteps
<1>11. pc'[t] = "fill" /\ local'[t] = L
  BY <1>2, <1>10, WhereItMoves
<1>12. WalksAt(t)'
  BY <1>11 DEF WalksAt, InTable
<1>13. fds[p][i].ftab \in {NoPointer, local[t].ptr}
  BY <1>4 DEF Usable
<1>14. OpenedAt(t)'
  <2>1. Points(local[t].ptr, local[t].node, local[t].read, local[t].write)
    BY <1>2, <1>3 DEF OpenedAt
  <2>2. Points(L.ptr, L.node, L.read, L.write)'
    BY <1>3, <1>9, <2>1 DEF Points
  <2> QED
    BY <1>3, <1>7, <1>9, <1>11, <1>13, <2>2 DEF OpenedAt
<1>15. LockStep(t)
  BY <1>3, <1>11 DEF LockStep, InTable
<1>16. \A j : t \in Opening(j)' => t \in Opening(j)
  BY <1>3, <1>9, <1>11 DEF Opening
<1>17. Creates(t) => L.ptr[2] = 1 /\ L.fd = Has(t) + 1
  <2> SUFFICES ASSUME Creates(t) PROVE L.ptr[2] = 1 /\ L.fd = Has(t) + 1
    OBVIOUS
  <2>1. local[t].duplicate = TRUE /\ local[t].ptr[2] = 1
    BY <1>2, <1>3, <1>6 DEF CreatesAt
  <2>2. fds[p][i].ftab = NoPointer /\ \A j \in 1 .. i - 1 : fds[p][j].ftab # NoPointer
    BY <1>4, <2>1 DEF Usable
  <2>3. i = Has(t) + 1
    BY <1>1, <1>3, <1>7, <2>2, FirstSlot
  <2> QED
    BY <1>9, <2>1, <2>3
<1>18. ftab' \in Seq(EntryType) /\ SameFiles /\ RefsSame /\ ftab_mutex' \in BOOLEAN
  BY <1>2, <1>3, NothingSet
<1>19. ConsoleOpen
  BY <1>3, ConsoleFirst DEF BootSteps
<1> QED
  BY <1>3, <1>6, <1>9, <1>10, <1>12, <1>14, <1>15, <1>16, <1>17, <1>18, <1>19, WalksOnFork DEF InTable

-----------------------------------------------------------------------------
\* A program's open of a file fails (fs/ftab.c).  The console's, for a process
\* that is created, do not.
LEMMA OpenGivesUp ==
  ASSUME ForkInv, OneThread, NEW t \in Thread, Running(t), OpenReturned(t), pc[t] \in OpenSteps,
         ~Creates(t), SameFiles, RefsSame, fds' = fds, procs' = procs, ftab' \in Seq(EntryType),
         ftab_mutex' \in BOOLEAN, pc[t] \in InTable \/ ftab_mutex' = ftab_mutex
  PROVE  ForkInv'
<1>1. ForkType /\ DoesAt(t)
  BY DEF ForkInv, ThreadAt
<1>2. local[t].op = "open" /\ pc[t] \notin {"idle", "reopen", "reopen_lock"}
  BY <1>1 DEF DoesAt, Creates, OpenSteps
<1>3. Return(t)
  BY <1>2 DEF OpenReturned
<1>4. Moves(t, NoLocal, "idle")
  BY <1>3, NoForkLocal DEF Return, Goto, Moves, ForkSteps
<1>5. pc'[t] = "idle" /\ Mine(t) /\ pc' \in [Thread -> ForkSteps] /\ local' \in [Thread -> ForkLocalType]
  BY <1>1, <1>4, WhereItMoves
<1>6. ForkType'
  BY <1>1, <1>5 DEF ForkType, SameFiles
<1>7. LockStep(t)
  BY <1>5 DEF LockStep, InTable
<1>8. ConsoleOpen
  BY ConsoleFirst
<1>9. FdsSame /\ Elsewhere(local[t].proc)
  BY DEF FdsSame, Elsewhere
<1>10. \A i : Descriptors(i)' \subseteq Descriptors(i)
  BY <1>1, <1>2, <1>5, <1>6, <1>9, FewerDescriptors DEF SameFiles, Copying
<1>11. procs' \in [Proc -> {"free", "new", "alive"}] /\ fds' \in [Proc -> Seq(FdType)]
  BY <1>6 DEF ForkType
<1> QED
  BY <1>2, <1>3, <1>7, <1>8, <1>9, <1>10, <1>11, ReturnsQuietly

\* The table cannot grow: an open fails, never the one of a new process.
LEMMA GrowFailsForks ==
  ASSUME ForkInv, OneThread, RoomForStd, NEW t \in Thread, GrowFails(t)
  PROVE  ForkInv'
<1>1. /\ Running(t) /\ pc[t] = "scan" /\ local[t].idx \notin DOMAIN ftab /\ (OutOfMemory \/ ~FtabFits)
      /\ ftab_mutex' = FALSE /\ OpenReturned(t) /\ UNCHANGED <<ftab, ftab_base, procs, fds>>
  BY DEF GrowFails, At
<1>2. ForkType /\ pc[t] \in OpenSteps /\ pc[t] \in InTable
  BY <1>1 DEF ForkInv, OpenSteps, InTable
<1>3. ~Creates(t)
  <2> SUFFICES ASSUME Creates(t) PROVE FALSE
    OBVIOUS
  <2>1. local[t].idx = 1
    BY <1>1, <1>2, CreatorsFirst
  <2>2. Len(ftab) \in Nat /\ DOMAIN ftab = 1 .. Len(ftab)
    BY <1>2, ForkTable
  <2>3. Len(ftab) = 0
    BY <1>1, <2>1, <2>2
  <2> QED
    BY <1>1, <2>3, Constants DEF RoomForStd, FtabFits
<1>4. ftab' \in Seq(EntryType) /\ SameFiles /\ RefsSame
  BY <1>1, <1>2, NothingSet
<1> QED
  BY <1>1, <1>2, <1>3, <1>4, OpenGivesUp

\* The hook of the node fails at the first open, ...
LEMMA OpenFirstFailsForks ==
  ASSUME ForkInv, OneThread, ConsoleOpens, NEW t \in Thread, OpenFirstFails(t)
  PROVE  ForkInv'
<1>1. /\ Running(t) /\ pc[t] = "vfs_open" /\ OpenReturned(t)
      /\ UNCHANGED <<ftab, ftab_mutex, ftab_base, procs, fds>>
  BY DEF OpenFirstFails, At, table
<1>2. ForkType /\ pc[t] \in OpenSteps /\ CreatesAt(t) /\ ftab_mutex \in BOOLEAN
  BY <1>1, ForkTable DEF ForkInv, ThreadAt, OpenSteps
<1>3. ~Creates(t)
  BY <1>2 DEF CreatesAt, ConsoleOpens
<1>4. ftab' \in Seq(EntryType) /\ SameFiles /\ RefsSame
  BY <1>1, <1>2, NothingSet
<1> QED
  BY <1>1, <1>2, <1>3, <1>4, OpenGivesUp

\* ... or when the modes are widened.
LEMMA OpenAgainFailsForks ==
  ASSUME ForkInv, OneThread, ConsoleOpens, NEW t \in Thread, OpenAgainFails(t)
  PROVE  ForkInv'
<1>1. /\ Running(t) /\ pc[t] = "vfs_reopen" /\ OpenReturned(t) /\ Unlocked(local[t].idx)
      /\ UNCHANGED <<ftab_base, procs, fds>>
  BY DEF OpenAgainFails, At
<1>2. ForkType /\ pc[t] \in OpenSteps /\ pc[t] \in InTable /\ CreatesAt(t) /\ WalksAt(t)
  BY <1>1 DEF ForkInv, ThreadAt, OpenSteps, InTable
<1>3. ~Creates(t)
  BY <1>2 DEF CreatesAt, ConsoleOpens
<1>4. local[t].idx \in 1 .. Len(ftab)
  BY <1>1, <1>2 DEF WalksAt
<1>5. PICK i \in 1 .. Len(ftab) : i = local[t].idx
  BY <1>4
<1>6. ftab' \in Seq(EntryType) /\ SameFiles /\ RefsSame /\ ftab_mutex' = FALSE
  BY <1>1, <1>2, <1>5, ForkUnlocked
<1> QED
  BY <1>1, <1>2, <1>3, <1>6, OpenGivesUp

\* The entry is held exclusively: never the console's.
LEMMA OpenDeniedForks ==
  ASSUME ForkInv, OneThread, NEW t \in Thread, OpenDenied(t)
  PROVE  ForkInv'
<1>1. /\ Running(t) /\ pc[t] = "entry" /\ OpenReturned(t) /\ Unlocked(local[t].idx)
      /\ ftab[local[t].idx].node # NULL /\ Denied(t, ftab[local[t].idx])
      /\ UNCHANGED <<ftab_base, procs, fds>>
  BY DEF OpenDenied, At
<1>2. ForkType /\ pc[t] \in OpenSteps /\ pc[t] \in InTable /\ WalksAt(t) /\ Len(ftab) \in Nat
  BY <1>1, ForkTable DEF ForkInv, ThreadAt, OpenSteps, InTable
<1>3. PICK i \in 1 .. Len(ftab) : i = local[t].idx
  BY <1>1, <1>2 DEF WalksAt, InTable
<1>4. ~Creates(t)
  <2> SUFFICES ASSUME Creates(t) PROVE FALSE
    OBVIOUS
  <2>1. i = 1 /\ local[t].excl = FALSE /\ ConsoleOpen
    <3>1. pc[t] \in InTable \ {"vfs_open", "vfs_reopen", "unlock"}
      BY <1>1, <1>2
    <3>2. local[t].idx = 1 /\ local[t].excl = FALSE /\ (Len(ftab) >= 1 /\ ftab[1].node # NULL => ConsoleOpen)
      BY <1>1, <3>1, CreatorsFirst
    <3>3. i = 1 /\ Len(ftab) >= 1 /\ ftab[1].node # NULL
      BY <1>1, <1>2, <1>3, <3>2
    <3> QED
      BY <3>2, <3>3
  <2> QED
    BY <1>1, <1>3, <2>1 DEF Denied, ConsoleOpen
<1>5. ftab' \in Seq(EntryType) /\ SameFiles /\ RefsSame /\ ftab_mutex' = FALSE
  BY <1>1, <1>2, <1>3, ForkUnlocked
<1> QED
  BY <1>1, <1>2, <1>4, <1>5, OpenGivesUp

\* A process being created finds no slot when it has no descriptors yet.
LEMMA NoSlotYet ==
  ASSUME ForkInv, NEW t \in Thread, Creates(t), pc[t] = "slot", NoSlot(t)
  PROVE  Len(fds[local[t].proc]) = 0 /\ Has(t) = 0
<1>1. ForkType /\ pc[t] \in OpenSteps /\ CreatesAt(t) /\ ForAt(t)
  BY DEF ForkInv, ThreadAt, OpenSteps
<1>2. PICK p : p = local[t].proc
  OBVIOUS
<1>3. p \in Proc /\ local[t].left \in Nat /\ STDFDS \in Nat
  BY <1>1, <1>2, ForkFields, Constants DEF ForAt, Creates
<1>4. Len(fds[p]) \in Nat /\ DOMAIN fds[p] = 1 .. Len(fds[p])
  BY <1>1, <1>3, ForkFds
<1>5. PICK h \in Int : h = Has(t)
  BY <1>3 DEF Has
<1>6. /\ Len(fds[p]) = 0 \/ Len(fds[p]) >= STDFDS
      /\ \A j \in 1 .. Len(fds[p]) : j > h => fds[p][j].ftab = NoPointer
      /\ \A j \in 1 .. h : j <= Len(fds[p])
      /\ h >= 0 /\ h < STDFDS
  BY <1>1, <1>2, <1>3, <1>5 DEF CreatesAt, Has, Standard
<1>7. Len(fds[p]) = 0
  <2> SUFFICES ASSUME Len(fds[p]) # 0 PROVE FALSE
    OBVIOUS
  <2>1. h + 1 \in 1 .. Len(fds[p]) /\ h + 1 > h
    BY <1>3, <1>4, <1>5, <1>6
  <2>2. fds[p][h + 1].ftab = NoPointer /\ h + 1 \in DOMAIN fds[p]
    BY <1>4, <1>6, <2>1
  <2> QED
    BY <1>2, <2>2 DEF NoSlot, Usable
<1>8. h = 0
  <2>1. h # 0 => 1 \in 1 .. h
    BY <1>5, <1>6
  <2> QED
    BY <1>6, <1>7, <2>1
<1> QED
  BY <1>2, <1>5, <1>7, <1>8
\* The descriptor table cannot grow.
LEMMA SlotGrowFailsForks ==
  ASSUME ForkInv, OneThread, RoomForStd, NEW t \in Thread, SlotGrowFails(t)
  PROVE  ForkInv'
<1>1. /\ Running(t) /\ pc[t] = "slot" /\ OpenReturned(t) /\ NoSlot(t) /\ (OutOfMemory \/ ~FdsFit(t))
      /\ UNCHANGED <<ftab, ftab_mutex, ftab_base, procs, fds>>
  BY DEF SlotGrowFails, At, table
<1>2. ForkType /\ pc[t] \in OpenSteps /\ ftab_mutex \in BOOLEAN
  BY <1>1, ForkTable DEF ForkInv, OpenSteps
<1>3. ~Creates(t)
  <2> SUFFICES ASSUME Creates(t) PROVE FALSE
    OBVIOUS
  <2>1. Len(fds[local[t].proc]) = 0
    BY <1>1, NoSlotYet
  <2> QED
    BY <1>1, <2>1, Constants DEF RoomForStd, FdsFit
<1>4. ftab' \in Seq(EntryType) /\ SameFiles /\ RefsSame
  BY <1>1, <1>2, NothingSet
<1> QED
  BY <1>1, <1>2, <1>3, <1>4, OpenGivesUp

-----------------------------------------------------------------------------
\* A program's call begins (exec/process.c).
LEMMA CallBegins ==
  ASSUME ForkInv, OneThread, NEW t \in Thread, Running(t), pc[t] = "idle", NEW L, NEW s, Moves(t, L, s),
         UNCHANGED <<ftab, ftab_mutex, ftab_base, procs, fds>>, L.proc = owner[t],
         \/ s = "ftab_lock" /\ L.op = "open" /\ L.node \in Node
         \/ s = "fd_lock" /\ L.op \in {"read", "write"} /\ L.fd \in 1 .. Len(fds[owner[t]])
  PROVE  ForkInv'
<1>1. /\ ForkType /\ pc'[t] = s /\ local'[t] = L /\ Mine(t) /\ DoesAt(t)
      /\ pc' \in [Thread -> ForkSteps] /\ local' \in [Thread -> ForkLocalType]
  BY WhereItMoves DEF ForkInv, ThreadAt
<1>2. procs[owner[t]] = "alive" /\ procs'[owner[t]] = "alive" /\ owner[t] \in Proc
  BY Constants DEF Running
<1>3. PICK w : w = owner[t]
  OBVIOUS
<1>4. Own(t, w) /\ w \in Proc
  BY <1>2, <1>3, OwnSelf
<1>5. DoesAt(t)' /\ ForAt(t)' /\ WalksAt(t)' /\ OpenedAt(t)'
  BY <1>1, <1>2 DEF DoesAt, ForAt, WalksAt, OpenedAt, OpenSteps, Copying, Using, InTable
<1>6. ~Creates(t) /\ ~Creates(t)' /\ ~(local'[t].op = "fork")
  BY <1>1 DEF Creates, DoesAt
<1>7. ThreadAt(t)'
  BY <1>5, <1>6 DEF ThreadAt, CreatesAt, ForksAt
<1>8. ConsoleOpen
  BY <1>6, ConsoleFirst
<1>9. ftab' \in Seq(EntryType) /\ SameFiles /\ RefsSame /\ ForkType'
  BY <1>1, NothingSet DEF ForkType
<1>10. FdsSame /\ Elsewhere(w)
  BY DEF FdsSame, Elsewhere
<1>11. MayRun(t, w)
  BY <1>1, <1>2, <1>3, <1>6 DEF MayRun, ForkType
<1>12. LockStep(t)
  BY <1>1 DEF LockStep, InTable
<1>13. \A i : t \notin Opening(i)'
  BY <1>1 DEF Opening
<1>14. \A i : Descriptors(i)' \subseteq Descriptors(i)
  BY <1>1, <1>9, <1>10, FewerDescriptors DEF Copying
<1> QED
  BY <1>1, <1>3, <1>4, <1>7, <1>8, <1>9, <1>10, <1>11, <1>12, <1>13, <1>14, QuietFork DEF ForkType

\* An open begins (proc_fd_open()).
LEMMA FdOpenForks ==
  ASSUME ForkInv, OneThread, NEW t \in Thread, FdOpen(t)
  PROVE  ForkInv'
<1>1. /\ Running(t) /\ pc[t] = "idle" /\ UNCHANGED <<ftab, ftab_mutex, ftab_base, procs, fds>>
      /\ pc' = [pc EXCEPT ![t] = "ftab_lock"]
  BY DEF FdOpen, At, Goto, table
<1>2. PICK node \in Node, dup \in Duplicate, ex \in Exclusive, mode \in Mode :
        local' = [local EXCEPT ![t] = [NoLocal EXCEPT
                   !.op = "open", !.proc = owner[t], !.node = node,
                   !.duplicate = dup, !.read = (mode = "r"),
                   !.write = (mode = "w"), !.excl = ex]]
  BY DEF FdOpen
<1>3. PICK r \in BOOLEAN, x \in BOOLEAN : r = (mode = "r") /\ x = (mode = "w")
  OBVIOUS
<1>4. PICK L : L = [NoLocal EXCEPT !.op = "open", !.proc = owner[t], !.node = node,
                      !.duplicate = dup, !.read = r, !.write = x, !.excl = ex]
  OBVIOUS
<1>5. dup \in BOOLEAN /\ ex \in BOOLEAN /\ owner[t] \in Proc
  BY Constants
<1>6. L \in ForkLocalType /\ L.op = "open" /\ L.proc = owner[t] /\ L.node = node
  <2>1. PICK K : K = [NoLocal EXCEPT !.op = "open", !.proc = owner[t], !.node = node]
    OBVIOUS
  <2>2. K \in ForkLocalType /\ K.op = "open" /\ K.proc = owner[t] /\ K.node = node
    BY <1>5, <2>1, NoForkLocal DEF ForkLocalType
  <2>3. PICK M : M = [K EXCEPT !.duplicate = dup, !.read = r]
    OBVIOUS
  <2>4. M \in ForkLocalType /\ M.op = "open" /\ M.proc = owner[t] /\ M.node = node
    BY <1>5, <2>2, <2>3 DEF ForkLocalType
  <2>5. L = [M EXCEPT !.write = x, !.excl = ex]
    BY <1>4, <2>1, <2>3
  <2> QED
    BY <1>5, <2>4, <2>5 DEF ForkLocalType
<1>7. Moves(t, L, "ftab_lock")
  BY <1>1, <1>2, <1>3, <1>4, <1>6 DEF Moves, ForkSteps, OpenSteps
<1> QED
  BY <1>1, <1>6, <1>7, CallBegins

\* A read or a write begins (proc_fd_read(), proc_fd_write()).
LEMMA FdUseForks ==
  ASSUME ForkInv, OneThread, NEW t \in Thread, NEW op \in {"read", "write"}, FdUse(t, op)
  PROVE  ForkInv'
<1>1. /\ Running(t) /\ pc[t] = "idle" /\ UNCHANGED <<ftab, ftab_mutex, ftab_base, procs, fds>>
      /\ pc' = [pc EXCEPT ![t] = "fd_lock"]
  BY DEF FdUse, At, Goto, table
<1>2. PICK i \in DOMAIN fds[owner[t]] :
        local' = [local EXCEPT ![t] = [NoLocal EXCEPT !.op = op, !.proc = owner[t], !.fd = i]]
  BY DEF FdUse
<1>3. PICK L : L = [NoLocal EXCEPT !.op = op, !.proc = owner[t], !.fd = i]
  OBVIOUS
<1>4. owner[t] \in Proc
  BY Constants
<1>5. i \in 1 .. Len(fds[owner[t]]) /\ i \in Nat
  BY <1>4, ForkFds DEF ForkInv
<1>6. L \in ForkLocalType /\ L.op = op /\ L.proc = owner[t] /\ L.fd = i
  BY <1>3, <1>4, <1>5, NoForkLocal DEF ForkLocalType
<1>7. Moves(t, L, "fd_lock")
  BY <1>1, <1>2, <1>3, <1>6 DEF Moves, ForkSteps, Using
<1> QED
  BY <1>1, <1>5, <1>6, <1>7, CallBegins

\* The mutex of a descriptor (exec/process.c).
LEMMA FdMutexSet ==
  ASSUME ForkType, NEW p \in Proc, NEW i \in 1 .. Len(fds[p]), NEW b \in BOOLEAN,
         fds' = [fds EXCEPT ![p][i] = [fds[p][i] EXCEPT !.mutex = b]]
  PROVE  fds' \in [Proc -> Seq(FdType)] /\ FdsSame /\ \A q \in Proc \ {p} : fds'[q] = fds[q]
<1>1. PICK f : f = [fds[p][i] EXCEPT !.mutex = b]
  OBVIOUS
<1>2. fds \in [Proc -> Seq(FdType)] /\ fds[p] \in Seq(FdType) /\ fds[p][i] \in FdType
  BY ForkFds DEF ForkType
<1>3. f \in FdType /\ f.ftab = fds[p][i].ftab /\ f.for = fds[p][i].for /\ f.read = fds[p][i].read
      /\ f.write = fds[p][i].write
  BY <1>1, <1>2 DEF FdType
<1>4. PICK g : g = [fds[p] EXCEPT ![i] = f]
  OBVIOUS
<1>5. g \in Seq(FdType) /\ Len(g) = Len(fds[p]) /\ g[i] = f /\ \A j \in 1 .. Len(fds[p]) : j # i => g[j] = fds[p][j]
  BY <1>2, <1>3, <1>4
<1>6. fds' = [fds EXCEPT ![p] = g]
  BY <1>1, <1>4
<1>7. fds' \in [Proc -> Seq(FdType)] /\ fds'[p] = g /\ \A q \in Proc \ {p} : fds'[q] = fds[q]
  BY <1>2, <1>5, <1>6
<1> QED
  BY <1>3, <1>5, <1>7 DEF FdsSame

\* A program's read or write, refused or not.
LEMMA FdRefusedForks ==
  ASSUME ForkInv, OneThread, NEW t \in Thread, FdRefused(t)
  PROVE  ForkInv'
<1>1. /\ Running(t) /\ pc[t] = "fd_lock" /\ Return(t)
      /\ UNCHANGED <<ftab, ftab_mutex, ftab_base, procs, fds>>
  BY DEF FdRefused, At, table
<1>2. ForkType /\ DoesAt(t) /\ ftab_mutex \in BOOLEAN
  BY ForkTable DEF ForkInv, ThreadAt
<1>3. ~Creates(t)
  BY <1>1, <1>2 DEF Creates, DoesAt, Using
<1>4. Moves(t, NoLocal, "idle")
  BY <1>1, NoForkLocal DEF Return, Goto, Moves, ForkSteps
<1>5. pc'[t] = "idle" /\ Mine(t) /\ pc' \in [Thread -> ForkSteps] /\ local' \in [Thread -> ForkLocalType]
  BY <1>2, <1>4, WhereItMoves
<1>6. ftab' \in Seq(EntryType) /\ SameFiles /\ RefsSame /\ ForkType'
  BY <1>1, <1>2, <1>5, NothingSet DEF ForkType
<1>7. FdsSame /\ Elsewhere(local[t].proc)
  BY <1>1 DEF FdsSame, Elsewhere
<1>8. LockStep(t) /\ ConsoleOpen
  BY <1>1, <1>3, <1>5, ConsoleFirst DEF LockStep, InTable
<1>9. \A i : Descriptors(i)' \subseteq Descriptors(i)
  BY <1>1, <1>2, <1>5, <1>6, <1>7, FewerDescriptors DEF Copying
<1>10. fds' \in [Proc -> Seq(FdType)] /\ procs' \in [Proc -> {"free", "new", "alive"}]
       /\ pc[t] # "idle" /\ ftab_mutex' \in BOOLEAN
  BY <1>1, <1>6 DEF ForkType
<1> QED
  BY <1>1, <1>3, <1>6, <1>7, <1>8, <1>9, <1>10, ReturnsQuietly

\* A read or a write goes on.
LEMMA UseGoesOn ==
  ASSUME ForkInv, OneThread, NEW t \in Thread, Running(t), pc[t] \in Using, NEW L, NEW s \in {"io_lock", "io"},
         Moves(t, L, s), L.op = local[t].op, L.proc = local[t].proc, L.fd = local[t].fd,
         SameFiles, RefsSame, FdsSame, Elsewhere(local[t].proc), procs' = procs,
         ftab' \in Seq(EntryType), fds' \in [Proc -> Seq(FdType)], ftab_mutex' = ftab_mutex
  PROVE  ForkInv'
<1>1. /\ ForkType /\ pc'[t] = s /\ local'[t] = L /\ Mine(t) /\ DoesAt(t) /\ ForAt(t) /\ OpenedAt(t)
      /\ pc' \in [Thread -> ForkSteps] /\ local' \in [Thread -> ForkLocalType] /\ ftab_mutex \in BOOLEAN
  BY WhereItMoves, ForkTable DEF ForkInv, ThreadAt
<1>2. local[t].op \in {"read", "write"} /\ pc[t] # "idle" /\ pc[t] \notin OpenSteps \union Copying \union {"done"}
  BY <1>1 DEF DoesAt, Using, OpenSteps, Copying
<1>3. PICK w : w = local[t].proc
  OBVIOUS
<1>4. Own(t, w) /\ w \in Proc
  BY <1>2, <1>3, OwnProc
<1>5. DoesAt(t)' /\ ForAt(t)' /\ WalksAt(t)'
  BY <1>1, <1>2 DEF DoesAt, ForAt, WalksAt, OpenSteps, Copying, Using, InTable
<1>6. OpenedAt(t)'
  <2>1. local[t].fd \in 1 .. Len(fds[w]) /\ Len(fds'[w]) = Len(fds[w])
    BY <1>1, <1>3, <1>4 DEF OpenedAt, FdsSame
  <2> QED
    BY <1>1, <1>3, <2>1 DEF OpenedAt
<1>7. ~Creates(t) /\ ~Creates(t)' /\ local'[t].op # "fork"
  BY <1>1, <1>2 DEF Creates
<1>8. ThreadAt(t)'
  BY <1>5, <1>6, <1>7 DEF ThreadAt, CreatesAt, ForksAt
<1>9. ConsoleOpen
  BY <1>7, ConsoleFirst
<1>10. ForkType'
  BY <1>1 DEF ForkType, SameFiles
<1>11. MayRun(t, w)
  BY <1>1, <1>7 DEF MayRun, ForkType
<1>12. LockStep(t)
  BY <1>1 DEF LockStep, InTable
<1>13. \A i : t \notin Opening(i)'
  BY <1>1 DEF Opening
<1>14. \A i : Descriptors(i)' \subseteq Descriptors(i)
  BY <1>1, <1>2, <1>10, FewerDescriptors DEF SameFiles
<1>15. ftab_mutex' \in BOOLEAN
  BY <1>1
<1> QED
  BY <1>1, <1>3, <1>4, <1>8, <1>9, <1>11, <1>12, <1>13, <1>14, <1>15, QuietFork

\* The mutex of the descriptor is taken.
LEMMA FdLockForks ==
  ASSUME ForkInv, OneThread, NEW t \in Thread, FdLock(t)
  PROVE  ForkInv'
<1>1. /\ Running(t) /\ pc[t] = "fd_lock" /\ UNCHANGED <<ftab, ftab_mutex, ftab_base, procs>>
      /\ SetFd(t, [Fd(t) EXCEPT !.mutex = TRUE]) /\ local' = [local EXCEPT ![t].ptr = Fd(t).ftab]
      /\ Goto(t, IF local[t].op = "close" THEN "close_check" ELSE "io_lock")
  BY DEF FdLock, At, table
<1>2. ForkType /\ DoesAt(t) /\ ForAt(t) /\ OpenedAt(t) /\ local[t] \in ForkLocalType
  BY ForkFields DEF ForkInv, ThreadAt
<1>3. local[t].op \in {"read", "write"} /\ pc[t] \in Using
  BY <1>1, <1>2 DEF DoesAt, Using
<1>4. PICK p, i : p = local[t].proc /\ i = local[t].fd
  OBVIOUS
<1>5. p \in Proc /\ i \in 1 .. Len(fds[p])
  BY <1>1, <1>2, <1>3, <1>4 DEF ForAt, OpenedAt
<1>6. PICK ptr : ptr = fds[p][i].ftab
  OBVIOUS
<1>7. ptr \in Nat \X Nat
  BY <1>2, <1>5, <1>6, ForkFds
<1>8. PICK L : L = [local[t] EXCEPT !.ptr = ptr]
  OBVIOUS
<1>9. L \in ForkLocalType /\ L.op = local[t].op /\ L.proc = local[t].proc /\ L.fd = local[t].fd
  BY <1>2, <1>7, <1>8 DEF ForkLocalType
<1>10. Moves(t, L, "io_lock")
  BY <1>1, <1>3, <1>4, <1>6, <1>8, <1>9 DEF Moves, ForkSteps, Using, Goto, Fd
<1>11. fds' \in [Proc -> Seq(FdType)] /\ FdsSame /\ Elsewhere(local[t].proc)
  <2>1. PICK b \in BOOLEAN : b = TRUE
    OBVIOUS
  <2>2. fds' = [fds EXCEPT ![p][i] = [fds[p][i] EXCEPT !.mutex = b]]
    BY <1>1, <1>4, <2>1 DEF SetFd, Fd
  <2>3. fds' \in [Proc -> Seq(FdType)] /\ FdsSame /\ \A q \in Proc \ {p} : fds'[q] = fds[q]
    BY <1>2, <1>5, <2>2, FdMutexSet
  <2> QED
    BY <1>1, <1>4, <2>3 DEF Elsewhere
<1>12. ftab' \in Seq(EntryType) /\ SameFiles /\ RefsSame
  BY <1>1, <1>2, NothingSet
<1> QED
  BY <1>1, <1>3, <1>9, <1>10, <1>11, <1>12, UseGoesOn

\* The mutex of the entry is taken (ftab_read(), ftab_write()).
LEMMA IoLockForks ==
  ASSUME ForkInv, OneThread, NEW t \in Thread, IoLock(t)
  PROVE  ForkInv'
<1>1. PICK i : i = local[t].ptr[2]
  OBVIOUS
<1>2. /\ Running(t) /\ pc[t] = "io_lock" /\ Valid(local[t].ptr)
      /\ ftab' = [ftab EXCEPT ![i].mutex = TRUE] /\ pc' = [pc EXCEPT ![t] = "io"]
      /\ UNCHANGED <<ftab_mutex, ftab_base, procs, fds, local>>
  BY <1>1 DEF IoLock, At, Goto
<1>3. ForkType /\ local[t] \in ForkLocalType /\ local \in [Thread -> ForkLocalType]
  BY ForkFields DEF ForkInv, ForkType
<1>4. i \in 1 .. Len(ftab)
  BY <1>1, <1>2, <1>3, ForkTable DEF Valid
<1>5. ftab' \in Seq(EntryType) /\ SameFiles /\ RefsSame
  <2>1. PICK b \in BOOLEAN : b = TRUE
    OBVIOUS
  <2>2. ftab' = [ftab EXCEPT ![i].mutex = b] /\ ftab_base' = ftab_base
    BY <1>2, <2>1
  <2> QED
    BY <1>3, <1>4, <2>2, ForkMutexSet
<1>6. Moves(t, local[t], "io") /\ pc[t] \in Using
  BY <1>2, <1>3 DEF Moves, ForkSteps, Using
<1>7. FdsSame /\ Elsewhere(local[t].proc) /\ fds' \in [Proc -> Seq(FdType)]
  BY <1>2, <1>3 DEF FdsSame, Elsewhere, ForkType
<1> QED
  BY <1>2, <1>5, <1>6, <1>7, UseGoesOn

\* Both are given back.
LEMMA IoDoneForks ==
  ASSUME ForkInv, OneThread, NEW t \in Thread, IoDone(t)
  PROVE  ForkInv'
<1>1. PICK p, i, k : p = local[t].proc /\ i = local[t].fd /\ k = local[t].ptr[2]
  OBVIOUS
<1>2. /\ Running(t) /\ pc[t] = "io" /\ Valid(local[t].ptr) /\ ftab' = [ftab EXCEPT ![k].mutex = FALSE]
      /\ SetFd(t, [Fd(t) EXCEPT !.mutex = FALSE]) /\ Return(t) /\ UNCHANGED <<ftab_mutex, ftab_base, procs>>
  BY <1>1 DEF IoDone, At
<1>3. ForkType /\ DoesAt(t) /\ ForAt(t) /\ OpenedAt(t) /\ ftab_mutex \in BOOLEAN
  BY ForkTable DEF ForkInv, ThreadAt
<1>4. ~Creates(t) /\ local[t].op \in {"read", "write"} /\ pc[t] \in Using
  BY <1>2, <1>3 DEF Creates, DoesAt, Using
<1>5. p \in Proc /\ i \in 1 .. Len(fds[p])
  BY <1>1, <1>2, <1>3, <1>4 DEF ForAt, OpenedAt
<1>6. k \in 1 .. Len(ftab)
  BY <1>1, <1>2, <1>3, ForkTable DEF Valid
<1>7. PICK b \in BOOLEAN : b = FALSE
  OBVIOUS
<1>8. ftab' \in Seq(EntryType) /\ SameFiles /\ RefsSame
  <2>1. ftab' = [ftab EXCEPT ![k].mutex = b] /\ ftab_base' = ftab_base
    BY <1>2, <1>7
  <2> QED
    BY <1>3, <1>6, <2>1, ForkMutexSet
<1>9. fds' \in [Proc -> Seq(FdType)] /\ FdsSame /\ Elsewhere(local[t].proc)
  <2>1. fds' = [fds EXCEPT ![p][i] = [fds[p][i] EXCEPT !.mutex = b]]
    BY <1>1, <1>2, <1>7 DEF SetFd, Fd
  <2>2. fds' \in [Proc -> Seq(FdType)] /\ FdsSame /\ \A q \in Proc \ {p} : fds'[q] = fds[q]
    BY <1>3, <1>5, <2>1, FdMutexSet
  <2> QED
    BY <1>1, <1>2, <2>2 DEF Elsewhere
<1>10. Moves(t, NoLocal, "idle")
  BY <1>2, NoForkLocal DEF Return, Goto, Moves, ForkSteps
<1>11. pc'[t] = "idle" /\ Mine(t) /\ pc' \in [Thread -> ForkSteps] /\ local' \in [Thread -> ForkLocalType]
  BY <1>3, <1>10, WhereItMoves
<1>12. ForkType' /\ ftab_mutex' \in BOOLEAN
  BY <1>2, <1>3, <1>8, <1>9, <1>11 DEF ForkType
<1>13. LockStep(t) /\ ConsoleOpen
  BY <1>2, <1>4, <1>11, ConsoleFirst DEF LockStep, InTable
<1>14. \A j : Descriptors(j)' \subseteq Descriptors(j)
  BY <1>2, <1>3, <1>9, <1>11, <1>12, FewerDescriptors DEF Copying
<1>15. procs' \in [Proc -> {"free", "new", "alive"}] /\ pc[t] # "idle"
  BY <1>2, <1>12 DEF ForkType
<1> QED
  BY <1>2, <1>4, <1>8, <1>9, <1>12, <1>13, <1>14, <1>15, ReturnsQuietly

-----------------------------------------------------------------------------
(* Steps that change the table (fs/ftab.c).                                *)

\* No pointer is into a table that is still to come.
LEMMA OldPointers ==
  ASSUME ForkInv
  PROVE  /\ \A p \in Proc : \A j \in 1 .. Len(fds[p]) : fds[p][j].ftab[1] <= ftab_base
         /\ \A t \in Thread : pc[t] \in {"slot", "fill"} => local[t].ptr[1] <= ftab_base
<1>1. ASSUME NEW p \in Proc, NEW j \in 1 .. Len(fds[p]) PROVE fds[p][j].ftab[1] <= ftab_base
  <2>1. PointsFd(fds[p][j]) /\ ftab_base \in Nat
    BY ForkTable DEF ForkInv, ProcAt
  <2>2. fds[p][j].ftab = <<0, 0>> \/ fds[p][j].ftab[1] <= ftab_base
    BY <2>1 DEF PointsFd, Points, NoPointer
  <2> QED
    BY <2>1, <2>2
<1>2. ASSUME NEW t \in Thread, pc[t] \in {"slot", "fill"} PROVE local[t].ptr[1] <= ftab_base
  BY <1>2 DEF ForkInv, ThreadAt, OpenedAt, Points
<1> QED
  BY <1>1, <1>2

\* The entry that an open counts itself in.
LEMMA CountsFork ==
  ASSUME ForkInv, OneThread, NEW t \in Thread, Running(t), pc[t] \in {"vfs_open", "entry", "vfs_reopen"},
         pc' = [pc EXCEPT ![t] = "unlock"], UNCHANGED <<ftab_mutex, ftab_base, procs, fds, local>>,
         NEW i, i = local[t].idx, NEW e \in EntryType, ftab' = [ftab EXCEPT ![i] = e],
         e.refs = ftab[i].refs + 1, e.node = local[t].node, ftab[i].node \in {NULL, local[t].node},
         ftab[i].node # NULL => /\ e.excl = ftab[i].excl
                                /\ Modes(ftab[i].read, ftab[i].write) \subseteq Modes(e.read, e.write),
         Modes(local[t].read, local[t].write) \subseteq Modes(e.read, e.write),
         ~ConsoleOpen => e.excl = NULL
  PROVE  ForkInv'
<1>1. /\ ForkType /\ local[t] \in ForkLocalType /\ local \in [Thread -> ForkLocalType]
      /\ DoesAt(t) /\ ForAt(t) /\ WalksAt(t) /\ CreatesAt(t) /\ ForksAt(t) /\ Len(ftab) \in Nat
  BY ForkFields, ForkTable DEF ForkInv, ForkType, ThreadAt
<1>2. local' = [local EXCEPT ![t] = local[t]]
  BY <1>1
<1>3. Moves(t, local[t], "unlock") /\ pc[t] \in OpenSteps /\ pc[t] \in InTable
  BY <1>1, <1>2 DEF Moves, ForkSteps, OpenSteps, InTable
<1>4. /\ pc'[t] = "unlock" /\ local'[t] = local[t] /\ Mine(t)
      /\ pc' \in [Thread -> ForkSteps] /\ local' \in [Thread -> ForkLocalType]
  BY <1>1, <1>3, WhereItMoves
<1>5. i \in 1 .. Len(ftab)
  BY <1>1 DEF WalksAt, InTable
<1>6. /\ ftab' \in Seq(EntryType) /\ Len(ftab') = Len(ftab) /\ ftab'[i] = e
      /\ \A j \in 1 .. Len(ftab) : j # i => ftab'[j] = ftab[j]
  BY <1>1, <1>5, ForkEntrySet
<1>7. ForkType'
  BY <1>1, <1>4, <1>6 DEF ForkType
<1>8. TableGrows
  <2>1. ASSUME NEW j \in 1 .. Len(ftab), ftab[j].node # NULL
        PROVE  /\ ftab'[j].node = ftab[j].node /\ ftab'[j].excl = ftab[j].excl
               /\ Modes(ftab[j].read, ftab[j].write) \subseteq Modes(ftab'[j].read, ftab'[j].write)
    <3>1. CASE j = i
      BY <1>6, <2>1, <3>1
    <3>2. CASE j # i
      BY <1>6, <3>2
    <3> QED
      BY <3>1, <3>2
  <2>2. ftab_base \in Nat
    BY <1>1, ForkTable
  <2> QED
    BY <1>1, <1>6, <2>1, <2>2 DEF TableGrows
<1>9. LockStep(t)
  BY <1>3 DEF LockStep, ForkInv, InvLock
<1>10. PICK w : w = local[t].proc
  OBVIOUS
<1>11. Own(t, w) /\ w \in Proc /\ pc[t] # "idle"
  BY <1>10, OwnProc
<1>12. FdsSame /\ Elsewhere(w)
  BY DEF FdsSame, Elsewhere
<1>13. DoesAt(t)' /\ ForAt(t)'
  BY <1>1, <1>3, <1>4 DEF DoesAt, ForAt, OpenSteps, Copying, Using
<1>14. WalksAt(t)'
  BY <1>4, <1>5, <1>6 DEF WalksAt, InTable
<1>15. OpenedAt(t)'
  <2>1. PICK node, r, x, b : node = local[t].node /\ r = local[t].read /\ x = local[t].write /\ b = ftab_base
    OBVIOUS
  <2>2. node \in Node /\ b \in Nat /\ <<b, i>>[1] = b /\ <<b, i>>[2] = i
    BY <1>1, <1>3, <2>1, ForkTable DEF DoesAt
  <2>3. Points(<<b, i>>, node, r, x)'
    BY <1>5, <1>6, <2>1, <2>2 DEF Points
  <2> QED
    BY <1>4, <2>1, <2>3 DEF OpenedAt, Using
<1>16. (Creates(t)' <=> Creates(t)) /\ Has(t)' = Has(t)
  BY <1>4 DEF Creates, Has
<1>17. CreatesAt(t)'
  <2>1. \A n : Standard(local[t].proc, n)' <=> Standard(local[t].proc, n)
    BY <1>4 DEF Standard
  <2>2. CASE Creates(t)
    <3>1. /\ local[t].left <= STDFDS /\ Standard(local[t].proc, Has(t))
          /\ Len(fds[local[t].proc]) = 0 \/ Len(fds[local[t].proc]) >= STDFDS
          /\ \A j \in 1 .. Len(fds[local[t].proc]) : j > Has(t) => fds[local[t].proc][j].ftab = NoPointer
          /\ local[t].left > 0 /\ local[t].node = dev_console /\ local[t].duplicate = TRUE
          /\ local[t].excl = FALSE /\ local[t].idx = 1
      BY <1>1, <1>3, <2>2 DEF CreatesAt
    <3>2. Standard(local[t].proc, Has(t))'
      BY <1>16, <2>1, <3>1
    <3> QED
      BY <1>4, <1>16, <3>1, <3>2 DEF CreatesAt, Copying
  <2>3. CASE ~Creates(t)
    BY <1>16, <2>3 DEF CreatesAt
  <2> QED
    BY <2>2, <2>3
<1>18. ForksAt(t)'
  <2>1. Current(owner[t])' <=> Current(owner[t])
    BY DEF Current
  <2> QED
    BY <1>1, <1>3, <1>4, <1>16, <2>1 DEF ForksAt
<1>19. ThreadAt(t)'
  BY <1>13, <1>14, <1>15, <1>17, <1>18 DEF ThreadAt
<1>20. ProcAt(w)'
  <2>1. MayRun(t, w)
    BY <1>1, <1>16 DEF MayRun, ForkType
  <2> QED
    BY <1>4, <1>7, <1>8, <1>10, <1>11, <1>12, <1>13, <2>1, SameProcess
<1>21. InvConsole'
  <2>1. CASE ConsoleOpen
    BY <1>7, <1>8, <2>1, ConsoleStays DEF InvConsole
  <2>2. CASE ~ConsoleOpen
    <3>1. Creates(t) /\ e.excl = NULL
      BY <2>2, ConsoleFirst
    <3>2. i = 1 /\ e.node = dev_console
      BY <1>1, <1>3, <3>1 DEF CreatesAt
    <3> QED
      BY <1>1, <1>5, <1>6, <3>1, <3>2 DEF InvConsole, ConsoleOpen
  <2> QED
    BY <2>1, <2>2
<1>22. \A k : Descriptors(k)' \subseteq Descriptors(k)
  BY <1>1, <1>4, <1>7, <1>12, FewerDescriptors DEF Copying
<1>23. ASSUME NEW k \in 1 .. Len(ftab') PROVE CountAt(k)'
  <2>1. k \in 1 .. Len(ftab) /\ CountAt(k)
    BY <1>6 DEF ForkInv
  <2>2. CASE k # i
    <3>1. t \in Opening(k)' => t \in Opening(k)
      BY <1>4, <2>2 DEF Opening
    <3>2. Opening(k)' \subseteq Opening(k)
      BY <1>4, <3>1, FewerOpening
    <3>3. ftab'[k] = ftab[k]
      BY <1>6, <2>1, <2>2
    <3> QED
      BY <1>1, <1>22, <2>1, <3>2, <3>3, FewerCounted
  <2>3. CASE k = i
    <3>1. Opening(k)' \subseteq Opening(k) \union {t}
      BY <1>4 DEF Opening, Mine
    <3>2. Cardinality(Opening(k)') <= Cardinality(Opening(k) \union {t})
      <4>1. Opening(k) \union {t} \in SUBSET Thread
        BY Users
      <4> QED
        BY <3>1, <4>1, FewerUsers
    <3>3. Cardinality(Opening(k) \union {t}) <= Cardinality(Opening(k)) + 1
      BY Users, OneMoreUser
    <3>4. Cardinality(Descriptors(k)') <= Cardinality(Descriptors(k))
      BY <1>22, Users, FewerUsers
    <3>5. PICK d \in Nat, o \in Nat : d = Cardinality(Descriptors(k)) /\ o = Cardinality(Opening(k))
      BY Users
    <3>6. PICK d1 \in Nat, o1 \in Nat : d1 = Cardinality(Descriptors(k)') /\ o1 = Cardinality(Opening(k)')
      BY Users
    <3>7. Cardinality(Opening(k) \union {t}) \in Nat
      <4>1. Opening(k) \union {t} \in SUBSET Thread
        BY Users
      <4> QED
        BY <4>1, FiniteUsers
    <3>8. o1 <= o + 1 /\ d1 <= d
      BY <3>2, <3>3, <3>4, <3>5, <3>6, <3>7
    <3>9. PICK n \in Nat : n = ftab[k].refs
      BY <1>1, <2>1, ForkEntry
    <3>10. n >= d + o /\ ftab'[k].refs = n + 1 /\ ftab'[k].node = local[t].node
      BY <1>6, <2>1, <2>3, <3>5, <3>9 DEF CountAt
    <3>11. n + 1 >= d1 + o1 /\ n + 1 # 0
      BY <3>8, <3>10
    <3>12. local[t].node # NULL
      BY <1>1, <1>3, Constants DEF DoesAt
    <3> QED
      BY <3>6, <3>10, <3>11, <3>12 DEF CountAt
  <2> QED
    BY <2>2, <2>3
<1> QED
  BY <1>3, <1>4, <1>7, <1>8, <1>9, <1>10, <1>11, <1>12, <1>19, <1>20, <1>21, <1>23, ForkStep

\* A file is opened for the first time, or once more (fs/ftab.c).
LEMMA OpenFirstDoneForks ==
  ASSUME ForkInv, OneThread, NEW t \in Thread, OpenFirstDone(t)
  PROVE  ForkInv'
<1>1. PICK i, l : i = local[t].idx /\ l = local[t]
  OBVIOUS
<1>2. /\ ForkType /\ l \in ForkLocalType /\ DoesAt(t) /\ ForAt(t) /\ WalksAt(t) /\ CreatesAt(t)
  BY <1>1, ForkFields DEF ForkInv, ThreadAt
<1>3. PICK e : e = [node |-> l.node, read |-> l.read, write |-> l.write, refs |-> 1,
                    excl |-> IF l.excl THEN l.proc ELSE NULL, mutex |-> ftab[i].mutex]
  OBVIOUS
<1>4. /\ Running(t) /\ pc[t] = "vfs_open" /\ pc' = [pc EXCEPT ![t] = "unlock"]
      /\ UNCHANGED <<ftab_mutex, ftab_base, procs, fds, local>> /\ ftab' = [ftab EXCEPT ![i] = e]
  BY <1>1, <1>3 DEF OpenFirstDone, At, Goto
<1>5. i \in 1 .. Len(ftab) /\ ftab[i].node = NULL /\ pc[t] \in OpenSteps
  BY <1>1, <1>2, <1>4 DEF WalksAt, InTable, OpenSteps
<1>6. ftab[i].refs = 0 /\ ftab[i].mutex \in BOOLEAN
  BY <1>2, <1>5, ForkEntry DEF ForkInv, CountAt
<1>7. l.node \in Node /\ l.proc \in Proc /\ l.read \in BOOLEAN /\ l.write \in BOOLEAN /\ l.excl \in BOOLEAN
  BY <1>1, <1>2, <1>5, ForkFields, OwnProc DEF DoesAt, ForAt, OpenSteps
<1>8. PICK h \in Proc \union {NULL} : h = IF l.excl THEN l.proc ELSE NULL
  BY <1>7
<1>9. e = [node |-> l.node, read |-> l.read, write |-> l.write, refs |-> 1, excl |-> h, mutex |-> ftab[i].mutex]
  BY <1>3, <1>8
<1>10. e \in EntryType /\ e.refs = ftab[i].refs + 1 /\ e.node = l.node /\ e.excl = h
       /\ e.read = l.read /\ e.write = l.write
  BY <1>6, <1>7, <1>9 DEF EntryType
<1>11. ~ConsoleOpen => e.excl = NULL
  <2> SUFFICES ASSUME ~ConsoleOpen PROVE e.excl = NULL
    OBVIOUS
  <2>1. l.excl = FALSE
    BY <1>1, <1>2, <1>4, <1>5, ConsoleFirst DEF CreatesAt
  <2> QED
    BY <1>8, <1>10, <2>1
<1> QED
  BY <1>1, <1>4, <1>5, <1>10, <1>11, CountsFork

\* The modes an open asks for are among those it widens the entry to.
LEMMA WidenedFork ==
  ASSUME NEW t, NEW e
  PROVE  /\ Modes(local[t].read, local[t].write) \subseteq Widened(t, e)
         /\ Modes(e.read, e.write) \subseteq Widened(t, e)
BY DEF Widened, Modes
\* An open finds its entry in use: it is counted, or the modes are widened first.
LEMMA OpenAgainForks ==
  ASSUME ForkInv, OneThread, NEW t \in Thread, OpenAgain(t)
  PROVE  ForkInv'
<1>1. PICK i : i = local[t].idx
  OBVIOUS
<1>2. CASE pc'[t] = "vfs_reopen"
  BY <1>2, ReopensForks
<1>3. CASE pc'[t] # "vfs_reopen"
  <2>1. /\ ForkType /\ WalksAt(t) /\ DoesAt(t) /\ pc \in [Thread -> ForkSteps] /\ Len(ftab) \in Nat
    BY ForkFields, ForkTable DEF ForkInv, ForkType, ThreadAt
  <2>2. PICK e : e = Counted(ftab[i])
    OBVIOUS
  <2>3. /\ Running(t) /\ pc[t] = "entry" /\ ftab[i].node # NULL
        /\ Widened(t, ftab[i]) = Modes(ftab[i].read, ftab[i].write)
        /\ ftab' = [ftab EXCEPT ![i] = e] /\ pc' = [pc EXCEPT ![t] = "unlock"]
        /\ UNCHANGED <<ftab_mutex, ftab_base, procs, fds, local>>
    BY <1>1, <1>3, <2>1, <2>2 DEF OpenAgain, At, Goto
  <2>4. i \in 1 .. Len(ftab) /\ ftab[i].node = local[t].node
    BY <1>1, <2>1, <2>3 DEF WalksAt, InTable
  <2>5. /\ e \in EntryType /\ e.refs = ftab[i].refs + 1 /\ e.node = ftab[i].node /\ e.excl = ftab[i].excl
        /\ e.read = ftab[i].read /\ e.write = ftab[i].write
    BY <2>1, <2>2, <2>4, ForkEntry DEF Counted, EntryType
  <2>6. ConsoleOpen
    <3>1. pc[t] \in InTable \ {"vfs_open"} /\ ftab[local[t].idx].node # NULL /\ pc[t] \notin {"scan", "entry_lock"}
      BY <1>1, <2>3 DEF InTable
    <3> QED
      BY <2>3, <3>1, InUse
  <2>7. Modes(local[t].read, local[t].write) \subseteq Modes(e.read, e.write)
    BY <2>3, <2>5, WidenedFork
  <2>8. /\ i = local[t].idx /\ e.refs = ftab[i].refs + 1 /\ e.node = local[t].node
        /\ ftab[i].node \in {NULL, local[t].node}
        /\ ftab[i].node # NULL => /\ e.excl = ftab[i].excl
                                 /\ Modes(ftab[i].read, ftab[i].write) \subseteq Modes(e.read, e.write)
    BY <1>1, <2>4, <2>5
  <2>9. e \in EntryType /\ (~ConsoleOpen => e.excl = NULL)
    BY <2>5, <2>6
  <2>10. pc[t] \in {"vfs_open", "entry", "vfs_reopen"}
    BY <2>3
  <2> QED
    BY <2>3, <2>7, <2>8, <2>9, <2>10, CountsFork
<1> QED
  BY <1>2, <1>3
\* The modes are widened, and the open is counted.
LEMMA OpenAgainDoneForks ==
  ASSUME ForkInv, OneThread, NEW t \in Thread, OpenAgainDone(t)
  PROVE  ForkInv'
<1>1. PICK i, m : i = local[t].idx /\ m = local[t].mode
  OBVIOUS
<1>2. ForkType /\ WalksAt(t) /\ m \in SUBSET {"r", "w"}
  BY <1>1, ForkFields DEF ForkInv, ThreadAt
<1> DEFINE r == "r" \in local[t].mode
           x == "w" \in local[t].mode
           g == [ftab[i] EXCEPT !.read = r, !.write = x]
           e == Counted(g)
<1>3. r \in BOOLEAN /\ x \in BOOLEAN /\ Modes(r, x) = m
  BY <1>1, <1>2 DEF Modes
<1>4. /\ Running(t) /\ pc[t] = "vfs_reopen" /\ pc' = [pc EXCEPT ![t] = "unlock"]
      /\ UNCHANGED <<ftab_mutex, ftab_base, procs, fds, local>>
      /\ ftab' = [ftab EXCEPT ![i] = e]
  BY <1>1 DEF OpenAgainDone, At, Goto
<1> HIDE DEF r, x
<1>5. i \in 1 .. Len(ftab) /\ ftab[i].node = local[t].node /\ m = Widened(t, ftab[i])
  BY <1>1, <1>2, <1>4 DEF WalksAt, InTable
<1>6. /\ g \in EntryType /\ g.refs = ftab[i].refs /\ g.refs \in Nat /\ g.node = ftab[i].node
      /\ g.excl = ftab[i].excl /\ g.read = r /\ g.write = x
  BY <1>2, <1>3, <1>5, ForkEntry DEF EntryType
<1> HIDE DEF g
<1>7. /\ e \in EntryType /\ e.refs = ftab[i].refs + 1 /\ e.node = ftab[i].node /\ e.excl = ftab[i].excl
      /\ e.read = r /\ e.write = x
  BY <1>6 DEF Counted, EntryType
<1> HIDE DEF e
<1>8. Modes(e.read, e.write) = m
  BY <1>3, <1>7
<1>9. ConsoleOpen
  <2>1. pc[t] \in InTable \ {"vfs_open"} /\ pc[t] \notin {"scan", "entry_lock", "entry"}
    BY <1>4 DEF InTable
  <2> QED
    BY <1>4, <2>1, InUse
<1>10. /\ Modes(local[t].read, local[t].write) \subseteq Modes(e.read, e.write)
       /\ Modes(ftab[i].read, ftab[i].write) \subseteq Modes(e.read, e.write)
  BY <1>5, <1>8, WidenedFork
<1>11. /\ pc[t] \in {"vfs_open", "entry", "vfs_reopen"} /\ i = local[t].idx
       /\ e \in EntryType /\ e.refs = ftab[i].refs + 1 /\ e.node = local[t].node
       /\ ftab[i].node \in {NULL, local[t].node} /\ e.excl = ftab[i].excl
  BY <1>1, <1>4, <1>5, <1>7
<1> QED
  BY <1>4, <1>9, <1>10, <1>11, CountsFork

\* What is added to a table comes after what was there, and is all alike (fs/ftab.c,
\* exec/process.c).
LEMMA AddedLast ==
  ASSUME NEW S, NEW f \in Seq(S), NEW g \in Seq(S), NEW z, \A j \in 1 .. Len(g) : g[j] = z,
         NEW h, h = f \o g
  PROVE  /\ h \in Seq(S) /\ Len(h) = Len(f) + Len(g)
         /\ \A j \in 1 .. Len(f) : h[j] = f[j]
         /\ \A j \in 1 .. Len(h) : j \notin 1 .. Len(f) => h[j] = z
<1>1. Len(f) \in Nat /\ Len(g) \in Nat
  OBVIOUS
<1>2. h \in Seq(S) /\ Len(h) = Len(f) + Len(g)
  <2>1. \A a, b \in Seq(S) : a \o b \in Seq(S) /\ Len(a \o b) = Len(a) + Len(b)
    OBVIOUS
  <2> QED
    BY <2>1, Zenon
<1>3. \A j \in 1 .. Len(f) : h[j] = f[j]
  OBVIOUS
<1>4. ASSUME NEW j \in 1 .. Len(h), j \notin 1 .. Len(f) PROVE h[j] = z
  <2>1. j - Len(f) \in 1 .. Len(g)
    BY <1>1, <1>2, <1>4
  <2>2. h[j] = g[j - Len(f)]
    BY <1>1, <1>2, <1>4
  <2> QED
    BY <2>1, <2>2
<1> QED
  BY <1>2, <1>3, <1>4

\* The table grows, and may move: no pointer is into the new one.
LEMMA GrowForks ==
  ASSUME ForkInv, OneThread, NEW t \in Thread, Grow(t)
  PROVE  ForkInv'
<1>1. PICK i, w : i = local[t].idx /\ w = local[t].proc
  OBVIOUS
<1>2. /\ ForkType /\ local[t] \in ForkLocalType /\ local \in [Thread -> ForkLocalType]
      /\ DoesAt(t) /\ ForAt(t) /\ WalksAt(t) /\ CreatesAt(t) /\ ForksAt(t)
      /\ ftab_base \in Nat /\ ftab \in Seq(EntryType) /\ Len(ftab) \in Nat /\ DOMAIN ftab = 1 .. Len(ftab)
  BY ForkFields, ForkTable DEF ForkInv, ForkType, ThreadAt
<1>3. PICK n \in Nat : n = Len(ftab)
  BY <1>2
<1>4. PICK a \in Nat \ {0} : a = FTAB_ALLOCSZ
  BY Constants
<1>5. /\ Running(t) /\ pc[t] = "scan" /\ i \notin DOMAIN ftab /\ pc' = [pc EXCEPT ![t] = "entry_lock"]
      /\ ftab' = ftab \o [j \in 1 .. a |-> NoEntry] /\ ftab_base' = ftab_base + 1
      /\ UNCHANGED <<ftab_mutex, procs, fds, local>>
  BY <1>1, <1>4 DEF Grow, At, Goto
<1>6. PICK g : g = [j \in 1 .. a |-> NoEntry]
  OBVIOUS
<1>7. NoEntry \in EntryType /\ NoEntry.node = NULL /\ NoEntry.refs = 0
  BY DEF NoEntry, EntryType
<1>8. g \in Seq(EntryType) /\ Len(g) = a /\ \A j \in 1 .. a : g[j] = NoEntry
  BY <1>6, <1>7
<1>9. /\ ftab' \in Seq(EntryType) /\ Len(ftab') = n + a
      /\ \A j \in 1 .. n : ftab'[j] = ftab[j]
      /\ \A j \in n + 1 .. n + a : ftab'[j] = NoEntry
  <2>1. ftab' = ftab \o g
    BY <1>5, <1>6
  <2>2. /\ ftab' \in Seq(EntryType) /\ Len(ftab') = Len(ftab) + Len(g)
        /\ \A j \in 1 .. Len(ftab) : ftab'[j] = ftab[j]
        /\ \A j \in 1 .. Len(ftab') : j \notin 1 .. Len(ftab) => ftab'[j] = NoEntry
    <3>1. g \in Seq(EntryType) /\ ftab \in Seq(EntryType) /\ \A j \in 1 .. Len(g) : g[j] = NoEntry
      BY <1>2, <1>8
    <3> QED
      BY <2>1, <3>1, AddedLast
  <2>3. ASSUME NEW j \in n + 1 .. n + a PROVE ftab'[j] = NoEntry
    <3>1. j \in 1 .. n + a /\ ~(j \in 1 .. n)
      BY <1>3, <1>4
    <3> QED
      BY <1>3, <1>8, <2>2, <3>1
  <2> QED
    BY <1>3, <1>8, <2>2, <2>3
<1>10. i = n + 1 /\ n + 1 \in n + 1 .. n + a /\ n + 1 \in 1 .. n + a
  BY <1>1, <1>2, <1>3, <1>4, <1>5 DEF WalksAt
<1>11. local' = [local EXCEPT ![t] = local[t]]
  BY <1>2, <1>5
<1>12. Moves(t, local[t], "entry_lock") /\ pc[t] \in OpenSteps /\ pc[t] \in InTable
  BY <1>2, <1>5, <1>11 DEF Moves, ForkSteps, OpenSteps, InTable
<1>13. /\ pc'[t] = "entry_lock" /\ local'[t] = local[t] /\ Mine(t)
       /\ pc' \in [Thread -> ForkSteps] /\ local' \in [Thread -> ForkLocalType]
  BY <1>2, <1>12, WhereItMoves
<1>14. ForkType'
  BY <1>2, <1>5, <1>9, <1>13 DEF ForkType
<1>15. TableGrows
  BY <1>2, <1>3, <1>5, <1>9 DEF TableGrows
<1>16. LockStep(t)
  BY <1>5, <1>12 DEF LockStep, ForkInv, InvLock
<1>17. Own(t, w) /\ w \in Proc /\ pc[t] # "idle"
  BY <1>1, <1>5, OwnProc
<1>18. FdsSame /\ Elsewhere(w)
  BY <1>5 DEF FdsSame, Elsewhere
<1>19. DoesAt(t)' /\ ForAt(t)' /\ OpenedAt(t)'
  BY <1>2, <1>5, <1>12, <1>13 DEF DoesAt, ForAt, OpenedAt, OpenSteps, Copying, Using
<1>20. WalksAt(t)'
  <2>1. i \in 1 .. Len(ftab') /\ ftab'[i] = NoEntry
    BY <1>9, <1>10
  <2>2. i = local'[t].idx
    BY <1>1, <1>13
  <2>3. ftab'[i].node = NULL
    BY <1>7, <2>1
  <2> QED
    BY <1>13, <2>1, <2>2, <2>3 DEF WalksAt, InTable
<1>21. (Creates(t)' <=> Creates(t)) /\ Has(t)' = Has(t)
  BY <1>13 DEF Creates, Has
<1>22. CreatesAt(t)'
  <2>1. \A k : Standard(local[t].proc, k)' <=> Standard(local[t].proc, k)
    BY <1>5 DEF Standard
  <2>2. CASE Creates(t)
    <3>1. /\ local[t].left <= STDFDS /\ Standard(local[t].proc, Has(t))
          /\ Len(fds[local[t].proc]) = 0 \/ Len(fds[local[t].proc]) >= STDFDS
          /\ \A j \in 1 .. Len(fds[local[t].proc]) : j > Has(t) => fds[local[t].proc][j].ftab = NoPointer
          /\ local[t].left > 0 /\ local[t].node = dev_console /\ local[t].duplicate = TRUE
          /\ local[t].excl = FALSE /\ local[t].idx = 1
      BY <1>2, <1>12, <2>2 DEF CreatesAt
    <3>2. Standard(local[t].proc, Has(t))'
      BY <1>13, <1>21, <2>1, <3>1
    <3> QED
      BY <1>5, <1>13, <1>21, <3>1, <3>2 DEF CreatesAt, Copying
  <2>3. CASE ~Creates(t)
    BY <1>21, <2>3 DEF CreatesAt
  <2> QED
    BY <2>2, <2>3
<1>23. ~Current(owner[t])'
  <2> SUFFICES ASSUME NEW j \in 1 .. STDFDS, j <= Len(fds[owner[t]]),
                      fds[owner[t]][j].ftab[1] = ftab_base + 1
               PROVE  FALSE
    BY <1>5 DEF Current
  <2>1. owner[t] \in Proc /\ STDFDS \in Nat
    BY Constants
  <2>2. Len(fds[owner[t]]) \in Nat
    BY <1>2, <2>1, ForkFds
  <2>3. j \in 1 .. Len(fds[owner[t]])
    BY <2>1, <2>2
  <2>4. fds[owner[t]][j].ftab[1] <= ftab_base
    BY <2>1, <2>3, OldPointers
  <2> QED
    BY <1>2, <2>4
<1>24. ThreadAt(t)'
  BY <1>19, <1>20, <1>22, <1>23 DEF ThreadAt, ForksAt
<1>25. ProcAt(w)'
  <2>1. MayRun(t, w)
    BY <1>2, <1>5, <1>21 DEF MayRun, ForkType
  <2> QED
    BY <1>1, <1>13, <1>14, <1>15, <1>17, <1>18, <1>19, <2>1, SameProcess
<1>26. InvConsole'
  <2>1. CASE ConsoleOpen
    BY <1>14, <1>15, <2>1, ConsoleStays DEF InvConsole
  <2>2. CASE ~ConsoleOpen
    <3>1. Creates(t) /\ (Len(ftab) >= 1 => ftab[1].node = NULL)
      BY <1>5, <2>2, ConsoleFirst
    <3>2. n = 0
      BY <1>2, <1>10, <1>12, <1>1, <3>1 DEF CreatesAt
    <3>3. ftab'[1].node = NULL
      BY <1>7, <1>9, <1>10, <3>2
    <3> QED
      BY <1>5, <1>13, <1>21, <2>2, <3>1, <3>3, BootStays DEF InvConsole, BootSteps
  <2> QED
    BY <2>1, <2>2
<1>27. ASSUME NEW k PROVE Descriptors(k)' = {}
  <2> SUFFICES ASSUME NEW d \in Descriptors(k)' PROVE FALSE
    OBVIOUS
  <2>1. /\ d \in Proc \X (1 .. MAX_FDS) /\ d[2] \in DOMAIN fds[d[1]]
        /\ fds[d[1]][d[2]].ftab = <<ftab_base + 1, k>>
    BY <1>5 DEF Descriptors
  <2>2. d[1] \in Proc
    BY <2>1
  <2>3. d[2] \in 1 .. Len(fds[d[1]])
    BY <1>2, <2>1, <2>2, ForkFds
  <2>4. fds[d[1]][d[2]].ftab[1] <= ftab_base /\ fds[d[1]][d[2]].ftab[1] = ftab_base + 1
    BY <2>1, <2>2, <2>3, OldPointers
  <2> QED
    BY <1>2, <2>4
<1>28. ASSUME NEW k, NEW u \in Opening(k)' PROVE k \in 1 .. n /\ u \in Opening(k)
  <2>1. u \in Thread /\ u # t
    BY <1>13, <1>28 DEF Opening
  <2>2. /\ pc'[u] = pc[u] /\ local'[u] = local[u] /\ ThreadAt(u)
    BY <1>13, <2>1 DEF Mine, ForkInv
  <2>3. pc[u] # "unlock"
    BY <1>12, <2>1 DEF InTable, ForkInv, InvLock
  <2>4. CASE pc[u] = "opened"
    <3>1. local[u].idx = k
      BY <1>28, <2>2, <2>4 DEF Opening
    <3> QED
      BY <1>3, <2>1, <2>2, <2>4, <3>1 DEF ThreadAt, WalksAt, Opening
  <2>5. CASE pc[u] # "opened"
    <3>1. pc[u] \in {"slot", "fill"} /\ local[u].ptr = <<ftab_base + 1, k>>
      BY <1>5, <1>28, <2>2, <2>3, <2>5 DEF Opening
    <3>2. local[u].ptr[1] <= ftab_base /\ local[u].ptr[1] = ftab_base + 1
      BY <2>1, <3>1, OldPointers
    <3> QED
      BY <1>2, <3>2
  <2> QED
    BY <2>4, <2>5
<1>29. ASSUME NEW k \in 1 .. Len(ftab') PROVE CountAt(k)'
  <2>1. Descriptors(k)' \subseteq Descriptors(k) /\ Opening(k)' \subseteq Opening(k)
    BY <1>27, <1>28
  <2>2. CASE k \in 1 .. n
    <3>1. CountAt(k) /\ k \in 1 .. Len(ftab) /\ ftab'[k] = ftab[k]
      BY <1>3, <1>9, <2>2 DEF ForkInv
    <3> QED
      BY <1>2, <2>1, <3>1, FewerCounted
  <2>3. CASE k \notin 1 .. n
    <3>1. ftab'[k].refs = 0 /\ ftab'[k].node = NULL
      <4>1. k \in n + 1 .. n + a
        BY <1>3, <1>4, <1>9, <2>3
      <4> QED
        BY <1>7, <1>9, <4>1
    <3>2. Descriptors(k)' = {} /\ Opening(k)' = {}
      BY <1>27, <1>28, <2>3
    <3>3. Cardinality(Descriptors(k)') = 0 /\ Cardinality(Opening(k)') = 0
      BY <3>2, FS_EmptySet
    <3> QED
      BY <3>1, <3>3 DEF CountAt
  <2> QED
    BY <2>2, <2>3
<1> QED
  BY <1>1, <1>12, <1>13, <1>14, <1>15, <1>16, <1>17, <1>18, <1>24, <1>25, <1>26, <1>29, ForkStep

-----------------------------------------------------------------------------
(* Steps that change descriptors (exec/process.c).                         *)

\* A descriptor that is counted was, if it was of the same entry.
LEMMA StillCounted ==
  ASSUME ForkType, NEW t \in Thread, Mine(t), NEW k, NEW d \in Descriptors(k)',
         ~(pc[t] \in Copying /\ local[t].proc = d[1] /\ local[t].fd <= d[2]),
         d[2] \in DOMAIN fds[d[1]], fds[d[1]][d[2]].ftab = <<ftab_base, k>>
  PROVE  d \in Descriptors(k)
<1>1. /\ d \in Proc \X (1 .. MAX_FDS)
      /\ \A u \in Thread : local'[u].proc = d[1] =>
          /\ ~(pc'[u] = "close_unlock" /\ local'[u].fd = d[2])
          /\ ~(pc'[u] \in {"reopen", "reopen_lock"} /\ local'[u].fd <= d[2])
  BY DEF Descriptors
<1>2. ASSUME NEW u \in Thread, local[u].proc = d[1]
      PROVE  /\ ~(pc[u] = "close_unlock" /\ local[u].fd = d[2])
             /\ ~(pc[u] \in {"reopen", "reopen_lock"} /\ local[u].fd <= d[2])
  <2>1. pc[u] # "close_unlock"
    BY ForkFields DEF ForkSteps, OpenSteps, Copying, Using
  <2>2. CASE u = t
    BY <1>2, <2>1, <2>2 DEF Copying
  <2>3. CASE u # t
    BY <1>1, <1>2, <2>3 DEF Mine
  <2> QED
    BY <2>1, <2>2, <2>3
<1> QED
  BY <1>1, <1>2 DEF Descriptors
\* A descriptor is replaced.
LEMMA ForkFdSet ==
  ASSUME ForkType, NEW p \in Proc, NEW i \in 1 .. Len(fds[p]), NEW f \in FdType,
         fds' = [fds EXCEPT ![p][i] = f]
  PROVE  /\ fds' \in [Proc -> Seq(FdType)] /\ \A q \in Proc \ {p} : fds'[q] = fds[q]
         /\ Len(fds'[p]) = Len(fds[p]) /\ fds'[p][i] = f
         /\ \A j \in 1 .. Len(fds[p]) : j # i => fds'[p][j] = fds[p][j]
<1>1. fds \in [Proc -> Seq(FdType)] /\ fds[p] \in Seq(FdType)
  BY ForkFds DEF ForkType
<1>2. PICK g : g = [fds[p] EXCEPT ![i] = f]
  OBVIOUS
<1>3. g \in Seq(FdType) /\ Len(g) = Len(fds[p]) /\ g[i] = f /\ \A j \in 1 .. Len(fds[p]) : j # i => g[j] = fds[p][j]
  BY <1>1, <1>2
<1>4. fds' = [fds EXCEPT ![p] = g]
  BY <1>2
<1>5. fds' \in [Proc -> Seq(FdType)] /\ fds'[p] = g /\ \A q \in Proc \ {p} : fds'[q] = fds[q]
  BY <1>1, <1>3, <1>4
<1> QED
  BY <1>3, <1>5
\* A descriptor that is not in use.
LEMMA NoForkFd == NoFd \in FdType /\ NoFd.ftab = NoPointer
BY DEF NoFd, FdType, NoPointer

\* The descriptor table grows.
LEMMA SlotGrowForks ==
  ASSUME ForkInv, OneThread, RoomForStd, NEW t \in Thread, SlotGrow(t)
  PROVE  ForkInv'
<1>1. PICK p : p = local[t].proc
  OBVIOUS
<1>2. /\ ForkType /\ local[t] \in ForkLocalType
      /\ DoesAt(t) /\ ForAt(t) /\ OpenedAt(t) /\ CreatesAt(t) /\ ForksAt(t) /\ ftab_mutex \in BOOLEAN
  BY ForkFields, ForkTable DEF ForkInv, ThreadAt
<1>3. PICK a \in Nat \ {0} : a = PROC_FDS_ALLOCSZ
  BY Constants
<1>4. PICK g : g = [j \in 1 .. a |-> NoFd]
  OBVIOUS
<1>5. PICK f : f = fds[p] \o g
  OBVIOUS
<1>6. PICK n : n = Len(fds[p]) + 1
  OBVIOUS
<1>7. PICK L : L = [local[t] EXCEPT !.fd = n]
  OBVIOUS
<1>8. /\ Running(t) /\ pc[t] = "slot" /\ NoSlot(t) /\ pc' = [pc EXCEPT ![t] = "fill"]
      /\ fds' = [fds EXCEPT ![p] = f] /\ local' = [local EXCEPT ![t] = L]
      /\ UNCHANGED <<ftab, ftab_mutex, ftab_base, procs>>
  BY <1>1, <1>3, <1>4, <1>5, <1>6, <1>7 DEF SlotGrow, At, Goto, table
<1>9. Own(t, p) /\ p \in Proc /\ pc[t] # "idle" /\ pc[t] \in OpenSteps
  BY <1>1, <1>8, OwnProc DEF OpenSteps
<1>10. fds[p] \in Seq(FdType) /\ Len(fds[p]) \in Nat
  BY <1>2, <1>9, ForkFds
<1>11. g \in Seq(FdType) /\ Len(g) = a /\ \A j \in 1 .. Len(g) : g[j] = NoFd
  BY <1>3, <1>4, NoForkFd
<1>12. /\ f \in Seq(FdType) /\ Len(f) = Len(fds[p]) + a
       /\ \A j \in 1 .. Len(fds[p]) : f[j] = fds[p][j]
       /\ \A j \in 1 .. Len(f) : j \notin 1 .. Len(fds[p]) => f[j] = NoFd
  <2>1. PICK o \in Seq(FdType) : o = fds[p]
    BY <1>10
  <2>2. f = o \o g
    BY <1>5, <2>1
  <2>3. /\ f \in Seq(FdType) /\ Len(f) = Len(o) + Len(g)
        /\ \A j \in 1 .. Len(o) : f[j] = o[j]
        /\ \A j \in 1 .. Len(f) : j \notin 1 .. Len(o) => f[j] = NoFd
    <3>1. g \in Seq(FdType) /\ o \in Seq(FdType) /\ \A j \in 1 .. Len(g) : g[j] = NoFd
      BY <1>11
    <3> QED
      BY <2>2, <3>1, AddedLast
  <2> QED
    BY <1>11, <2>1, <2>3
<1>13. n \in Nat /\ n \in 1 .. Len(f) /\ n \notin 1 .. Len(fds[p])
  BY <1>3, <1>6, <1>10, <1>12
<1>14. /\ L \in ForkLocalType /\ SameCall(L, local[t]) /\ L.ptr = local[t].ptr /\ L.fd = n
       /\ L.node = local[t].node /\ L.read = local[t].read /\ L.write = local[t].write /\ L.proc = p
       /\ L.left = local[t].left /\ L.op = local[t].op
  BY <1>1, <1>2, <1>7, <1>13 DEF ForkLocalType, SameCall
<1>15. Moves(t, L, "fill")
  BY <1>8, <1>14 DEF Moves, ForkSteps, OpenSteps
<1>16. /\ pc'[t] = "fill" /\ local'[t] = L /\ Mine(t)
       /\ pc' \in [Thread -> ForkSteps] /\ local' \in [Thread -> ForkLocalType]
  BY <1>2, <1>15, WhereItMoves
<1>17. /\ fds' \in [Proc -> Seq(FdType)] /\ fds'[p] = f /\ \A q \in Proc \ {p} : fds'[q] = fds[q]
  BY <1>2, <1>8, <1>9, <1>12 DEF ForkType
<1>18. ForkType'
  BY <1>2, <1>8, <1>16, <1>17 DEF ForkType
<1>19. SameFiles /\ TableGrows
  BY <1>2, <1>8, NothingSet, SameGrows
<1>20. LockStep(t) /\ Elsewhere(p)
  BY <1>8, <1>16, <1>17 DEF LockStep, InTable, Elsewhere
<1>21. DoesAt(t)' /\ ForAt(t)' /\ WalksAt(t)'
  BY <1>1, <1>2, <1>8, <1>9, <1>14, <1>16 DEF DoesAt, ForAt, WalksAt, OpenSteps, InTable, Copying, Using
<1>22. f[n].ftab = NoPointer
  BY <1>12, <1>13, NoForkFd
<1>23. OpenedAt(t)'
  <2>1. Points(local[t].ptr, local[t].node, local[t].read, local[t].write)
    BY <1>2, <1>8 DEF OpenedAt
  <2>2. Points(L.ptr, L.node, L.read, L.write)'
    BY <1>8, <1>14, <2>1 DEF Points
  <2> QED
    BY <1>13, <1>14, <1>16, <1>17, <1>22, <2>2 DEF OpenedAt, Using
<1>24. Creates(t) => Len(fds[p]) = 0 /\ Has(t) = 0
  BY <1>1, <1>8, NoSlotYet
<1>25. (Creates(t)' <=> Creates(t)) /\ Has(t)' = Has(t)
  BY <1>14, <1>16 DEF Creates, Has
<1>26. CreatesAt(t)'
  <2>1. CASE Creates(t)
    <3>1. /\ L.left <= STDFDS /\ L.left > 0 /\ L.node = dev_console /\ L.duplicate = TRUE
          /\ L.excl = FALSE /\ L.ptr[2] = 1
      BY <1>2, <1>8, <1>9, <1>14, <2>1 DEF CreatesAt, SameCall
    <3>2. Has(t)' = 0 /\ Standard(p, Has(t))'
      BY <1>24, <1>25, <2>1 DEF Standard
    <3>3. STDFDS \in Nat /\ STDFDS <= a
      BY <1>3, Constants DEF RoomForStd
    <3>4. Len(f) = a /\ Len(f) >= STDFDS
      BY <1>3, <1>12, <1>24, <2>1, <3>3
    <3>5. \A j \in 1 .. Len(f) : f[j].ftab = NoPointer
      <4>1. \A j \in 1 .. Len(f) : j \notin 1 .. Len(fds[p])
        BY <1>24, <2>1
      <4> QED
        BY <1>12, <4>1, NoForkFd
    <3>6. n = Has(t)' + 1
      BY <1>6, <1>24, <1>25, <2>1
    <3> QED
      BY <1>14, <1>16, <1>17, <3>1, <3>2, <3>4, <3>5, <3>6 DEF CreatesAt, InTable, Copying
  <2>2. CASE ~Creates(t)
    BY <1>25, <2>2 DEF CreatesAt
  <2> QED
    BY <2>1, <2>2
<1>27. ForksAt(t)'
  <2> SUFFICES ASSUME local[t].op = "fork", Current(owner[t])'
               PROVE  /\ \A j \in 1 .. Has(t)' : fds'[p][j].ftab[1] = ftab_base
                      /\ L.ptr[1] = ftab_base
    BY <1>8, <1>14, <1>16 DEF ForksAt
  <2>1. owner[t] # p /\ owner[t] \in Proc
    BY <1>1, <1>2, <1>8, Constants DEF ForAt
  <2>2. Current(owner[t])
    BY <1>8, <1>17, <2>1 DEF Current
  <2>3. L.ptr[1] = ftab_base
    BY <1>2, <1>8, <1>9, <1>14, <2>2 DEF ForksAt
  <2>4. Creates(t)
    BY DEF Creates
  <2> QED
    BY <1>24, <1>25, <2>3, <2>4
<1>28. ThreadAt(t)'
  BY <1>21, <1>23, <1>26, <1>27 DEF ThreadAt
<1>29. ProcAt(p)'
  <2>1. ProcAt(p) /\ procs'[p] = procs[p]
    BY <1>8, <1>9 DEF ForkInv
  <2>2. procs[p] # "free"
    <3>1. procs[owner[t]] = "alive" /\ local[t].op \in {"open", "start", "fork"}
      BY <1>2, <1>9 DEF ForAt, DoesAt
    <3>2. procs[p] \in {"new", "alive"}
      BY <1>1, <1>2, <1>9, <3>1 DEF ForAt
    <3> QED
      BY <3>2
  <2>3. NotCreated(p)' => NotCreated(p)
    BY <1>14, <1>16 DEF NotCreated, Creates, Mine
  <2>4. Standard(p, STDFDS) => Standard(p, STDFDS)'
    <3>1. STDFDS \in Nat
      BY Constants
    <3> SUFFICES ASSUME Standard(p, STDFDS), NEW j \in 1 .. STDFDS
                 PROVE  j <= Len(fds'[p]) /\ fds'[p][j].ftab[2] = 1
      BY DEF Standard
    <3>2. j <= Len(fds[p]) /\ fds[p][j].ftab[2] = 1
      BY DEF Standard
    <3>3. j \in 1 .. Len(fds[p]) /\ j <= Len(f)
      BY <1>3, <1>10, <1>12, <3>1, <3>2
    <3> QED
      BY <1>12, <1>17, <3>2, <3>3
  <2>5. ASSUME NEW j \in 1 .. Len(f) PROVE PointsFd(f[j])'
    <3>1. CASE j \in 1 .. Len(fds[p])
      <4>1. PICK fd : fd = fds[p][j]
        OBVIOUS
      <4>2. fd.ftab[1] \in Nat /\ PointsFd(fd) /\ fd = f[j]
        BY <1>2, <1>9, <1>12, <2>1, <3>1, <4>1, ForkFds DEF ProcAt
      <4> QED
        BY <1>2, <1>18, <1>19, <4>2, StillPoints
    <3>2. CASE j \notin 1 .. Len(fds[p])
      BY <1>12, <3>2, NoForkFd DEF PointsFd
    <3> QED
      BY <3>1, <3>2
  <2>6. \A j \in 1 .. Len(fds'[p]) : PointsFd(fds[p][j])'
    BY <1>17, <2>5
  <2> QED
    BY <2>1, <2>2, <2>3, <2>4, <2>6 DEF ProcAt
<1>30. InvConsole'
  <2>1. ConsoleOpen
    BY <1>8, ConsoleFirst DEF BootSteps
  <2> QED
    BY <1>18, <1>19, <2>1, ConsoleStays DEF InvConsole
<1>31. ASSUME NEW k \in 1 .. Len(ftab') PROVE CountAt(k)'
  <2>1. k \in 1 .. Len(ftab) /\ CountAt(k) /\ ftab' = ftab /\ k # 0
    BY <1>8 DEF ForkInv
  <2>2. ASSUME NEW d \in Descriptors(k)' PROVE d \in Descriptors(k)
    <3>1. /\ d \in Proc \X (1 .. MAX_FDS) /\ d[2] \in DOMAIN fds'[d[1]]
          /\ fds'[d[1]][d[2]].ftab = <<ftab_base, k>>
      BY <1>8 DEF Descriptors
    <3>2. fds'[d[1]][d[2]].ftab # NoPointer
      BY <2>1, <3>1 DEF NoPointer
    <3>3. d[2] \in DOMAIN fds[d[1]] /\ fds[d[1]][d[2]].ftab = <<ftab_base, k>>
      <4>1. CASE d[1] # p
        BY <1>17, <3>1, <4>1
      <4>2. CASE d[1] = p
        <5>1. d[2] \in 1 .. Len(f)
          BY <1>12, <1>17, <3>1, <4>2
        <5>2. d[2] \in 1 .. Len(fds[p])
          BY <1>12, <1>17, <3>2, <4>2, <5>1, NoForkFd
        <5> QED
          BY <1>10, <1>12, <1>17, <3>1, <4>2, <5>2
      <4> QED
        BY <4>1, <4>2
    <3>4. pc[t] \notin Copying
      BY <1>8 DEF Copying
    <3> QED
      BY <1>2, <1>16, <2>2, <3>3, <3>4, StillCounted
  <2>3. t \in Opening(k)' => t \in Opening(k)
    BY <1>8, <1>14, <1>16 DEF Opening
  <2>4. Opening(k)' \subseteq Opening(k)
    BY <1>8, <1>16, <2>3, FewerOpening
  <2> QED
    BY <1>2, <2>1, <2>2, <2>4, FewerCounted
<1> QED
  BY <1>1, <1>9, <1>14, <1>16, <1>18, <1>19, <1>20, <1>28, <1>29, <1>30, <1>31, ForkStep

\* A descriptor is filled: the thread that was counted gives way to it.
LEMMA FillCounts ==
  ASSUME ForkInv, NEW t \in Thread, pc[t] = "fill", Mine(t), pc'[t] \in {"idle", "ftab_lock", "done"},
         UNCHANGED <<ftab, ftab_base>>, NEW p \in Proc, NEW i \in 1 .. Len(fds[p]),
         Len(fds'[p]) = Len(fds[p]), fds'[p][i].ftab = local[t].ptr, fds' \in [Proc -> Seq(FdType)],
         \A j \in 1 .. Len(fds[p]) : j # i => fds'[p][j] = fds[p][j],
         \A q \in Proc \ {p} : fds'[q] = fds[q], NEW k \in 1 .. Len(ftab)
  PROVE  CountAt(k)'
<1>1. ForkType /\ CountAt(k) /\ pc[t] \notin Copying
  BY DEF ForkInv, Copying
<1>2. PICK d : d = <<p, i>>
  OBVIOUS
<1>3. ASSUME NEW c \in Descriptors(k)', c # d PROVE c \in Descriptors(k)
  <2>1. /\ c \in Proc \X (1 .. MAX_FDS) /\ c[2] \in DOMAIN fds'[c[1]]
        /\ fds'[c[1]][c[2]].ftab = <<ftab_base, k>>
    BY DEF Descriptors
  <2>2. c[2] \in DOMAIN fds[c[1]] /\ fds[c[1]][c[2]].ftab = <<ftab_base, k>>
    <3>1. CASE c[1] # p
      BY <2>1, <3>1
    <3>2. CASE c[1] = p
      <4>1. c[2] # i
        BY <1>2, <1>3, <2>1, <3>2
      <4>2. c[2] \in 1 .. Len(fds[p])
        BY <2>1, <3>2
      <4>3. DOMAIN fds[p] = 1 .. Len(fds[p])
        BY <1>1, ForkFds
      <4> QED
        BY <2>1, <3>2, <4>1, <4>2, <4>3
    <3> QED
      BY <3>1, <3>2
  <2> QED
    BY <1>1, <2>2, StillCounted
<1>4. PICK a \in Nat, b \in Nat : a = Cardinality(Descriptors(k)) /\ b = Cardinality(Opening(k))
  BY Users
<1>5. PICK x \in Nat, y \in Nat : x = Cardinality(Descriptors(k)') /\ y = Cardinality(Opening(k)')
  BY Users
<1>6. PICK n \in Nat : n = ftab[k].refs
  BY <1>1, ForkEntry
<1>7. n >= a + b /\ (ftab[k].node = NULL <=> n = 0)
  BY <1>1, <1>4, <1>6 DEF CountAt
<1>8. x + y <= a + b
  <2>1. CASE d \in Descriptors(k)'
    <3>1. fds'[p][i].ftab = <<ftab_base, k>>
      BY <1>2, <2>1 DEF Descriptors
    <3>2. t \in Opening(k)
      BY <3>1 DEF Opening
    <3>3. Opening(k)' \subseteq Opening(k) \ {t}
      BY DEF Opening, Mine
    <3>4. Opening(k) \ {t} \in SUBSET Thread /\ Cardinality(Opening(k) \ {t}) = b - 1
      BY <1>4, <3>2, Users, OneMoreUser
    <3>5. y <= b - 1
      BY <1>5, <3>3, <3>4, FewerUsers
    <3>6. Descriptors(k)' \subseteq Descriptors(k) \union {d}
      BY <1>3
    <3>7. d \in Proc \X (1 .. MAX_FDS)
      BY <2>1, Users
    <3>8. Descriptors(k) \union {d} \in SUBSET (Proc \X (1 .. MAX_FDS))
      BY <3>7, Users
    <3>9. x <= Cardinality(Descriptors(k) \union {d})
      BY <1>5, <3>6, <3>8, FewerUsers
    <3>10. Cardinality(Descriptors(k) \union {d}) <= a + 1 /\ Cardinality(Descriptors(k) \union {d}) \in Nat
      BY <1>4, <3>7, <3>8, Users, OneMoreUser, FiniteUsers
    <3>11. x <= a + 1
      BY <3>9, <3>10
    <3> QED
      BY <3>5, <3>11
  <2>2. CASE d \notin Descriptors(k)'
    <3>1. Descriptors(k)' \subseteq Descriptors(k)
      BY <1>3, <2>2
    <3>2. Opening(k)' \subseteq Opening(k)
      BY DEF Opening, Mine
    <3>3. x <= a /\ y <= b
      BY <1>4, <1>5, <3>1, <3>2, Users, FewerUsers
    <3> QED
      BY <3>3
  <2> QED
    BY <2>1, <2>2
<1>9. ftab'[k].refs = n /\ ftab'[k].node = ftab[k].node /\ n >= x + y
  BY <1>6, <1>7, <1>8
<1> QED
  BY <1>5, <1>7, <1>9 DEF CountAt

\* The descriptor is filled, and proc_fd_open() returns.
LEMMA FillForks ==
  ASSUME ForkInv, OneThread, NEW t \in Thread, Fill(t)
  PROVE  ForkInv'
<1>1. PICK p, i, l : p = local[t].proc /\ i = local[t].fd /\ l = local[t]
  OBVIOUS
<1>2. /\ ForkType /\ l \in ForkLocalType
      /\ DoesAt(t) /\ ForAt(t) /\ OpenedAt(t) /\ CreatesAt(t) /\ ForksAt(t) /\ ftab_mutex \in BOOLEAN
  BY <1>1, ForkFields, ForkTable DEF ForkInv, ThreadAt
<1>3. PICK f : f = [ftab |-> l.ptr, read |-> l.read, write |-> l.write, mutex |-> FALSE, for |-> l.node]
  OBVIOUS
<1>4. /\ Running(t) /\ pc[t] = "fill" /\ OpenReturned(t) /\ fds' = [fds EXCEPT ![p][i] = f]
      /\ UNCHANGED <<ftab, ftab_mutex, ftab_base, procs>>
  BY <1>1, <1>3 DEF Fill, At, table
<1>5. Own(t, p) /\ p \in Proc /\ pc[t] # "idle" /\ pc[t] \in OpenSteps
  BY <1>1, <1>4, OwnProc DEF OpenSteps
<1>6. i \in 1 .. Len(fds[p]) /\ Points(l.ptr, l.node, l.read, l.write) /\ fds[p][i].ftab \in {NoPointer, l.ptr}
  BY <1>1, <1>2, <1>4 DEF OpenedAt
<1>7. f \in FdType /\ f.ftab = l.ptr /\ f.read = l.read /\ f.write = l.write /\ f.for = l.node
  <2>1. PICK b \in BOOLEAN : b = FALSE
    OBVIOUS
  <2>2. f = [ftab |-> l.ptr, read |-> l.read, write |-> l.write, mutex |-> b, for |-> l.node]
    BY <1>3, <2>1
  <2>3. /\ l.ptr \in Nat \X Nat /\ l.read \in BOOLEAN /\ l.write \in BOOLEAN
        /\ l.node \in Node \union {NULL}
    BY <1>1, <1>2, ForkFields
  <2> QED
    BY <2>2, <2>3 DEF FdType
<1>8. /\ fds' \in [Proc -> Seq(FdType)] /\ \A q \in Proc \ {p} : fds'[q] = fds[q]
      /\ Len(fds'[p]) = Len(fds[p]) /\ fds'[p][i] = f
      /\ \A j \in 1 .. Len(fds[p]) : j # i => fds'[p][j] = fds[p][j]
  BY <1>2, <1>4, <1>5, <1>6, <1>7, ForkFdSet
<1>9. l.op \in {"open", "start", "fork"} /\ l.left \in Nat /\ l.node \in Node /\ Len(fds[p]) \in Nat /\ STDFDS \in Nat
  <2>1. l.op \in {"open", "start", "fork"} /\ l.node \in Node
    BY <1>1, <1>2, <1>5 DEF DoesAt
  <2>2. l.left \in Nat
    BY <1>1, <1>2, ForkFields
  <2>3. Len(fds[p]) \in Nat /\ STDFDS \in Nat
    BY <1>2, <1>5, ForkFds, Constants
  <2> QED
    BY <2>1, <2>2, <2>3
<1>10. Creates(t) => l.left > 0 /\ l.left - 1 \in Nat
  BY <1>1, <1>2, <1>5, <1>9 DEF CreatesAt
<1>11. PICK L, s : /\ Moves(t, L, s) /\ s \in {"idle", "ftab_lock", "done"}
                   /\ l.op = "open" => s = "idle" /\ L = NoLocal
                   /\ l.op # "open" => /\ s = (IF l.left > 1 THEN "ftab_lock" ELSE "done")
                                       /\ L.op = l.op /\ L.proc = p /\ L.left = l.left - 1
                                       /\ L.node = dev_console /\ L.duplicate = TRUE /\ L.excl = FALSE
  <2>1. CASE l.op = "open"
    <3>1. Moves(t, NoLocal, "idle")
      BY <1>1, <1>4, <2>1, NoForkLocal DEF OpenReturned, Return, Goto, Moves, ForkSteps
    <3> QED
      BY <2>1, <3>1
  <2>2. CASE l.op # "open"
    <3>1. PICK s : s = IF l.left > 1 THEN "ftab_lock" ELSE "done"
      OBVIOUS
    <3>2. PICK b \in BOOLEAN : b = TRUE
      OBVIOUS
    <3>3. PICK K : K = [NoLocal EXCEPT !.op = l.op, !.proc = p, !.left = l.left - 1, !.node = dev_console]
      OBVIOUS
    <3>4. PICK L : L = [K EXCEPT !.duplicate = b, !.write = b]
      OBVIOUS
    <3>5. l.left - 1 \in Nat /\ dev_console \in Node
      BY <1>9, <1>10, <1>1, <2>2, Constants DEF Creates
    <3>6. K \in ForkLocalType /\ K.op = l.op /\ K.proc = p /\ K.left = l.left - 1 /\ K.node = dev_console
          /\ K.excl = FALSE
      BY <1>5, <1>9, <3>3, <3>5, NoForkLocal DEF ForkLocalType, NoLocal
    <3>7. L \in ForkLocalType /\ L.op = l.op /\ L.proc = p /\ L.left = l.left - 1 /\ L.node = dev_console
          /\ L.excl = FALSE /\ L.duplicate = b
      BY <3>4, <3>6 DEF ForkLocalType
    <3>8. local' = [local EXCEPT ![t] = L] /\ pc' = [pc EXCEPT ![t] = s]
      BY <1>1, <1>4, <2>2, <3>1, <3>2, <3>3, <3>4 DEF OpenReturned, Goto
    <3>9. s \in {"ftab_lock", "done"} /\ s \in ForkSteps
      BY <3>1 DEF ForkSteps, OpenSteps
    <3> QED
      BY <2>2, <3>1, <3>2, <3>7, <3>8, <3>9 DEF Moves
  <2> QED
    BY <2>1, <2>2
<1>12. /\ pc'[t] = s /\ local'[t] = L /\ Mine(t)
       /\ pc' \in [Thread -> ForkSteps] /\ local' \in [Thread -> ForkLocalType]
  BY <1>2, <1>11, WhereItMoves
<1>13. ForkType'
  BY <1>2, <1>4, <1>8, <1>12 DEF ForkType
<1>14. SameFiles /\ TableGrows
  BY <1>2, <1>4, NothingSet, SameGrows
<1>15. LockStep(t) /\ Elsewhere(p)
  BY <1>4, <1>8, <1>11, <1>12 DEF LockStep, InTable, Elsewhere
<1>16. ThreadAt(t)'
  <2>1. CASE l.op = "open"
    BY <1>11, <1>12, <2>1, NoForkLocal, IdleAt
  <2>2. CASE l.op # "open"
    <3>1. /\ s = (IF l.left > 1 THEN "ftab_lock" ELSE "done")
          /\ L.op = l.op /\ L.proc = p /\ L.left = l.left - 1
          /\ L.node = dev_console /\ L.duplicate = TRUE /\ L.excl = FALSE
      BY <1>11, <2>2
    <3>2. Creates(t) /\ Creates(t)' /\ l.op \in {"start", "fork"} /\ s \in {"ftab_lock", "done"}
      BY <1>1, <1>9, <1>12, <2>2, <3>1 DEF Creates
    <3>3. DoesAt(t)' /\ ForAt(t)' /\ WalksAt(t)' /\ OpenedAt(t)'
      BY <1>1, <1>2, <1>4, <1>5, <1>12, <3>1, <3>2, Constants
         DEF DoesAt, ForAt, WalksAt, OpenedAt, OpenSteps, InTable, Copying, Using
    <3>4. PICK h \in Int : h = Has(t)
      BY <1>1, <1>9 DEF Has
    <3>5. Has(t)' = h + 1
      BY <1>1, <1>9, <1>12, <3>1, <3>4 DEF Has
    <3>6. /\ l.left <= STDFDS /\ Standard(p, h) /\ (Len(fds[p]) = 0 \/ Len(fds[p]) >= STDFDS)
          /\ \A j \in 1 .. Len(fds[p]) : j > h => fds[p][j].ftab = NoPointer
          /\ i = h + 1 /\ l.ptr[2] = 1
      BY <1>1, <1>2, <1>4, <1>5, <3>2, <3>4 DEF CreatesAt
    <3>7. Standard(p, h + 1)'
      <4> SUFFICES ASSUME NEW j \in 1 .. h + 1 PROVE j <= Len(fds'[p]) /\ fds'[p][j].ftab[2] = 1
        BY DEF Standard
      <4>1. CASE j = i
        BY <1>6, <1>7, <1>8, <1>9, <3>6, <4>1
      <4>2. CASE j # i
        <5>1. j \in 1 .. h
          BY <3>4, <3>6, <4>2
        <5>2. j <= Len(fds[p]) /\ fds[p][j].ftab[2] = 1
          BY <3>6, <5>1 DEF Standard
        <5>3. j \in 1 .. Len(fds[p])
          BY <1>9, <3>4, <5>1, <5>2
        <5> QED
          BY <1>8, <4>2, <5>2, <5>3
      <4> QED
        BY <4>1, <4>2
    <3>8. \A j \in 1 .. Len(fds'[p]) : j > h + 1 => fds'[p][j].ftab = NoPointer
      <4> SUFFICES ASSUME NEW j \in 1 .. Len(fds[p]), j > h + 1 PROVE fds'[p][j].ftab = NoPointer
        BY <1>8
      <4>1. j # i /\ j > h
        BY <1>9, <3>4, <3>6
      <4> QED
        BY <1>8, <3>6, <4>1
    <3>9. /\ L.left <= STDFDS /\ (Len(fds'[p]) = 0 \/ Len(fds'[p]) >= STDFDS)
          /\ s = "done" => L.left = 0
          /\ s = "ftab_lock" => L.left > 0
      BY <1>8, <1>9, <1>10, <3>1, <3>2, <3>6
    <3>10. CreatesAt(t)'
      BY <1>12, <3>1, <3>2, <3>5, <3>7, <3>8, <3>9 DEF CreatesAt, OpenSteps, InTable, Copying
    <3>11. ForksAt(t)'
      <4> SUFFICES ASSUME l.op = "fork", Current(owner[t])', NEW j \in 1 .. h + 1
                   PROVE  fds'[p][j].ftab[1] = ftab_base
        BY <1>4, <1>12, <3>1, <3>2, <3>5 DEF ForksAt
      <4>1. owner[t] # p /\ owner[t] \in Proc
        BY <1>1, <1>2, <1>5, Constants DEF ForAt
      <4>2. Current(owner[t])
        BY <1>4, <1>8, <4>1 DEF Current
      <4>3. (\A n \in 1 .. h : fds[p][n].ftab[1] = ftab_base) /\ l.ptr[1] = ftab_base
        BY <1>1, <1>2, <1>4, <1>5, <3>4, <4>2 DEF ForksAt
      <4>4. CASE j = i
        BY <1>7, <1>8, <4>3, <4>4
      <4>5. CASE j # i
        <5>1. j \in 1 .. h
          BY <3>4, <3>6, <4>5
        <5>2. j <= Len(fds[p])
          BY <3>6, <5>1 DEF Standard
        <5>3. j \in 1 .. Len(fds[p])
          BY <1>9, <3>4, <5>1, <5>2
        <5> QED
          BY <1>8, <4>3, <4>5, <5>1, <5>3
      <4> QED
        BY <4>4, <4>5
    <3> QED
      BY <3>3, <3>10, <3>11 DEF ThreadAt
  <2> QED
    BY <2>1, <2>2
<1>17. ProcAt(p)'
  <2>1. ProcAt(p)
    BY <1>5 DEF ForkInv
  <2>2. procs[p] \in {"new", "alive"} /\ procs' = procs
    BY <1>1, <1>2, <1>4, <1>5, <1>9 DEF ForAt
  <2>3. ASSUME procs[p] = "alive", NotCreated(p)' PROVE Standard(p, STDFDS)'
    <3>1. ~Creates(t)'
      BY <1>9, <1>11, <1>12, <2>3, NoForkLocal DEF NotCreated, Creates
    <3>2. ~Creates(t)
      BY <1>1, <1>9, <1>11, <1>12, <3>1 DEF Creates
    <3>3. NotCreated(p)
      BY <1>12, <2>3, <3>2 DEF NotCreated, Creates, Mine
    <3>4. Standard(p, STDFDS)
      BY <2>1, <2>3, <3>3 DEF ProcAt
    <3> SUFFICES ASSUME NEW j \in 1 .. STDFDS PROVE j <= Len(fds'[p]) /\ fds'[p][j].ftab[2] = 1
      BY DEF Standard
    <3>5. j <= Len(fds[p]) /\ fds[p][j].ftab[2] = 1
      BY <3>4 DEF Standard
    <3>6. j \in 1 .. Len(fds[p])
      BY <1>9, <3>5
    <3>7. CASE j = i
      BY <1>6, <1>7, <1>8, <3>5, <3>7 DEF NoPointer
    <3>8. CASE j # i
      BY <1>8, <3>5, <3>6, <3>8
    <3> QED
      BY <3>7, <3>8
  <2>4. ASSUME NEW j \in 1 .. Len(fds'[p]) PROVE PointsFd(fds[p][j])'
    <3>1. j \in 1 .. Len(fds[p])
      BY <1>8
    <3>2. CASE j = i
      <4>1. PointsFd(f)'
        BY <1>4, <1>6, <1>7 DEF PointsFd, Points
      <4> QED
        BY <1>8, <3>2, <4>1
    <3>3. CASE j # i
      <4>1. PICK fd : fd = fds[p][j]
        OBVIOUS
      <4>2. fd.ftab[1] \in Nat /\ PointsFd(fd) /\ fd = fds'[p][j]
        BY <1>2, <1>5, <1>8, <2>1, <3>1, <3>3, <4>1, ForkFds DEF ProcAt
      <4>3. PointsFd(fd)'
        BY <1>2, <1>13, <1>14, <4>2, StillPoints
      <4> QED
        BY <4>2, <4>3
    <3> QED
      BY <3>2, <3>3
  <2> QED
    BY <2>2, <2>3, <2>4 DEF ProcAt
<1>18. InvConsole'
  <2>1. ConsoleOpen
    BY <1>4, ConsoleFirst DEF BootSteps
  <2> QED
    BY <1>13, <1>14, <2>1, ConsoleStays DEF InvConsole
<1>19. ASSUME NEW k \in 1 .. Len(ftab') PROVE CountAt(k)'
  <2>1. k \in 1 .. Len(ftab) /\ fds'[p][i].ftab = local[t].ptr /\ pc'[t] \in {"idle", "ftab_lock", "done"}
    BY <1>1, <1>4, <1>7, <1>8, <1>11, <1>12
  <2> QED
    BY <1>4, <1>5, <1>6, <1>8, <1>12, <2>1, FillCounts
<1>20. pc'[t] # "idle" => local'[t].proc = p
  BY <1>11, <1>12
<1> QED
  BY <1>1, <1>5, <1>12, <1>13, <1>14, <1>15, <1>16, <1>17, <1>18, <1>19, <1>20, ForkStep

-----------------------------------------------------------------------------
(* Processes (exec/process.c).                                             *)

\* The call that proc_create() begins with.
NewCall(L, op, p) ==
  /\ L \in ForkLocalType /\ L.op = op /\ L.proc = p /\ L.left = STDFDS /\ L.node = dev_console
  /\ L.duplicate = TRUE /\ L.excl = FALSE
\* What proc_create() begins with.
LEMMA NewCreation ==
  ASSUME NEW op \in {"start", "fork"}, NEW p \in Proc
  PROVE  NewCall(Creating(op, p), op, p)
<1> DEFINE L == Creating(op, p)
<1>1. dev_console \in Node /\ STDFDS \in Nat
  BY Constants
<1>2. PICK K : K = [NoLocal EXCEPT !.op = op, !.proc = p, !.left = STDFDS, !.node = dev_console]
  OBVIOUS
<1>3. K \in ForkLocalType /\ K.op = op /\ K.proc = p /\ K.left = STDFDS /\ K.node = dev_console
      /\ K.excl = FALSE
  BY <1>1, <1>2, NoForkLocal DEF ForkLocalType, NoLocal
<1>4. PICK b \in BOOLEAN : b = TRUE
  OBVIOUS
<1>5. L = [K EXCEPT !.duplicate = b, !.read = b]
  BY <1>2, <1>4 DEF Creating
<1> QED
  BY <1>3, <1>4, <1>5 DEF NewCall, ForkLocalType

\* proc_create() begins (exec/process.c).
LEMMA ProcCreateForks ==
  ASSUME ForkInv, OneThread, NEW t \in Thread, NEW op \in {"start", "fork"}, ProcCreate(t, op)
  PROVE  ForkInv'
<1>1. /\ Running(t) /\ pc[t] = "idle" /\ pc' = [pc EXCEPT ![t] = "ftab_lock"]
      /\ UNCHANGED <<ftab, ftab_mutex, ftab_base, fds>>
  BY DEF ProcCreate, At, Goto, table
<1>2. PICK p \in Proc : /\ procs[p] = "free" /\ procs' = [procs EXCEPT ![p] = "new"]
                        /\ local' = [local EXCEPT ![t] = Creating(op, p)]
  BY DEF ProcCreate
<1>3. PICK L : L = Creating(op, p)
  OBVIOUS
<1>4. ForkType /\ DoesAt(t) /\ ftab_mutex \in BOOLEAN /\ dev_console \in Node /\ STDFDS \in Nat /\ STDFDS # 0
  BY ForkTable, Constants, FileTabAssumption, Zenon DEF ForkInv, ThreadAt
<1>5. /\ L \in ForkLocalType /\ L.op = op /\ L.proc = p /\ L.left = STDFDS /\ L.node = dev_console
      /\ L.duplicate = TRUE /\ L.excl = FALSE
  <2>1. NewCall(L, op, p)
    BY <1>2, <1>3, NewCreation
  <2> QED
    BY <2>1 DEF NewCall
<1>6. Moves(t, L, "ftab_lock")
  BY <1>1, <1>2, <1>3, <1>5 DEF Moves, ForkSteps, OpenSteps
<1>7. /\ pc'[t] = "ftab_lock" /\ local'[t] = L /\ Mine(t)
      /\ pc' \in [Thread -> ForkSteps] /\ local' \in [Thread -> ForkLocalType]
  BY <1>4, <1>6, WhereItMoves
<1>8. /\ procs' \in [Proc -> {"free", "new", "alive"}] /\ procs'[p] = "new"
      /\ \A q \in Proc \ {p} : procs'[q] = procs[q]
  BY <1>2, <1>4 DEF ForkType
<1>9. /\ owner[t] # p /\ owner[t] \in Proc /\ procs'[owner[t]] = "alive"
  BY <1>1, <1>2, <1>8, Constants DEF Running
<1>10. fds[p] = <<>>
  BY <1>2 DEF ForkInv, ProcAt
<1>11. DoesAt(t)' /\ ForAt(t)' /\ WalksAt(t)' /\ OpenedAt(t)'
  BY <1>4, <1>5, <1>7, <1>8, <1>9 DEF DoesAt, ForAt, WalksAt, OpenedAt, OpenSteps, InTable, Copying, Using
<1>12. Creates(t)' /\ Has(t)' = 0
  BY <1>4, <1>5, <1>7 DEF Creates, Has
<1>13. CreatesAt(t)'
  <2>1. Len(fds'[p]) = 0 /\ \A n : n = 0 => Standard(p, n)'
    BY <1>1, <1>10 DEF Standard
  <2>2. Standard(p, Has(t))'
    BY <1>12, <2>1
  <2> QED
    BY <1>4, <1>5, <1>7, <1>12, <2>1, <2>2 DEF CreatesAt, InTable, Copying
<1>14. ForksAt(t)'
  BY <1>7, <1>12 DEF ForksAt
<1>15. ThreadAt(t)'
  BY <1>11, <1>13, <1>14 DEF ThreadAt
<1>16. ftab' \in Seq(EntryType) /\ SameFiles /\ RefsSame /\ FdsSame /\ Elsewhere(p)
  BY <1>1, <1>4, <1>8, NothingSet DEF FdsSame, Elsewhere
<1>17. MayRun(t, p) /\ LockStep(t)
  BY <1>1, <1>7, <1>8 DEF MayRun, LockStep, InTable
<1>18. ConsoleOpen
  BY <1>1, ConsoleFirst DEF BootSteps
<1>19. fds' \in [Proc -> Seq(FdType)] /\ ftab_mutex' \in BOOLEAN /\ ForkType'
  BY <1>1, <1>4, <1>7, <1>8, <1>16 DEF ForkType
<1>20. \A i : Descriptors(i)' \subseteq Descriptors(i)
  BY <1>1, <1>4, <1>7, <1>16, <1>19, FewerDescriptors DEF Copying
<1>21. \A i : t \notin Opening(i)'
  BY <1>7 DEF Opening
<1> QED
  BY <1>1, <1>2, <1>5, <1>6, <1>15, <1>16, <1>17, <1>18, <1>19, <1>20, <1>21, OwnFree, QuietFork

\* The descriptors of a process that is complete, or of one that runs.
LEMMA StandardDone ==
  ASSUME ForkInv, NEW t \in Thread, pc[t] = "done" \/ pc[t] \in Copying
  PROVE  Creates(t) /\ Standard(local[t].proc, STDFDS)
<1>1. DoesAt(t) /\ CreatesAt(t) /\ STDFDS \in Nat
  BY Constants DEF ForkInv, ThreadAt
<1>2. Creates(t)
  BY <1>1 DEF DoesAt, Creates
<1>3. CASE pc[t] = "done"
  <2>1. local[t].left = 0 /\ Standard(local[t].proc, Has(t))
    BY <1>1, <1>2, <1>3 DEF CreatesAt
  <2>2. Has(t) = STDFDS
    BY <1>1, <2>1 DEF Has
  <2> QED
    BY <1>2, <2>1, <2>2
<1>4. CASE pc[t] \in Copying
  BY <1>1, <1>2, <1>4 DEF CreatesAt
<1> QED
  BY <1>3, <1>4

\* The call that creates a process returns: it runs, or it stays as it is.
LEMMA CreationEnds ==
  ASSUME ForkInv, OneThread, NEW t \in Thread, Running(t), Return(t),
         \/ pc[t] = "done"
         \/ pc[t] = "reopen" /\ local[t].fd \notin DOMAIN fds[local[t].proc],
         UNCHANGED <<ftab, ftab_mutex, ftab_base, fds>>,
         procs' \in {procs, [procs EXCEPT ![local[t].proc] = "alive"]}
  PROVE  ForkInv'
<1>1. PICK p : p = local[t].proc
  OBVIOUS
<1>2. ForkType /\ ftab_mutex \in BOOLEAN /\ pc[t] # "idle" /\ pc[t] \notin BootSteps
  BY ForkTable DEF ForkInv, BootSteps
<1>3. Creates(t) /\ Standard(p, STDFDS)
  BY <1>1, StandardDone DEF Copying
<1>4. p \in Proc
  BY <1>1, <1>2, OwnProc
<1>5. Moves(t, NoLocal, "idle")
  BY NoForkLocal DEF Return, Goto, Moves, ForkSteps
<1>6. pc'[t] = "idle" /\ Mine(t) /\ pc' \in [Thread -> ForkSteps] /\ local' \in [Thread -> ForkLocalType]
  BY <1>2, <1>5, WhereItMoves
<1>7. /\ procs' \in [Proc -> {"free", "new", "alive"}] /\ procs'[p] \in {procs[p], "alive"}
      /\ \A q \in Proc \ {p} : procs'[q] = procs[q]
  BY <1>1, <1>2, <1>4 DEF ForkType
<1>8. ftab' \in Seq(EntryType) /\ SameFiles /\ RefsSame /\ FdsSame /\ Elsewhere(p)
  BY <1>2, <1>7, NothingSet DEF FdsSame, Elsewhere
<1>9. LockStep(t)
  BY <1>6 DEF LockStep, InTable
<1>10. ConsoleOpen
  BY <1>2, ConsoleFirst
<1>11. ASSUME NEW k, NEW d \in Descriptors(k)' PROVE d \in Descriptors(k)
  <2>1. d[1] \in Proc /\ d[2] \in DOMAIN fds[d[1]] /\ fds[d[1]][d[2]].ftab = <<ftab_base, k>>
    BY DEF Descriptors
  <2>2. ~(pc[t] \in Copying /\ local[t].proc = d[1] /\ local[t].fd <= d[2])
    <3> SUFFICES ASSUME pc[t] \in Copying, p = d[1], local[t].fd <= d[2] PROVE FALSE
      BY <1>1
    <3>1. local[t].fd \notin DOMAIN fds[p] /\ local[t].fd > STDFDS /\ local[t].fd \in Nat
      BY <1>1, <1>2, ForkFields DEF ForkInv, ThreadAt, DoesAt, Copying
    <3>2. DOMAIN fds[p] = 1 .. Len(fds[p]) /\ Len(fds[p]) \in Nat /\ STDFDS \in Nat
      BY <1>2, <1>4, ForkFds, Constants
    <3>3. d[2] \in 1 .. Len(fds[p])
      BY <2>1, <3>2
    <3>4. local[t].fd \in 1 .. Len(fds[p])
      BY <3>1, <3>2, <3>3
    <3> QED
      BY <3>1, <3>2, <3>4
  <2> QED
    BY <1>2, <1>6, <1>11, <2>1, <2>2, StillCounted
<1>12. fds' \in [Proc -> Seq(FdType)] /\ ftab_mutex' \in BOOLEAN
  BY <1>2 DEF ForkType
<1> QED
  BY <1>1, <1>2, <1>3, <1>7, <1>8, <1>9, <1>10, <1>11, <1>12, ReturnsQuietly
\* A start or a fork returns.
LEMMA EndForks ==
  ASSUME ForkInv, OneThread, NEW t \in Thread, ProcStart(t) \/ ForkEnd(t) \/ ForkFails(t)
  PROVE  ForkInv'
<1>1. /\ Running(t) /\ Return(t) /\ UNCHANGED <<ftab, ftab_mutex, ftab_base, fds>>
      /\ procs' \in {procs, [procs EXCEPT ![local[t].proc] = "alive"]}
      /\ \/ pc[t] = "done"
         \/ pc[t] = "reopen" /\ local[t].fd \notin DOMAIN fds[local[t].proc]
  BY DEF ProcStart, ForkEnd, ForkFails, At, table
<1> QED
  BY <1>1, CreationEnds

\* The child has its parent's descriptors: the first are of the same entry, and
\* those that count were counted before.
LEMMA CopyCounts ==
  ASSUME ForkInv, NEW t \in Thread, pc[t] = "done", local[t].op = "fork", Mine(t), pc'[t] = "reopen",
         local'[t].proc = local[t].proc, local'[t].fd = STDFDS + 1,
         UNCHANGED <<ftab, ftab_base>>, NEW p \in Proc, p = local[t].proc, NEW w \in Proc, w = owner[t],
         Standard(w, STDFDS), fds'[p] = fds[w], \A q \in Proc \ {p} : fds'[q] = fds[q],
         NEW k \in 1 .. Len(ftab)
  PROVE  CountAt(k)'
<1>1. ForkType /\ CountAt(k) /\ CreatesAt(t) /\ ForksAt(t) /\ STDFDS \in Nat /\ pc[t] \notin Copying
  BY Constants DEF ForkInv, ThreadAt, Copying
<1>2. Creates(t) /\ Standard(p, STDFDS) /\ local[t].left = 0
  BY <1>1, StandardDone DEF CreatesAt
<1>3. Has(t) = STDFDS
  BY <1>1, <1>2 DEF Has
<1>4. ASSUME NEW d \in Descriptors(k)' PROVE d \in Descriptors(k)
  <2>1. /\ d \in Proc \X (1 .. MAX_FDS) /\ d[2] \in DOMAIN fds'[d[1]]
        /\ fds'[d[1]][d[2]].ftab = <<ftab_base, k>>
        /\ d[1] = p => ~(STDFDS + 1 <= d[2])
    BY DEF Descriptors
  <2>2. CASE d[1] # p
    BY <1>1, <2>1, <2>2, StillCounted
  <2>3. CASE d[1] = p
    <3>1. PICK j \in 1 .. MAX_FDS : j = d[2]
      BY <2>1
    <3>2. j \in 1 .. STDFDS
      BY <1>1, <2>1, <2>3, <3>1
    <3>3. fds[w][j].ftab = <<ftab_base, k>>
      BY <2>1, <2>3, <3>1
    <3>4. j <= Len(fds[w]) /\ k = 1
      BY <3>2, <3>3 DEF Standard
    <3>5. Current(w)
      BY <3>2, <3>3, <3>4 DEF Current
    <3>6. fds[p][j].ftab[1] = ftab_base
      BY <1>1, <1>3, <3>2, <3>5 DEF ForksAt
    <3>7. j <= Len(fds[p]) /\ fds[p][j].ftab[2] = 1
      BY <1>2, <3>2 DEF Standard
    <3>8. j \in 1 .. Len(fds[p]) /\ DOMAIN fds[p] = 1 .. Len(fds[p])
      BY <1>1, <3>2, <3>7, ForkFds
    <3>9. fds[p][j].ftab \in Nat \X Nat
      BY <1>1, <3>8, ForkFds
    <3>10. fds[p][j].ftab = <<ftab_base, k>>
      BY <3>4, <3>6, <3>7, <3>9
    <3>11. d[2] \in DOMAIN fds[d[1]] /\ fds[d[1]][d[2]].ftab = <<ftab_base, k>>
      BY <2>3, <3>1, <3>8, <3>10
    <3> QED
      BY <1>1, <3>11, StillCounted
  <2> QED
    BY <2>2, <2>3
<1>5. Opening(k)' \subseteq Opening(k)
  BY DEF Opening, Mine
<1> QED
  BY <1>1, <1>4, <1>5, FewerCounted

\* proc_fork() copies the descriptors of the parent.
LEMMA ForkCopyForks ==
  ASSUME ForkInv, OneThread, NEW t \in Thread, ForkCopy(t)
  PROVE  ForkInv'
<1>1. PICK p, w : p = local[t].proc /\ w = owner[t]
  OBVIOUS
<1>2. PICK L : L = [local[t] EXCEPT !.fd = STDFDS + 1]
  OBVIOUS
<1>3. /\ procs[w] = "alive" /\ pc[t] = "done" /\ local[t].op = "fork" /\ pc' = [pc EXCEPT ![t] = "reopen"]
      /\ fds' = [fds EXCEPT ![p] = fds[w]] /\ local' = [local EXCEPT ![t] = L]
      /\ UNCHANGED <<ftab, ftab_mutex, ftab_base, procs>> /\ Running(t)
  BY <1>1, <1>2 DEF ForkCopy, At, Running, Goto, table
<1>4. /\ ForkType /\ local[t] \in ForkLocalType /\ ForAt(t) /\ STDFDS \in Nat /\ ftab_mutex \in BOOLEAN
  BY ForkFields, ForkTable, Constants DEF ForkInv, ThreadAt
<1>5. Own(t, p) /\ p \in Proc /\ Own(t, w) /\ w \in Proc
  BY <1>1, <1>3, OwnProc, OwnSelf
<1>6. procs[p] = "new" /\ p # w
  BY <1>1, <1>3, <1>4 DEF ForAt
<1>7. /\ L \in ForkLocalType /\ L.op = "fork" /\ L.proc = p /\ L.fd = STDFDS + 1
  BY <1>1, <1>2, <1>3, <1>4 DEF ForkLocalType
<1>8. Moves(t, L, "reopen")
  BY <1>3, <1>7 DEF Moves, ForkSteps, Copying
<1>9. /\ pc'[t] = "reopen" /\ local'[t] = L /\ Mine(t)
      /\ pc' \in [Thread -> ForkSteps] /\ local' \in [Thread -> ForkLocalType]
  BY <1>4, <1>8, WhereItMoves
<1>10. fds[w] \in Seq(FdType)
  BY <1>4, <1>5, ForkFds
<1>11. fds' \in [Proc -> Seq(FdType)] /\ fds'[p] = fds[w] /\ \A q \in Proc \ {p} : fds'[q] = fds[q]
  BY <1>3, <1>4, <1>5, <1>10 DEF ForkType
<1>12. ForkType'
  BY <1>3, <1>4, <1>9, <1>11 DEF ForkType
<1>13. SameFiles /\ TableGrows
  BY <1>3, <1>4, NothingSet, SameGrows
<1>14. LockStep(t) /\ Elsewhere(p)
  BY <1>3, <1>9, <1>11 DEF LockStep, InTable, Elsewhere
<1>15. Standard(w, STDFDS)
  <2>1. ASSUME NEW u \in Thread, Creates(u) PROVE local[u].proc # w
    <3>1. pc[u] # "idle"
      BY <2>1 DEF ForkInv, ThreadAt, DoesAt, Creates
    <3> QED
      BY <1>1, <1>5, <1>6, <3>1 DEF Own
  <2> QED
    BY <1>3, <1>5, <2>1 DEF ForkInv, ProcAt, NotCreated
<1>16. Standard(p, STDFDS)'
  BY <1>11, <1>15 DEF Standard
<1>17. DoesAt(t)' /\ ForAt(t)' /\ WalksAt(t)' /\ OpenedAt(t)'
  BY <1>1, <1>3, <1>4, <1>5, <1>6, <1>7, <1>9
     DEF DoesAt, ForAt, WalksAt, OpenedAt, OpenSteps, InTable, Copying, Using
<1>18. CreatesAt(t)' /\ ForksAt(t)'
  BY <1>7, <1>9, <1>16 DEF CreatesAt, ForksAt, OpenSteps, InTable, Copying
<1>19. ThreadAt(t)'
  BY <1>17, <1>18 DEF ThreadAt
<1>20. ProcAt(p)'
  <2>1. ASSUME NEW j \in 1 .. Len(fds'[p]) PROVE PointsFd(fds[p][j])'
    <3>1. PICK fd : fd = fds[w][j]
      OBVIOUS
    <3>2. fd.ftab[1] \in Nat /\ PointsFd(fd) /\ fd = fds'[p][j]
      BY <1>4, <1>5, <1>11, <3>1, ForkFds DEF ForkInv, ProcAt
    <3>3. PointsFd(fd)'
      BY <1>4, <1>12, <1>13, <3>2, StillPoints
    <3> QED
      BY <3>2, <3>3
  <2> QED
    BY <1>3, <1>6, <2>1 DEF ProcAt
<1>21. InvConsole'
  <2>1. ConsoleOpen
    BY <1>3, ConsoleFirst DEF BootSteps
  <2> QED
    BY <1>12, <1>13, <2>1, ConsoleStays DEF InvConsole
<1>22. ASSUME NEW k \in 1 .. Len(ftab') PROVE CountAt(k)'
  <2>1. k \in 1 .. Len(ftab) /\ local'[t].proc = local[t].proc /\ local'[t].fd = STDFDS + 1
    BY <1>1, <1>3, <1>7, <1>9
  <2> QED
    BY <1>1, <1>3, <1>5, <1>9, <1>11, <1>15, <2>1, CopyCounts
<1> QED
  BY <1>1, <1>5, <1>7, <1>9, <1>12, <1>13, <1>14, <1>19, <1>20, <1>21, <1>22, ForkStep

\* proc_fork() goes on to the next descriptor: only the one it was at is new.
LEMMA OneMoreCounted ==
  ASSUME ForkType, NEW t \in Thread, Mine(t), pc[t] \in Copying, pc'[t] \in Copying,
         NEW p \in Proc, p = local[t].proc, local'[t].proc = p, NEW i, i = local[t].fd, local'[t].fd \in Nat, local'[t].fd <= i + 1,
         \A q \in Proc \ {p} : fds'[q] = fds[q], fds' \in [Proc -> Seq(FdType)], Len(fds'[p]) = Len(fds[p]),
         \A j \in 1 .. Len(fds[p]) : fds'[p][j] = fds[p][j] \/ fds'[p][j] = NoFd,
         ftab_base' = ftab_base, NEW k \in Nat \ {0}, NEW d \in Descriptors(k)', d # <<p, i>>
  PROVE  d \in Descriptors(k)
<1>1. /\ d \in Proc \X (1 .. MAX_FDS) /\ d[2] \in DOMAIN fds'[d[1]]
      /\ fds'[d[1]][d[2]].ftab = <<ftab_base, k>>
      /\ d[1] = p => ~(local'[t].fd <= d[2])
  BY DEF Descriptors, Copying
<1>2. d[2] \in DOMAIN fds[d[1]] /\ fds[d[1]][d[2]].ftab = <<ftab_base, k>>
  <2>1. CASE d[1] # p
    BY <1>1, <2>1
  <2>2. CASE d[1] = p
    <3>1. d[2] \in 1 .. Len(fds[p]) /\ DOMAIN fds[p] = 1 .. Len(fds[p])
      BY <1>1, <2>2, ForkFds
    <3>2. fds'[p][d[2]] # NoFd
      BY <1>1, <2>2, NoForkFd DEF NoPointer
    <3> QED
      BY <1>1, <2>2, <3>1, <3>2
  <2> QED
    BY <2>1, <2>2
<1>3. ~(local[t].proc = d[1] /\ local[t].fd <= d[2])
  <2> SUFFICES ASSUME d[1] = p, i <= d[2] PROVE FALSE
    OBVIOUS
  <2>1. PICK c \in 1 .. MAX_FDS : c = d[2]
    BY <1>1
  <2>2. i \in Nat /\ c # i
    BY <1>1, <2>1, ForkFields
  <2> QED
    BY <1>1, <2>1, <2>2
<1> QED
  BY <1>2, <1>3, StillCounted

\* It goes on with those after the standard ones.
LEMMA CopiesOn ==
  ASSUME ForkInv, OneThread, NEW t \in Thread, Running(t), pc[t] \in Copying, NEW L, NEW s \in Copying,
         Moves(t, L, s), NEW p, p = local[t].proc, L.op = local[t].op, L.proc = p, L.fd >= local[t].fd,
         s = "reopen_lock" => L.fd \in 1 .. Len(fds[p]),
         SameFiles, ftab' \in Seq(EntryType), ftab_mutex' = ftab_mutex, procs' = procs,
         fds' \in [Proc -> Seq(FdType)], \A q \in Proc \ {p} : fds'[q] = fds[q], Len(fds'[p]) = Len(fds[p]),
         \A j \in 1 .. Len(fds[p]) : \/ fds'[p][j] = fds[p][j]
                                     \/ fds'[p][j] = NoFd /\ j > STDFDS,
         \A k \in 1 .. Len(ftab) : CountAt(k)'
  PROVE  ForkInv'
<1>1. /\ ForkType /\ DoesAt(t) /\ ForAt(t) /\ CreatesAt(t) /\ STDFDS \in Nat /\ ftab_base \in Nat
      /\ ftab_mutex \in BOOLEAN
  BY ForkTable, Constants DEF ForkInv, ThreadAt
<1>2. /\ pc'[t] = s /\ local'[t] = L /\ Mine(t) /\ L \in ForkLocalType
      /\ pc' \in [Thread -> ForkSteps] /\ local' \in [Thread -> ForkLocalType]
  BY <1>1, WhereItMoves DEF Moves
<1>3. pc[t] # "idle" /\ local[t].op = "fork" /\ local[t].fd > STDFDS /\ local[t].fd \in Nat
  BY <1>1, ForkFields DEF Copying, DoesAt
<1>4. p \in Proc /\ procs[p] = "new" /\ Own(t, p)
  BY <1>1, <1>3, OwnProc DEF ForAt
<1>5. L.fd \in Nat /\ L.fd > STDFDS
  <2>1. L.fd \in Nat
    BY <1>2 DEF ForkLocalType
  <2> QED
    BY <1>1, <1>3, <2>1
<1>6. ForkType'
  BY <1>1, <1>2 DEF ForkType, SameFiles
<1>7. TableGrows /\ LockStep(t) /\ Elsewhere(p)
  BY <1>1, <1>2, SameGrows DEF LockStep, InTable, Elsewhere, Copying
<1>8. DoesAt(t)' /\ ForAt(t)' /\ WalksAt(t)' /\ OpenedAt(t)'
  BY <1>1, <1>2, <1>3, <1>4, <1>5 DEF DoesAt, ForAt, WalksAt, OpenedAt, OpenSteps, InTable, Copying, Using
<1>9. Standard(p, STDFDS)'
  <2> SUFFICES ASSUME NEW j \in 1 .. STDFDS PROVE j <= Len(fds'[p]) /\ fds'[p][j].ftab[2] = 1
    BY DEF Standard
  <2>1. Standard(p, STDFDS)
    BY StandardDone
  <2>2. j <= Len(fds[p]) /\ fds[p][j].ftab[2] = 1
    BY <2>1 DEF Standard
  <2>3. j \in 1 .. Len(fds[p]) /\ ~(j > STDFDS)
    BY <1>1, <1>4, <2>2, ForkFds
  <2> QED
    BY <2>2, <2>3
<1>10. CreatesAt(t)' /\ ForksAt(t)'
  BY <1>2, <1>9 DEF CreatesAt, ForksAt, OpenSteps, InTable, Copying
<1>11. ThreadAt(t)'
  BY <1>8, <1>10 DEF ThreadAt
<1>12. ProcAt(p)'
  <2>1. ASSUME NEW j \in 1 .. Len(fds'[p]) PROVE PointsFd(fds[p][j])'
    <3>1. j \in 1 .. Len(fds[p])
      OBVIOUS
    <3>2. PICK fd : fd = fds[p][j]
      OBVIOUS
    <3>3. fd.ftab[1] \in Nat /\ PointsFd(fd)
      BY <1>1, <1>4, <3>1, <3>2, ForkFds DEF ForkInv, ProcAt
    <3>4. PointsFd(fd)'
      BY <1>1, <1>6, <1>7, <3>3, StillPoints
    <3>5. CASE fds'[p][j] = fd
      BY <3>4, <3>5
    <3>6. CASE fds'[p][j] = NoFd
      BY <3>6, NoForkFd DEF PointsFd
    <3> QED
      BY <3>1, <3>2, <3>5, <3>6
  <2> QED
    BY <1>4, <2>1 DEF ProcAt
<1>13. InvConsole'
  <2>1. ConsoleOpen
    BY ConsoleFirst DEF BootSteps, Copying
  <2> QED
    BY <1>6, <1>7, <2>1, ConsoleStays DEF InvConsole
<1>14. \A k \in 1 .. Len(ftab') : CountAt(k)'
  BY DEF SameFiles
<1> QED
  BY <1>2, <1>4, <1>6, <1>7, <1>11, <1>12, <1>13, <1>14, ForkStep

\* A descriptor is cleared.
FdGone(p, i) ==
  /\ fds' \in [Proc -> Seq(FdType)] /\ \A q \in Proc \ {p} : fds'[q] = fds[q]
  /\ Len(fds'[p]) = Len(fds[p]) /\ fds'[p][i] = NoFd
  /\ \A j \in 1 .. Len(fds[p]) : j # i => fds'[p][j] = fds[p][j]
\* One alone, and the rest of the table is as it was.
LEMMA FdEmptied ==
  ASSUME ForkType, NEW p \in Proc, NEW i \in 1 .. Len(fds[p]), fds' = [fds EXCEPT ![p][i] = NoFd]
  PROVE  FdGone(p, i)
<1>1. fds \in [Proc -> Seq(FdType)] /\ fds[p] \in Seq(FdType)
  BY ForkFds DEF ForkType
<1>2. PICK f \in FdType : f = NoFd
  BY NoForkFd
<1>3. PICK g : g = [fds[p] EXCEPT ![i] = f]
  OBVIOUS
<1>4. g \in Seq(FdType) /\ Len(g) = Len(fds[p]) /\ g[i] = f /\ \A j \in 1 .. Len(fds[p]) : j # i => g[j] = fds[p][j]
  BY <1>1, <1>2, <1>3
<1>5. fds' = [fds EXCEPT ![p] = g]
  BY <1>2, <1>3
<1>6. fds' \in [Proc -> Seq(FdType)] /\ fds'[p] = g /\ \A q \in Proc \ {p} : fds'[q] = fds[q]
  BY <1>1, <1>4, <1>5
<1> QED
  BY <1>2, <1>4, <1>6 DEF FdGone

\* A descriptor that is not in use, or whose file another holds exclusively, is
\* passed over; the one of a file that is shared is come to.
LEMMA ReopenPassForks ==
  ASSUME ForkInv, OneThread, NEW t \in Thread,
         ReopenNone(t) \/ ReopenExclusive(t) \/ ReopenShared(t)
  PROVE  ForkInv'
<1>1. PICK p, i : p = local[t].proc /\ i = local[t].fd
  OBVIOUS
<1>2. PICK n : n = IF ReopenShared(t) THEN i ELSE i + 1
  OBVIOUS
<1>3. PICK L, s : /\ L = [local[t] EXCEPT !.fd = n]
                  /\ s = IF ReopenShared(t) THEN "reopen_lock" ELSE "reopen"
  OBVIOUS
<1>4. /\ ForkType /\ local[t] \in ForkLocalType /\ ftab_mutex \in BOOLEAN /\ i \in Nat
      /\ pc \in [Thread -> ForkSteps] /\ local \in [Thread -> ForkLocalType]
  BY <1>1, ForkFields, ForkTable DEF ForkInv, ForkType
<1>5. /\ Running(t) /\ pc[t] = "reopen" /\ UNCHANGED <<ftab, ftab_mutex, ftab_base, procs>>
      /\ i \in DOMAIN fds[p]
  BY <1>1 DEF ReopenNone, ReopenExclusive, ReopenShared, At, table
<1>6. p \in Proc
  BY <1>1, <1>5, OwnProc
<1>7. i \in 1 .. Len(fds[p]) /\ Len(fds[p]) \in Nat
  BY <1>4, <1>5, <1>6, ForkFds
<1>8. n \in Nat /\ n >= i /\ n <= i + 1
  BY <1>2, <1>4
<1>9. /\ L \in ForkLocalType /\ L.op = local[t].op /\ L.proc = p /\ L.fd = n
  BY <1>1, <1>3, <1>4, <1>8 DEF ForkLocalType
<1>10. s \in Copying /\ s \in ForkSteps
  BY <1>3 DEF Copying, ForkSteps
<1>11. Moves(t, L, s)
  <2>1. CASE ReopenShared(t)
    <3>1. L = local[t]
      BY <1>1, <1>2, <1>3, <1>4, <2>1 DEF ForkLocalType
    <3> QED
      BY <1>3, <1>4, <1>9, <1>10, <2>1, <3>1 DEF ReopenShared, Goto, Moves
  <2>2. CASE ~ReopenShared(t)
    <3>1. local' = [local EXCEPT ![t].fd = i + 1] /\ pc' = pc
      BY <1>1, <2>2 DEF ReopenNone, ReopenExclusive
    <3>2. local' = [local EXCEPT ![t] = L] /\ s = "reopen"
      BY <1>2, <1>3, <2>2, <3>1
    <3> QED
      BY <1>4, <1>5, <1>9, <1>10, <3>1, <3>2 DEF Moves
  <2> QED
    BY <2>1, <2>2
<1>12. /\ pc'[t] = s /\ local'[t] = L /\ Mine(t)
  BY <1>4, <1>11, WhereItMoves
<1>13. /\ fds' \in [Proc -> Seq(FdType)] /\ \A q \in Proc \ {p} : fds'[q] = fds[q]
       /\ Len(fds'[p]) = Len(fds[p])
       /\ \A j \in 1 .. Len(fds[p]) : \/ fds'[p][j] = fds[p][j]
                                      \/ fds'[p][j] = NoFd /\ j = i
       /\ ~ReopenShared(t) => fds'[p][i].ftab = NoPointer
  <2>1. CASE ReopenExclusive(t)
    <3>1. fds' = [fds EXCEPT ![p][i] = NoFd]
      BY <1>1, <2>1 DEF ReopenExclusive, SetFd
    <3>2. FdGone(p, i)
      BY <1>4, <1>6, <1>7, <3>1, FdEmptied
    <3> QED
      BY <3>2, NoForkFd DEF FdGone
  <2>2. CASE ~ReopenExclusive(t)
    <3>1. fds' = fds /\ (~ReopenShared(t) => fds[p][i].ftab = NoPointer)
      BY <1>1, <2>2 DEF ReopenNone, ReopenShared, Fd
    <3> QED
      BY <1>4, <3>1 DEF ForkType
  <2> QED
    BY <2>1, <2>2
<1>14. SameFiles /\ ftab' \in Seq(EntryType)
  BY <1>4, <1>5, NothingSet
<1>15. ASSUME NEW k \in 1 .. Len(ftab) PROVE CountAt(k)'
  <2>1. k \in Nat \ {0} /\ CountAt(k) /\ ftab' = ftab /\ ftab_base' = ftab_base
    BY <1>5 DEF ForkInv
  <2>2. ASSUME NEW d \in Descriptors(k)' PROVE d \in Descriptors(k)
    <3>1. d # <<p, i>>
      <4> SUFFICES ASSUME d = <<p, i>> PROVE FALSE
        OBVIOUS
      <4>1. /\ fds'[p][i].ftab = <<ftab_base, k>>
            /\ ~(pc'[t] \in {"reopen", "reopen_lock"} /\ local'[t].proc = p /\ local'[t].fd <= i)
        BY <2>1 DEF Descriptors
      <4>2. n = i + 1
        BY <1>2, <1>4, <1>9, <1>10, <1>12, <4>1 DEF Copying
      <4>3. ~ReopenShared(t)
        BY <1>2, <1>4, <4>2
      <4> QED
        BY <1>13, <2>1, <4>1, <4>3 DEF NoPointer
    <3>2. /\ pc[t] \in Copying /\ pc'[t] \in Copying /\ local'[t].proc = p
          /\ local'[t].fd \in Nat /\ local'[t].fd <= i + 1
          /\ \A j \in 1 .. Len(fds[p]) : fds'[p][j] = fds[p][j] \/ fds'[p][j] = NoFd
      BY <1>5, <1>8, <1>9, <1>10, <1>12, <1>13 DEF Copying
    <3>3. /\ ForkType /\ Mine(t) /\ p \in Proc /\ p = local[t].proc /\ i = local[t].fd
          /\ ftab_base' = ftab_base /\ k \in Nat \ {0}
      BY <1>1, <1>4, <1>6, <1>12, <2>1
    <3>4. /\ \A q \in Proc \ {p} : fds'[q] = fds[q]
          /\ fds' \in [Proc -> Seq(FdType)] /\ Len(fds'[p]) = Len(fds[p])
      BY <1>13
    <3> QED
      BY <2>2, <3>1, <3>2, <3>3, <3>4, OneMoreCounted
  <2>3. Opening(k)' \subseteq Opening(k)
    BY <1>10, <1>12, <2>1 DEF Opening, Mine, Copying
  <2> QED
    BY <1>4, <2>1, <2>2, <2>3, FewerCounted
<1>16. i > STDFDS /\ pc[t] \in Copying
  BY <1>1, <1>5 DEF ForkInv, ThreadAt, DoesAt, Copying
<1>17. /\ L.fd >= local[t].fd /\ (s = "reopen_lock" => L.fd \in 1 .. Len(fds[p]))
       /\ \A j \in 1 .. Len(fds[p]) : \/ fds'[p][j] = fds[p][j]
                                      \/ fds'[p][j] = NoFd /\ j > STDFDS
  BY <1>1, <1>2, <1>3, <1>7, <1>8, <1>9, <1>13, <1>16
<1> QED
  BY <1>1, <1>5, <1>9, <1>10, <1>11, <1>13, <1>14, <1>15, <1>16, <1>17, CopiesOn

\* One descriptor more, and one reference.
CopiedStep(t, p, i, k) ==
  /\ ForkType /\ Mine(t) /\ pc[t] \in Copying /\ pc'[t] = "reopen" /\ p \in Proc /\ p = local[t].proc
  /\ local'[t].proc = p /\ i \in Nat /\ i = local[t].fd /\ local'[t].fd = i + 1 /\ fds' = fds
  /\ ftab_base' = ftab_base /\ k = fds[p][i].ftab[2] /\ ftab[k].node # NULL
  /\ ftab'[k].node = ftab[k].node /\ \A c \in 1 .. Len(ftab) : c # k => ftab'[c] = ftab[c]
OneReference(k) == ftab'[k].refs = ftab[k].refs + 1
\* The counts, after a reference was added for the descriptor it was at.
LEMMA ReopenCounts ==
  ASSUME NEW t \in Thread, NEW p, NEW i, NEW k \in 1 .. Len(ftab), CopiedStep(t, p, i, k),
         OneReference(k), NEW c \in 1 .. Len(ftab), CountAt(c)
  PROVE  CountAt(c)'
<1> ForkType
  BY DEF CopiedStep
<1>1. Opening(c)' \subseteq Opening(c)
  BY DEF Opening, Mine, CopiedStep
<1>2. ASSUME NEW d \in Descriptors(c)', d # <<p, i>> PROVE d \in Descriptors(c)
  <2>1. /\ Mine(t) /\ pc[t] \in Copying /\ p \in Proc /\ p = local[t].proc /\ local'[t].proc = p
        /\ i = local[t].fd /\ ftab_base' = ftab_base
        /\ pc'[t] \in Copying /\ local'[t].fd \in Nat /\ local'[t].fd <= i + 1 /\ c \in Nat \ {0}
        /\ fds' \in [Proc -> Seq(FdType)] /\ Len(fds'[p]) = Len(fds[p])
        /\ \A q \in Proc \ {p} : fds'[q] = fds[q]
        /\ \A j \in 1 .. Len(fds[p]) : fds'[p][j] = fds[p][j] \/ fds'[p][j] = NoFd
    <3>1. Len(ftab) \in Nat
      BY ForkTable
    <3>2. c \in Nat \ {0}
      BY <3>1
    <3>3. PICK n \in Nat : n = i /\ local'[t].fd = n + 1
      BY DEF CopiedStep
    <3>4. PICK m \in Nat : m = n + 1 /\ m <= n + 1
      OBVIOUS
    <3>5. local'[t].fd \in Nat /\ local'[t].fd <= i + 1
      BY <3>3, <3>4
    <3>6. fds' = fds /\ fds \in [Proc -> Seq(FdType)]
      BY DEF CopiedStep, ForkType
    <3>7. /\ Mine(t) /\ pc[t] \in Copying /\ p \in Proc /\ p = local[t].proc /\ local'[t].proc = p
          /\ i = local[t].fd /\ ftab_base' = ftab_base /\ pc'[t] \in Copying
      BY DEF CopiedStep, Copying
    <3> QED
      BY <3>2, <3>5, <3>6, <3>7
  <2> QED
    BY <1>2, <2>1, OneMoreCounted
<1>3. CASE c # k
  <2>1. ASSUME NEW d \in Descriptors(c)' PROVE d # <<p, i>>
    <3>1. fds[d[1]][d[2]].ftab = <<ftab_base, c>>
      BY DEF CopiedStep, Descriptors
    <3>2. fds[p][i].ftab[2] # c
      BY <1>3 DEF CopiedStep
    <3> QED
      BY <3>1, <3>2
  <2>2. ftab'[c] = ftab[c]
    BY <1>3 DEF CopiedStep
  <2> QED
    BY <1>1, <1>2, <2>1, <2>2, FewerCounted
<1>4. CASE c = k
  <2>1. PICK a \in Nat, b \in Nat : a = Cardinality(Descriptors(k)) /\ b = Cardinality(Opening(k))
    BY Users
  <2>2. PICK x \in Nat, y \in Nat : x = Cardinality(Descriptors(k)') /\ y = Cardinality(Opening(k)')
    BY Users
  <2>3. PICK n \in Nat : n = ftab[k].refs
    BY ForkEntry
  <2>4. n >= a + b
    BY <1>4, <2>1, <2>3 DEF CountAt
  <2>5. y <= b
    BY <1>1, <1>4, <2>1, <2>2, Users, FewerUsers
  <2>6. x <= a + 1
    <3>1. CASE <<p, i>> \in Descriptors(k)'
      <4>1. PICK d \in Proc \X (1 .. MAX_FDS) : d = <<p, i>>
        BY <3>1, Users
      <4>2. Descriptors(k)' \subseteq Descriptors(k) \union {d}
        BY <1>2, <1>4, <4>1
      <4>3. Descriptors(k) \union {d} \in SUBSET (Proc \X (1 .. MAX_FDS))
        BY <4>1, Users
      <4>4. x <= Cardinality(Descriptors(k) \union {d})
        BY <2>2, <4>2, <4>3, FewerUsers
      <4>5. Cardinality(Descriptors(k) \union {d}) <= a + 1 /\ Cardinality(Descriptors(k) \union {d}) \in Nat
        BY <2>1, <4>1, <4>3, Users, OneMoreUser, FiniteUsers
      <4> QED
        BY <4>4, <4>5
    <3>2. CASE <<p, i>> \notin Descriptors(k)'
      <4>1. Descriptors(k)' \subseteq Descriptors(k)
        BY <1>2, <1>4, <3>2
      <4>2. x <= a
        BY <2>1, <2>2, <4>1, Users, FewerUsers
      <4> QED
        BY <4>2
    <3> QED
      BY <3>1, <3>2
  <2>7. PICK m \in Nat : m = n + 1
    OBVIOUS
  <2>8. m >= x + y /\ m # 0
    BY <2>4, <2>5, <2>6, <2>7
  <2>9. ftab'[k].refs = m /\ ftab'[k].node # NULL
    BY <2>3, <2>7 DEF OneReference, CopiedStep
  <2> QED
    BY <1>4, <2>2, <2>8, <2>9 DEF CountAt
<1> QED
  BY <1>3, <1>4

\* It counts the reference of a file that is shared.
LEMMA ReopenCountForks ==
  ASSUME ForkInv, OneThread, NEW t \in Thread, ReopenCount(t)
  PROVE  ForkInv'
<1>1. PICK p, i, k : p = local[t].proc /\ i = local[t].fd /\ k = Fd(t).ftab[2]
  OBVIOUS
<1>2. PICK e, L : /\ e = [ftab[k] EXCEPT !.refs = @ + 1]
                  /\ L = [local[t] EXCEPT !.fd = @ + 1]
  OBVIOUS
<1>3. /\ Running(t) /\ pc[t] = "reopen_lock" /\ Valid(Fd(t).ftab) /\ ftab' = [ftab EXCEPT ![k] = e]
      /\ local' = [local EXCEPT ![t] = L] /\ pc' = [pc EXCEPT ![t] = "reopen"]
      /\ UNCHANGED <<ftab_mutex, ftab_base, procs, fds>>
  BY <1>1, <1>2 DEF ReopenCount, At, Goto, Counted
<1>4. /\ ForkType /\ local[t] \in ForkLocalType /\ i \in Nat /\ OpenedAt(t) /\ fds \in [Proc -> Seq(FdType)]
  BY <1>1, ForkFields DEF ForkInv, ThreadAt, ForkType
<1>5. p \in Proc
  BY <1>1, <1>3, OwnProc
<1>6. i \in 1 .. Len(fds[p])
  BY <1>1, <1>3, <1>4 DEF OpenedAt, Copying
<1>7. PICK fd : fd = fds[p][i]
  OBVIOUS
<1>8. /\ k \in 1 .. Len(ftab) /\ fd.ftab[2] = k /\ fd.ftab # NoPointer
  <2>1. fd = Fd(t) /\ DOMAIN ftab = 1 .. Len(ftab) /\ Len(ftab) \in Nat
    BY <1>1, <1>4, <1>7, ForkTable DEF Fd
  <2>2. k \in 1 .. Len(ftab) /\ fd.ftab[2] = k
    BY <1>1, <1>3, <2>1 DEF Valid
  <2> QED
    BY <2>2 DEF NoPointer
<1>9. ftab[k].node # NULL
  <2>1. PointsFd(fd)
    BY <1>5, <1>6, <1>7 DEF ForkInv, ProcAt
  <2> QED
    BY <1>8, <2>1, Constants DEF PointsFd, Points
<1>10. ftab[k].refs \in Nat /\ ftab[k] \in EntryType
  BY <1>4, <1>8, ForkEntry
<1>11. /\ e \in EntryType /\ e.refs = ftab[k].refs + 1 /\ e.node = ftab[k].node /\ e.excl = ftab[k].excl
       /\ e.read = ftab[k].read /\ e.write = ftab[k].write
  BY <1>2, <1>10 DEF EntryType
<1>12. /\ ftab' \in Seq(EntryType) /\ Len(ftab') = Len(ftab) /\ ftab'[k] = e
       /\ \A j \in 1 .. Len(ftab) : j # k => ftab'[j] = ftab[j]
  BY <1>3, <1>4, <1>8, <1>11, ForkEntrySet
<1>13. SameFiles
  BY <1>3, <1>11, <1>12 DEF SameFiles
<1>14. /\ L \in ForkLocalType /\ L.op = local[t].op /\ L.proc = p /\ L.fd = i + 1
  <2>1. PICK n \in Nat : n = i + 1
    BY <1>4
  <2>2. L = [local[t] EXCEPT !.fd = n]
    BY <1>1, <1>2, <2>1
  <2> QED
    BY <1>1, <1>4, <2>1, <2>2 DEF ForkLocalType
<1>15. "reopen" \in Copying /\ "reopen_lock" \in Copying /\ "reopen" \in ForkSteps
  BY DEF Copying, ForkSteps
<1>16. Moves(t, L, "reopen")
  BY <1>3, <1>14, <1>15 DEF Moves
<1>17. pc'[t] = "reopen" /\ local'[t] = L /\ Mine(t)
  BY <1>4, <1>16, WhereItMoves
<1>18. ASSUME NEW c \in 1 .. Len(ftab) PROVE CountAt(c)'
  <2>1. CountAt(c)
    BY DEF ForkInv
  <2>2. OneReference(k)
    BY <1>11, <1>12 DEF OneReference
  <2>3. CopiedStep(t, p, i, k)
    BY <1>1, <1>3, <1>4, <1>5, <1>7, <1>8, <1>9, <1>11, <1>12, <1>14, <1>15, <1>17 DEF CopiedStep
  <2> QED
    BY <1>8, <2>1, <2>2, <2>3, ReopenCounts
<1>19. L.fd >= local[t].fd
  BY <1>1, <1>4, <1>14
<1> QED
  BY <1>1, <1>3, <1>4, <1>12, <1>13, <1>14, <1>15, <1>16, <1>18, <1>19, CopiesOn

\* A process ends: its descriptors are no longer there to be counted.
LEMMA ExitForks ==
  ASSUME ForkInv, OneThread, NEW t \in Thread, Exit(t)
  PROVE  ForkInv'
<1>1. PICK w : w = owner[t]
  OBVIOUS
<1>2. /\ Running(t) /\ pc[t] = "idle" /\ procs' = [procs EXCEPT ![w] = "free"]
      /\ fds' = [fds EXCEPT ![w] = <<>>] /\ UNCHANGED <<ftab, ftab_mutex, ftab_base>>
      /\ pc' = [u \in Thread |-> IF owner[u] = w THEN "idle" ELSE pc[u]]
      /\ local' = [u \in Thread |-> IF owner[u] = w THEN NoLocal ELSE local[u]]
  BY <1>1 DEF Exit, At, table
<1>3. /\ ForkType /\ pc \in [Thread -> ForkSteps] /\ local \in [Thread -> ForkLocalType]
      /\ fds \in [Proc -> Seq(FdType)] /\ procs \in [Proc -> {"free", "new", "alive"}]
      /\ ftab_mutex \in BOOLEAN
  BY DEF ForkInv, ForkType
<1>4. Own(t, w) /\ w \in Proc
  BY <1>1, <1>2, OwnSelf DEF Running
<1>5. Mine(t)
  <2>1. \A u \in Thread : u # t => owner[u] # w
    BY <1>1 DEF OneThread
  <2> QED
    BY <1>2, <2>1 DEF Mine
<1>6. pc'[t] = "idle" /\ local'[t] = NoLocal
  BY <1>1, <1>2
<1>7. pc' \in [Thread -> ForkSteps] /\ local' \in [Thread -> ForkLocalType]
  <2>1. "idle" \in ForkSteps
    BY DEF ForkSteps
  <2> QED
    BY <1>2, <1>3, <2>1, NoForkLocal
<1>8. /\ fds' \in [Proc -> Seq(FdType)] /\ fds'[w] = <<>> /\ procs'[w] = "free"
      /\ procs' \in [Proc -> {"free", "new", "alive"}]
      /\ \A p \in Proc \ {w} : fds'[p] = fds[p] /\ procs'[p] = procs[p]
  BY <1>2, <1>3, <1>4
<1>9. ForkType'
  BY <1>2, <1>3, <1>7, <1>8 DEF ForkType
<1>10. SameFiles /\ TableGrows
  BY <1>2, <1>3, NothingSet, SameGrows
<1>11. LockStep(t) /\ Elsewhere(w)
  BY <1>2, <1>6, <1>8 DEF LockStep, InTable, Elsewhere
<1>12. ThreadAt(t)'
  BY <1>6, NoForkLocal, IdleAt
<1>13. ProcAt(w)'
  BY <1>8 DEF ProcAt
<1>14. InvConsole'
  <2>1. ConsoleOpen
    BY <1>2, ConsoleFirst DEF BootSteps
  <2> QED
    BY <1>9, <1>10, <2>1, ConsoleStays DEF InvConsole
<1>15. ASSUME NEW k \in 1 .. Len(ftab') PROVE CountAt(k)'
  <2>1. k \in 1 .. Len(ftab) /\ CountAt(k) /\ ftab' = ftab /\ ftab_base' = ftab_base /\ pc[t] \notin Copying
    BY <1>2 DEF ForkInv, Copying
  <2>2. ASSUME NEW d \in Descriptors(k)' PROVE d \in Descriptors(k)
    <3>1. /\ d[1] \in Proc /\ d[2] \in DOMAIN fds'[d[1]] /\ fds'[d[1]][d[2]].ftab = <<ftab_base, k>>
      BY <2>1 DEF Descriptors
    <3>2. d[1] # w
      BY <1>8, <3>1
    <3>3. d[2] \in DOMAIN fds[d[1]] /\ fds[d[1]][d[2]].ftab = <<ftab_base, k>>
      BY <1>8, <3>1, <3>2
    <3> QED
      BY <1>3, <1>5, <2>1, <3>3, StillCounted
  <2>3. Opening(k)' \subseteq Opening(k)
    BY <1>5, <1>6, <2>1 DEF Opening, Mine
  <2> QED
    BY <1>3, <2>1, <2>2, <2>3, FewerCounted
<1> QED
  BY <1>2, <1>4, <1>5, <1>6, <1>9, <1>10, <1>11, <1>12, <1>13, <1>14, <1>15, ForkStep

-----------------------------------------------------------------------------
(* The invariant and what it is for.                                       *)

\* proc_init(): the kernel's thread is about to open the console.
LEMMA ForkInit ==
  ASSUME Init, OneThread
  PROVE  ForkInv
<1>1. PICK k : k = Creating("start", proc_kernel)
  OBVIOUS
<1>2. proc_kernel \in Proc /\ STDFDS \in Nat /\ STDFDS # 0 /\ NULL \notin Proc \union Node /\ owner \in [Thread -> Proc]
  BY FileTabAssumption, Constants, Zenon
<1>3. PICK z \in Thread : owner[z] = proc_kernel
  BY FileTabAssumption, Zenon
<1>4. /\ k \in ForkLocalType /\ k.op = "start" /\ k.proc = proc_kernel /\ k.left = STDFDS /\ k.node = dev_console
      /\ k.duplicate = TRUE /\ k.excl = FALSE
  <2>1. NewCall(k, "start", proc_kernel)
    BY <1>1, <1>2, NewCreation
  <2> QED
    BY <2>1 DEF NewCall
<1>5. /\ ftab = <<>> /\ ftab_mutex = FALSE /\ ftab_base = 0
      /\ \A p \in Proc : fds[p] = <<>> /\ procs[p] = IF p = proc_kernel THEN "alive" ELSE "free"
      /\ \A t \in Thread : IF owner[t] = proc_kernel THEN pc[t] = "ftab_lock" /\ local[t] = k
                                                    ELSE pc[t] = "idle" /\ local[t] = NoLocal
  BY <1>1 DEF Init
<1>6. ForkType
  <2>1. "idle" \in ForkSteps /\ "ftab_lock" \in ForkSteps
    BY DEF ForkSteps, OpenSteps
  <2>2. pc \in [Thread -> ForkSteps] /\ local \in [Thread -> ForkLocalType]
    <3>1. /\ pc = [t \in Thread |-> IF owner[t] = proc_kernel THEN "ftab_lock" ELSE "idle"]
          /\ local = [t \in Thread |-> IF owner[t] = proc_kernel THEN k ELSE NoLocal]
      BY <1>1 DEF Init
    <3>2. k \in ForkLocalType /\ NoLocal \in ForkLocalType
      BY <1>4, NoForkLocal
    <3>3. pc \in [Thread -> ForkSteps]
      BY <2>1, <3>1
    <3>4. local \in [Thread -> ForkLocalType]
      BY <3>1, <3>2
    <3> QED
      BY <3>3, <3>4
  <2>3. ftab \in Seq(EntryType) /\ ftab_mutex \in BOOLEAN /\ ftab_base \in Nat
    <3>1. ftab = <<>> /\ ftab_mutex = FALSE /\ ftab_base = 0
      BY <1>5
    <3>2. ftab \in Seq(EntryType)
      BY <3>1
    <3>3. ftab_mutex \in BOOLEAN /\ ftab_base \in Nat
      BY <3>1
    <3> QED
      BY <3>2, <3>3
  <2>4. fds \in [Proc -> Seq(FdType)] /\ procs \in [Proc -> {"free", "new", "alive"}]
    BY DEF Init
  <2> QED
    BY <2>2, <2>3, <2>4 DEF ForkType
<1>7. InvLock
  BY <1>5 DEF InvLock, InTable
<1>8. InvApart
  BY <1>5 DEF InvApart, OneThread
<1>9. InvConsole
  <2>1. Len(ftab) = 0
    BY <1>5
  <2>2. \A t \in Thread : owner[t] = proc_kernel => Creates(t)
    BY <1>4, <1>5 DEF Creates
  <2> QED
    BY <1>5, <2>1, <2>2 DEF InvConsole, Booting
<1>10. ASSUME NEW t \in Thread PROVE ThreadAt(t)
  <2>1. CASE owner[t] # proc_kernel
    <3>1. pc[t] = "idle" /\ local[t].op = "none"
      BY <1>5, <2>1, NoForkLocal
    <3> QED
      BY <3>1 DEF ThreadAt, DoesAt, ForAt, WalksAt, OpenedAt, CreatesAt, ForksAt, Creates, OpenSteps, InTable,
                  Copying, Using
  <2>2. CASE owner[t] = proc_kernel
    <3>1. pc[t] = "ftab_lock" /\ local[t] = k /\ procs[proc_kernel] = "alive" /\ fds[proc_kernel] = <<>>
      BY <1>2, <1>5, <2>2
    <3>2. DoesAt(t) /\ ForAt(t) /\ WalksAt(t) /\ OpenedAt(t) /\ ForksAt(t)
      BY <1>2, <1>4, <2>2, <3>1, Constants
         DEF DoesAt, ForAt, WalksAt, OpenedAt, ForksAt, OpenSteps, InTable, Copying, Using
    <3>3. Has(t) = 0 /\ Len(fds[proc_kernel]) = 0
      BY <1>2, <1>4, <3>1 DEF Has
    <3>4. Standard(proc_kernel, Has(t))
      BY <3>3 DEF Standard
    <3>5. CreatesAt(t)
      BY <1>2, <1>4, <3>1, <3>3, <3>4 DEF CreatesAt, InTable, Copying
    <3> QED
      BY <3>2, <3>5 DEF ThreadAt
  <2> QED
    BY <2>1, <2>2
<1>11. ASSUME NEW p \in Proc PROVE ProcAt(p)
  <2>1. fds[p] = <<>> /\ Len(fds[p]) = 0
    BY <1>5
  <2>2. CASE p = proc_kernel
    <3>1. Creates(z) /\ local[z].proc = p
      BY <1>3, <1>4, <1>5, <2>2 DEF Creates
    <3> QED
      BY <2>1, <3>1 DEF ProcAt, NotCreated
  <2>3. CASE p # proc_kernel
    BY <1>5, <2>1, <2>3 DEF ProcAt
  <2> QED
    BY <2>2, <2>3
<1>12. \A i \in 1 .. Len(ftab) : CountAt(i)
  BY <1>5
<1> QED
  BY <1>6, <1>7, <1>8, <1>9, <1>10, <1>11, <1>12 DEF ForkInv

\* The invariant says what is wanted.
LEMMA ForkKeeps ==
  ASSUME ForkInv
  PROVE  FilesKept
<1>1. DOMAIN ftab = 1 .. Len(ftab) /\ ForkType
  BY ForkTable DEF ForkInv
<1>2. RefsCover
  BY <1>1 DEF ForkInv, CountAt, RefsCover
<1>3. ASSUME NEW k \in DOMAIN ftab, NEW d \in Descriptors(k)
      PROVE  LET fd == fds[d[1]][d[2]]
             IN  /\ ftab[k].node = fd.for
                 /\ Modes(fd.read, fd.write) \subseteq Modes(ftab[k].read, ftab[k].write)
  <2>1. d[1] \in Proc /\ d[2] \in DOMAIN fds[d[1]] /\ fds[d[1]][d[2]].ftab = <<ftab_base, k>>
    BY DEF Descriptors
  <2>2. d[2] \in 1 .. Len(fds[d[1]])
    BY <1>1, <2>1, ForkFds
  <2>3. PICK fd : fd = fds[d[1]][d[2]]
    OBVIOUS
  <2>4. PointsFd(fd)
    BY <2>1, <2>2, <2>3 DEF ForkInv, ProcAt
  <2>5. fd.ftab = <<ftab_base, k>> /\ fd.ftab # NoPointer /\ fd.ftab[2] = k
    BY <1>1, <2>1, <2>3 DEF NoPointer
  <2> QED
    BY <2>3, <2>4, <2>5 DEF PointsFd, Points
<1> QED
  BY <1>2, <1>3 DEF FilesKept, FilesStayOpen

\* A step of a program that forks and closes nothing.
LEMMA ForkNextForks ==
  ASSUME ForkInv, OneThread, RoomForStd, ConsoleOpens, ForkNext
  PROVE  ForkInv'
<1>1. PICK t \in Thread : FdOpenStep(t) \/ FdIo(t) \/ Start(t) \/ Fork(t) \/ Exit(t)
  BY DEF ForkNext
<1>2. CASE FdOpenStep(t)
  BY <1>2, FdOpenForks, OpenLockForks, ScanNextForks, ScanFitsForks, GrowForks, GrowFailsForks, EntryLockForks,
     OpenFirstDoneForks, OpenFirstFailsForks, OpenDeniedForks, OpenAgainForks, OpenAgainDoneForks,
     OpenAgainFailsForks, UnlockForks, OpenedForks, SlotChosenForks, SlotGrowForks, SlotGrowFailsForks,
     FillForks, Zenon
     DEF FdOpenStep
<1>3. CASE FdIo(t)
  BY <1>3, FdUseForks, FdRefusedForks, FdLockForks, IoLockForks, IoDoneForks, Zenon DEF FdIo
<1>4. CASE Start(t)
  BY <1>4, ProcCreateForks, EndForks, Zenon DEF Start
<1>5. CASE Fork(t)
  BY <1>5, ProcCreateForks, ForkCopyForks, ReopenPassForks, ReopenCountForks, EndForks, Zenon DEF Fork
<1>6. CASE Exit(t)
  BY <1>6, ExitForks
<1> QED
  BY <1>1, <1>2, <1>3, <1>4, <1>5, <1>6

\* Nothing is done.
LEMMA ForkStutters ==
  ASSUME ForkInv, UNCHANGED vars
  PROVE  ForkInv'
<1>1. /\ ftab' = ftab /\ ftab_mutex' = ftab_mutex /\ ftab_base' = ftab_base /\ procs' = procs /\ fds' = fds
      /\ pc' = pc /\ local' = local
  BY DEF vars
<1>2. ForkType' /\ InvLock' /\ InvApart'
  BY <1>1 DEF ForkInv, ForkType, InvLock, InvApart
<1>3. InvConsole'
  BY <1>1 DEF ForkInv, InvConsole, ConsoleOpen, Booting, Creates
<1>4. ASSUME NEW t \in Thread PROVE ThreadAt(t)'
  <2>1. DoesAt(t) /\ ForAt(t) /\ WalksAt(t) /\ OpenedAt(t) /\ CreatesAt(t) /\ ForksAt(t)
    BY DEF ForkInv, ThreadAt
  <2>2. DoesAt(t)' /\ ForAt(t)' /\ WalksAt(t)'
    BY <1>1, <2>1 DEF DoesAt, ForAt, WalksAt, Widened
  <2>3. OpenedAt(t)'
    BY <1>1, <2>1 DEF OpenedAt, Points
  <2>4. CreatesAt(t)' /\ ForksAt(t)'
    BY <1>1, <2>1 DEF CreatesAt, ForksAt, Creates, Has, Standard, Current
  <2> QED
    BY <2>2, <2>3, <2>4 DEF ThreadAt
<1>5. ASSUME NEW p \in Proc PROVE ProcAt(p)'
  BY <1>1 DEF ForkInv, ProcAt, NotCreated, Creates, Standard, PointsFd, Points
<1>6. ASSUME NEW k \in 1 .. Len(ftab') PROVE CountAt(k)'
  <2>1. k \in 1 .. Len(ftab) /\ CountAt(k) /\ ForkType
    BY <1>1 DEF ForkInv
  <2>2. Descriptors(k)' \subseteq Descriptors(k) /\ Opening(k)' \subseteq Opening(k)
    BY <1>1 DEF Descriptors, Opening
  <2> QED
    BY <1>1, <2>1, <2>2, FewerCounted
<1> QED
  BY <1>2, <1>3, <1>4, <1>5, <1>6 DEF ForkInv

\* What is open stays open for as many as use it, through forks and exits: no
\* count of an entry falls behind, and no descriptor refers to a file other than
\* the one it was opened for.  Each process has one thread (system calls come
\* from tasks that start and fork make), there is memory for the first entries
\* and descriptors, and the console opens (proc_fork(), exec/process.c:302).
THEOREM FilesKeptHolds ==
  OneThread /\ RoomForStd => (ForkSpec /\ [][ConsoleOpens]_vars => []FilesKept)
<1> SUFFICES ASSUME OneThread, RoomForStd
             PROVE  ForkSpec /\ [][ConsoleOpens]_vars => []FilesKept
  OBVIOUS
<1>1. Init => ForkInv
  BY ForkInit
<1>2. ForkInv /\ [ForkNext]_vars /\ [ConsoleOpens]_vars => ForkInv'
  <2> SUFFICES ASSUME ForkInv, [ForkNext]_vars, [ConsoleOpens]_vars
               PROVE  ForkInv'
    OBVIOUS
  <2>1. CASE UNCHANGED vars
    BY <2>1, ForkStutters
  <2>2. CASE ForkNext /\ ConsoleOpens
    BY <2>2, ForkNextForks
  <2> QED
    BY <2>1, <2>2
<1>3. ForkInv => FilesKept
  BY ForkKeeps
<1> QED
  BY <1>1, <1>2, <1>3, PTL DEF ForkSpec
=============================================================================
