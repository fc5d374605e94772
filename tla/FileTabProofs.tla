---------------------------- MODULE FileTabProofs ----------------------------
(***************************************************************************)
(* Open files, for any number of processes and threads and tables of any   *)
(* size, where nobody closes a file while another opens one: the count of  *)
(* an entry covers those who use it, a descriptor's file stays open in its *)
(* modes, and an exclusive hold is kept.                                   *)
(***************************************************************************)
EXTENDS FileTab, FiniteSetTheorems, TLAPS

EntryType == [node : Node \union {NULL}, read : BOOLEAN, write : BOOLEAN, refs : Nat,
              excl : Proc \union {NULL}, mutex : BOOLEAN]
FdType == [ftab : Nat \X Nat, read : BOOLEAN, write : BOOLEAN, mutex : BOOLEAN,
           for : Node \union {NULL}]
LocalType == [op : {"none", "open", "read", "write", "close", "start"},
              proc : Proc \union {NULL}, left : Int, node : Node \union {NULL},
              duplicate : BOOLEAN, read : BOOLEAN, write : BOOLEAN, excl : BOOLEAN,
              idx : Nat, mode : SUBSET {"r", "w"}, ptr : Nat \X Nat, fd : Nat]
OpenSteps == {"ftab_lock", "scan", "entry_lock", "entry", "vfs_open", "vfs_reopen",
              "unlock", "opened", "slot", "fill"}
InTable == {"scan", "entry_lock", "entry", "vfs_open", "vfs_reopen", "unlock"}
CloseSteps == {"close_check", "close_lock", "close", "close_unlock"}
FdSteps == CloseSteps \union {"io_lock", "io"}
FileSteps == OpenSteps \union FdSteps \union {"idle", "done", "fd_lock"}

FileType ==
  /\ ftab \in Seq(EntryType) /\ ftab_mutex \in BOOLEAN /\ ftab_base \in Nat
  /\ fds \in [Proc -> Seq(FdType)] /\ procs \in [Proc -> {"free", "new", "alive"}]
  /\ pc \in [Thread -> FileSteps] /\ local \in [Thread -> LocalType]

\* What a thread does, where it is in it, and for whom.
OpsAt(t) ==
  /\ pc[t] \in OpenSteps => /\ local[t].op \in {"open", "start"}
                            /\ local[t].node \in Node /\ local[t].proc \in Proc
  /\ pc[t] = "done" => local[t].op = "start" /\ local[t].proc \in Proc
  /\ pc[t] \in FdSteps \union {"fd_lock"} => local[t].proc = owner[t]
  /\ pc[t] \in CloseSteps => local[t].op = "close"
  /\ pc[t] \in {"io_lock", "io"} => local[t].op \in {"read", "write"}
  /\ pc[t] = "fd_lock" => local[t].op \in {"read", "write", "close"}
  /\ pc[t] = "idle" => local[t].op = "none"
InvOps == \A t \in Thread : OpsAt(t)
\* Nobody closes while another opens (CloseAlone).
InvAlone ==
  \A t, u \in Thread : ~(local[t].op \in {"open", "start"} /\ local[u].op = "close")
\* One thread at most is inside the table.
InvLock ==
  /\ \A t \in Thread : pc[t] \in InTable => ftab_mutex = TRUE
  /\ \A t, u \in Thread : pc[t] \in InTable /\ pc[u] \in InTable => t = u
\* The entry that an open has come to.
ScanAt(t) ==
  LET i == local[t].idx IN
  /\ pc[t] = "scan" => i \in 1 .. Len(ftab) + 1
  /\ pc[t] \in (InTable \ {"scan"}) \union {"opened"} => i \in 1 .. Len(ftab)
  /\ pc[t] \in {"entry_lock", "entry"} => ftab[i].node \in {NULL, local[t].node}
  /\ pc[t] = "vfs_open" => ftab[i].node = NULL
  /\ pc[t] = "vfs_reopen" => /\ ftab[i].node = local[t].node
                             /\ local[t].mode = Widened(t, ftab[i])
                             /\ ~Denied(t, ftab[i])
InvScan == \A t \in Thread : ScanAt(t)
\* No pointer is into a table that is still to come.
InvPointers ==
  /\ \A p \in Proc : \A i \in 1 .. Len(fds[p]) : fds[p][i].ftab[1] <= ftab_base
  /\ \A t \in Thread : local[t].ptr[1] <= ftab_base
\* A descriptor in use is locked by one thread, which has its pointer.
FdAt(d) == fds[d[1]][d[2]]
InvHolder ==
  /\ \A p \in Proc : Len(fds[p]) <= MAX_FDS
  /\ \A t \in Thread : pc[t] \in FdSteps \union {"fd_lock"} =>
       local[t].fd \in 1 .. Len(fds[owner[t]])
  /\ \A t \in Thread : pc[t] \in FdSteps =>
       /\ fds[owner[t]][local[t].fd].mutex = TRUE
       /\ fds[owner[t]][local[t].fd].ftab = local[t].ptr
  /\ \A t, u \in Thread :
       pc[t] \in FdSteps /\ pc[u] \in FdSteps /\ owner[t] = owner[u] /\ local[t].fd = local[u].fd
         => t = u
\* An entry is fit for who uses it: by a descriptor, or about to have one.
Serves(e, node, read, write, proc) ==
  /\ e.node = node /\ Modes(read, write) \subseteq Modes(e.read, e.write)
  /\ e.excl # NULL => proc = e.excl
EntryInv(k) ==
  /\ ftab[k].refs >= Cardinality(Descriptors(k)) + Cardinality(Opening(k))
  /\ ftab[k].node = NULL <=> ftab[k].refs = 0
  /\ \A d \in Descriptors(k) : Serves(ftab[k], FdAt(d).for, FdAt(d).read, FdAt(d).write, d[1])
  /\ \A t \in Opening(k) :
       Serves(ftab[k], local[t].node, local[t].read, local[t].write, local[t].proc)
InvEntries == \A k \in 1 .. Len(ftab) : EntryInv(k)

InvThreads == InvOps /\ InvAlone /\ InvLock /\ InvScan /\ InvPointers /\ InvHolder
FileInv == FileType /\ InvThreads /\ InvEntries

-----------------------------------------------------------------------------
\* A step of thread t leaves the position and the locals of the others alone.
Mine(t) == \A u \in Thread : u # t => pc'[u] = pc[u] /\ local'[u] = local[u]

\* proc_kernel and the other constants are what proc_init() (exec/process.c) has.
LEMMA Constants ==
  /\ NULL \notin Proc \union Node /\ dev_console \in Node /\ owner \in [Thread -> Proc]
  /\ FTAB_ALLOCSZ \in Nat \ {0} /\ PROC_FDS_ALLOCSZ \in Nat \ {0} /\ STDFDS \in Nat
  /\ MAX_FDS \in Nat /\ Exclusive \subseteq BOOLEAN /\ Duplicate \subseteq BOOLEAN
  /\ Mode \subseteq {"r", "w"}
BY FileTabAssumption, Zenon

\* What an entry is made of (fs/ftab.h).
LEMMA EntryFields ==
  ASSUME FileType, NEW k \in 1 .. Len(ftab)
  PROVE  /\ ftab[k] \in EntryType /\ ftab[k].node \in Node \union {NULL} /\ ftab[k].refs \in Nat
         /\ ftab[k].excl \in Proc \union {NULL} /\ ftab[k].read \in BOOLEAN
         /\ ftab[k].write \in BOOLEAN /\ ftab[k].mutex \in BOOLEAN
<1>1. ftab[k] \in EntryType
  BY DEF FileType
<1> QED
  BY <1>1 DEF EntryType

\* There are finitely many descriptors and threads (exec/process.c).
LEMMA FiniteUsers ==
  /\ \A D \in SUBSET (Proc \X (1 .. MAX_FDS)) : IsFiniteSet(D) /\ Cardinality(D) \in Nat
  /\ \A O \in SUBSET Thread : IsFiniteSet(O) /\ Cardinality(O) \in Nat
<1>1. IsFiniteSet(Proc) /\ IsFiniteSet(Thread) /\ MAX_FDS \in Nat
  BY FileTabAssumption, Constants, Zenon
<1>2. IsFiniteSet(1 .. MAX_FDS)
  BY <1>1, FS_Interval
<1>3. IsFiniteSet(Proc \X (1 .. MAX_FDS))
  BY <1>1, <1>2, FS_Product
<1> QED
  BY <1>1, <1>3, FS_Subset, FS_CardinalityType

\* Who uses an entry: descriptors of processes, and threads.
LEMMA Users ==
  ASSUME NEW k
  PROVE  /\ Descriptors(k) \in SUBSET (Proc \X (1 .. MAX_FDS)) /\ Opening(k) \in SUBSET Thread
         /\ Descriptors(k)' \in SUBSET (Proc \X (1 .. MAX_FDS)) /\ Opening(k)' \in SUBSET Thread
         /\ Cardinality(Descriptors(k)) \in Nat /\ Cardinality(Opening(k)) \in Nat
         /\ Cardinality(Descriptors(k)') \in Nat /\ Cardinality(Opening(k)') \in Nat
<1>1. /\ Descriptors(k) \in SUBSET (Proc \X (1 .. MAX_FDS)) /\ Opening(k) \in SUBSET Thread
      /\ Descriptors(k)' \in SUBSET (Proc \X (1 .. MAX_FDS)) /\ Opening(k)' \in SUBSET Thread
  BY DEF Descriptors, Opening
<1> QED
  BY <1>1, FiniteUsers

\* Of two sets of users, one in the other.
LEMMA FewerUsers ==
  /\ \A D \in SUBSET (Proc \X (1 .. MAX_FDS)) : \A E \in SUBSET D : Cardinality(E) <= Cardinality(D)
  /\ \A O \in SUBSET Thread : \A P \in SUBSET O : Cardinality(P) <= Cardinality(O)
BY FiniteUsers, FS_Subset

\* An entry that keeps its file, modes, holder and count serves as many or fewer.
EntrySame(k) ==
  /\ ftab'[k].node = ftab[k].node /\ ftab'[k].read = ftab[k].read
  /\ ftab'[k].write = ftab[k].write /\ ftab'[k].refs = ftab[k].refs
  /\ ftab'[k].excl = ftab[k].excl
DescriptorsKept(k) ==
  \A d \in Descriptors(k)' :
    /\ d \in Descriptors(k) /\ FdAt(d)'.for = FdAt(d).for
    /\ FdAt(d)'.read = FdAt(d).read /\ FdAt(d)'.write = FdAt(d).write
OpeningKept(k) ==
  \A t \in Opening(k)' :
    /\ t \in Opening(k) /\ local'[t].node = local[t].node /\ local'[t].proc = local[t].proc
    /\ local'[t].read = local[t].read /\ local'[t].write = local[t].write

\* What leaves a counted entry alone leaves it counted (fs/ftab.c).
LEMMA EntryKept ==
  ASSUME FileType, NEW k \in 1 .. Len(ftab), EntryInv(k), EntrySame(k),
         DescriptorsKept(k), OpeningKept(k)
  PROVE  EntryInv(k)'
<1>1. ftab[k].refs \in Nat
  BY EntryFields
<1>2. /\ Cardinality(Descriptors(k)') <= Cardinality(Descriptors(k))
      /\ Cardinality(Opening(k)') <= Cardinality(Opening(k))
  <2>1. Descriptors(k)' \subseteq Descriptors(k) /\ Opening(k)' \subseteq Opening(k)
    BY DEF DescriptorsKept, OpeningKept
  <2> QED
    BY <2>1, Users, FewerUsers
<1>3. ftab'[k].refs >= Cardinality(Descriptors(k)') + Cardinality(Opening(k)')
  BY <1>1, <1>2, Users DEF EntryInv, EntrySame
<1>4. ftab'[k].node = NULL <=> ftab'[k].refs = 0
  BY DEF EntryInv, EntrySame
<1>5. \A d \in Descriptors(k)' :
        Serves(ftab'[k], FdAt(d)'.for, FdAt(d)'.read, FdAt(d)'.write, d[1])
  BY DEF EntryInv, EntrySame, DescriptorsKept, Serves
<1>6. \A t \in Opening(k)' :
        Serves(ftab'[k], local'[t].node, local'[t].read, local'[t].write, local'[t].proc)
  BY DEF EntryInv, EntrySame, OpeningKept, Serves
<1> QED
  BY <1>3, <1>4, <1>5, <1>6 DEF EntryInv

\* The descriptors stay as they are, and no thread ends a close.
LEMMA SameDescriptors ==
  ASSUME NEW t \in Thread, NEW k, Mine(t), UNCHANGED <<ftab_base, fds>>,
         pc[t] # "close_unlock", pc'[t] \notin {"reopen", "reopen_lock"},
         pc[t] \notin {"reopen", "reopen_lock"}
  PROVE  DescriptorsKept(k)
BY DEF DescriptorsKept, Descriptors, FdAt, Mine

\* The thread is about to fill no descriptor, or the one that it was.
LEMMA SameOpening ==
  ASSUME NEW t \in Thread, NEW k, Mine(t), UNCHANGED ftab_base,
         \/ pc'[t] \notin {"unlock", "opened", "slot", "fill"}
         \/ t \in Opening(k) /\ local'[t].node = local[t].node /\ local'[t].proc = local[t].proc
            /\ local'[t].read = local[t].read /\ local'[t].write = local[t].write
         \/ t \notin Opening(k)'
  PROVE  OpeningKept(k)
BY DEF OpeningKept, Opening, Mine

\* A step that leaves the tables alone.
AloneAt(t) ==
  \A u \in Thread \ {t} :
    /\ local[t].op \in {"open", "start"} => local[u].op # "close"
    /\ local[t].op = "close" => local[u].op \notin {"open", "start"}
LEMMA Quiet ==
  ASSUME FileInv, NEW t \in Thread, NEW L \in LocalType, NEW s \in FileSteps,
         pc' = [pc EXCEPT ![t] = s], local' = [local EXCEPT ![t] = L],
         UNCHANGED <<ftab, ftab_base, fds>>,
         ftab_mutex' \in BOOLEAN, procs' \in [Proc -> {"free", "new", "alive"}],
         OpsAt(t)', AloneAt(t)', ScanAt(t)', L.ptr[1] <= ftab_base,
         s \in InTable => ftab_mutex' = TRUE /\ (pc[t] \in InTable \/ ftab_mutex = FALSE),
         ftab_mutex' = FALSE => ftab_mutex = FALSE \/ pc[t] \in InTable,
         s \in FdSteps \union {"fd_lock"} => L.fd \in 1 .. Len(fds[owner[t]]),
         s \in FdSteps => pc[t] \in FdSteps /\ L.fd = local[t].fd /\ L.ptr = local[t].ptr,
         pc[t] # "close_unlock",
         s \in {"unlock", "opened", "slot", "fill"} =>
           /\ \A k : t \in Opening(k)' => t \in Opening(k)
           /\ L.node = local[t].node /\ L.proc = local[t].proc
           /\ L.read = local[t].read /\ L.write = local[t].write
  PROVE  FileInv'
<1>1. FileType'
  BY DEF FileInv, FileType
<1>2. pc'[t] = s /\ local'[t] = L /\ Mine(t) /\ pc \in [Thread -> FileSteps]
  BY DEF FileInv, FileType, Mine
<1>3. InvOps'
  BY <1>2 DEF InvOps, FileInv, InvThreads, Mine, OpsAt
<1>4. InvAlone'
  <2>1. L.op \notin {"open", "start"} \/ L.op # "close"
    OBVIOUS
  <2> QED
    BY <1>2, <2>1 DEF InvAlone, FileInv, InvThreads, Mine, AloneAt
<1>5. InvLock'
  BY <1>2 DEF InvLock, FileInv, InvThreads, Mine
<1>6. InvScan'
  BY <1>2 DEF InvScan, FileInv, InvThreads, Mine, ScanAt, Widened, Denied
<1>7. InvPointers'
  BY <1>2 DEF InvPointers, FileInv, InvThreads, Mine
<1>8. InvHolder'
  BY <1>2 DEF InvHolder, FileInv, InvThreads, Mine
<1>9. InvEntries'
  <2> SUFFICES ASSUME NEW k \in 1 .. Len(ftab) PROVE EntryInv(k)'
    BY DEF InvEntries
  <2>1. EntrySame(k) /\ EntryInv(k) /\ FileType
    BY DEF EntrySame, FileInv, InvEntries
  <2>2. DescriptorsKept(k)
    BY <1>2, SameDescriptors DEF FileSteps, OpenSteps, FdSteps, CloseSteps
  <2>3. OpeningKept(k)
    BY <1>2, SameOpening
  <2> QED
    BY <2>1, <2>2, <2>3, EntryKept
<1> QED
  BY <1>1, <1>3, <1>4, <1>5, <1>6, <1>7, <1>8, <1>9 DEF FileInv, InvThreads

\* An action that moves thread t on, with other locals.
GoesTo(t, L, s) ==
  /\ pc' = [pc EXCEPT ![t] = s] /\ local' = [local EXCEPT ![t] = L]
  /\ L \in LocalType /\ s \in FileSteps
LEMMA WhereItGoes ==
  ASSUME FileType, NEW t \in Thread, NEW L, NEW s, GoesTo(t, L, s)
  PROVE  /\ pc'[t] = s /\ local'[t] = L /\ Mine(t) /\ L \in LocalType /\ s \in FileSteps
         /\ local[t] \in LocalType /\ pc[t] \in FileSteps
BY DEF FileType, GoesTo, Mine
\* The locals of a thread.
LEMMA LocalFields ==
  ASSUME FileType, NEW t \in Thread
  PROVE  /\ local[t] \in LocalType /\ local[t].op \in {"none", "open", "read", "write", "close", "start"}
         /\ local[t].proc \in Proc \union {NULL} /\ local[t].left \in Int
         /\ local[t].node \in Node \union {NULL} /\ local[t].duplicate \in BOOLEAN
         /\ local[t].read \in BOOLEAN /\ local[t].write \in BOOLEAN /\ local[t].excl \in BOOLEAN
         /\ local[t].idx \in Nat /\ local[t].mode \in SUBSET {"r", "w"}
         /\ local[t].ptr \in Nat \X Nat /\ local[t].fd \in Nat
<1>1. local[t] \in LocalType
  BY DEF FileType
<1> QED
  BY <1>1 DEF LocalType
\* What a step may leave of what its thread is doing.
LEMMA AloneKept ==
  ASSUME FileInv, NEW t \in Thread, Mine(t),
         \/ local'[t].op \in {"none", local[t].op}
         \/ local'[t].op \in {"read", "write"}
         \/ CloseAlone /\ (\/ local'[t].op \in {"open", "start"} /\ MayBegin("open")
                           \/ local'[t].op = "close" /\ MayBegin("close"))
  PROVE  AloneAt(t)'
<1>1. CASE local'[t].op \in {"none", "read", "write"}
  BY <1>1 DEF AloneAt
<1>2. CASE local'[t].op = local[t].op
  BY <1>2 DEF AloneAt, FileInv, InvThreads, InvAlone, Mine
<1>3. CASE CloseAlone /\ local'[t].op \in {"open", "start"} /\ MayBegin("open")
  BY <1>3 DEF AloneAt, MayBegin, Mine
<1>4. CASE CloseAlone /\ local'[t].op = "close" /\ MayBegin("close")
  BY <1>4 DEF AloneAt, MayBegin, Mine
<1> QED
  BY <1>1, <1>2, <1>3, <1>4

\* The locals of a thread that does nothing (exec/process.c).
LEMMA NoLocalFields ==
  NoLocal \in LocalType /\ NoLocal.op = "none" /\ NoLocal.ptr = NoPointer /\ NoLocal.idx = 0
BY DEF NoLocal, LocalType, NoPointer
\* The locals of an open in proc_create(), afresh (exec/process.c).
LocalsAgain(op, p, n) ==
  [NoLocal EXCEPT !.op = op, !.proc = p, !.left = n, !.node = dev_console,
                  !.duplicate = TRUE, !.write = TRUE]
LEMMA AfreshConsole ==
  ASSUME NEW op \in {"open", "start"}, NEW p \in Proc, NEW n \in Int, NEW L,
         L = LocalsAgain(op, p, n) \/ L = Creating(op, p)
  PROVE  L \in LocalType /\ L.op = op /\ L.proc = p /\ L.node = dev_console /\ L.ptr = NoPointer
<1>1. ASSUME L = LocalsAgain(op, p, n)
      PROVE  L \in LocalType /\ L.op = op /\ L.proc = p /\ L.node = dev_console /\ L.ptr = NoPointer
  <2>1. L = [NoLocal EXCEPT !.op = op, !.proc = p, !.left = n, !.node = dev_console,
                            !.duplicate = TRUE, !.write = TRUE]
    BY <1>1 DEF LocalsAgain
  <2>2. L \in LocalType
    BY <2>1, NoLocalFields, Constants DEF LocalType
  <2>3. L.op = op /\ L.proc = p /\ L.node = dev_console /\ L.ptr = NoPointer
    BY <2>1, NoLocalFields DEF LocalType
  <2> QED
    BY <2>2, <2>3
<1>2. ASSUME L = Creating(op, p)
      PROVE  L \in LocalType /\ L.op = op /\ L.proc = p /\ L.node = dev_console /\ L.ptr = NoPointer
  <2>1. L = [NoLocal EXCEPT !.op = op, !.proc = p, !.left = STDFDS, !.node = dev_console,
                            !.duplicate = TRUE, !.read = TRUE]
    BY <1>2 DEF Creating
  <2>2. L \in LocalType
    <3> DEFINE N == NoLocal
    <3>1. N \in LocalType /\ STDFDS \in Int /\ dev_console \in Node
      BY NoLocalFields, Constants
    <3>2. L = [N EXCEPT !.op = op, !.proc = p, !.left = STDFDS, !.node = dev_console,
                        !.duplicate = TRUE, !.read = TRUE]
      BY <2>1
    <3> HIDE DEF N
    <3>3. L = [op |-> op, proc |-> p, left |-> STDFDS, node |-> dev_console, duplicate |-> TRUE,
               read |-> TRUE, write |-> N.write, excl |-> N.excl, idx |-> N.idx,
               mode |-> N.mode, ptr |-> N.ptr, fd |-> N.fd]
      BY <3>1, <3>2 DEF LocalType
    <3> QED
      BY <3>1, <3>3 DEF LocalType
  <2>3. L.op = op /\ L.proc = p /\ L.node = dev_console /\ L.ptr = NoPointer
    BY <2>1, NoLocalFields DEF LocalType
  <2> QED
    BY <2>2, <2>3
<1> QED
  BY <1>1, <1>2
\* The locals of an open by a program, afresh (exec/process.c).
LocalsOf(p, node, d, r, w, x) ==
  [NoLocal EXCEPT !.op = "open", !.proc = p, !.node = node,
                  !.duplicate = d, !.read = r, !.write = w, !.excl = x]
LEMMA AfreshFile ==
  ASSUME NEW p \in Proc, NEW node \in Node,
         NEW d \in BOOLEAN, NEW r \in BOOLEAN, NEW w \in BOOLEAN, NEW x \in BOOLEAN,
         NEW L, L = LocalsOf(p, node, d, r, w, x)
  PROVE  L \in LocalType /\ L.op = "open" /\ L.proc = p /\ L.node = node /\ L.ptr = NoPointer
<1> DEFINE N == NoLocal
<1>1. N \in LocalType /\ N.ptr = NoPointer
  BY NoLocalFields
<1>2. L = [N EXCEPT !.op = "open", !.proc = p, !.node = node,
                    !.duplicate = d, !.read = r, !.write = w, !.excl = x]
  BY DEF LocalsOf
<1> HIDE DEF N
<1>3. L = [op |-> "open", proc |-> p, left |-> N.left, node |-> node, duplicate |-> d,
           read |-> r, write |-> w, excl |-> x, idx |-> N.idx, mode |-> N.mode,
           ptr |-> N.ptr, fd |-> N.fd]
  <2>1. N = [op |-> N.op, proc |-> N.proc, left |-> N.left, node |-> N.node,
             duplicate |-> N.duplicate, read |-> N.read, write |-> N.write, excl |-> N.excl,
             idx |-> N.idx, mode |-> N.mode, ptr |-> N.ptr, fd |-> N.fd]
    BY <1>1 DEF LocalType
  <2> QED
    BY <1>2, <2>1
<1>4. L \in LocalType
  BY <1>1, <1>3 DEF LocalType
<1>5. L.op = "open" /\ L.proc = p /\ L.node = node /\ L.ptr = NoPointer
  BY <1>1, <1>3
<1> QED
  BY <1>4, <1>5

\* proc_fd_open() returns, in proc_create() to open the console again
\* (exec/process.c).
LEMMA Returned ==
  ASSUME FileInv, NEW t \in Thread, OpenReturned(t), pc[t] \in OpenSteps
  PROVE  \E L \in LocalType : \E s \in {"idle", "ftab_lock", "done"} :
           GoesTo(t, L, s) /\ L.ptr = NoPointer /\ OpsAt(t)' /\ AloneAt(t)'
<1>1. FileType /\ local[t].op \in {"open", "start"} /\ local[t].proc \in Proc
  BY DEF FileInv, InvThreads, InvOps, OpsAt
<1>2. CASE local[t].op = "open"
  <2>1. NoLocal \in LocalType /\ NoLocal.op = "none" /\ NoLocal.ptr = NoPointer
    BY NoLocalFields
  <2>2. GoesTo(t, NoLocal, "idle")
    BY <1>2, <2>1 DEF OpenReturned, Return, Goto, GoesTo, FileSteps
  <2>3. pc'[t] = "idle" /\ local'[t] = NoLocal /\ Mine(t)
    BY <1>1, <2>2, WhereItGoes
  <2>4. OpsAt(t)'
    BY <2>1, <2>3 DEF OpsAt, OpenSteps, CloseSteps, FdSteps
  <2>5. AloneAt(t)'
    BY <2>1, <2>3, AloneKept
  <2> QED
    BY <2>1, <2>2, <2>4, <2>5
<1>3. CASE local[t].op = "start"
  <2> DEFINE L == LocalsAgain(local[t].op, local[t].proc, local[t].left - 1)
             s == IF local[t].left > 1 THEN "ftab_lock" ELSE "done"
  <2>1. local[t].left - 1 \in Int
    BY <1>1, LocalFields
  <2>2. L \in LocalType /\ L.op = "start" /\ L.proc = local[t].proc /\ L.node = dev_console
        /\ L.ptr = NoPointer
    BY <1>1, <1>3, <2>1, AfreshConsole
  <2>3. GoesTo(t, L, s)
    <3>1. L \in LocalType /\ s \in FileSteps
      BY <2>2 DEF FileSteps, OpenSteps
    <3>2. local' = [local EXCEPT ![t] = L] /\ pc' = [pc EXCEPT ![t] = s]
      BY <1>3 DEF OpenReturned, Goto, LocalsAgain
    <3> QED
      BY <3>1, <3>2 DEF GoesTo
  <2>4. pc'[t] = s /\ local'[t] = L /\ Mine(t)
    BY <1>1, <2>3, WhereItGoes
  <2>5. s \in {"ftab_lock", "done"}
    OBVIOUS
  <2> HIDE DEF L, s
  <2>6. OpsAt(t)'
    BY <1>1, <2>2, <2>4, <2>5, Constants DEF OpsAt, OpenSteps, CloseSteps, FdSteps
  <2>7. AloneAt(t)'
    BY <1>3, <2>2, <2>4, AloneKept
  <2> QED
    BY <2>2, <2>3, <2>5, <2>6, <2>7
<1> QED
  BY <1>1, <1>2, <1>3

\* An open that fails, with the table as it was (fs/ftab.c, exec/process.c).
LEMMA QuietReturn ==
  ASSUME FileInv, NEW t \in Thread, OpenReturned(t), pc[t] \in OpenSteps,
         UNCHANGED <<ftab, ftab_base, fds, procs>>,
         \/ ftab_mutex' = ftab_mutex
         \/ ftab_mutex' = FALSE /\ pc[t] \in InTable
  PROVE  FileInv'
<1>1. PICK L \in LocalType, s \in {"idle", "ftab_lock", "done"} :
             GoesTo(t, L, s) /\ L.ptr = NoPointer /\ OpsAt(t)' /\ AloneAt(t)'
  BY Returned
<1>2. FileType
  BY DEF FileInv
<1>3. pc'[t] = s /\ local'[t] = L /\ s \in FileSteps /\ pc[t] \in FileSteps
  BY <1>1, <1>2, WhereItGoes
<1>4. ScanAt(t)'
  BY <1>3 DEF ScanAt, InTable
<1>5. L.ptr[1] <= ftab_base
  BY <1>1, <1>2 DEF NoPointer, FileType
<1>6. pc' = [pc EXCEPT ![t] = s] /\ local' = [local EXCEPT ![t] = L]
  BY <1>1 DEF GoesTo
<1>7. ftab_mutex' \in BOOLEAN /\ procs' \in [Proc -> {"free", "new", "alive"}]
  BY <1>2 DEF FileType
<1>8. pc[t] # "close_unlock"
  BY DEF OpenSteps
<1>9. s \notin InTable \union FdSteps \union {"fd_lock", "unlock", "opened", "slot", "fill"}
  BY DEF InTable, FdSteps, CloseSteps
<1> QED
  BY <1>1, <1>3, <1>4, <1>5, <1>6, <1>7, <1>8, <1>9, Quiet
-----------------------------------------------------------------------------
(***************************************************************************)
(* Steps that leave the tables alone.                                      *)
(***************************************************************************)
\* Return to the caller (exec/process.c).
LEMMA QuietEnd ==
  ASSUME FileInv, NEW t \in Thread, Return(t), UNCHANGED <<table, fds>>,
         procs' \in [Proc -> {"free", "new", "alive"}], pc[t] # "close_unlock"
  PROVE  FileInv'
<1>1. FileType /\ NoLocal \in LocalType /\ NoLocal.op = "none" /\ NoLocal.ptr = NoPointer
  BY NoLocalFields DEF FileInv
<1>2. GoesTo(t, NoLocal, "idle")
  BY <1>1 DEF Return, Goto, GoesTo, FileSteps
<1>3. pc'[t] = "idle" /\ local'[t] = NoLocal /\ Mine(t)
  BY <1>1, <1>2, WhereItGoes
<1>4. OpsAt(t)' /\ ScanAt(t)'
  BY <1>1, <1>3 DEF OpsAt, ScanAt, OpenSteps, CloseSteps, FdSteps, InTable
<1>5. AloneAt(t)'
  BY <1>1, <1>3, AloneKept
<1>6. NoLocal.ptr[1] <= ftab_base /\ ftab_mutex \in BOOLEAN /\ ftab_base \in Nat
  BY <1>1 DEF NoPointer, FileType
<1>7. UNCHANGED <<ftab, ftab_mutex, ftab_base, fds>>
  BY DEF table
<1>8. "idle" \notin InTable \union FdSteps \union {"fd_lock", "unlock", "opened", "slot", "fill"}
      /\ "idle" \in FileSteps
  BY DEF InTable, FdSteps, CloseSteps, FileSteps
<1>9. pc' = [pc EXCEPT ![t] = "idle"] /\ local' = [local EXCEPT ![t] = NoLocal]
  BY <1>2 DEF GoesTo
<1> QED
  BY <1>1, <1>4, <1>5, <1>6, <1>7, <1>8, <1>9, Quiet

\* A descriptor is refused, a process is started (exec/process.c).
LEMMA EndsQuietly ==
  ASSUME FileInv, NEW t \in Thread, FdRefused(t) \/ ProcStart(t)
  PROVE  FileInv'
<1>1. FileType
  BY DEF FileInv
<1>2. CASE FdRefused(t)
  BY <1>1, <1>2, QuietEnd DEF FdRefused, At, FileType
<1>3. CASE ProcStart(t)
  <2>1. procs' \in [Proc -> {"free", "new", "alive"}]
    BY <1>1, <1>3 DEF ProcStart, FileType
  <2> QED
    BY <1>3, <2>1, QuietEnd DEF ProcStart, At
<1> QED
  BY <1>2, <1>3

\* Opens that fail (fs/ftab.c, exec/process.c).
LEMMA FailsQuietly ==
  ASSUME FileInv, NEW t \in Thread, GrowFails(t) \/ OpenFirstFails(t) \/ SlotGrowFails(t)
  PROVE  FileInv'
<1>1. CASE GrowFails(t)
  BY <1>1, QuietReturn DEF GrowFails, At, OpenSteps, InTable
<1>2. CASE OpenFirstFails(t)
  BY <1>2, QuietReturn DEF OpenFirstFails, At, OpenSteps, table
<1>3. CASE SlotGrowFails(t)
  BY <1>3, QuietReturn DEF SlotGrowFails, At, OpenSteps, table
<1> QED
  BY <1>1, <1>2, <1>3

\* An open moves on to its next step (fs/ftab.c, exec/process.c).
LEMMA QuietOpen ==
  ASSUME FileInv, NEW t \in Thread, NEW L \in LocalType, NEW s \in OpenSteps, GoesTo(t, L, s),
         pc[t] \in OpenSteps, UNCHANGED <<ftab, ftab_base, procs, fds>>, ftab_mutex' \in BOOLEAN,
         L.op = local[t].op, L.proc = local[t].proc, L.node = local[t].node,
         L.read = local[t].read, L.write = local[t].write,
         ScanAt(t)', L.ptr[1] <= ftab_base,
         s \in InTable => ftab_mutex' = TRUE /\ (pc[t] \in InTable \/ ftab_mutex = FALSE),
         ftab_mutex' = FALSE => ftab_mutex = FALSE \/ pc[t] \in InTable,
         s \in {"unlock", "opened", "slot", "fill"} => \A k : t \in Opening(k)' => t \in Opening(k)
  PROVE  FileInv'
<1>1. FileType /\ OpsAt(t)
  BY DEF FileInv, InvThreads, InvOps
<1>2. pc'[t] = s /\ local'[t] = L /\ Mine(t) /\ s \in FileSteps
  BY <1>1, WhereItGoes
<1>3. OpsAt(t)'
  BY <1>1, <1>2 DEF OpsAt, OpenSteps, CloseSteps, FdSteps
<1>4. AloneAt(t)'
  BY <1>2, AloneKept
<1>5. s \notin FdSteps \union {"fd_lock"} /\ pc[t] # "close_unlock"
  BY DEF OpenSteps, FdSteps, CloseSteps
<1>6. procs' \in [Proc -> {"free", "new", "alive"}]
  BY <1>1 DEF FileType
<1>7. pc' = [pc EXCEPT ![t] = s] /\ local' = [local EXCEPT ![t] = L]
  BY DEF GoesTo
<1> QED
  BY <1>2, <1>3, <1>4, <1>5, <1>6, <1>7, Quiet

\* ftab_open() walks the table (fs/ftab.c).
LEMMA WalksOn ==
  ASSUME FileInv, NEW t \in Thread, ScanFits(t) \/ OpenFirst(t) \/ ScanNext(t) \/ OpenLock(t)
  PROVE  FileInv'
<1>1. FileType /\ local[t] \in LocalType /\ pc[t] \in FileSteps /\ ftab_base \in Nat /\ Len(ftab) \in Nat
  BY DEF FileInv, FileType
<1>2. local[t].ptr[1] <= ftab_base /\ ScanAt(t)
  BY DEF FileInv, InvThreads, InvPointers, InvScan
<1>3. pc[t] \in InTable => ftab_mutex = TRUE
  BY DEF FileInv, InvThreads, InvLock
<1>4. CASE ScanFits(t) \/ OpenFirst(t)
  <2> DEFINE s == IF pc[t] = "scan" THEN "entry_lock" ELSE "vfs_open"
  <2>1. pc[t] \in {"scan", "entry"} /\ s \in {"entry_lock", "vfs_open"}
    BY <1>4 DEF ScanFits, OpenFirst, At
  <2>2. /\ pc' = [pc EXCEPT ![t] = s]
        /\ UNCHANGED <<ftab, ftab_mutex, ftab_base, fds, procs, local>>
    BY <1>4 DEF ScanFits, OpenFirst, At, Goto, table
  <2>3. GoesTo(t, local[t], s) /\ s \in OpenSteps /\ pc[t] \in OpenSteps
    BY <1>1, <2>1, <2>2 DEF GoesTo, FileType, FileSteps, OpenSteps
  <2>4. pc'[t] = s /\ local'[t] = local[t]
    BY <1>1, <2>3, WhereItGoes
  <2>5. ScanAt(t)'
    <3>1. CASE ScanFits(t)
      <4>1. local[t].idx \in 1 .. Len(ftab) /\ ftab[local[t].idx].node \in {NULL, local[t].node}
            /\ s = "entry_lock"
        BY <1>1, <3>1 DEF ScanFits, Fits, FileType, At
      <4> QED
        BY <2>2, <2>4, <4>1 DEF ScanAt, InTable
    <3>2. CASE OpenFirst(t)
      <4>1. ftab[local[t].idx].node = NULL /\ s = "vfs_open" /\ pc[t] = "entry"
        BY <3>2 DEF OpenFirst, At
      <4> QED
        BY <1>2, <2>2, <2>4, <4>1 DEF ScanAt, InTable
    <3> QED
      BY <1>4, <3>1, <3>2
  <2>6. s \notin {"unlock", "opened", "slot", "fill"} /\ pc[t] \in InTable /\ ftab_mutex' \in BOOLEAN
        /\ ftab_mutex' = ftab_mutex
    BY <1>1, <2>1, <2>2 DEF InTable, FileType
  <2> HIDE DEF s
  <2> QED
    BY <1>1, <1>2, <1>3, <2>2, <2>3, <2>5, <2>6, QuietOpen
<1>5. CASE ScanNext(t) \/ OpenLock(t)
  <2> DEFINE i == IF pc[t] = "scan" THEN local[t].idx + 1 ELSE 1
             L == [local[t] EXCEPT !.idx = i]
  <2>1. pc[t] \in {"scan", "ftab_lock"} /\ local[t].idx \in Nat
    BY <1>1, <1>5, LocalFields DEF ScanNext, OpenLock, At
  <2>2. i \in Nat
    BY <2>1
  <2>3. UNCHANGED <<ftab, ftab_base, fds, procs>> /\ ftab_mutex' = TRUE
    BY <1>3, <1>5 DEF ScanNext, OpenLock, At, table, InTable
  <2>4. local' = [local EXCEPT ![t] = L] /\ pc' = [pc EXCEPT ![t] = "scan"]
    BY <1>1, <1>5 DEF ScanNext, OpenLock, At, Goto, FileType
  <2>5. i \in 1 .. Len(ftab) + 1
    BY <1>1, <1>2, <1>5, <2>1 DEF ScanNext, At, FileType, OpenLock
  <2> HIDE DEF i
  <2>6. L \in LocalType /\ L.op = local[t].op /\ L.proc = local[t].proc /\ L.node = local[t].node
        /\ L.read = local[t].read /\ L.write = local[t].write /\ L.ptr = local[t].ptr /\ L.idx = i
    BY <1>1, <2>2 DEF LocalType
  <2> HIDE DEF L
  <2>7. GoesTo(t, L, "scan") /\ pc[t] \in OpenSteps /\ "scan" \in OpenSteps
    BY <2>1, <2>4, <2>6 DEF GoesTo, OpenSteps, FileSteps
  <2>8. pc'[t] = "scan" /\ local'[t] = L
    BY <1>1, <2>7, WhereItGoes
  <2>9. ScanAt(t)'
    BY <2>3, <2>5, <2>6, <2>8 DEF ScanAt, InTable
  <2>10. pc[t] \in InTable \/ ftab_mutex = FALSE
    BY <1>1, <1>5 DEF ScanNext, OpenLock, At, InTable, FileType
  <2> QED
    BY <1>1, <1>2, <2>3, <2>6, <2>7, <2>9, <2>10, QuietOpen
<1> QED
  BY <1>4, <1>5
\* The mode to open a file again in is worked out (fs/ftab.c).
LEMMA ReopensOn ==
  ASSUME FileInv, NEW t \in Thread, OpenAgain(t), pc'[t] = "vfs_reopen"
  PROVE  FileInv'
<1> DEFINE i == local[t].idx
           L == [local[t] EXCEPT !.mode = Widened(t, ftab[i])]
<1>1. FileType /\ local[t] \in LocalType /\ pc \in [Thread -> FileSteps] /\ ftab_mutex' = ftab_mutex
  BY DEF FileInv, FileType, OpenAgain
<1>2. /\ pc[t] = "entry" /\ ftab[i].node # NULL /\ ~Denied(t, ftab[i])
      /\ UNCHANGED <<ftab, ftab_mutex, ftab_base, procs, fds>>
      /\ local' = [local EXCEPT ![t].mode = Widened(t, ftab[i])]
      /\ pc' = [pc EXCEPT ![t] = "vfs_reopen"]
  BY <1>1 DEF OpenAgain, At, Goto
<1>3. local' = [local EXCEPT ![t] = L]
  BY <1>2
<1>4. local[t].ptr[1] <= ftab_base /\ ScanAt(t) /\ ftab_mutex = TRUE
  BY <1>2 DEF FileInv, InvThreads, InvPointers, InvScan, InvLock, InTable
<1>5. Widened(t, ftab[i]) \in SUBSET {"r", "w"}
  BY DEF Widened, Modes
<1>6. L \in LocalType /\ L.op = local[t].op /\ L.proc = local[t].proc /\ L.node = local[t].node
      /\ L.read = local[t].read /\ L.write = local[t].write /\ L.ptr = local[t].ptr
      /\ L.idx = local[t].idx /\ L.mode = Widened(t, ftab[i]) /\ L.excl = local[t].excl
  BY <1>1, <1>5 DEF LocalType
<1>7. GoesTo(t, L, "vfs_reopen") /\ pc[t] \in OpenSteps /\ "vfs_reopen" \in OpenSteps
      /\ pc[t] \in InTable
  BY <1>2, <1>3, <1>6 DEF GoesTo, OpenSteps, FileSteps, InTable
<1> HIDE DEF L
<1>8. pc'[t] = "vfs_reopen" /\ local'[t] = L
  BY <1>1, <1>7, WhereItGoes
<1>9. Widened(t, ftab[i])' = Widened(t, ftab[i]) /\ (Denied(t, ftab[i])' <=> Denied(t, ftab[i]))
  BY <1>2, <1>6, <1>8 DEF Widened, Denied
<1>10. ftab[i].node = local[t].node /\ i \in 1 .. Len(ftab)
  BY <1>2, <1>4 DEF ScanAt, InTable
<1>11. ScanAt(t)'
  BY <1>2, <1>6, <1>8, <1>9, <1>10 DEF ScanAt, InTable
<1>12. ftab_mutex' \in BOOLEAN /\ ftab_mutex' = TRUE
  BY <1>1, <1>4
<1> QED
  BY <1>2, <1>4, <1>6, <1>7, <1>11, <1>12, QuietOpen

\* ftab_open() has returned, a slot is chosen (exec/process.c).
LEMMA SlotIsChosen ==
  ASSUME FileInv, NEW t \in Thread, Opened(t) \/ SlotChosen(t)
  PROVE  FileInv'
<1>1. FileType /\ local[t] \in LocalType /\ ftab_base \in Nat /\ ftab_mutex \in BOOLEAN
  BY DEF FileInv, FileType
<1>2. local[t].ptr[1] <= ftab_base /\ ScanAt(t)
  BY DEF FileInv, InvThreads, InvPointers, InvScan
<1>3. UNCHANGED <<ftab, ftab_mutex, ftab_base, procs, fds>>
  BY DEF Opened, SlotChosen, table
<1>4. CASE Opened(t)
  <2> DEFINE L == [local[t] EXCEPT !.ptr = <<ftab_base, local[t].idx>>, !.idx = 0,
                                   !.excl = FALSE, !.mode = {}]
  <2>1. pc[t] = "opened" /\ pc' = [pc EXCEPT ![t] = "slot"] /\ local[t].idx \in Nat
    BY <1>1, <1>4, LocalFields DEF Opened, At, Goto
  <2>2. local' = [local EXCEPT ![t] = L]
    BY <1>1, <1>4 DEF Opened, FileType
  <2>3. <<ftab_base, local[t].idx>> \in Nat \X Nat
    BY <1>1, <2>1
  <2>4. L \in LocalType
    BY <1>1, <2>3 DEF LocalType
  <2>5. L.op = local[t].op /\ L.proc = local[t].proc /\ L.node = local[t].node
        /\ L.read = local[t].read /\ L.write = local[t].write
        /\ L.ptr = <<ftab_base, local[t].idx>>
    BY <1>1 DEF LocalType
  <2> HIDE DEF L
  <2>6. GoesTo(t, L, "slot") /\ pc[t] \in OpenSteps /\ "slot" \in OpenSteps
    BY <2>1, <2>2, <2>4 DEF GoesTo, OpenSteps, FileSteps
  <2>7. pc'[t] = "slot" /\ local'[t] = L
    BY <1>1, <2>6, WhereItGoes
  <2>8. ScanAt(t)' /\ "slot" \notin InTable
    BY <2>7 DEF ScanAt, InTable
  <2>9. \A k : t \in Opening(k)' => t \in Opening(k)
    BY <1>3, <2>1, <2>5, <2>7 DEF Opening
  <2>10. L.ptr[1] <= ftab_base
    BY <1>1, <2>5
  <2> QED
    BY <1>1, <1>3, <2>4, <2>5, <2>6, <2>8, <2>9, <2>10, QuietOpen
<1>5. CASE SlotChosen(t)
  <2>1. PICK i \in 1 .. Len(fds[local[t].proc]) : local' = [local EXCEPT ![t].fd = i]
    <3>1. local[t].proc \in Proc
      BY <1>5 DEF FileInv, InvThreads, InvOps, OpsAt, SlotChosen, At, OpenSteps
    <3>2. fds[local[t].proc] \in Seq(FdType)
      BY <1>1, <3>1 DEF FileType
    <3>3. DOMAIN fds[local[t].proc] = 1 .. Len(fds[local[t].proc])
      BY <3>2
    <3>4. \E i \in DOMAIN fds[local[t].proc] : local' = [local EXCEPT ![t].fd = i]
      BY <1>5, Zenon DEF SlotChosen
    <3> QED
      BY <3>3, <3>4
  <2> DEFINE L == [local[t] EXCEPT !.fd = i]
  <2>2. pc[t] = "slot" /\ pc' = [pc EXCEPT ![t] = "fill"] /\ i \in Nat
    BY <1>5 DEF SlotChosen, At, Goto
  <2>3. local' = [local EXCEPT ![t] = L]
    BY <2>1
  <2>4. L \in LocalType /\ L.op = local[t].op /\ L.proc = local[t].proc /\ L.node = local[t].node
        /\ L.read = local[t].read /\ L.write = local[t].write /\ L.ptr = local[t].ptr
    BY <1>1, <2>2 DEF LocalType
  <2> HIDE DEF L
  <2>5. GoesTo(t, L, "fill") /\ pc[t] \in OpenSteps /\ "fill" \in OpenSteps
    BY <2>2, <2>3, <2>4 DEF GoesTo, OpenSteps, FileSteps
  <2>6. pc'[t] = "fill" /\ local'[t] = L
    BY <1>1, <2>5, WhereItGoes
  <2>7. ScanAt(t)' /\ "fill" \notin InTable
    BY <2>6 DEF ScanAt, InTable
  <2>8. \A k : t \in Opening(k)' => t \in Opening(k)
    BY <1>3, <2>2, <2>4, <2>6 DEF Opening
  <2> QED
    BY <1>1, <1>2, <1>3, <2>4, <2>5, <2>7, <2>8, QuietOpen
<1> QED
  BY <1>4, <1>5
\* A call begins (exec/process.c).
LEMMA QuietBegin ==
  ASSUME FileInv, NEW t \in Thread, NEW L \in LocalType, NEW s \in {"ftab_lock", "fd_lock"},
         GoesTo(t, L, s), UNCHANGED <<table, fds>>,
         procs' \in [Proc -> {"free", "new", "alive"}], pc[t] = "idle", L.ptr = NoPointer,
         CloseAlone, s = "ftab_lock" => L.op \in {"open", "start"} /\ MayBegin("open")
                                        /\ L.node \in Node /\ L.proc \in Proc,
         s = "fd_lock" => /\ L.op \in {"read", "write", "close"} /\ L.proc = owner[t]
                          /\ L.op = "close" => MayBegin("close")
                          /\ L.fd \in 1 .. Len(fds[owner[t]])
  PROVE  FileInv'
<1>1. FileType
  BY DEF FileInv
<1>2. pc'[t] = s /\ local'[t] = L /\ Mine(t) /\ s \in FileSteps
  BY <1>1, WhereItGoes
<1>3. OpsAt(t)'
  BY <1>2 DEF OpsAt, OpenSteps, CloseSteps, FdSteps
<1>4. AloneAt(t)'
  BY <1>2, AloneKept
<1>5. ScanAt(t)'
  BY <1>2 DEF ScanAt, InTable
<1>6. L.ptr[1] <= ftab_base /\ ftab_mutex' \in BOOLEAN
  BY <1>1 DEF NoPointer, FileType, table
<1>7. s \notin InTable \union FdSteps \union {"unlock", "opened", "slot", "fill"}
  BY DEF InTable, FdSteps, CloseSteps
<1>8. pc' = [pc EXCEPT ![t] = s] /\ local' = [local EXCEPT ![t] = L]
      /\ UNCHANGED <<ftab, ftab_mutex, ftab_base, fds>>
  BY DEF GoesTo, table
<1> QED
  BY <1>2, <1>3, <1>4, <1>5, <1>6, <1>7, <1>8, Quiet

\* proc_fd_open() by a program, and in proc_create() (exec/process.c).
LEMMA OpenBegins ==
  ASSUME FileInv, NEW t \in Thread, FdOpen(t) \/ ProcCreate(t, "start"), CloseAlone
  PROVE  FileInv'
<1>1. FileType /\ owner[t] \in Proc
  BY Constants DEF FileInv
<1>2. pc[t] = "idle" /\ UNCHANGED <<table, fds>> /\ pc' = [pc EXCEPT ![t] = "ftab_lock"]
      /\ MayBegin("open") /\ "ftab_lock" \in FileSteps
  BY DEF FdOpen, ProcCreate, At, Goto, MayBegin, FileSteps, OpenSteps
<1>3. procs' \in [Proc -> {"free", "new", "alive"}]
  BY <1>1 DEF FdOpen, ProcCreate, FileType
<1>4. \E L \in LocalType : /\ local' = [local EXCEPT ![t] = L] /\ L.op \in {"open", "start"}
                           /\ L.node \in Node /\ L.proc \in Proc /\ L.ptr = NoPointer
  <2>1. CASE FdOpen(t)
    <3>1. PICK node \in Node, dup \in Duplicate, ex \in Exclusive, mode \in Mode :
                 local' = [local EXCEPT ![t] =
                             LocalsOf(owner[t], node, dup, mode = "r", mode = "w", ex)]
      BY <2>1 DEF FdOpen, LocalsOf
    <3>2. dup \in BOOLEAN /\ ex \in BOOLEAN /\ (mode = "r") \in BOOLEAN /\ (mode = "w") \in BOOLEAN
      BY Constants
    <3> DEFINE L == LocalsOf(owner[t], node, dup, mode = "r", mode = "w", ex)
    <3>3. L \in LocalType /\ L.op = "open" /\ L.proc = owner[t] /\ L.node = node
          /\ L.ptr = NoPointer
      <4>1. \A r, w \in BOOLEAN : LET l == LocalsOf(owner[t], node, dup, r, w, ex) IN
              l \in LocalType /\ l.op = "open" /\ l.proc = owner[t] /\ l.node = node
              /\ l.ptr = NoPointer
        <5> SUFFICES ASSUME NEW r \in BOOLEAN, NEW w \in BOOLEAN,
                            NEW l, l = LocalsOf(owner[t], node, dup, r, w, ex)
                     PROVE  l \in LocalType /\ l.op = "open" /\ l.proc = owner[t]
                            /\ l.node = node /\ l.ptr = NoPointer
          OBVIOUS
        <5> QED
          BY <1>1, <3>2, AfreshFile
      <4> QED
        BY <3>2, <4>1, Zenon
    <3>4. local' = [local EXCEPT ![t] = L]
      BY <3>1
    <3> HIDE DEF L
    <3> QED
      BY <1>1, <3>3, <3>4
  <2>2. CASE ProcCreate(t, "start")
    <3>1. PICK p \in Proc : local' = [local EXCEPT ![t] = Creating("start", p)]
      BY <2>2 DEF ProcCreate
    <3> DEFINE L == Creating("start", p)
    <3>2. L \in LocalType /\ L.op = "start" /\ L.proc = p /\ L.node = dev_console
          /\ L.ptr = NoPointer
      <4>1. 0 \in Int
        OBVIOUS
      <4> QED
        BY <4>1, AfreshConsole
    <3> HIDE DEF L
    <3> QED
      BY <3>1, <3>2, Constants DEF L
  <2> QED
    BY <2>1, <2>2
<1>5. PICK L \in LocalType : /\ local' = [local EXCEPT ![t] = L] /\ L.op \in {"open", "start"}
                             /\ L.node \in Node /\ L.proc \in Proc /\ L.ptr = NoPointer
  BY <1>4
<1>6. GoesTo(t, L, "ftab_lock")
  BY <1>2, <1>5 DEF GoesTo
<1> QED
  BY <1>1, <1>2, <1>3, <1>5, <1>6, QuietBegin

\* proc_fd_check() finds the descriptor in use (exec/process.c).
LEMMA UseBegins ==
  ASSUME FileInv, NEW t \in Thread, NEW op \in {"read", "write", "close"}, FdUse(t, op), CloseAlone
  PROVE  FileInv'
<1>1. FileType /\ owner[t] \in Proc
  BY Constants DEF FileInv
<1>2. pc[t] = "idle" /\ UNCHANGED <<table, fds>> /\ pc' = [pc EXCEPT ![t] = "fd_lock"]
      /\ (op = "close" => MayBegin("close")) /\ "fd_lock" \in FileSteps
  BY DEF FdUse, At, Goto, FileSteps
<1>3. procs' \in [Proc -> {"free", "new", "alive"}]
  BY <1>1 DEF FdUse, FileType
<1>4. PICK i \in 1 .. Len(fds[owner[t]]) :
             local' = [local EXCEPT ![t] = [NoLocal EXCEPT !.op = op, !.proc = owner[t], !.fd = i]]
  <2>1. fds[owner[t]] \in Seq(FdType)
    BY <1>1 DEF FileType
  <2>2. DOMAIN fds[owner[t]] = 1 .. Len(fds[owner[t]])
    BY <2>1
  <2> QED
    BY <2>2, Zenon DEF FdUse
<1> DEFINE L == [NoLocal EXCEPT !.op = op, !.proc = owner[t], !.fd = i]
<1>5. i \in Nat
  OBVIOUS
<1>6. L \in LocalType
  BY <1>1, <1>5, NoLocalFields DEF LocalType
<1>7. L.op = op /\ L.proc = owner[t] /\ L.fd = i /\ L.ptr = NoPointer
  BY NoLocalFields DEF LocalType
<1>8. local' = [local EXCEPT ![t] = L]
  BY <1>4
<1> HIDE DEF L
<1>9. GoesTo(t, L, "fd_lock")
  BY <1>2, <1>6, <1>8 DEF GoesTo
<1> QED
  BY <1>2, <1>3, <1>6, <1>7, <1>9, QuietBegin
-----------------------------------------------------------------------------
(***************************************************************************)
(* Steps of an open that hold the table (fs/ftab.c).                       *)
(***************************************************************************)
\* An entry is replaced (fs/ftab.c).
LEMMA EntrySet ==
  ASSUME FileType, NEW i \in 1 .. Len(ftab), NEW e \in EntryType, ftab' = [ftab EXCEPT ![i] = e]
  PROVE  /\ ftab' \in Seq(EntryType) /\ Len(ftab') = Len(ftab) /\ ftab'[i] = e
         /\ \A k \in 1 .. Len(ftab) : k # i => ftab'[k] = ftab[k] /\ EntrySame(k)
<1>1. ftab \in Seq(EntryType)
  BY DEF FileType
<1>2. ftab' \in Seq(EntryType) /\ Len(ftab') = Len(ftab) /\ ftab'[i] = e
  BY <1>1
<1>3. \A k \in 1 .. Len(ftab) : k # i => ftab'[k] = ftab[k]
  BY <1>1
<1>4. \A k \in 1 .. Len(ftab) : k # i => EntrySame(k)
  BY <1>3 DEF EntrySame
<1> QED
  BY <1>2, <1>3, <1>4
\* The mutex of an entry is taken or given back (fs/ftab.c).
LEMMA MutexSet ==
  ASSUME FileType, NEW i \in 1 .. Len(ftab), NEW b \in BOOLEAN,
         ftab' = [ftab EXCEPT ![i].mutex = b]
  PROVE  /\ ftab' \in Seq(EntryType) /\ Len(ftab') = Len(ftab)
         /\ \A k \in 1 .. Len(ftab) : EntrySame(k)
         /\ \A k \in 1 .. Len(ftab) : k # i => ftab'[k] = ftab[k]
<1> DEFINE e == [ftab[i] EXCEPT !.mutex = b]
<1>1. ftab[i] \in EntryType
  BY EntryFields
<1>2. e \in EntryType
  BY <1>1 DEF EntryType
<1>3. ftab' = [ftab EXCEPT ![i] = e]
  OBVIOUS
<1>4. e.node = ftab[i].node /\ e.read = ftab[i].read /\ e.write = ftab[i].write
      /\ e.refs = ftab[i].refs /\ e.excl = ftab[i].excl
  BY <1>1 DEF EntryType
<1> HIDE DEF e
<1>5. /\ ftab' \in Seq(EntryType) /\ Len(ftab') = Len(ftab) /\ ftab'[i] = e
      /\ \A k \in 1 .. Len(ftab) : k # i => ftab'[k] = ftab[k] /\ EntrySame(k)
  BY <1>2, <1>3, EntrySet
<1>6. EntrySame(i)
  BY <1>4, <1>5 DEF EntrySame
<1> QED
  BY <1>5, <1>6

\* Who holds the table may change it: nobody else has an entry in hand (fs/ftab.c).
LEMMA TableStep ==
  ASSUME FileInv, NEW t \in Thread, NEW L \in LocalType, NEW s \in FileSteps, GoesTo(t, L, s),
         pc[t] \in InTable, UNCHANGED <<fds, procs>>,
         ftab' \in Seq(EntryType), Len(ftab) <= Len(ftab'),
         ftab_base' \in Nat, ftab_base <= ftab_base', ftab_mutex' \in BOOLEAN,
         s \in InTable => ftab_mutex' = TRUE,
         OpsAt(t)', AloneAt(t)', ScanAt(t)', L.ptr[1] <= ftab_base',
         s \notin FdSteps \union {"fd_lock"}
  PROVE  FileType' /\ InvThreads'
<1>1. FileType /\ InvOps /\ InvAlone /\ InvLock /\ InvScan /\ InvPointers /\ InvHolder
  BY DEF FileInv, InvThreads
<1>2. pc'[t] = s /\ local'[t] = L /\ Mine(t)
  BY <1>1, WhereItGoes
<1>3. FileType'
  BY <1>1 DEF FileType, GoesTo
<1>4. InvOps'
  BY <1>1, <1>2 DEF InvOps, Mine, OpsAt
<1>5. InvAlone'
  <2>1. L.op \notin {"open", "start"} \/ L.op # "close"
    OBVIOUS
  <2> QED
    BY <1>1, <1>2, <2>1 DEF InvAlone, Mine, AloneAt
<1>6. InvLock'
  BY <1>1, <1>2 DEF InvLock, Mine
<1>7. InvScan'
  <2> SUFFICES ASSUME NEW u \in Thread, u # t PROVE ScanAt(u)'
    BY DEF InvScan
  <2>1. pc'[u] = pc[u] /\ local'[u] = local[u] /\ pc[u] \notin InTable
    BY <1>1, <1>2 DEF Mine, InvLock
  <2>2. pc[u] = "opened" => local[u].idx \in 1 .. Len(ftab)
    BY <1>1 DEF InvScan, ScanAt
  <2>3. pc[u] = "opened" => local[u].idx \in 1 .. Len(ftab')
    BY <1>1, <1>3, <2>2 DEF FileType
  <2> QED
    BY <2>1, <2>3 DEF ScanAt, InTable
<1>8. InvPointers'
  <2>1. \A p \in Proc : \A i \in 1 .. Len(fds[p]) : fds[p][i].ftab[1] \in Nat
    <3> SUFFICES ASSUME NEW p \in Proc, NEW i \in 1 .. Len(fds[p]) PROVE fds[p][i].ftab[1] \in Nat
      OBVIOUS
    <3>1. fds[p][i] \in FdType
      BY <1>1 DEF FileType
    <3> QED
      BY <3>1 DEF FdType
  <2>2. \A u \in Thread : local[u].ptr[1] \in Nat
    BY <1>1, LocalFields
  <2>3. ftab_base \in Nat
    BY <1>1 DEF FileType
  <2>4. \A p \in Proc : \A i \in 1 .. Len(fds[p]) : fds[p][i].ftab[1] <= ftab_base'
    BY <1>1, <2>1, <2>3 DEF InvPointers
  <2>5. \A u \in Thread : local[u].ptr[1] <= ftab_base'
    BY <1>1, <2>2, <2>3 DEF InvPointers
  <2> QED
    BY <1>2, <2>4, <2>5 DEF InvPointers, Mine
<1>9. InvHolder'
  BY <1>1, <1>2 DEF InvHolder, Mine
<1> QED
  BY <1>3, <1>4, <1>5, <1>6, <1>7, <1>8, <1>9 DEF InvThreads
\* A step that counts nothing (fs/ftab.c).
LEMMA SameEntries ==
  ASSUME FileInv, NEW t \in Thread, Mine(t), UNCHANGED <<ftab_base, fds>>,
         Len(ftab') = Len(ftab), \A k \in 1 .. Len(ftab) : EntrySame(k),
         pc[t] # "close_unlock", pc'[t] \in FileSteps,
         \/ pc'[t] \notin {"unlock", "opened", "slot", "fill"}
         \/ /\ \A k : t \in Opening(k)' => t \in Opening(k)
            /\ local'[t].node = local[t].node /\ local'[t].proc = local[t].proc
            /\ local'[t].read = local[t].read /\ local'[t].write = local[t].write
  PROVE  InvEntries'
<1> SUFFICES ASSUME NEW k \in 1 .. Len(ftab) PROVE EntryInv(k)'
  BY DEF InvEntries
<1>1. EntryInv(k) /\ FileType /\ EntrySame(k) /\ pc[t] \in FileSteps
  BY DEF FileInv, InvEntries, FileType
<1>2. DescriptorsKept(k)
  BY <1>1, SameDescriptors DEF FileSteps, OpenSteps, FdSteps, CloseSteps
<1>3. OpeningKept(k)
  BY SameOpening
<1> QED
  BY <1>1, <1>2, <1>3, EntryKept

\* mutex_acquire() of an entry in ftab_open(), and the two releases (fs/ftab.c).
LEMMA LocksEntry ==
  ASSUME FileInv, NEW t \in Thread, EntryLock(t) \/ OpenUnlock(t)
  PROVE  FileInv'
<1> DEFINE i == local[t].idx
           s == IF pc[t] = "entry_lock" THEN "entry" ELSE "opened"
<1>1. FileType /\ ScanAt(t) /\ OpsAt(t) /\ local[t] \in LocalType
  BY DEF FileInv, InvThreads, InvScan, InvOps, FileType
<1>2. pc[t] \in {"entry_lock", "unlock"} /\ s \in {"entry", "opened"}
  BY DEF EntryLock, OpenUnlock, At
<1>3. /\ pc' = [pc EXCEPT ![t] = s] /\ UNCHANGED <<ftab_base, fds, procs, local>>
      /\ ftab_mutex' = (IF s = "entry" THEN ftab_mutex ELSE FALSE)
  BY <1>1 DEF EntryLock, OpenUnlock, At, Goto, Unlocked
<1>4. \E b \in BOOLEAN : ftab' = [ftab EXCEPT ![i].mutex = b]
  BY DEF EntryLock, OpenUnlock, Unlocked
<1>5. i \in 1 .. Len(ftab) /\ pc[t] \in InTable
  BY <1>1, <1>2 DEF ScanAt, InTable
<1>6. /\ ftab' \in Seq(EntryType) /\ Len(ftab') = Len(ftab)
      /\ \A k \in 1 .. Len(ftab) : EntrySame(k)
  BY <1>1, <1>4, <1>5, MutexSet
<1>7. GoesTo(t, local[t], s) /\ s \in FileSteps
  BY <1>1, <1>2, <1>3 DEF GoesTo, FileType, FileSteps, OpenSteps
<1>8. pc'[t] = s /\ local'[t] = local[t] /\ Mine(t)
  BY <1>1, <1>7, WhereItGoes
<1>9. OpsAt(t)' /\ AloneAt(t)'
  <2>1. OpsAt(t)'
    BY <1>1, <1>2, <1>8 DEF OpsAt, OpenSteps, FdSteps, CloseSteps
  <2> QED
    BY <1>8, <2>1, AloneKept
<1>10. ScanAt(t)'
  <2>1. ftab'[i].node = ftab[i].node
    BY <1>5, <1>6 DEF EntrySame
  <2>2. s = "entry" => ftab[i].node \in {NULL, local[t].node}
    BY <1>1, <1>2 DEF ScanAt
  <2> QED
    BY <1>2, <1>5, <1>6, <1>8, <2>1, <2>2 DEF ScanAt, InTable
<1>11. ftab_mutex = TRUE /\ local[t].ptr[1] <= ftab_base /\ ftab_base \in Nat
  BY <1>5 DEF FileInv, InvThreads, InvLock, InvPointers, FileType
<1>12. s \notin FdSteps \union {"fd_lock"} /\ (s \in InTable => ftab_mutex' = TRUE)
       /\ ftab_mutex' \in BOOLEAN
  BY <1>2, <1>3, <1>11 DEF FdSteps, CloseSteps, InTable
<1>13. Len(ftab) <= Len(ftab') /\ ftab_base' \in Nat /\ ftab_base <= ftab_base'
       /\ local[t].ptr[1] <= ftab_base'
  BY <1>1, <1>3, <1>6, <1>11 DEF FileType
<1>14. s = "opened" => \A k : t \in Opening(k)' => t \in Opening(k)
  BY <1>2, <1>3, <1>8 DEF Opening
<1>15. pc'[t] \notin {"unlock", "opened", "slot", "fill"} \/ s = "opened"
  BY <1>2, <1>8
<1>16. pc[t] # "close_unlock"
  BY <1>2
<1> HIDE DEF s, i
<1>17. FileType' /\ InvThreads'
  BY <1>1, <1>3, <1>5, <1>6, <1>7, <1>9, <1>10, <1>12, <1>13, TableStep
<1>18. InvEntries'
  BY <1>3, <1>6, <1>7, <1>8, <1>14, <1>15, <1>16, SameEntries
<1> QED
  BY <1>17, <1>18 DEF FileInv

\* An open that is denied, or whose hook fails (fs/ftab.c).
LEMMA GivesUp ==
  ASSUME FileInv, NEW t \in Thread, OpenDenied(t) \/ OpenAgainFails(t)
  PROVE  FileInv'
<1> DEFINE i == local[t].idx
<1>1. FileType /\ ScanAt(t) /\ OpsAt(t)
  BY DEF FileInv, InvThreads, InvScan, InvOps
<1>2. /\ pc[t] \in {"entry", "vfs_reopen"} /\ OpenReturned(t)
      /\ UNCHANGED <<ftab_base, fds, procs>> /\ ftab_mutex' = FALSE
      /\ ftab' = [ftab EXCEPT ![i].mutex = FALSE]
  BY DEF OpenDenied, OpenAgainFails, Unlocked, At
<1>3. i \in 1 .. Len(ftab) /\ pc[t] \in InTable /\ pc[t] \in OpenSteps /\ pc[t] # "close_unlock"
  BY <1>1, <1>2 DEF ScanAt, InTable, OpenSteps
<1>4. PICK L \in LocalType, s \in {"idle", "ftab_lock", "done"} :
             GoesTo(t, L, s) /\ L.ptr = NoPointer /\ OpsAt(t)' /\ AloneAt(t)'
  BY <1>2, <1>3, Returned
<1>5. pc'[t] = s /\ local'[t] = L /\ Mine(t) /\ s \in FileSteps
  BY <1>1, <1>4, WhereItGoes
<1>6. /\ ftab' \in Seq(EntryType) /\ Len(ftab') = Len(ftab)
      /\ \A k \in 1 .. Len(ftab) : EntrySame(k)
  BY <1>1, <1>2, <1>3, MutexSet
<1>7. ScanAt(t)'
  BY <1>5 DEF ScanAt, InTable
<1>8. Len(ftab) <= Len(ftab') /\ ftab_base' \in Nat /\ ftab_base <= ftab_base'
      /\ L.ptr[1] <= ftab_base' /\ ftab_mutex' \in BOOLEAN
  <2>1. Len(ftab) \in Nat /\ Len(ftab') = Len(ftab)
    BY <1>1, <1>6 DEF FileType
  <2>2. ftab_base \in Nat /\ ftab_base' = ftab_base
    BY <1>1, <1>2 DEF FileType
  <2>3. L.ptr[1] = 0
    BY <1>4 DEF NoPointer
  <2>4. ftab_mutex' \in BOOLEAN
    BY <1>2
  <2>5. L.ptr[1] <= ftab_base' /\ ftab_base <= ftab_base' /\ Len(ftab) <= Len(ftab')
    BY <2>1, <2>2, <2>3
  <2> QED
    BY <2>2, <2>4, <2>5
<1>9. s \notin InTable \union FdSteps \union {"fd_lock", "unlock", "opened", "slot", "fill"}
  BY DEF InTable, FdSteps, CloseSteps
<1>10. FileType' /\ InvThreads'
  BY <1>2, <1>3, <1>4, <1>5, <1>6, <1>7, <1>8, <1>9, TableStep
<1>11. InvEntries'
  BY <1>2, <1>3, <1>5, <1>6, <1>9, SameEntries
<1> QED
  BY <1>10, <1>11 DEF FileInv
\* A user more, a user less (fs/ftab.h).
LEMMA OneMoreUser ==
  /\ \A O \in SUBSET Thread : \A t \in Thread : Cardinality(O \union {t}) <= Cardinality(O) + 1
  /\ \A O \in SUBSET Thread : \A t \in O : Cardinality(O \ {t}) = Cardinality(O) - 1
  /\ \A D \in SUBSET (Proc \X (1 .. MAX_FDS)) : \A d \in Proc \X (1 .. MAX_FDS) :
       Cardinality(D \union {d}) <= Cardinality(D) + 1
  /\ \A D \in SUBSET (Proc \X (1 .. MAX_FDS)) : \A d \in D :
       Cardinality(D \ {d}) = Cardinality(D) - 1
BY FiniteUsers, FS_AddElement, FS_RemoveElement
\* Nobody is counted nowhere (fs/ftab.h).
LEMMA NoUsers ==
  ASSUME NEW k, Cardinality(Descriptors(k)) + Cardinality(Opening(k)) <= 0
  PROVE  Descriptors(k) = {} /\ Opening(k) = {}
<1>1. Cardinality(Descriptors(k)) = 0 /\ Cardinality(Opening(k)) = 0
  BY Users
<1>2. IsFiniteSet(Descriptors(k)) /\ IsFiniteSet(Opening(k))
  BY Users, FiniteUsers
<1> QED
  BY <1>1, <1>2, FS_EmptySet

\* The modes of a union are the modes of both (fs/ftab.c).
LEMMA ModesOrder ==
  ASSUME NEW r \in BOOLEAN, NEW w \in BOOLEAN, NEW x \in BOOLEAN, NEW y \in BOOLEAN
  PROVE  /\ Modes(r, w) \subseteq Modes(r \/ x, w \/ y) /\ Modes(x, y) \subseteq Modes(r \/ x, w \/ y)
         /\ Modes("r" \in Modes(r, w), "w" \in Modes(r, w)) = Modes(r, w)
BY DEF Modes

\* An open is counted: one reference more, for the thread that opens (fs/ftab.c).
LEMMA CountedStep ==
  ASSUME FileInv, NEW t \in Thread, NEW i \in 1 .. Len(ftab), i = local[t].idx, NEW e \in EntryType,
         pc[t] \in InTable, pc' = [pc EXCEPT ![t] = "unlock"], ftab' = [ftab EXCEPT ![i] = e],
         UNCHANGED <<ftab_mutex, ftab_base, procs, fds, local>>,
         e.refs = ftab[i].refs + 1, e.node = local[t].node,
         Modes(local[t].read, local[t].write) \subseteq Modes(e.read, e.write),
         e.excl # NULL => local[t].proc = e.excl,
         ftab[i].refs # 0 => /\ e.excl = ftab[i].excl /\ e.node = ftab[i].node
                             /\ Modes(ftab[i].read, ftab[i].write) \subseteq Modes(e.read, e.write)
  PROVE  FileInv'
<1>1. FileType /\ ScanAt(t) /\ OpsAt(t) /\ local[t] \in LocalType /\ pc[t] \in OpenSteps
  BY DEF FileInv, InvThreads, InvScan, InvOps, FileType, InTable, OpenSteps
<1>2. GoesTo(t, local[t], "unlock")
  BY <1>1 DEF GoesTo, FileType, FileSteps, OpenSteps
<1>3. pc'[t] = "unlock" /\ local'[t] = local[t] /\ Mine(t) /\ "unlock" \in FileSteps
  BY <1>1, <1>2, WhereItGoes
<1>4. /\ ftab' \in Seq(EntryType) /\ Len(ftab') = Len(ftab) /\ ftab'[i] = e
      /\ \A k \in 1 .. Len(ftab) : k # i => ftab'[k] = ftab[k] /\ EntrySame(k)
  BY <1>1, EntrySet
<1>5. FileType' /\ InvThreads'
  <2>1. OpsAt(t)'
    BY <1>1, <1>3 DEF OpsAt, OpenSteps, FdSteps, CloseSteps
  <2>2. AloneAt(t)'
    BY <1>3, AloneKept
  <2>3. ScanAt(t)'
    BY <1>3, <1>4 DEF ScanAt, InTable
  <2>4. ftab_mutex = TRUE /\ local[t].ptr[1] <= ftab_base
    BY DEF FileInv, InvThreads, InvLock, InvPointers
  <2>5. Len(ftab) <= Len(ftab') /\ ftab_base' \in Nat /\ ftab_base <= ftab_base'
        /\ local[t].ptr[1] <= ftab_base' /\ ftab_mutex' = TRUE /\ ftab_mutex' \in BOOLEAN
    BY <1>1, <1>4, <2>4 DEF FileType
  <2>6. "unlock" \notin FdSteps \union {"fd_lock"}
    BY DEF FdSteps, CloseSteps
  <2> QED
    BY <1>1, <1>2, <1>3, <1>4, <2>1, <2>2, <2>3, <2>5, <2>6, TableStep
<1>6. ASSUME NEW k \in 1 .. Len(ftab) PROVE DescriptorsKept(k)
  BY <1>1, <1>3, SameDescriptors DEF OpenSteps
<1>7. ASSUME NEW k \in 1 .. Len(ftab), k # i PROVE EntryInv(k)'
  <2>1. t \notin Opening(k)'
    BY <1>3, <1>7 DEF Opening
  <2>2. OpeningKept(k)
    BY <1>3, <2>1, SameOpening
  <2>3. EntryInv(k) /\ EntrySame(k)
    BY <1>4, <1>7 DEF FileInv, InvEntries
  <2> QED
    BY <1>1, <1>6, <2>2, <2>3, EntryKept
<1>8. EntryInv(i)'
  <2>1. EntryInv(i) /\ ftab[i].refs \in Nat
    BY <1>1, EntryFields DEF FileInv, InvEntries
  <2>2. Descriptors(i)' \subseteq Descriptors(i) /\ DescriptorsKept(i)
    BY <1>6 DEF DescriptorsKept
  <2>3. Opening(i)' \subseteq Opening(i) \union {t}
    BY <1>3 DEF Opening, Mine
  <2>4. /\ Cardinality(Descriptors(i)') <= Cardinality(Descriptors(i))
        /\ Cardinality(Opening(i)') <= Cardinality(Opening(i)) + 1
    <3>1. Opening(i) \union {t} \in SUBSET Thread
      BY Users
    <3>2. Cardinality(Opening(i)') <= Cardinality(Opening(i) \union {t})
      BY <2>3, <3>1, FewerUsers
    <3>3. Cardinality(Opening(i) \union {t}) <= Cardinality(Opening(i)) + 1
      BY Users, OneMoreUser
    <3>4. Cardinality(Opening(i) \union {t}) \in Nat
      BY <3>1, FiniteUsers
    <3>5. Cardinality(Descriptors(i)') <= Cardinality(Descriptors(i))
      BY <2>2, Users, FewerUsers
    <3>6. Cardinality(Opening(i)') \in Nat /\ Cardinality(Opening(i)) \in Nat
      BY Users
    <3> QED
      BY <3>2, <3>3, <3>4, <3>5, <3>6
  <2>5. e.refs >= Cardinality(Descriptors(i)') + Cardinality(Opening(i)')
    <3>1. ftab[i].refs >= Cardinality(Descriptors(i)) + Cardinality(Opening(i))
      BY <2>1 DEF EntryInv
    <3>2. e.refs = ftab[i].refs + 1
      BY <1>1
    <3>3. /\ Cardinality(Descriptors(i)) \in Nat /\ Cardinality(Opening(i)) \in Nat
          /\ Cardinality(Descriptors(i)') \in Nat /\ Cardinality(Opening(i)') \in Nat
      BY Users
    <3> QED
      BY <2>1, <2>4, <3>1, <3>2, <3>3
  <2>6. e.node # NULL /\ e.refs # 0
    <3>1. local[t].node \in Node
      BY <1>1 DEF OpsAt
    <3> QED
      BY <2>1, <3>1, Constants
  <2>7. ftab[i].refs = 0 => Descriptors(i) = {} /\ Opening(i) = {}
    BY <2>1, NoUsers DEF EntryInv
  <2>8. \A d \in Descriptors(i)' : Serves(e, FdAt(d)'.for, FdAt(d)'.read, FdAt(d)'.write, d[1])
    BY <2>1, <2>2, <2>7 DEF EntryInv, DescriptorsKept, Serves
  <2>9. \A u \in Opening(i)' :
          Serves(e, local'[u].node, local'[u].read, local'[u].write, local'[u].proc)
    <3> SUFFICES ASSUME NEW u \in Opening(i)'
                 PROVE  Serves(e, local[u].node, local[u].read, local[u].write, local[u].proc)
      OBVIOUS
    <3>1. CASE u = t
      BY <3>1 DEF Serves
    <3>2. CASE u # t
      BY <2>1, <2>3, <2>7, <3>2 DEF EntryInv, Serves
    <3> QED
      BY <3>1, <3>2
  <2> QED
    BY <1>4, <2>5, <2>6, <2>8, <2>9 DEF EntryInv
<1> QED
  BY <1>4, <1>5, <1>7, <1>8 DEF FileInv, InvEntries
\* The file is opened for the first time, or again: both count (fs/ftab.c).
LEMMA FirstCounted ==
  ASSUME FileInv, NEW t \in Thread, OpenFirstDone(t)
  PROVE  FileInv'
<1> DEFINE i == local[t].idx
           e == [node |-> local[t].node, read |-> local[t].read,
                 write |-> local[t].write, refs |-> 1,
                 excl |-> IF local[t].excl THEN local[t].proc ELSE NULL,
                 mutex |-> ftab[i].mutex]
<1>1. FileType /\ ScanAt(t) /\ OpsAt(t) /\ pc[t] = "vfs_open"
  BY DEF FileInv, InvThreads, InvScan, InvOps, OpenFirstDone, At
<1>2. i \in 1 .. Len(ftab) /\ ftab[i].node = NULL /\ pc[t] \in InTable
  BY <1>1 DEF ScanAt, InTable
<1>3. local[t].proc \in Proc /\ local[t].node \in Node
  BY <1>1 DEF OpsAt, OpenSteps
<1>4. ftab[i].refs = 0
  BY <1>2 DEF FileInv, InvEntries, EntryInv
<1>5. e \in EntryType
  BY <1>1, <1>2, <1>3, EntryFields, LocalFields DEF EntryType
<1>6. ftab' = [ftab EXCEPT ![i] = e]
  BY DEF OpenFirstDone
<1>7. pc' = [pc EXCEPT ![t] = "unlock"] /\ UNCHANGED <<ftab_mutex, ftab_base, procs, fds, local>>
  BY DEF OpenFirstDone, Goto
<1>8. e.refs = ftab[i].refs + 1 /\ e.node = local[t].node
  BY <1>4
<1>9. e.excl # NULL => local[t].proc = e.excl
  BY Constants
<1>10. Modes(local[t].read, local[t].write) \subseteq Modes(e.read, e.write)
  OBVIOUS
<1> HIDE DEF e, i
<1> QED
  BY <1>1, <1>2, <1>4, <1>5, <1>6, <1>7, <1>8, <1>9, <1>10, CountedStep DEF i

\* What was opened before is opened again, in the modes of both (fs/ftab.c).
LEMMA AgainCounted ==
  ASSUME FileInv, NEW t \in Thread, (OpenAgain(t) /\ pc'[t] # "vfs_reopen") \/ OpenAgainDone(t)
  PROVE  FileInv'
<1> DEFINE i == local[t].idx
           old == ftab[i]
<1>1. FileType /\ ScanAt(t) /\ OpsAt(t) /\ pc[t] \in {"entry", "vfs_reopen"}
  BY DEF FileInv, InvThreads, InvScan, InvOps, OpenAgain, OpenAgainDone, At
<1>2. i \in 1 .. Len(ftab) /\ pc[t] \in InTable
  BY <1>1 DEF ScanAt, InTable
<1>3. local[t].proc \in Proc /\ local[t].node \in Node
  BY <1>1 DEF OpsAt, OpenSteps
<1>4. old.node = local[t].node /\ ~Denied(t, old)
  BY <1>1, <1>3, Constants DEF ScanAt, OpenAgain, At, OpenAgainDone
<1>5. old \in EntryType /\ old.read \in BOOLEAN /\ old.write \in BOOLEAN /\ old.refs \in Nat
      /\ local[t].read \in BOOLEAN /\ local[t].write \in BOOLEAN
  BY <1>1, <1>2, EntryFields, LocalFields
<1>6. pc' = [pc EXCEPT ![t] = "unlock"] /\ UNCHANGED <<ftab_mutex, ftab_base, procs, fds, local>>
  BY <1>1 DEF OpenAgain, OpenAgainDone, Goto, At, FileType
<1>7. \E e \in EntryType :
        /\ ftab' = [ftab EXCEPT ![i] = e] /\ e.refs = old.refs + 1 /\ e.node = old.node
        /\ e.excl = old.excl
        /\ Modes(e.read, e.write) = Modes(local[t].read \/ old.read, local[t].write \/ old.write)
  <2>1. CASE OpenAgain(t) /\ pc'[t] # "vfs_reopen"
    <3> DEFINE e == [old EXCEPT !.refs = @ + 1]
    <3>1. ftab' = [ftab EXCEPT ![i] = e]
          /\ Modes(local[t].read \/ old.read, local[t].write \/ old.write) = Modes(old.read, old.write)
      BY <1>1, <2>1 DEF OpenAgain, Counted, Goto, Widened, FileType, At
    <3>2. e \in EntryType
      BY <1>5 DEF EntryType
    <3>3. e.refs = old.refs + 1 /\ e.node = old.node /\ e.excl = old.excl
          /\ e.read = old.read /\ e.write = old.write
      BY <1>5 DEF EntryType
    <3> HIDE DEF e
    <3> QED
      BY <3>1, <3>2, <3>3
  <2>2. CASE OpenAgainDone(t)
    <3> DEFINE r == "r" \in local[t].mode
               w == "w" \in local[t].mode
               m == [old EXCEPT !.read = r, !.write = w]
               e == [m EXCEPT !.refs = @ + 1]
    <3>1. ftab' = [ftab EXCEPT ![i] = e]
      BY <2>2 DEF OpenAgainDone, Counted
    <3>2. r \in BOOLEAN /\ w \in BOOLEAN
      OBVIOUS
    <3>3. local[t].mode = Modes(local[t].read \/ old.read, local[t].write \/ old.write)
      BY <1>1, <2>2 DEF OpenAgainDone, ScanAt, Widened, At
    <3>4. Modes(r, w) = Modes(local[t].read \/ old.read, local[t].write \/ old.write)
      <4>1. \A a, b \in BOOLEAN : Modes("r" \in Modes(a, b), "w" \in Modes(a, b)) = Modes(a, b)
        BY ModesOrder
      <4>2. (local[t].read \/ old.read) \in BOOLEAN /\ (local[t].write \/ old.write) \in BOOLEAN
        OBVIOUS
      <4> QED
        BY <3>3, <4>1, <4>2
    <3> HIDE DEF r, w
    <3>5. m \in EntryType /\ m.refs = old.refs /\ m.node = old.node /\ m.excl = old.excl
          /\ m.read = r /\ m.write = w
      BY <1>5, <3>2 DEF EntryType
    <3> HIDE DEF m
    <3>6. m.refs \in Nat
      BY <1>5, <3>5
    <3>7. e \in EntryType
      BY <3>5, <3>6 DEF EntryType
    <3>8. e.refs = m.refs + 1 /\ e.node = m.node /\ e.excl = m.excl
          /\ e.read = m.read /\ e.write = m.write
      BY <3>5 DEF EntryType
    <3> HIDE DEF e
    <3> QED
      BY <3>1, <3>4, <3>5, <3>7, <3>8
  <2> QED
    BY <2>1, <2>2
<1>8. PICK e \in EntryType :
        /\ ftab' = [ftab EXCEPT ![i] = e] /\ e.refs = old.refs + 1 /\ e.node = old.node
        /\ e.excl = old.excl
        /\ Modes(e.read, e.write) = Modes(local[t].read \/ old.read, local[t].write \/ old.write)
  BY <1>7
<1>9. /\ Modes(old.read, old.write) \subseteq Modes(e.read, e.write)
      /\ Modes(local[t].read, local[t].write) \subseteq Modes(e.read, e.write)
  BY <1>5, <1>8, ModesOrder
<1>10. e.excl # NULL => local[t].proc = e.excl
  BY <1>4, <1>8 DEF Denied
<1> HIDE DEF i
<1> QED
  BY <1>1, <1>2, <1>4, <1>6, <1>8, <1>9, <1>10, CountedStep DEF i
\* The table grows, and moves: no pointer that was handed out is valid (fs/ftab.c).
LEMMA GrowsOn ==
  ASSUME FileInv, NEW t \in Thread, Grow(t)
  PROVE  FileInv'
<1> DEFINE i == local[t].idx
           more == [k \in 1 .. FTAB_ALLOCSZ |-> NoEntry]
<1>1. FileType /\ ScanAt(t) /\ OpsAt(t) /\ pc[t] = "scan" /\ local[t] \in LocalType
      /\ pc[t] \in InTable /\ pc[t] \in OpenSteps
  BY DEF FileInv, InvThreads, InvScan, InvOps, Grow, At, FileType, InTable, OpenSteps
<1>2. /\ pc' = [pc EXCEPT ![t] = "entry_lock"] /\ UNCHANGED <<ftab_mutex, procs, fds, local>>
      /\ ftab' = ftab \o more /\ ftab_base' = ftab_base + 1 /\ i \notin DOMAIN ftab
  BY DEF Grow, Goto
<1>3. GoesTo(t, local[t], "entry_lock") /\ "entry_lock" \in FileSteps
  BY <1>1, <1>2 DEF GoesTo, FileType, FileSteps, OpenSteps
<1>4. pc'[t] = "entry_lock" /\ local'[t] = local[t] /\ Mine(t)
  BY <1>1, <1>3, WhereItGoes
<1>5. NoEntry \in EntryType /\ NoEntry.node = NULL /\ NoEntry.refs = 0
  BY DEF NoEntry, EntryType
<1>6. FTAB_ALLOCSZ \in Nat \ {0}
  BY Constants
<1>7. ftab \in Seq(EntryType) /\ Len(ftab) \in Nat /\ ftab_base \in Nat
  BY <1>1 DEF FileType
<1>8. more \in Seq(EntryType) /\ Len(more) = FTAB_ALLOCSZ
      /\ \A k \in 1 .. FTAB_ALLOCSZ : more[k] = NoEntry
  BY <1>5, <1>6
<1> HIDE DEF more
<1>9. /\ ftab' \in Seq(EntryType) /\ Len(ftab') = Len(ftab) + FTAB_ALLOCSZ
      /\ \A k \in 1 .. Len(ftab) : ftab'[k] = ftab[k]
      /\ \A k \in 1 .. Len(ftab') : k \notin 1 .. Len(ftab) => ftab'[k] = NoEntry
  <2>1. ftab' = ftab \o more
    BY <1>2
  <2>2. ftab' \in Seq(EntryType) /\ Len(ftab') = Len(ftab) + FTAB_ALLOCSZ
    <3>1. \A a, b \in Seq(EntryType) : a \o b \in Seq(EntryType) /\ Len(a \o b) = Len(a) + Len(b)
      OBVIOUS
    <3>2. ftab \in Seq(EntryType) /\ more \in Seq(EntryType) /\ Len(more) = FTAB_ALLOCSZ
      BY <1>7, <1>8, Zenon
    <3> QED
      BY <2>1, <3>1, <3>2, Zenon
  <2>3. \A k \in 1 .. Len(ftab) : ftab'[k] = ftab[k]
    BY <2>1, <1>7, <1>8
  <2>4. ASSUME NEW k \in 1 .. Len(ftab'), k \notin 1 .. Len(ftab) PROVE ftab'[k] = NoEntry
    <3>1. k - Len(ftab) \in 1 .. FTAB_ALLOCSZ
      BY <1>6, <1>7, <2>2, <2>4
    <3>2. ftab'[k] = more[k - Len(ftab)]
      BY <2>1, <1>7, <1>8, <2>2, <2>4
    <3> QED
      BY <1>8, <3>1, <3>2
  <2> QED
    BY <2>2, <2>3, <2>4
<1>10. i = Len(ftab) + 1
  BY <1>1, <1>2, <1>7 DEF ScanAt
<1>11. FileType' /\ InvThreads'
  <2>1. OpsAt(t)'
    BY <1>1, <1>4 DEF OpsAt, OpenSteps, FdSteps, CloseSteps
  <2>2. AloneAt(t)'
    BY <1>4, AloneKept
  <2>3. i \in 1 .. Len(ftab') /\ ftab'[i].node = NULL
    BY <1>5, <1>6, <1>7, <1>9, <1>10
  <2>4. ScanAt(t)'
    BY <1>4, <2>3 DEF ScanAt, InTable
  <2>5. ftab_mutex = TRUE /\ local[t].ptr[1] <= ftab_base
    BY <1>1 DEF FileInv, InvThreads, InvLock, InvPointers
  <2>6. local[t].ptr[1] \in Nat
    BY <1>1, LocalFields
  <2>7. Len(ftab) <= Len(ftab') /\ ftab_base' \in Nat /\ ftab_base <= ftab_base'
        /\ local[t].ptr[1] <= ftab_base'
    BY <1>2, <1>6, <1>7, <1>9, <2>5, <2>6
  <2>8. ftab_mutex' = TRUE /\ ftab_mutex' \in BOOLEAN
    BY <1>2, <2>5
  <2>9. "entry_lock" \notin FdSteps \union {"fd_lock"}
    BY DEF FdSteps, CloseSteps
  <2> QED
    BY <1>1, <1>2, <1>3, <1>9, <2>1, <2>2, <2>4, <2>7, <2>8, <2>9, TableStep
<1>12. ASSUME NEW k PROVE Descriptors(k)' = {}
  <2> SUFFICES ASSUME NEW d \in Descriptors(k)' PROVE FALSE
    OBVIOUS
  <2>1. /\ d[1] \in Proc /\ d[2] \in DOMAIN fds[d[1]]
        /\ fds[d[1]][d[2]].ftab = <<ftab_base + 1, k>>
    BY <1>2 DEF Descriptors
  <2>2. fds[d[1]] \in Seq(FdType)
    BY <1>1, <2>1 DEF FileType
  <2>3. fds[d[1]][d[2]].ftab[1] <= ftab_base
    BY <2>1, <2>2 DEF FileInv, InvThreads, InvPointers
  <2> QED
    BY <1>7, <2>1, <2>3
<1>13. ASSUME NEW k, NEW u \in Opening(k)' PROVE u # t /\ pc[u] = "opened" /\ local[u].idx = k
  <2>1. u # t /\ pc[u] = pc'[u] /\ u \in Thread
    BY <1>4, <1>13 DEF Opening, Mine
  <2>2. pc[u] # "unlock"
    BY <1>1, <2>1 DEF FileInv, InvThreads, InvLock, InTable
  <2>3. ~(pc[u] \in {"slot", "fill"} /\ local[u].ptr = <<ftab_base + 1, k>>)
    <3>1. local[u].ptr[1] <= ftab_base
      BY <2>1 DEF FileInv, InvThreads, InvPointers
    <3> QED
      BY <1>7, <3>1
  <2> QED
    BY <1>2, <1>13, <2>1, <2>2, <2>3 DEF Opening
<1>14. ASSUME NEW k \in 1 .. Len(ftab) PROVE EntryInv(k)'
  <2>1. DescriptorsKept(k)
    BY <1>12 DEF DescriptorsKept
  <2>2. OpeningKept(k)
    <3>1. \A u \in Opening(k)' : u \in Opening(k)
      BY <1>13 DEF Opening
    <3> QED
      BY <1>2, <3>1 DEF OpeningKept
  <2>3. EntryInv(k) /\ EntrySame(k)
    BY <1>9 DEF FileInv, InvEntries, EntrySame
  <2> QED
    BY <1>1, <2>1, <2>2, <2>3, EntryKept
<1>15. ASSUME NEW k \in 1 .. Len(ftab'), k \notin 1 .. Len(ftab) PROVE EntryInv(k)'
  <2>1. Descriptors(k)' = {}
    BY <1>12
  <2>2. Opening(k)' = {}
    <3> SUFFICES ASSUME NEW u \in Opening(k)' PROVE FALSE
      OBVIOUS
    <3>1. pc[u] = "opened" /\ local[u].idx = k /\ u \in Thread
      BY <1>13 DEF Opening
    <3> QED
      BY <1>15, <3>1 DEF FileInv, InvThreads, InvScan, ScanAt
  <2>3. ftab'[k].refs = 0 /\ ftab'[k].node = NULL
    BY <1>5, <1>9, <1>15
  <2>4. Cardinality(Descriptors(k)') = 0 /\ Cardinality(Opening(k)') = 0
    BY <2>1, <2>2, FS_EmptySet
  <2> QED
    BY <2>1, <2>2, <2>3, <2>4 DEF EntryInv
<1> QED
  BY <1>11, <1>14, <1>15 DEF FileInv, InvEntries
-----------------------------------------------------------------------------
(***************************************************************************)
(* Steps on descriptors (exec/process.c), and what ftab_read() and         *)
(* ftab_close() (fs/ftab.c) do for them.                                   *)
(***************************************************************************)
\* The descriptors of a process (exec/process.h).
LEMMA FdFields ==
  ASSUME FileType, NEW p \in Proc, NEW i \in 1 .. Len(fds[p])
  PROVE  /\ fds[p] \in Seq(FdType) /\ Len(fds[p]) \in Nat /\ fds[p][i] \in FdType
         /\ fds[p][i].ftab \in Nat \X Nat /\ fds[p][i].read \in BOOLEAN /\ fds[p][i].write \in BOOLEAN
         /\ fds[p][i].mutex \in BOOLEAN /\ fds[p][i].for \in Node \union {NULL}
<1>1. fds[p] \in Seq(FdType)
  BY DEF FileType
<1>2. fds[p][i] \in FdType
  BY <1>1
<1> QED
  BY <1>1, <1>2 DEF FdType
\* A descriptor is written (exec/process.c).
FdWritten(p, i, f) == fds' = [fds EXCEPT ![p][i] = f]
LEMMA FdSet ==
  ASSUME FileType, NEW p \in Proc, NEW i \in 1 .. Len(fds[p]), NEW f \in FdType, FdWritten(p, i, f)
  PROVE  /\ fds' \in [Proc -> Seq(FdType)] /\ \A q \in Proc : Len(fds'[q]) = Len(fds[q])
         /\ fds'[p][i] = f
         /\ \A q \in Proc : \A j \in 1 .. Len(fds[q]) : q # p \/ j # i => fds'[q][j] = fds[q][j]
<1>1. fds[p] \in Seq(FdType) /\ fds \in [Proc -> Seq(FdType)]
  BY DEF FileType
<1> DEFINE tab == [fds[p] EXCEPT ![i] = f]
<1>2. tab \in Seq(FdType) /\ Len(tab) = Len(fds[p]) /\ tab[i] = f
      /\ \A j \in 1 .. Len(fds[p]) : j # i => tab[j] = fds[p][j]
  BY <1>1
<1>3. fds' = [fds EXCEPT ![p] = tab]
  BY DEF FdWritten
<1> HIDE DEF tab
<1> QED
  BY <1>1, <1>2, <1>3

\* What a thread does with its descriptor is no business of the others.
LEMMA UseStep ==
  ASSUME FileInv, NEW t \in Thread, NEW L \in LocalType, NEW s \in FileSteps, GoesTo(t, L, s),
         pc[t] \notin InTable, s \notin InTable \union {"fd_lock", "opened"},
         UNCHANGED <<ftab_mutex, ftab_base, procs>>,
         ftab' \in Seq(EntryType), Len(ftab') = Len(ftab),
         \/ \A k \in 1 .. Len(ftab) : EntrySame(k)
         \/ \A u \in Thread : pc[u] \notin OpenSteps,
         fds' \in [Proc -> Seq(FdType)],
         \A p \in Proc : Len(fds[p]) <= Len(fds'[p]) /\ Len(fds'[p]) <= MAX_FDS,
         \A p \in Proc : \A i \in 1 .. Len(fds'[p]) : fds'[p][i].ftab[1] <= ftab_base,
         \A u \in Thread \ {t} : pc[u] \in FdSteps =>
           fds'[owner[u]][local[u].fd] = fds[owner[u]][local[u].fd],
         OpsAt(t)', AloneAt(t)', L.ptr[1] <= ftab_base,
         s \in FdSteps => /\ L.fd \in 1 .. Len(fds[owner[t]])
                          /\ fds'[owner[t]][L.fd].mutex = TRUE
                          /\ fds'[owner[t]][L.fd].ftab = L.ptr
                          /\ \A u \in Thread \ {t} : pc[u] \in FdSteps =>
                               owner[u] # owner[t] \/ local[u].fd # L.fd
  PROVE  FileType' /\ InvThreads'
<1>1. FileType /\ InvOps /\ InvAlone /\ InvLock /\ InvScan /\ InvPointers /\ InvHolder
  BY DEF FileInv, InvThreads
<1>2. pc'[t] = s /\ local'[t] = L /\ Mine(t)
  BY <1>1, WhereItGoes
<1>3. FileType'
  BY <1>1 DEF FileType, GoesTo
<1>4. InvOps'
  BY <1>1, <1>2 DEF InvOps, Mine, OpsAt
<1>5. InvAlone'
  <2>1. L.op \notin {"open", "start"} \/ L.op # "close"
    OBVIOUS
  <2> QED
    BY <1>1, <1>2, <2>1 DEF InvAlone, Mine, AloneAt
<1>6. InvLock'
  BY <1>1, <1>2 DEF InvLock, Mine
<1>7. InvScan'
  <2> SUFFICES ASSUME NEW u \in Thread PROVE ScanAt(u)'
    BY DEF InvScan
  <2>1. CASE u = t
    BY <1>2, <2>1 DEF ScanAt, InTable
  <2>2. CASE u # t /\ \A v \in Thread : pc[v] \notin OpenSteps
    BY <1>2, <2>2 DEF ScanAt, InTable, OpenSteps, Mine
  <2>3. CASE u # t /\ \A k \in 1 .. Len(ftab) : EntrySame(k)
    <3>1. pc'[u] = pc[u] /\ local'[u] = local[u] /\ ScanAt(u)
      BY <1>1, <1>2, <2>3 DEF Mine, InvScan
    <3>2. CASE pc[u] = "scan"
      BY <3>1, <3>2 DEF ScanAt, InTable
    <3>3. CASE pc[u] \in (InTable \ {"scan"}) \union {"opened"}
      <4>1. local[u].idx \in 1 .. Len(ftab)
        BY <3>1, <3>3 DEF ScanAt
      <4>2. EntrySame(local[u].idx)
        BY <2>3, <4>1
      <4> QED
        BY <3>1, <3>3, <4>1, <4>2 DEF ScanAt, InTable, EntrySame, Widened, Denied
    <3>4. CASE pc[u] \notin InTable \union {"opened"}
      BY <3>1, <3>4 DEF ScanAt, InTable
    <3> QED
      BY <3>2, <3>3, <3>4
  <2> QED
    BY <2>1, <2>2, <2>3
<1>8. InvPointers'
  BY <1>1, <1>2 DEF InvPointers, Mine
<1>9. InvHolder'
  <2>1. \A p \in Proc : Len(fds[p]) \in Nat /\ Len(fds'[p]) \in Nat
    BY <1>1, <1>3 DEF FileType
  <2>2. \A u \in Thread : owner[u] \in Proc
    BY Constants
  <2>3. \A u \in Thread : pc'[u] \in FdSteps \union {"fd_lock"} =>
          local'[u].fd \in 1 .. Len(fds[owner[u]])
    BY <1>1, <1>2 DEF InvHolder, Mine
  <2>4. \A u \in Thread : pc'[u] \in FdSteps \union {"fd_lock"} =>
          local'[u].fd \in 1 .. Len(fds'[owner[u]])
    BY <2>1, <2>2, <2>3
  <2>5. \A u \in Thread : pc'[u] \in FdSteps =>
          /\ fds'[owner[u]][local'[u].fd].mutex = TRUE
          /\ fds'[owner[u]][local'[u].fd].ftab = local'[u].ptr
    <3> SUFFICES ASSUME NEW u \in Thread, pc'[u] \in FdSteps
                 PROVE  /\ fds'[owner[u]][local'[u].fd].mutex = TRUE
                        /\ fds'[owner[u]][local'[u].fd].ftab = local'[u].ptr
      OBVIOUS
    <3>1. CASE u = t
      BY <1>2, <3>1
    <3>2. CASE u # t
      <4>1. pc[u] \in FdSteps /\ local'[u] = local[u]
        BY <1>2, <3>2 DEF Mine
      <4>2. fds'[owner[u]][local[u].fd] = fds[owner[u]][local[u].fd]
        BY <3>2, <4>1
      <4>3. /\ fds[owner[u]][local[u].fd].mutex = TRUE
            /\ fds[owner[u]][local[u].fd].ftab = local[u].ptr
        BY <1>1, <4>1 DEF InvHolder
      <4> QED
        BY <4>1, <4>2, <4>3, Zenon
    <3> QED
      BY <3>1, <3>2
  <2>6. \A u, v \in Thread :
          pc'[u] \in FdSteps /\ pc'[v] \in FdSteps /\ owner[u] = owner[v]
            /\ local'[u].fd = local'[v].fd => u = v
    <3> SUFFICES ASSUME NEW u \in Thread, NEW v \in Thread, pc'[u] \in FdSteps,
                        pc'[v] \in FdSteps, owner[u] = owner[v], local'[u].fd = local'[v].fd
                 PROVE  u = v
      OBVIOUS
    <3>1. CASE u # t /\ v # t
      BY <1>1, <1>2, <3>1 DEF InvHolder, Mine
    <3>2. CASE u = t /\ v # t
      BY <1>2, <3>2 DEF Mine
    <3>3. CASE u # t /\ v = t
      BY <1>2, <3>3 DEF Mine
    <3> QED
      BY <3>1, <3>2, <3>3
  <2> QED
    BY <2>4, <2>5, <2>6 DEF InvHolder
<1> QED
  BY <1>3, <1>4, <1>5, <1>6, <1>7, <1>8, <1>9 DEF InvThreads
\* Who uses a descriptor has it for itself.
HeldBy(t) ==
  /\ FileType /\ owner[t] \in Proc /\ local[t].proc = owner[t] /\ local[t] \in LocalType
  /\ local[t].fd \in 1 .. Len(fds[owner[t]]) /\ fds[owner[t]][local[t].fd].mutex = TRUE
  /\ Fd(t) = fds[owner[t]][local[t].fd] /\ Fd(t) \in FdType /\ Fd(t).ftab = local[t].ptr
  /\ local[t].ptr[1] <= ftab_base
  /\ pc[t] \notin InTable \union OpenSteps /\ OpsAt(t)
  /\ \A u \in Thread \ {t} : pc[u] \in FdSteps =>
       owner[u] # owner[t] \/ local[u].fd # local[t].fd
  /\ \A p \in Proc : Len(fds[p]) \in Nat /\ Len(fds[p]) <= MAX_FDS
  /\ \A p \in Proc : \A i \in 1 .. Len(fds[p]) : fds[p][i].ftab[1] <= ftab_base
\* Who uses a descriptor has it for itself (exec/process.c).
LEMMA Held ==
  ASSUME FileInv, NEW t \in Thread, pc[t] \in FdSteps
  PROVE  HeldBy(t)
<1>1. FileType /\ owner[t] \in Proc /\ OpsAt(t) /\ InvHolder /\ InvPointers
  BY Constants DEF FileInv, InvThreads, InvOps
<1>2. local[t].proc = owner[t] /\ local[t] \in LocalType
  BY <1>1 DEF OpsAt, FileType
<1>3. local[t].fd \in 1 .. Len(fds[owner[t]]) /\ fds[owner[t]][local[t].fd].mutex = TRUE
      /\ fds[owner[t]][local[t].fd].ftab = local[t].ptr
  BY <1>1 DEF InvHolder
<1>4. Fd(t) = fds[owner[t]][local[t].fd] /\ Fd(t) \in FdType
  <2>1. fds[owner[t]][local[t].fd] \in FdType
    BY <1>1, <1>3, FdFields
  <2> QED
    BY <1>2, <2>1 DEF Fd
<1>5. pc[t] \notin InTable \union OpenSteps
  BY DEF FdSteps, CloseSteps, InTable, OpenSteps
<1>6. \A u \in Thread \ {t} : pc[u] \in FdSteps => owner[u] # owner[t] \/ local[u].fd # local[t].fd
  BY <1>1 DEF InvHolder
<1>7. \A p \in Proc : Len(fds[p]) \in Nat /\ Len(fds[p]) <= MAX_FDS
  BY <1>1 DEF InvHolder, FileType
<1>8. /\ local[t].ptr[1] <= ftab_base
      /\ \A p \in Proc : \A i \in 1 .. Len(fds[p]) : fds[p][i].ftab[1] <= ftab_base
  BY <1>1 DEF InvPointers
<1> QED
  BY <1>1, <1>2, <1>3, <1>4, <1>5, <1>6, <1>7, <1>8 DEF HeldBy

\* A descriptor that is written serves the same file or none (exec/process.c).
LEMMA DescriptorsSet ==
  ASSUME FileInv, NEW t \in Thread, Mine(t), UNCHANGED ftab_base,
         NEW p \in Proc, NEW i \in 1 .. Len(fds[p]), NEW f \in FdType,
         FdWritten(p, i, f), NEW k \in 1 .. Len(ftab),
         \/ f.ftab = NoPointer
         \/ /\ f.ftab = fds[p][i].ftab /\ f.for = fds[p][i].for
            /\ f.read = fds[p][i].read /\ f.write = fds[p][i].write,
         pc[t] = "close_unlock" => f.ftab = NoPointer /\ p = local[t].proc /\ i = local[t].fd
  PROVE  DescriptorsKept(k)
<1>1. FileType /\ pc \in [Thread -> FileSteps]
  BY DEF FileInv, FileType
<1>2. /\ fds' \in [Proc -> Seq(FdType)] /\ \A q \in Proc : Len(fds'[q]) = Len(fds[q])
      /\ fds'[p][i] = f
      /\ \A q \in Proc : \A j \in 1 .. Len(fds[q]) : q # p \/ j # i => fds'[q][j] = fds[q][j]
  BY <1>1, FdSet
<1> SUFFICES ASSUME NEW d \in Descriptors(k)'
             PROVE  /\ d \in Descriptors(k) /\ FdAt(d)'.for = FdAt(d).for
                    /\ FdAt(d)'.read = FdAt(d).read /\ FdAt(d)'.write = FdAt(d).write
  BY DEF DescriptorsKept
<1>3. /\ d \in Proc \X (1 .. MAX_FDS) /\ d[1] \in Proc /\ d[2] \in DOMAIN fds'[d[1]]
      /\ fds'[d[1]][d[2]].ftab = <<ftab_base, k>>
      /\ \A v \in Thread : local'[v].proc = d[1] => ~(pc'[v] = "close_unlock" /\ local'[v].fd = d[2])
  BY DEF Descriptors
<1>4. d[2] \in 1 .. Len(fds[d[1]]) /\ DOMAIN fds[d[1]] = 1 .. Len(fds[d[1]])
  <2>1. fds'[d[1]] \in Seq(FdType) /\ fds[d[1]] \in Seq(FdType) /\ Len(fds'[d[1]]) = Len(fds[d[1]])
    BY <1>1, <1>2, <1>3 DEF FileType
  <2> QED
    BY <1>3, <2>1
<1>5. <<ftab_base, k>> # NoPointer
  BY DEF NoPointer
<1>6. CASE d[1] = p /\ d[2] = i
  <2>1. f.ftab = <<ftab_base, k>> /\ f.ftab # NoPointer
    BY <1>2, <1>3, <1>5, <1>6
  <2>2. /\ f.ftab = fds[p][i].ftab /\ f.for = fds[p][i].for
        /\ f.read = fds[p][i].read /\ f.write = fds[p][i].write /\ pc[t] # "close_unlock"
    BY <2>1
  <2>3. \A v \in Thread : local[v].proc = d[1] => ~(pc[v] = "close_unlock" /\ local[v].fd = d[2])
    BY <1>3, <2>2 DEF Mine
  <2>4. d \in Descriptors(k)
    BY <1>1, <1>3, <1>4, <1>6, <2>1, <2>2, <2>3
       DEF Descriptors, FileSteps, OpenSteps, FdSteps, CloseSteps
  <2> QED
    BY <1>2, <1>6, <2>2, <2>4 DEF FdAt
<1>7. CASE d[1] # p \/ d[2] # i
  <2>1. fds'[d[1]][d[2]] = fds[d[1]][d[2]]
    BY <1>2, <1>3, <1>4, <1>7
  <2>2. \A v \in Thread : local[v].proc = d[1] => ~(pc[v] = "close_unlock" /\ local[v].fd = d[2])
    <3> SUFFICES ASSUME NEW v \in Thread, local[v].proc = d[1], pc[v] = "close_unlock",
                        local[v].fd = d[2]
                 PROVE  FALSE
      OBVIOUS
    <3>1. v # t
      BY <1>7
    <3> QED
      BY <1>3, <3>1 DEF Mine
  <2>3. d \in Descriptors(k)
    BY <1>1, <1>3, <1>4, <2>1, <2>2
       DEF Descriptors, FileSteps, OpenSteps, FdSteps, CloseSteps
  <2> QED
    BY <2>1, <2>3 DEF FdAt
<1> QED
  BY <1>6, <1>7
\* A close or a transfer moves on, with the mutex of the entry or without (fs/ftab.c).
LEMMA HoldsOn ==
  ASSUME FileInv, NEW t \in Thread,
         IoLock(t) \/ CloseLock(t) \/ (CloseCheck(t) /\ pc'[t] = "close_lock")
  PROVE  FileInv'
<1> USE DEF HeldBy
<1> DEFINE s == IF pc[t] = "io_lock" THEN "io" ELSE IF pc[t] = "close_lock" THEN "close"
                ELSE "close_lock"
           L == local[t]
<1>1. pc[t] \in {"io_lock", "close_lock", "close_check"} /\ s \in {"io", "close", "close_lock"}
      /\ pc[t] \in FdSteps /\ s \in FdSteps /\ s \in FileSteps
  BY DEF IoLock, CloseLock, CloseCheck, At, FdSteps, CloseSteps, FileSteps
<1>2. HeldBy(t)
  BY <1>1, Held
<1>3. pc' = [pc EXCEPT ![t] = s] /\ UNCHANGED <<ftab_mutex, ftab_base, procs, fds, local>>
  <2>1. "close_lock" # "idle"
    OBVIOUS
  <2> QED
    BY <1>1, <1>2, <2>1 DEF IoLock, CloseLock, CloseCheck, At, Goto, Return, table, FileType
<1>4. ftab' \in Seq(EntryType) /\ Len(ftab') = Len(ftab) /\ \A k \in 1 .. Len(ftab) : EntrySame(k)
  <2>1. CASE IoLock(t) \/ CloseLock(t)
    <3>1. local[t].ptr[2] \in 1 .. Len(ftab)
      BY <1>2, <2>1 DEF IoLock, CloseLock, Valid, FileType
    <3>2. ftab' = [ftab EXCEPT ![local[t].ptr[2]].mutex = TRUE]
      BY <2>1 DEF IoLock, CloseLock
    <3> QED
      BY <1>2, <3>1, <3>2, MutexSet
  <2>2. CASE CloseCheck(t)
    BY <1>2, <2>2 DEF CloseCheck, table, FileType, EntrySame
  <2> QED
    BY <2>1, <2>2
<1>5. local' = [local EXCEPT ![t] = L] /\ L \in LocalType
  BY <1>2, <1>3 DEF FileType
<1>6. GoesTo(t, L, s)
  BY <1>1, <1>3, <1>5 DEF GoesTo
<1>7. pc'[t] = s /\ local'[t] = L /\ Mine(t)
  BY <1>2, <1>6, WhereItGoes
<1>8. OpsAt(t)'
  BY <1>1, <1>2, <1>7 DEF OpsAt, OpenSteps, FdSteps, CloseSteps
<1>9. AloneAt(t)'
  BY <1>7, AloneKept
<1>10. s \notin InTable \union {"fd_lock", "opened", "unlock", "slot", "fill"}
       /\ pc[t] # "close_unlock"
  BY <1>1 DEF InTable
<1>11. /\ fds' \in [Proc -> Seq(FdType)]
       /\ \A p \in Proc : Len(fds[p]) <= Len(fds'[p]) /\ Len(fds'[p]) <= MAX_FDS
  BY <1>2, <1>3 DEF FileType
<1> HIDE DEF s
<1>12. FileType' /\ InvThreads'
  BY <1>2, <1>3, <1>4, <1>5, <1>6, <1>8, <1>9, <1>10, <1>11, <1>1, UseStep
<1>13. InvEntries'
  BY <1>1, <1>3, <1>4, <1>7, <1>10, SameEntries
<1> QED
  BY <1>12, <1>13 DEF FileInv

\* A descriptor is given back or cleared, and the call returns (exec/process.c).
GivenBack(t, f) ==
  \/ f.ftab = NoPointer
  \/ f = [Fd(t) EXCEPT !.mutex = FALSE] /\ pc[t] # "close_unlock"
LEMMA Releases ==
  ASSUME FileInv, NEW t \in Thread, pc[t] \in FdSteps, Return(t),
         NEW f \in FdType, FdWritten(local[t].proc, local[t].fd, f),
         GivenBack(t, f), UNCHANGED <<ftab_mutex, ftab_base, procs>>,
         ftab' \in Seq(EntryType), Len(ftab') = Len(ftab), \A k \in 1 .. Len(ftab) : EntrySame(k)
  PROVE  FileInv'
<1> USE DEF HeldBy
<1> DEFINE p == owner[t]
           i == local[t].fd
<1>1. HeldBy(t)
  BY Held
<1>2. NoLocal \in LocalType /\ NoLocal.op = "none" /\ NoLocal.ptr = NoPointer
  BY NoLocalFields
<1>3. GoesTo(t, NoLocal, "idle") /\ "idle" \in FileSteps
  BY <1>2 DEF Return, Goto, GoesTo, FileSteps
<1>4. pc'[t] = "idle" /\ local'[t] = NoLocal /\ Mine(t)
  BY <1>1, <1>3, WhereItGoes
<1>5. OpsAt(t)' /\ AloneAt(t)'
  <2>1. OpsAt(t)'
    BY <1>2, <1>4 DEF OpsAt, OpenSteps, CloseSteps, FdSteps
  <2> QED
    BY <1>2, <1>4, <2>1, AloneKept
<1>6. p \in Proc /\ i \in 1 .. Len(fds[p]) /\ FdWritten(p, i, f)
  BY <1>1
<1>7. /\ fds' \in [Proc -> Seq(FdType)] /\ \A q \in Proc : Len(fds'[q]) = Len(fds[q])
      /\ fds'[p][i] = f
      /\ \A q \in Proc : \A j \in 1 .. Len(fds[q]) : q # p \/ j # i => fds'[q][j] = fds[q][j]
  BY <1>1, <1>6, FdSet
<1>8. \/ f.ftab = NoPointer
      \/ /\ f.ftab = Fd(t).ftab /\ f.for = Fd(t).for
         /\ f.read = Fd(t).read /\ f.write = Fd(t).write /\ pc[t] # "close_unlock"
  BY <1>1 DEF FdType, GivenBack
<1>9. f.ftab[1] <= ftab_base
  <2>1. CASE f.ftab = NoPointer
    BY <1>1, <2>1 DEF NoPointer, FileType
  <2>2. CASE f.ftab = Fd(t).ftab
    BY <1>1, <2>2
  <2> QED
    BY <1>8, <2>1, <2>2
<1>10. \A q \in Proc : \A j \in 1 .. Len(fds'[q]) : fds'[q][j].ftab[1] <= ftab_base
  <2> SUFFICES ASSUME NEW q \in Proc, NEW j \in 1 .. Len(fds'[q])
               PROVE  fds'[q][j].ftab[1] <= ftab_base
    OBVIOUS
  <2>1. j \in 1 .. Len(fds[q])
    BY <1>7
  <2>2. CASE q = p /\ j = i
    BY <1>7, <1>9, <2>2
  <2>3. CASE q # p \/ j # i
    BY <1>1, <1>7, <2>1, <2>3
  <2> QED
    BY <2>2, <2>3
<1>11. \A u \in Thread \ {t} : pc[u] \in FdSteps =>
         fds'[owner[u]][local[u].fd] = fds[owner[u]][local[u].fd]
  <2> SUFFICES ASSUME NEW u \in Thread \ {t}, pc[u] \in FdSteps
               PROVE  fds'[owner[u]][local[u].fd] = fds[owner[u]][local[u].fd]
    OBVIOUS
  <2>1. owner[u] \in Proc /\ local[u].fd \in 1 .. Len(fds[owner[u]])
    BY Held
  <2>2. owner[u] # p \/ local[u].fd # i
    BY <1>1
  <2> QED
    BY <1>7, <2>1, <2>2
<1>12. \A q \in Proc : Len(fds[q]) <= Len(fds'[q]) /\ Len(fds'[q]) <= MAX_FDS
  BY <1>1, <1>7
<1>13. "idle" \notin InTable \union {"fd_lock", "opened", "unlock", "slot", "fill"} \union FdSteps
  BY DEF InTable, FdSteps, CloseSteps
<1>14. NoLocal.ptr[1] <= ftab_base
  BY <1>1, <1>2 DEF NoPointer, FileType
<1>15. FileType' /\ InvThreads'
  BY <1>1, <1>2, <1>3, <1>5, <1>7, <1>10, <1>11, <1>12, <1>13, <1>14, UseStep
<1>16. ASSUME NEW k \in 1 .. Len(ftab) PROVE EntryInv(k)'
  <2>1. EntryInv(k) /\ EntrySame(k)
    BY DEF FileInv, InvEntries
  <2>2. DescriptorsKept(k)
    <3>1. pc[t] = "close_unlock" => f.ftab = NoPointer /\ p = local[t].proc /\ i = local[t].fd
      BY <1>1, <1>8
    <3>2. Fd(t) = fds[p][i]
      BY <1>1
    <3> HIDE DEF p, i
    <3> QED
      BY <1>4, <1>6, <1>8, <3>1, <3>2, DescriptorsSet
  <2>3. OpeningKept(k)
    BY <1>4, <1>13, SameOpening
  <2> QED
    BY <1>1, <2>1, <2>2, <2>3, EntryKept
<1> QED
  BY <1>15, <1>16 DEF FileInv, InvEntries
\* NoFd is a descriptor that nobody uses (exec/process.c).
LEMMA NoFdFields ==
  NoFd \in FdType /\ NoFd.ftab = NoPointer
BY DEF NoFd, FdType, NoPointer

\* A transfer ends, a close ends, a close finds another holder (exec/process.c).
LEMMA UseEnds ==
  ASSUME FileInv, NEW t \in Thread,
         IoDone(t) \/ CloseUnlock(t) \/ (CloseCheck(t) /\ pc'[t] # "close_lock")
  PROVE  FileInv'
<1> USE DEF HeldBy
<1>1. pc[t] \in {"io", "close_unlock", "close_check"} /\ pc[t] \in FdSteps
  BY DEF IoDone, CloseUnlock, CloseCheck, At, FdSteps, CloseSteps
<1>2. HeldBy(t)
  BY <1>1, Held
<1>3. Return(t) /\ UNCHANGED <<ftab_mutex, ftab_base, procs>>
  BY <1>2 DEF IoDone, CloseUnlock, CloseCheck, table, Goto, FileType
<1>4. ftab' \in Seq(EntryType) /\ Len(ftab') = Len(ftab) /\ \A k \in 1 .. Len(ftab) : EntrySame(k)
  <2>1. CASE IoDone(t) \/ CloseUnlock(t)
    <3>1. local[t].ptr[2] \in 1 .. Len(ftab)
      BY <1>2, <2>1 DEF IoDone, CloseUnlock, Valid, FileType
    <3>2. ftab' = [ftab EXCEPT ![local[t].ptr[2]].mutex = FALSE]
      BY <2>1 DEF IoDone, CloseUnlock
    <3> QED
      BY <1>2, <3>1, <3>2, MutexSet
  <2>2. CASE CloseCheck(t)
    BY <1>2, <2>2 DEF CloseCheck, table, FileType, EntrySame
  <2> QED
    BY <2>1, <2>2
<1>5. \E f \in FdType : /\ FdWritten(local[t].proc, local[t].fd, f)
                        /\ GivenBack(t, f)
  <2>1. CASE IoDone(t)
    <3>1. [Fd(t) EXCEPT !.mutex = FALSE] \in FdType
      BY <1>2 DEF FdType
    <3>2. FdWritten(local[t].proc, local[t].fd, [Fd(t) EXCEPT !.mutex = FALSE])
      BY <2>1 DEF IoDone, SetFd, FdWritten
    <3>3. pc[t] # "close_unlock"
      BY <2>1 DEF IoDone, At
    <3> QED
      BY <3>1, <3>2, <3>3 DEF GivenBack
  <2>2. CASE CloseUnlock(t) \/ (CloseCheck(t) /\ pc'[t] # "close_lock")
    <3>1. FdWritten(local[t].proc, local[t].fd, NoFd)
      BY <1>2, <2>2 DEF CloseUnlock, CloseCheck, SetFd, FdWritten, FdCleared, Goto, FileType
    <3> QED
      BY <3>1, NoFdFields DEF GivenBack
  <2> QED
    BY <2>1, <2>2
<1>6. PICK f \in FdType : FdWritten(local[t].proc, local[t].fd, f) /\ GivenBack(t, f)
  BY <1>5
<1> HIDE DEF HeldBy
<1> QED
  BY <1>1, <1>3, <1>4, <1>6, Releases

\* A descriptor in use is locked (exec/process.c).
LEMMA LocksFd ==
  ASSUME FileInv, NEW t \in Thread, FdLock(t)
  PROVE  FileInv'
<1> DEFINE p == owner[t]
           i == local[t].fd
           f == [fds[p][i] EXCEPT !.mutex = TRUE]
           L == [local[t] EXCEPT !.ptr = fds[p][i].ftab]
           s == IF local[t].op = "close" THEN "close_check" ELSE "io_lock"
<1>1. FileType /\ InvHolder /\ InvPointers /\ OpsAt(t) /\ pc[t] = "fd_lock" /\ p \in Proc
      /\ local[t] \in LocalType
  BY Constants DEF FileInv, InvThreads, InvOps, FdLock, At, FileType
<1>2. local[t].proc = p /\ i \in 1 .. Len(fds[p]) /\ local[t].op \in {"read", "write", "close"}
  BY <1>1 DEF OpsAt, InvHolder
<1>3. fds[p][i] \in FdType /\ fds[p][i].ftab \in Nat \X Nat /\ fds[p][i].mutex \in BOOLEAN
  BY <1>1, <1>2, FdFields
<1>4. f \in FdType /\ f.ftab = fds[p][i].ftab /\ f.for = fds[p][i].for
      /\ f.read = fds[p][i].read /\ f.write = fds[p][i].write /\ f.mutex = TRUE
  BY <1>3 DEF FdType
<1>5. L \in LocalType /\ L.op = local[t].op /\ L.proc = local[t].proc /\ L.fd = i
      /\ L.ptr = fds[p][i].ftab
  BY <1>1, <1>3 DEF LocalType
<1>6. s \in FdSteps /\ s \in FileSteps /\ s \in {"close_check", "io_lock"}
  BY DEF FdSteps, CloseSteps, FileSteps
<1>7. /\ FdWritten(p, i, f) /\ local' = [local EXCEPT ![t] = L] /\ pc' = [pc EXCEPT ![t] = s]
      /\ UNCHANGED <<ftab, ftab_mutex, ftab_base, procs>> /\ fds[p][i].mutex = FALSE
  <2>1. Fd(t) = fds[p][i]
    BY <1>2 DEF Fd
  <2>2. FdWritten(p, i, f) /\ local' = [local EXCEPT ![t] = L]
    BY <1>2, <2>1 DEF FdLock, FdWritten, SetFd
  <2>3. pc' = [pc EXCEPT ![t] = s] /\ UNCHANGED <<ftab, ftab_mutex, ftab_base, procs>>
    BY DEF FdLock, Goto, table
  <2>4. fds[p][i].mutex = FALSE
    BY <1>3, <2>1 DEF FdLock
  <2> QED
    BY <2>2, <2>3, <2>4
<1> HIDE DEF f, L
<1>8. GoesTo(t, L, s)
  BY <1>5, <1>6, <1>7 DEF GoesTo
<1>9. pc'[t] = s /\ local'[t] = L /\ Mine(t)
  BY <1>1, <1>8, WhereItGoes
<1>10. OpsAt(t)'
  BY <1>1, <1>2, <1>5, <1>9 DEF OpsAt, OpenSteps, FdSteps, CloseSteps
<1>11. AloneAt(t)'
  BY <1>5, <1>9, AloneKept
<1>12. /\ fds' \in [Proc -> Seq(FdType)] /\ \A q \in Proc : Len(fds'[q]) = Len(fds[q])
       /\ fds'[p][i] = f
       /\ \A q \in Proc : \A j \in 1 .. Len(fds[q]) : q # p \/ j # i => fds'[q][j] = fds[q][j]
  BY <1>1, <1>2, <1>4, <1>7, FdSet
<1>13. \A u \in Thread \ {t} : pc[u] \in FdSteps =>
         owner[u] \in Proc /\ local[u].fd \in 1 .. Len(fds[owner[u]])
           /\ (owner[u] # p \/ local[u].fd # i)
  <2> SUFFICES ASSUME NEW u \in Thread \ {t}, pc[u] \in FdSteps
               PROVE  owner[u] \in Proc /\ local[u].fd \in 1 .. Len(fds[owner[u]])
                        /\ (owner[u] # p \/ local[u].fd # i)
    OBVIOUS
  <2>1. owner[u] \in Proc /\ local[u].fd \in 1 .. Len(fds[owner[u]])
        /\ fds[owner[u]][local[u].fd].mutex = TRUE
    BY Held DEF HeldBy
  <2> QED
    BY <1>7, <2>1
<1>14. \A u \in Thread \ {t} : pc[u] \in FdSteps =>
         fds'[owner[u]][local[u].fd] = fds[owner[u]][local[u].fd]
  BY <1>12, <1>13
<1>15. fds[p][i].ftab[1] <= ftab_base
  BY <1>1, <1>2 DEF InvPointers
<1>16. /\ \A q \in Proc : \A j \in 1 .. Len(fds'[q]) : fds'[q][j].ftab[1] <= ftab_base
       /\ L.ptr[1] <= ftab_base
  BY <1>1, <1>4, <1>5, <1>12, <1>15 DEF InvPointers
<1>17. \A q \in Proc : Len(fds[q]) <= Len(fds'[q]) /\ Len(fds'[q]) <= MAX_FDS
  <2>1. \A q \in Proc : Len(fds[q]) \in Nat
    BY <1>1 DEF FileType
  <2> QED
    BY <1>1, <1>12, <2>1 DEF InvHolder
<1>18. s \notin InTable \union {"fd_lock", "opened", "unlock", "slot", "fill"}
       /\ pc[t] \notin InTable
  BY <1>1, <1>6 DEF InTable
<1>19. fds'[p][L.fd].mutex = TRUE /\ fds'[p][L.fd].ftab = L.ptr /\ L.fd \in 1 .. Len(fds[p])
  BY <1>2, <1>4, <1>5, <1>12
<1>20. /\ \A k \in 1 .. Len(ftab) : EntrySame(k)
       /\ ftab' \in Seq(EntryType) /\ Len(ftab') = Len(ftab)
  BY <1>1, <1>7 DEF EntrySame, FileType
<1> HIDE DEF s
<1>21. \A u \in Thread \ {t} : pc[u] \in FdSteps => owner[u] # p \/ local[u].fd # L.fd
  BY <1>5, <1>13
<1>22. FileType' /\ InvThreads'
  BY <1>5, <1>6, <1>7, <1>8, <1>10, <1>11, <1>12, <1>14, <1>16, <1>17, <1>18, <1>19, <1>20,
     <1>21, UseStep
<1>23. ASSUME NEW k \in 1 .. Len(ftab) PROVE EntryInv(k)'
  <2>1. EntryInv(k) /\ EntrySame(k)
    BY <1>20 DEF FileInv, InvEntries
  <2>2. DescriptorsKept(k)
    BY <1>1, <1>2, <1>4, <1>7, <1>9, DescriptorsSet
  <2>3. OpeningKept(k)
    BY <1>7, <1>9, <1>18, SameOpening
  <2> QED
    BY <1>1, <2>1, <2>2, <2>3, EntryKept
<1> QED
  BY <1>20, <1>22, <1>23 DEF FileInv, InvEntries
\* The table of descriptors grows: with descriptors that refer to nothing
\* (exec/process.c).
LEMMA SlotsGrow ==
  ASSUME FileInv, NEW t \in Thread, SlotGrow(t)
  PROVE  FileInv'
<1> DEFINE p == local[t].proc
           more == [j \in 1 .. PROC_FDS_ALLOCSZ |-> NoFd]
           n == Len(fds[p]) + 1
           L == [local[t] EXCEPT !.fd = n]
<1>1. FileType /\ InvHolder /\ InvPointers /\ OpsAt(t) /\ pc[t] = "slot" /\ local[t] \in LocalType
      /\ ftab_base \in Nat
  BY DEF FileInv, InvThreads, InvOps, SlotGrow, At, FileType
<1>2. p \in Proc
  BY <1>1 DEF OpsAt, OpenSteps
<1>3. fds[p] \in Seq(FdType) /\ Len(fds[p]) \in Nat /\ n \in Nat
  BY <1>1, <1>2 DEF FileType
<1>4. PROC_FDS_ALLOCSZ \in Nat \ {0} /\ MAX_FDS \in Nat
  BY Constants
<1>5. more \in Seq(FdType) /\ Len(more) = PROC_FDS_ALLOCSZ
      /\ \A j \in 1 .. PROC_FDS_ALLOCSZ : more[j] = NoFd
  BY <1>4, NoFdFields
<1>6. /\ fds' = [fds EXCEPT ![p] = fds[p] \o more] /\ local' = [local EXCEPT ![t] = L]
      /\ pc' = [pc EXCEPT ![t] = "fill"]
      /\ UNCHANGED <<ftab, ftab_mutex, ftab_base, procs>>
  BY DEF SlotGrow, Goto, table
<1>7. Len(fds[p]) + PROC_FDS_ALLOCSZ <= MAX_FDS
  BY DEF SlotGrow, FdsFit
<1>8. L \in LocalType /\ L.op = local[t].op /\ L.proc = p /\ L.node = local[t].node
      /\ L.read = local[t].read /\ L.write = local[t].write /\ L.ptr = local[t].ptr
  BY <1>1, <1>3 DEF LocalType
<1> HIDE DEF more, L, n
<1> DEFINE tab == fds[p] \o more
<1>9. /\ tab \in Seq(FdType) /\ Len(tab) = Len(fds[p]) + PROC_FDS_ALLOCSZ
      /\ \A j \in 1 .. Len(fds[p]) : tab[j] = fds[p][j]
      /\ \A j \in 1 .. Len(tab) : j \notin 1 .. Len(fds[p]) => tab[j] = NoFd
  <2>1. tab \in Seq(FdType) /\ Len(tab) = Len(fds[p]) + PROC_FDS_ALLOCSZ
    <3>1. \A a, b \in Seq(FdType) : a \o b \in Seq(FdType) /\ Len(a \o b) = Len(a) + Len(b)
      OBVIOUS
    <3>2. fds[p] \in Seq(FdType) /\ more \in Seq(FdType) /\ Len(more) = PROC_FDS_ALLOCSZ
      BY <1>3, <1>5, Zenon
    <3> QED
      BY <3>1, <3>2, Zenon
  <2>2. \A j \in 1 .. Len(fds[p]) : tab[j] = fds[p][j]
    BY <1>3, <1>5
  <2>3. ASSUME NEW j \in 1 .. Len(tab), j \notin 1 .. Len(fds[p]) PROVE tab[j] = NoFd
    <3>1. j - Len(fds[p]) \in 1 .. PROC_FDS_ALLOCSZ
      BY <1>3, <1>4, <2>1, <2>3
    <3>2. tab[j] = more[j - Len(fds[p])]
      BY <1>3, <1>5, <2>1, <2>3
    <3> QED
      BY <1>5, <3>1, <3>2
  <2> QED
    BY <2>1, <2>2, <2>3
<1> HIDE DEF tab
<1>10. /\ fds' \in [Proc -> Seq(FdType)] /\ fds'[p] = tab
       /\ \A q \in Proc : q # p => fds'[q] = fds[q]
  <2>1. fds' = [fds EXCEPT ![p] = tab]
    BY <1>6 DEF tab
  <2> QED
    BY <1>1, <1>2, <1>9, <2>1 DEF FileType
<1>11. GoesTo(t, L, "fill") /\ "fill" \in FileSteps
  BY <1>6, <1>8 DEF GoesTo, FileSteps, OpenSteps
<1>12. pc'[t] = "fill" /\ local'[t] = L /\ Mine(t)
  BY <1>1, <1>11, WhereItGoes
<1>13. OpsAt(t)' /\ AloneAt(t)'
  <2>1. OpsAt(t)'
    BY <1>1, <1>8, <1>12 DEF OpsAt, OpenSteps, FdSteps, CloseSteps
  <2> QED
    BY <1>8, <1>12, <2>1, AloneKept
<1>14. \A u \in Thread \ {t} : pc[u] \in FdSteps =>
         fds'[owner[u]][local[u].fd] = fds[owner[u]][local[u].fd]
  <2>1. \A u \in Thread : pc[u] \in FdSteps =>
          owner[u] \in Proc /\ local[u].fd \in 1 .. Len(fds[owner[u]])
    BY Held DEF HeldBy
  <2> SUFFICES ASSUME NEW u \in Thread, pc[u] \in FdSteps
               PROVE  fds'[owner[u]][local[u].fd] = fds[owner[u]][local[u].fd]
    OBVIOUS
  <2>2. CASE owner[u] = p
    <3>1. local[u].fd \in 1 .. Len(fds[p])
      BY <2>1, <2>2
    <3>2. tab[local[u].fd] = fds[p][local[u].fd]
      BY <1>9, <3>1
    <3> QED
      BY <1>10, <2>2, <3>2
  <2>3. CASE owner[u] # p
    BY <1>10, <2>1, <2>3
  <2> QED
    BY <2>2, <2>3
<1>15. \A q \in Proc : Len(fds[q]) <= Len(fds'[q]) /\ Len(fds'[q]) <= MAX_FDS
  <2>1. \A q \in Proc : Len(fds[q]) \in Nat /\ Len(fds[q]) <= MAX_FDS
    BY <1>1 DEF FileType, InvHolder
  <2> QED
    BY <1>3, <1>4, <1>7, <1>9, <1>10, <2>1
<1>16. \A q \in Proc : \A j \in 1 .. Len(fds'[q]) : fds'[q][j].ftab[1] <= ftab_base
  <2>1. NoFd.ftab[1] = 0
    BY NoFdFields DEF NoPointer
  <2>2. \A j \in 1 .. Len(tab) : tab[j].ftab[1] <= ftab_base
    <3> SUFFICES ASSUME NEW j \in 1 .. Len(tab) PROVE tab[j].ftab[1] <= ftab_base
      OBVIOUS
    <3>1. CASE j \in 1 .. Len(fds[p])
      BY <1>1, <1>2, <1>9, <3>1 DEF InvPointers
    <3>2. CASE j \notin 1 .. Len(fds[p])
      BY <1>1, <1>9, <2>1, <3>2
    <3> QED
      BY <3>1, <3>2
  <2> QED
    BY <1>1, <1>10, <2>2 DEF InvPointers
<1>17. /\ \A k \in 1 .. Len(ftab) : EntrySame(k)
       /\ ftab' \in Seq(EntryType) /\ Len(ftab') = Len(ftab)
  BY <1>1, <1>6 DEF EntrySame, FileType
<1>18. "fill" \notin InTable \union FdSteps \union {"fd_lock", "opened"} /\ pc[t] \notin InTable
  BY <1>1 DEF InTable, FdSteps, CloseSteps
<1>19. L.ptr[1] <= ftab_base
  BY <1>1, <1>8 DEF InvPointers
<1>20. FileType' /\ InvThreads'
  BY <1>6, <1>8, <1>10, <1>11, <1>13, <1>14, <1>15, <1>16, <1>17, <1>18, <1>19, UseStep
<1>21. ASSUME NEW k \in 1 .. Len(ftab) PROVE EntryInv(k)'
  <2>1. EntryInv(k) /\ EntrySame(k)
    BY <1>17 DEF FileInv, InvEntries
  <2>2. DescriptorsKept(k)
    <3> SUFFICES ASSUME NEW d \in Descriptors(k)'
                 PROVE  /\ d \in Descriptors(k) /\ FdAt(d)'.for = FdAt(d).for
                        /\ FdAt(d)'.read = FdAt(d).read /\ FdAt(d)'.write = FdAt(d).write
      BY DEF DescriptorsKept
    <3>1. /\ d \in Proc \X (1 .. MAX_FDS) /\ d[1] \in Proc /\ d[2] \in DOMAIN fds'[d[1]]
          /\ fds'[d[1]][d[2]].ftab = <<ftab_base, k>>
          /\ \A v \in Thread : local'[v].proc = d[1] =>
               ~(pc'[v] = "close_unlock" /\ local'[v].fd = d[2])
      BY <1>6 DEF Descriptors
    <3>2. d[2] \in 1 .. Len(fds[d[1]]) /\ fds'[d[1]][d[2]] = fds[d[1]][d[2]]
      <4>1. CASE d[1] # p
        <5>1. fds'[d[1]] = fds[d[1]] /\ fds[d[1]] \in Seq(FdType)
          BY <1>1, <1>10, <3>1, <4>1 DEF FileType
        <5> QED
          BY <3>1, <5>1
      <4>2. CASE d[1] = p
        <5>1. d[2] \in 1 .. Len(tab) /\ tab[d[2]].ftab = <<ftab_base, k>>
          BY <1>9, <1>10, <3>1, <4>2
        <5>2. NoFd.ftab # <<ftab_base, k>>
          BY NoFdFields DEF NoPointer
        <5>3. d[2] \in 1 .. Len(fds[p])
          BY <1>9, <5>1, <5>2
        <5>4. tab[d[2]] = fds[p][d[2]]
          BY <1>9, <5>3
        <5> QED
          BY <1>10, <4>2, <5>3, <5>4
      <4> QED
        BY <4>1, <4>2
    <3>3. \A v \in Thread : local[v].proc = d[1] => ~(pc[v] = "close_unlock" /\ local[v].fd = d[2])
      BY <1>1, <1>12, <3>1 DEF Mine
    <3>4. DOMAIN fds[d[1]] = 1 .. Len(fds[d[1]]) /\ pc \in [Thread -> FileSteps]
      BY <1>1, <3>1 DEF FileType
    <3>5. d \in Descriptors(k)
      BY <3>1, <3>2, <3>3, <3>4 DEF Descriptors, FileSteps, OpenSteps, FdSteps, CloseSteps
    <3> QED
      BY <3>2, <3>5 DEF FdAt
  <2>3. OpeningKept(k)
    <3>1. t \in Opening(k)' => t \in Opening(k)
      BY <1>1, <1>6, <1>8, <1>12 DEF Opening
    <3> QED
      BY <1>6, <1>8, <1>12, <3>1, SameOpening
  <2> QED
    BY <1>1, <2>1, <2>2, <2>3, EntryKept
<1> QED
  BY <1>17, <1>20, <1>21 DEF FileInv, InvEntries
-----------------------------------------------------------------------------
(***************************************************************************)
(* Processes: who has which (exec/process.c).                              *)
(***************************************************************************)
\* A process is opened for by its own threads, and before it runs by the one that
\* creates it.
InvProcs ==
  /\ procs[proc_kernel] = "alive"
  /\ \A t \in Thread : local[t].op = "open" => local[t].proc = owner[t]
  /\ \A t \in Thread : local[t].op = "start" =>
       local[t].proc = proc_kernel \/ procs[local[t].proc] = "new"
  /\ \A t, u \in Thread :
       local[t].op = "start" /\ local[u].op = "start" /\ local[t].proc = local[u].proc => t = u
  /\ \A t \in Thread : pc[t] = "fill" => local[t].fd \in 1 .. Len(fds[local[t].proc])

\* The descriptor is filled: who was about to use the entry uses it by the
\* descriptor (exec/process.c).
LEMMA Fills ==
  ASSUME FileInv, InvProcs, NEW t \in Thread, Fill(t)
  PROVE  FileInv' /\ \A q \in Proc : Len(fds'[q]) = Len(fds[q])
<1> DEFINE p == local[t].proc
           i == local[t].fd
           f == [ftab |-> local[t].ptr, read |-> local[t].read, write |-> local[t].write,
                 mutex |-> FALSE, for |-> local[t].node]
<1>1. FileType /\ InvHolder /\ InvPointers /\ OpsAt(t) /\ pc[t] = "fill" /\ ftab_base \in Nat
  BY DEF FileInv, InvThreads, InvOps, Fill, At, FileType
<1>2. p \in Proc /\ i \in 1 .. Len(fds[p])
  BY <1>1 DEF OpsAt, OpenSteps, InvProcs
<1>3. fds[p][i].mutex = FALSE /\ FdWritten(p, i, f) /\ OpenReturned(t)
      /\ UNCHANGED <<ftab, ftab_mutex, ftab_base, procs>>
  BY <1>1, <1>2, FdFields DEF Fill, FdWritten, table
<1>4. f \in FdType
  BY <1>1, LocalFields DEF FdType
<1>5. f.ftab = local[t].ptr /\ f.for = local[t].node /\ f.read = local[t].read
      /\ f.write = local[t].write
  OBVIOUS
<1> HIDE DEF f
<1>6. pc[t] \in OpenSteps /\ pc[t] \notin InTable
  BY <1>1 DEF OpenSteps, InTable
<1>7. PICK L \in LocalType, s \in {"idle", "ftab_lock", "done"} :
             GoesTo(t, L, s) /\ L.ptr = NoPointer /\ OpsAt(t)' /\ AloneAt(t)'
  BY <1>3, <1>6, Returned
<1>8. pc'[t] = s /\ local'[t] = L /\ Mine(t) /\ s \in FileSteps
  BY <1>1, <1>7, WhereItGoes
<1>9. /\ fds' \in [Proc -> Seq(FdType)] /\ \A q \in Proc : Len(fds'[q]) = Len(fds[q])
      /\ fds'[p][i] = f
      /\ \A q \in Proc : \A j \in 1 .. Len(fds[q]) : q # p \/ j # i => fds'[q][j] = fds[q][j]
  BY <1>1, <1>2, <1>3, <1>4, FdSet
<1>10. \A u \in Thread \ {t} : pc[u] \in FdSteps =>
         fds'[owner[u]][local[u].fd] = fds[owner[u]][local[u].fd]
  <2>1. \A u \in Thread : pc[u] \in FdSteps =>
          owner[u] \in Proc /\ local[u].fd \in 1 .. Len(fds[owner[u]])
            /\ fds[owner[u]][local[u].fd].mutex = TRUE
    BY Held DEF HeldBy
  <2>2. \A u \in Thread : pc[u] \in FdSteps => owner[u] # p \/ local[u].fd # i
    BY <1>3, <2>1
  <2> QED
    BY <1>9, <2>1, <2>2
<1>11. \A q \in Proc : Len(fds[q]) <= Len(fds'[q]) /\ Len(fds'[q]) <= MAX_FDS /\ Len(fds[q]) \in Nat
  <2>1. \A q \in Proc : Len(fds[q]) \in Nat
    BY <1>1 DEF FileType
  <2> QED
    BY <1>1, <1>9, <2>1 DEF InvHolder
<1>12. local[t].ptr[1] <= ftab_base
  BY <1>1 DEF InvPointers
<1>13. \A q \in Proc : \A j \in 1 .. Len(fds'[q]) : fds'[q][j].ftab[1] <= ftab_base
  BY <1>1, <1>5, <1>9, <1>12 DEF InvPointers
<1>14. L.ptr[1] <= ftab_base
  <2>1. L.ptr[1] = 0
    BY <1>7 DEF NoPointer
  <2> QED
    BY <1>1, <2>1
<1>15. s \notin InTable \union FdSteps \union {"fd_lock", "opened", "unlock", "slot", "fill"}
  BY DEF InTable, FdSteps, CloseSteps
<1>16. /\ \A k \in 1 .. Len(ftab) : EntrySame(k)
       /\ ftab' \in Seq(EntryType) /\ Len(ftab') = Len(ftab)
  BY <1>1, <1>3 DEF EntrySame, FileType
<1>17. FileType' /\ InvThreads'
  BY <1>3, <1>6, <1>7, <1>8, <1>9, <1>10, <1>11, <1>13, <1>14, <1>15, <1>16, UseStep
<1>18. ASSUME NEW k \in 1 .. Len(ftab), NEW d \in Descriptors(k)'
       PROVE  \/ d = <<p, i>> /\ local[t].ptr = <<ftab_base, k>>
              \/ d \in Descriptors(k) /\ fds'[d[1]][d[2]] = fds[d[1]][d[2]]
  <2>1. /\ d \in Proc \X (1 .. MAX_FDS) /\ d[1] \in Proc /\ d[2] \in DOMAIN fds'[d[1]]
        /\ fds'[d[1]][d[2]].ftab = <<ftab_base, k>>
        /\ \A v \in Thread : local'[v].proc = d[1] =>
             ~(pc'[v] = "close_unlock" /\ local'[v].fd = d[2])
    BY <1>3, <1>18 DEF Descriptors
  <2>2. d[2] \in 1 .. Len(fds[d[1]]) /\ DOMAIN fds[d[1]] = 1 .. Len(fds[d[1]])
    <3>1. fds'[d[1]] \in Seq(FdType) /\ fds[d[1]] \in Seq(FdType) /\ Len(fds'[d[1]]) = Len(fds[d[1]])
      BY <1>1, <1>9, <2>1 DEF FileType
    <3> QED
      BY <2>1, <3>1
  <2>3. CASE d[1] = p /\ d[2] = i
    <3>1. d = <<p, i>>
      BY <2>1, <2>3
    <3> QED
      BY <1>5, <1>9, <2>1, <2>3, <3>1
  <2>4. CASE d[1] # p \/ d[2] # i
    <3>1. fds'[d[1]][d[2]] = fds[d[1]][d[2]]
      BY <1>9, <2>1, <2>2, <2>4
    <3>2. \A v \in Thread : local[v].proc = d[1] =>
            ~(pc[v] = "close_unlock" /\ local[v].fd = d[2])
      BY <1>1, <1>8, <2>1 DEF Mine
    <3>3. pc \in [Thread -> FileSteps]
      BY <1>1 DEF FileType
    <3>4. d \in Descriptors(k)
      BY <2>1, <2>2, <3>1, <3>2, <3>3 DEF Descriptors, FileSteps, OpenSteps, FdSteps, CloseSteps
    <3> QED
      BY <3>1, <3>4
  <2> QED
    BY <2>3, <2>4
<1>19. ASSUME NEW k \in 1 .. Len(ftab), NEW u \in Opening(k)'
       PROVE  u # t /\ u \in Opening(k) /\ local'[u] = local[u]
  BY <1>3, <1>8, <1>15, <1>19 DEF Opening, Mine
<1>20. ASSUME NEW k \in 1 .. Len(ftab), local[t].ptr # <<ftab_base, k>> PROVE EntryInv(k)'
  <2>1. DescriptorsKept(k)
    BY <1>18, <1>20 DEF DescriptorsKept, FdAt
  <2>2. OpeningKept(k)
    BY <1>19 DEF OpeningKept
  <2>3. EntryInv(k) /\ EntrySame(k)
    BY <1>16 DEF FileInv, InvEntries
  <2> QED
    BY <1>1, <2>1, <2>2, <2>3, EntryKept
<1>21. ASSUME NEW k \in 1 .. Len(ftab), local[t].ptr = <<ftab_base, k>> PROVE EntryInv(k)'
  <2> DEFINE d == <<p, i>>
             D == Descriptors(k)
             O == Opening(k)
  <2>1. EntryInv(k) /\ ftab' = ftab /\ ftab[k].refs \in Nat
    BY <1>1, <1>3, EntryFields DEF FileInv, InvEntries
  <2>2. t \in O
    BY <1>1, <1>21 DEF Opening
  <2>3. d \in Proc \X (1 .. MAX_FDS)
    <3>1. i \in 1 .. MAX_FDS
      BY <1>2, <1>9, <1>11, Constants
    <3> QED
      BY <1>2, <3>1
  <2>4. Descriptors(k)' \subseteq D \union {d} /\ Opening(k)' \subseteq O \ {t}
    BY <1>18, <1>19
  <2> HIDE DEF d, D, O
  <2>5. D \in SUBSET (Proc \X (1 .. MAX_FDS)) /\ O \in SUBSET Thread
    BY Users DEF D, O
  <2>6. Cardinality(Descriptors(k)') <= Cardinality(D \union {d})
        /\ Cardinality(D \union {d}) <= Cardinality(D) + 1
    <3>1. D \union {d} \in SUBSET (Proc \X (1 .. MAX_FDS))
      BY <2>3, <2>5
    <3> QED
      BY <2>3, <2>4, <2>5, <3>1, FewerUsers, OneMoreUser
  <2>7. Cardinality(Opening(k)') <= Cardinality(O \ {t})
        /\ Cardinality(O \ {t}) = Cardinality(O) - 1
    <3>1. O \ {t} \in SUBSET Thread
      BY <2>5
    <3> QED
      BY <2>2, <2>4, <2>5, <3>1, FewerUsers, OneMoreUser
  <2>8. /\ Cardinality(D) \in Nat /\ Cardinality(O) \in Nat /\ Cardinality(D \union {d}) \in Nat
        /\ Cardinality(Descriptors(k)') \in Nat /\ Cardinality(Opening(k)') \in Nat
    BY <2>3, <2>5, Users, FiniteUsers
  <2>9. ftab[k].refs >= Cardinality(D) + Cardinality(O)
    BY <2>1 DEF EntryInv, D, O
  <2>10. ftab[k].refs >= Cardinality(Descriptors(k)') + Cardinality(Opening(k)')
    BY <2>1, <2>6, <2>7, <2>8, <2>9
  <2>11. ftab[k].node = NULL <=> ftab[k].refs = 0
    BY <2>1 DEF EntryInv
  <2>12. Serves(ftab[k], local[t].node, local[t].read, local[t].write, p)
    BY <2>1, <2>2 DEF EntryInv, O
  <2>13. \A c \in Descriptors(k)' :
           Serves(ftab[k], fds'[c[1]][c[2]].for, fds'[c[1]][c[2]].read, fds'[c[1]][c[2]].write, c[1])
    <3> SUFFICES ASSUME NEW c \in Descriptors(k)'
                 PROVE  Serves(ftab[k], fds'[c[1]][c[2]].for, fds'[c[1]][c[2]].read,
                               fds'[c[1]][c[2]].write, c[1])
      OBVIOUS
    <3>1. CASE c = <<p, i>>
      <4>1. c[1] = p /\ c[2] = i /\ fds'[c[1]][c[2]] = f
        BY <1>9, <3>1
      <4> QED
        BY <1>5, <2>12, <4>1
    <3>2. CASE c \in Descriptors(k) /\ fds'[c[1]][c[2]] = fds[c[1]][c[2]]
      BY <2>1, <3>2 DEF EntryInv, FdAt
    <3> QED
      BY <1>18, <3>1, <3>2
  <2>14. \A u \in Opening(k)' :
           Serves(ftab[k], local'[u].node, local'[u].read, local'[u].write, local'[u].proc)
    BY <1>19, <2>1 DEF EntryInv
  <2> QED
    BY <2>1, <2>10, <2>11, <2>13, <2>14 DEF EntryInv, FdAt
<1> QED
  BY <1>9, <1>16, <1>17, <1>20, <1>21 DEF FileInv, InvEntries
\* ftab_close() drops the reference of the descriptor that is being closed, which
\* is no longer counted, and clears the entry with the last one (fs/ftab.c).
LEMMA Closes ==
  ASSUME FileInv, NEW t \in Thread, Close(t)
  PROVE  FileInv'
<1> USE DEF HeldBy
<1> DEFINE p == owner[t]
           i == local[t].fd
           d == <<p, i>>
<1>n. PICK n \in 1 .. Len(ftab) : n = local[t].ptr[2]
  BY DEF Close, Valid, FileInv, FileType
<1> DEFINE e == Dropped(ftab[n])
<1>1. pc[t] = "close" /\ pc[t] \in FdSteps
  BY DEF Close, At, FdSteps, CloseSteps
<1>2. HeldBy(t)
  BY <1>1, Held
<1>3. FileType /\ InvOps /\ InvAlone /\ ftab \in Seq(EntryType) /\ pc \in [Thread -> FileSteps]
  BY DEF FileInv, InvThreads, FileType
<1>4. /\ ftab' = [ftab EXCEPT ![n] = e] /\ pc' = [pc EXCEPT ![t] = "close_unlock"]
      /\ UNCHANGED <<ftab_mutex, ftab_base, procs, fds, local>>
      /\ local[t].ptr[1] = ftab_base
  BY <1>n, <1>3 DEF Close, Goto, Valid
<1>5. \A u \in Thread : pc[u] \notin OpenSteps
  <2>1. local[t].op = "close"
    BY <1>1, <1>3 DEF InvOps, OpsAt, CloseSteps
  <2> QED
    BY <1>3, <2>1 DEF InvOps, InvAlone, OpsAt
<1>6. ftab[n] \in EntryType /\ ftab[n].refs \in Nat
  BY <1>3, <1>4, EntryFields
<1>7. ftab[n].refs = 1 => e = NoEntry
  BY DEF Dropped
<1>8. ftab[n].refs > 1 => /\ e \in EntryType /\ e.refs = ftab[n].refs - 1 /\ e.node = ftab[n].node
                          /\ e.read = ftab[n].read /\ e.write = ftab[n].write
                          /\ e.excl = ftab[n].excl
  <2> SUFFICES ASSUME ftab[n].refs > 1
               PROVE  /\ e \in EntryType /\ e.refs = ftab[n].refs - 1 /\ e.node = ftab[n].node
                      /\ e.read = ftab[n].read /\ e.write = ftab[n].write
                      /\ e.excl = ftab[n].excl
    OBVIOUS
  <2>1. e = [ftab[n] EXCEPT !.refs = @ - 1] /\ ftab[n].refs - 1 \in Nat
    BY <1>6 DEF Dropped
  <2> QED
    BY <1>6, <2>1 DEF EntryType
<1> HIDE DEF e
<1>9. d \in Descriptors(n)
  <2>1. d \in Proc \X (1 .. MAX_FDS)
    BY <1>2, Constants
  <2>2. local[t].ptr = <<ftab_base, n>>
    BY <1>n, <1>3, <1>4, LocalFields
  <2>3. \A u \in Thread : local[u].proc = p => ~(pc[u] = "close_unlock" /\ local[u].fd = i)
    <3> SUFFICES ASSUME NEW u \in Thread, local[u].proc = p, pc[u] = "close_unlock",
                        local[u].fd = i
                 PROVE  FALSE
      OBVIOUS
    <3>1. u # t /\ pc[u] \in FdSteps
      BY <1>1 DEF FdSteps, CloseSteps
    <3>2. owner[u] = p
      BY <3>1, Held
    <3> QED
      BY <1>2, <3>1, <3>2
  <2>4. i \in DOMAIN fds[p] /\ fds[p][i].ftab = <<ftab_base, n>>
    <3>1. fds[p] \in Seq(FdType)
      BY <1>2 DEF FileType
    <3> QED
      BY <1>2, <2>2, <3>1
  <2> QED
    BY <1>3, <2>1, <2>3, <2>4 DEF Descriptors, FileSteps, OpenSteps, FdSteps, CloseSteps
<1>10. EntryInv(n) /\ Descriptors(n) \in SUBSET (Proc \X (1 .. MAX_FDS))
       /\ Cardinality(Descriptors(n) \ {d}) = Cardinality(Descriptors(n)) - 1
       /\ Cardinality(Descriptors(n)) \in Nat /\ Cardinality(Opening(n)) \in Nat
       /\ Cardinality(Descriptors(n) \ {d}) \in Nat
  <2>1. EntryInv(n)
    BY <1>4 DEF FileInv, InvEntries
  <2>2. Descriptors(n) \in SUBSET (Proc \X (1 .. MAX_FDS))
    BY Users
  <2>3. Cardinality(Descriptors(n) \ {d}) = Cardinality(Descriptors(n)) - 1
    BY <1>9, <2>2, OneMoreUser
  <2>4. Descriptors(n) \ {d} \in SUBSET (Proc \X (1 .. MAX_FDS))
    BY <2>2
  <2>5. Cardinality(Descriptors(n)) \in Nat /\ Cardinality(Opening(n)) \in Nat
        /\ Cardinality(Descriptors(n) \ {d}) \in Nat
    BY <2>4, Users, FiniteUsers
  <2> QED
    BY <2>1, <2>2, <2>3, <2>5
<1>11. ftab[n].refs >= 1 /\ ftab[n].refs - 1 >= Cardinality(Descriptors(n) \ {d})
  BY <1>6, <1>10 DEF EntryInv
<1>12. e \in EntryType
  <2>1. NoEntry \in EntryType
    BY DEF NoEntry, EntryType
  <2> QED
    BY <1>6, <1>7, <1>8, <1>11, <2>1
<1>13. /\ ftab' \in Seq(EntryType) /\ Len(ftab') = Len(ftab) /\ ftab'[n] = e
       /\ \A k \in 1 .. Len(ftab) : k # n => ftab'[k] = ftab[k] /\ EntrySame(k)
  BY <1>3, <1>4, <1>12, EntrySet
<1>14. GoesTo(t, local[t], "close_unlock") /\ "close_unlock" \in FileSteps
       /\ "close_unlock" \notin InTable \union {"fd_lock", "opened"}
       /\ "close_unlock" \in FdSteps
  BY <1>2, <1>3, <1>4 DEF GoesTo, FileSteps, FdSteps, CloseSteps, InTable, FileType
<1>15. pc'[t] = "close_unlock" /\ local'[t] = local[t] /\ Mine(t)
  BY <1>3, <1>14, WhereItGoes
<1>16. OpsAt(t)' /\ AloneAt(t)'
  <2>1. OpsAt(t)'
    BY <1>1, <1>2, <1>15 DEF OpsAt, OpenSteps, FdSteps, CloseSteps
  <2> QED
    BY <1>15, <2>1, AloneKept
<1>17. fds' = fds /\ fds \in [Proc -> Seq(FdType)]
       /\ \A q \in Proc : Len(fds[q]) <= Len(fds'[q]) /\ Len(fds'[q]) <= MAX_FDS
  BY <1>2, <1>4 DEF FileType
<1>18. FileType' /\ InvThreads'
  <2>1. /\ \A u \in Thread \ {t} : pc[u] \in FdSteps =>
             fds'[owner[u]][local[u].fd] = fds[owner[u]][local[u].fd]
        /\ fds'[p][i].mutex = TRUE /\ fds'[p][i].ftab = local[t].ptr
    BY <1>2, <1>17
  <2>2. \A q \in Proc : \A j \in 1 .. Len(fds'[q]) : fds'[q][j].ftab[1] <= ftab_base
    BY <1>2, <1>17
  <2> QED
    BY <1>2, <1>4, <1>5, <1>13, <1>14, <1>16, <1>17, <2>1, <2>2, UseStep
<1>19. ASSUME NEW k \in 1 .. Len(ftab) PROVE DescriptorsKept(k) /\ (k = n => d \notin Descriptors(k)')
  <2>1. DescriptorsKept(k)
    BY <1>1, <1>4, <1>15, SameDescriptors
  <2>2. d \notin Descriptors(k)'
    <3>1. local'[t].proc = p /\ local'[t].fd = i
      BY <1>2, <1>15
    <3> QED
      BY <1>15, <3>1 DEF Descriptors
  <2> QED
    BY <2>1, <2>2
<1>20. ASSUME NEW k \in 1 .. Len(ftab) PROVE Opening(k)' = {}
  <2> SUFFICES ASSUME NEW u \in Thread PROVE u \notin Opening(k)'
    BY DEF Opening
  <2>1. pc'[u] = "close_unlock" \/ pc'[u] = pc[u]
    BY <1>15 DEF Mine
  <2> QED
    BY <1>5, <2>1 DEF Opening, OpenSteps
<1>21. ASSUME NEW k \in 1 .. Len(ftab), k # n PROVE EntryInv(k)'
  <2>1. OpeningKept(k)
    BY <1>20 DEF OpeningKept
  <2>2. EntryInv(k)
    BY DEF FileInv, InvEntries
  <2> QED
    BY <1>3, <1>13, <1>19, <1>21, <2>1, <2>2, EntryKept
<1>22. EntryInv(n)'
  <2>1. Descriptors(n)' \subseteq Descriptors(n) \ {d}
    BY <1>4, <1>19 DEF DescriptorsKept
  <2>2. Cardinality(Descriptors(n)') <= Cardinality(Descriptors(n) \ {d})
        /\ Cardinality(Descriptors(n)') \in Nat
    <3>1. Descriptors(n) \ {d} \in SUBSET (Proc \X (1 .. MAX_FDS))
      BY <1>10
    <3> QED
      BY <2>1, <3>1, FewerUsers, Users
  <2>3. Opening(n)' = {} /\ Cardinality(Opening(n)') = 0
    BY <1>4, <1>20, FS_EmptySet
  <2>4. e.refs >= Cardinality(Descriptors(n)') + Cardinality(Opening(n)')
    <3>1. e.refs = ftab[n].refs - 1
      <4>1. NoEntry.refs = 0
        BY DEF NoEntry
      <4> QED
        BY <1>6, <1>7, <1>8, <1>11, <4>1
    <3>2. ftab[n].refs - 1 >= Cardinality(Descriptors(n)')
      BY <1>6, <1>10, <1>11, <2>2
    <3> QED
      BY <1>6, <2>2, <2>3, <3>1, <3>2
  <2>5. e.node = NULL <=> e.refs = 0
    <3>1. CASE ftab[n].refs = 1
      BY <1>7, <3>1 DEF NoEntry
    <3>2. CASE ftab[n].refs > 1
      <4>1. ftab[n].node # NULL
        BY <1>10, <3>2 DEF EntryInv
      <4>2. e.refs # 0
        BY <1>6, <1>8, <3>2
      <4> QED
        BY <1>8, <3>2, <4>1, <4>2
    <3> QED
      BY <1>6, <1>11, <3>1, <3>2
  <2>6. \A c \in Descriptors(n)' : Serves(e, FdAt(c)'.for, FdAt(c)'.read, FdAt(c)'.write, c[1])
    <3> SUFFICES ASSUME NEW c \in Descriptors(n)'
                 PROVE  Serves(e, FdAt(c)'.for, FdAt(c)'.read, FdAt(c)'.write, c[1])
      OBVIOUS
    <3>1. ftab[n].refs > 1
      <4>1. CASE ftab[n].refs = 1
        <5>1. Cardinality(Descriptors(n)') = 0
          BY <1>10, <1>11, <2>2, <4>1
        <5>2. IsFiniteSet(Descriptors(n)')
          BY Users, FiniteUsers
        <5> QED
          BY <5>1, <5>2, FS_EmptySet
      <4> QED
        BY <1>6, <1>11, <4>1
    <3>2. Serves(ftab[n], FdAt(c).for, FdAt(c).read, FdAt(c).write, c[1])
      BY <1>10, <2>1 DEF EntryInv
    <3>3. FdAt(c)' = FdAt(c)
      BY <1>17 DEF FdAt
    <3> QED
      BY <1>8, <3>1, <3>2, <3>3 DEF Serves
  <2>7. \A u \in Opening(n)' :
          Serves(e, local'[u].node, local'[u].read, local'[u].write, local'[u].proc)
    BY <2>3
  <2> QED
    BY <1>13, <2>4, <2>5, <2>6, <2>7 DEF EntryInv
<1> QED
  BY <1>13, <1>18, <1>21, <1>22 DEF FileInv, InvEntries
\* A process ends, with its threads and its descriptors: what the others use is
\* what they used (exec/process.c).
LEMMA Exits ==
  ASSUME FileInv, InvProcs, NEW t \in Thread, Exit(t)
  PROVE  FileInv' /\ InvProcs'
<1> DEFINE p == owner[t]
<1>1. /\ FileType /\ InvOps /\ InvAlone /\ InvLock /\ InvScan /\ InvPointers /\ InvHolder
      /\ owner \in [Thread -> Proc] /\ p \in Proc /\ MAX_FDS \in Nat
  BY Constants DEF FileInv, InvThreads
<1>2. /\ procs[p] = "alive" /\ p # proc_kernel
      /\ procs' = [procs EXCEPT ![p] = "free"] /\ fds' = [fds EXCEPT ![p] = <<>>]
      /\ UNCHANGED <<ftab, ftab_mutex, ftab_base>>
  BY DEF Exit, At, Running, table
<1>3. NoLocal \in LocalType /\ NoLocal.op = "none" /\ NoLocal.ptr = NoPointer
  BY NoLocalFields
<1>4. \A u \in Thread : owner[u] = p => pc'[u] = "idle" /\ local'[u] = NoLocal
  BY DEF Exit
<1>5. \A u \in Thread : owner[u] # p => pc'[u] = pc[u] /\ local'[u] = local[u]
  BY DEF Exit
<1>6. FileType'
  <2>1. pc' \in [Thread -> FileSteps] /\ local' \in [Thread -> LocalType]
    BY <1>1, <1>3 DEF Exit, FileType, FileSteps
  <2>2. fds' \in [Proc -> Seq(FdType)] /\ procs' \in [Proc -> {"free", "new", "alive"}]
    BY <1>1, <1>2 DEF FileType
  <2> QED
    BY <1>1, <1>2, <2>1, <2>2 DEF FileType
<1>7. fds'[p] = <<>> /\ \A q \in Proc : q # p => fds'[q] = fds[q]
  BY <1>1, <1>2 DEF FileType
<1>8. InvOps'
  <2> SUFFICES ASSUME NEW u \in Thread PROVE OpsAt(u)'
    BY DEF InvOps
  <2>1. CASE owner[u] = p
    BY <1>3, <1>4, <2>1 DEF OpsAt, OpenSteps, FdSteps, CloseSteps
  <2>2. CASE owner[u] # p
    BY <1>1, <1>5, <2>2 DEF InvOps, OpsAt
  <2> QED
    BY <2>1, <2>2
<1>9. InvAlone'
  BY <1>1, <1>3, <1>4, <1>5 DEF InvAlone
<1>10. InvLock'
  BY <1>1, <1>2, <1>4, <1>5 DEF InvLock, InTable
<1>11. InvScan'
  <2> SUFFICES ASSUME NEW u \in Thread PROVE ScanAt(u)'
    BY DEF InvScan
  <2>1. CASE owner[u] = p
    BY <1>4, <2>1 DEF ScanAt, InTable
  <2>2. CASE owner[u] # p
    BY <1>1, <1>2, <1>5, <2>2 DEF InvScan, ScanAt, Widened, Denied
  <2> QED
    BY <2>1, <2>2
<1>12. InvPointers'
  <2>1. \A q \in Proc : \A i \in 1 .. Len(fds'[q]) : fds'[q][i].ftab[1] <= ftab_base
    BY <1>1, <1>7 DEF InvPointers
  <2>2. \A u \in Thread : local'[u].ptr[1] <= ftab_base
    <3>1. NoLocal.ptr[1] = 0 /\ ftab_base \in Nat
      BY <1>1, <1>3 DEF NoPointer, FileType
    <3> QED
      BY <1>1, <1>4, <1>5, <3>1 DEF InvPointers
  <2> QED
    BY <1>2, <2>1, <2>2 DEF InvPointers
<1>13. InvHolder'
  <2>1. \A q \in Proc : Len(fds'[q]) <= MAX_FDS
    BY <1>1, <1>7 DEF InvHolder
  <2>2. \A u \in Thread : pc'[u] \in FdSteps \union {"fd_lock"} =>
          pc'[u] = pc[u] /\ local'[u] = local[u] /\ fds'[owner[u]] = fds[owner[u]]
    BY <1>1, <1>4, <1>5, <1>7 DEF FdSteps, CloseSteps
  <2> QED
    BY <1>1, <2>1, <2>2 DEF InvHolder
<1>14. InvEntries'
  <2> SUFFICES ASSUME NEW k \in 1 .. Len(ftab) PROVE EntryInv(k)'
    BY <1>2 DEF InvEntries
  <2>1. EntryInv(k) /\ EntrySame(k)
    BY <1>2 DEF FileInv, InvEntries, EntrySame
  <2>2. DescriptorsKept(k)
    <3> SUFFICES ASSUME NEW d \in Descriptors(k)'
                 PROVE  /\ d \in Descriptors(k) /\ FdAt(d)'.for = FdAt(d).for
                        /\ FdAt(d)'.read = FdAt(d).read /\ FdAt(d)'.write = FdAt(d).write
      BY DEF DescriptorsKept
    <3>1. /\ d \in Proc \X (1 .. MAX_FDS) /\ d[1] \in Proc /\ d[2] \in DOMAIN fds'[d[1]]
          /\ fds'[d[1]][d[2]].ftab = <<ftab_base, k>>
          /\ \A v \in Thread : local'[v].proc = d[1] =>
               ~(pc'[v] = "close_unlock" /\ local'[v].fd = d[2])
      BY <1>2 DEF Descriptors
    <3>2. d[1] # p /\ fds'[d[1]] = fds[d[1]]
      BY <1>7, <3>1
    <3>3. \A v \in Thread : local[v].proc = d[1] =>
            ~(pc[v] = "close_unlock" /\ local[v].fd = d[2])
      <4> SUFFICES ASSUME NEW v \in Thread, local[v].proc = d[1], pc[v] = "close_unlock",
                          local[v].fd = d[2]
                   PROVE  FALSE
        OBVIOUS
      <4>1. owner[v] = d[1]
        BY <1>1 DEF InvOps, OpsAt, FdSteps, CloseSteps
      <4> QED
        BY <1>5, <3>1, <3>2, <4>1
    <3>4. pc \in [Thread -> FileSteps]
      BY <1>1 DEF FileType
    <3>5. d \in Descriptors(k)
      BY <3>1, <3>2, <3>3, <3>4 DEF Descriptors, FileSteps, OpenSteps, FdSteps, CloseSteps
    <3> QED
      BY <3>2, <3>5 DEF FdAt
  <2>3. OpeningKept(k)
    <3> SUFFICES ASSUME NEW u \in Opening(k)' PROVE u \in Opening(k) /\ local'[u] = local[u]
      BY DEF OpeningKept
    <3> QED
      BY <1>2, <1>4, <1>5 DEF Opening
  <2> QED
    BY <1>1, <2>1, <2>2, <2>3, EntryKept
<1>15. InvProcs'
  <2>1. procs'[proc_kernel] = "alive"
    BY <1>1, <1>2, FileTabAssumption DEF InvProcs, FileType
  <2>2. \A u \in Thread : local'[u].op = "open" => local'[u].proc = owner[u]
    BY <1>3, <1>4, <1>5 DEF InvProcs
  <2>3. \A u \in Thread : local'[u].op = "start" =>
          local[u].op = "start" /\ local'[u] = local[u] /\ owner[u] # p /\ local[u].proc # p
    BY <1>2, <1>3, <1>4, <1>5 DEF InvProcs
  <2>4. \A u \in Thread : local'[u].op = "start" =>
          local'[u].proc = proc_kernel \/ procs'[local'[u].proc] = "new"
    <3>1. \A q : q # p /\ procs[q] = "new" => procs'[q] = "new"
      BY <1>2
    <3> QED
      BY <2>3, <3>1 DEF InvProcs
  <2>5. \A u, v \in Thread :
          local'[u].op = "start" /\ local'[v].op = "start" /\ local'[u].proc = local'[v].proc => u = v
    BY <2>3 DEF InvProcs
  <2>6. \A u \in Thread : pc'[u] = "fill" => local'[u].fd \in 1 .. Len(fds'[local'[u].proc])
    <3> SUFFICES ASSUME NEW u \in Thread, pc'[u] = "fill"
                 PROVE  local'[u].fd \in 1 .. Len(fds'[local'[u].proc])
      OBVIOUS
    <3>1. owner[u] # p /\ pc[u] = "fill" /\ local'[u] = local[u]
      BY <1>4, <1>5
    <3>2. local[u].proc # p /\ local[u].proc \in Proc
      BY <1>1, <1>2, <3>1 DEF InvOps, OpsAt, OpenSteps, InvProcs
    <3> QED
      BY <1>7, <3>1, <3>2 DEF InvProcs
  <2> QED
    BY <2>1, <2>2, <2>4, <2>5, <2>6 DEF InvProcs
<1> QED
  BY <1>2, <1>6, <1>8, <1>9, <1>10, <1>11, <1>12, <1>13, <1>14, <1>15 DEF FileInv, InvThreads

\* The tables of descriptors have as many slots as before (exec/process.c).
LEMMA SlotsKept ==
  ASSUME FileType, FileType', NEW p, NEW i, NEW f, FdWritten(p, i, f)
  PROVE  \A q \in Proc : Len(fds'[q]) = Len(fds[q])
<1> SUFFICES ASSUME NEW q \in Proc PROVE Len(fds'[q]) = Len(fds[q])
  OBVIOUS
<1>1. fds[q] \in Seq(FdType) /\ fds'[q] \in Seq(FdType) /\ fds \in [Proc -> Seq(FdType)]
  BY DEF FileType
<1>2. DOMAIN fds'[q] = DOMAIN fds[q]
  BY <1>1 DEF FdWritten
<1>3. 1 .. Len(fds'[q]) = 1 .. Len(fds[q]) /\ Len(fds'[q]) \in Nat /\ Len(fds[q]) \in Nat
  BY <1>1, <1>2
<1> QED
  BY <1>3

\* A thread that stays with the process it opens for, or opens for its own.
StaysWith(t) ==
  /\ Mine(t) /\ procs' = procs /\ \A q \in Proc : Len(fds[q]) <= Len(fds'[q])
  /\ \/ local'[t].op \in {"none", "read", "write", "close"}
     \/ local'[t].op = local[t].op /\ local'[t].proc = local[t].proc
     \/ local'[t].op = "open" /\ local'[t].proc = owner[t]
  /\ pc'[t] = "fill" => local'[t].fd \in 1 .. Len(fds'[local'[t].proc])
\* Who opens for which process stays (exec/process.c).
LEMMA ProcsStay ==
  ASSUME FileInv, FileInv', InvProcs, NEW t \in Thread, StaysWith(t)
  PROVE  InvProcs'
<1>1. procs'[proc_kernel] = "alive"
  BY DEF InvProcs, StaysWith
<1>2. \A u \in Thread : local'[u].op = "open" => local'[u].proc = owner[u]
  BY DEF InvProcs, StaysWith, Mine
<1>3. \A u \in Thread : local'[u].op = "start" => local[u].op = "start" /\ local'[u].proc = local[u].proc
  BY DEF StaysWith, Mine
<1>4. \A u \in Thread : pc'[u] = "fill" => local'[u].fd \in 1 .. Len(fds'[local'[u].proc])
  <2> SUFFICES ASSUME NEW u \in Thread, pc'[u] = "fill", u # t
               PROVE  local'[u].fd \in 1 .. Len(fds'[local'[u].proc])
    BY DEF StaysWith
  <2>1. pc[u] = "fill" /\ local'[u] = local[u] /\ local[u].proc \in Proc
    BY DEF StaysWith, Mine, FileInv, InvThreads, InvOps, OpsAt, OpenSteps
  <2>2. local[u].fd \in 1 .. Len(fds[local[u].proc])
    BY <2>1 DEF InvProcs
  <2>3. /\ Len(fds[local[u].proc]) \in Nat /\ Len(fds'[local[u].proc]) \in Nat
        /\ Len(fds[local[u].proc]) <= Len(fds'[local[u].proc])
    BY <2>1 DEF StaysWith, FileInv, FileType
  <2> QED
    BY <2>1, <2>2, <2>3
<1>5. \A u \in Thread : local'[u].op = "start" =>
        local'[u].proc = proc_kernel \/ procs'[local'[u].proc] = "new"
  BY <1>3 DEF InvProcs, StaysWith
<1>6. \A u, v \in Thread :
        local'[u].op = "start" /\ local'[v].op = "start" /\ local'[u].proc = local'[v].proc => u = v
  BY <1>3 DEF InvProcs
<1> QED
  BY <1>1, <1>2, <1>4, <1>5, <1>6 DEF InvProcs

\* proc_fd_open() returns for the process that it opened for (exec/process.c).
LEMMA ReturnStays ==
  ASSUME FileInv, NEW t \in Thread, OpenReturned(t), pc[t] \in OpenSteps, procs' = procs,
         \A q \in Proc : Len(fds[q]) <= Len(fds'[q])
  PROVE  StaysWith(t)
<1>1. FileType /\ OpsAt(t) /\ local[t].proc \in Proc /\ local[t].op \in {"open", "start"}
  BY DEF FileInv, InvThreads, InvOps, OpsAt
<1>2. CASE local[t].op = "open"
  <2>1. pc'[t] = "idle" /\ local'[t] = NoLocal /\ Mine(t)
    BY <1>1, <1>2 DEF OpenReturned, Return, Goto, FileType, Mine
  <2> QED
    BY <2>1, NoLocalFields DEF StaysWith
<1>3. CASE local[t].op = "start"
  <2> DEFINE L == LocalsAgain(local[t].op, local[t].proc, local[t].left - 1)
  <2>1. local[t].left - 1 \in Int
    BY <1>1, LocalFields
  <2>2. L.op = local[t].op /\ L.proc = local[t].proc
    BY <1>1, <1>3, <2>1, AfreshConsole
  <2>3. local' = [local EXCEPT ![t] = L]
    BY <1>3 DEF OpenReturned, LocalsAgain
  <2> HIDE DEF L
  <2>4. local'[t] = L /\ pc'[t] # "fill" /\ Mine(t)
    BY <1>1, <1>3, <2>3 DEF OpenReturned, Goto, FileType, Mine
  <2> QED
    BY <2>2, <2>4 DEF StaysWith
<1> QED
  BY <1>1, <1>2, <1>3

\* An open stays with the process it is for (fs/ftab.c, exec/process.c).
LEMMA OpenStays ==
  ASSUME FileInv, InvProcs, NEW t \in Thread, FdOpenStep(t),
         \A q \in Proc : Len(fds[q]) <= Len(fds'[q])
  PROVE  StaysWith(t)
<1>1. FileType /\ local[t] \in LocalType /\ pc \in [Thread -> FileSteps]
      /\ local \in [Thread -> LocalType]
  BY DEF FileInv, FileType
<1>2. CASE FdOpen(t)
  <2>1. PICK node \in Node, dup \in Duplicate, ex \in Exclusive, mode \in Mode :
               local' = [local EXCEPT ![t] =
                           LocalsOf(owner[t], node, dup, mode = "r", mode = "w", ex)]
    BY <1>2 DEF FdOpen, LocalsOf
  <2>2. dup \in BOOLEAN /\ ex \in BOOLEAN /\ (mode = "r") \in BOOLEAN /\ (mode = "w") \in BOOLEAN
        /\ owner[t] \in Proc
    BY Constants
  <2> DEFINE L == LocalsOf(owner[t], node, dup, mode = "r", mode = "w", ex)
  <2>3. L.op = "open" /\ L.proc = owner[t]
    <3>1. \A r, w \in BOOLEAN : LET l == LocalsOf(owner[t], node, dup, r, w, ex) IN
            l.op = "open" /\ l.proc = owner[t]
      <4> SUFFICES ASSUME NEW r \in BOOLEAN, NEW w \in BOOLEAN,
                          NEW l, l = LocalsOf(owner[t], node, dup, r, w, ex)
                   PROVE  l.op = "open" /\ l.proc = owner[t]
        OBVIOUS
      <4> QED
        BY <2>2, AfreshFile
    <3> QED
      BY <2>2, <3>1, Zenon
  <2>4. local' = [local EXCEPT ![t] = L]
    BY <2>1
  <2> HIDE DEF L
  <2>5. local'[t] = L /\ pc'[t] = "ftab_lock" /\ Mine(t) /\ procs' = procs
    BY <1>1, <1>2, <2>4 DEF FdOpen, Goto, Mine
  <2> QED
    BY <2>3, <2>5 DEF StaysWith
<1>3. CASE \/ GrowFails(t) \/ OpenFirstFails(t) \/ OpenDenied(t) \/ OpenAgainFails(t)
           \/ SlotGrowFails(t) \/ Fill(t)
  <2>1. OpenReturned(t) /\ pc[t] \in OpenSteps /\ procs' = procs
    BY <1>3 DEF GrowFails, OpenFirstFails, OpenDenied, OpenAgainFails, SlotGrowFails, Fill, At,
                OpenSteps
  <2> QED
    BY <2>1, ReturnStays
<1>4. CASE \/ ScanFits(t) \/ Grow(t) \/ EntryLock(t) \/ OpenFirst(t) \/ OpenFirstDone(t)
           \/ OpenAgainDone(t) \/ OpenUnlock(t)
  <2>1. local' = local /\ pc'[t] # "fill" /\ Mine(t) /\ procs' = procs
    BY <1>1, <1>4 DEF ScanFits, Grow, EntryLock, OpenFirst, OpenFirstDone, OpenAgainDone,
                      OpenUnlock, Goto, Mine
  <2> QED
    BY <2>1 DEF StaysWith
<1>5. CASE OpenLock(t) \/ ScanNext(t)
  <2>1. \E n : local' = [local EXCEPT ![t] = [local[t] EXCEPT !.idx = n]]
    BY <1>1, <1>5 DEF OpenLock, ScanNext
  <2>2. PICK n : local' = [local EXCEPT ![t] = [local[t] EXCEPT !.idx = n]]
    BY <2>1
  <2>3. local'[t].op = local[t].op /\ local'[t].proc = local[t].proc
    BY <1>1, <2>2 DEF LocalType
  <2>4. pc'[t] = "scan" /\ Mine(t) /\ procs' = procs
    BY <1>1, <1>5, <2>2 DEF OpenLock, ScanNext, At, Goto, Mine
  <2> QED
    BY <2>3, <2>4 DEF StaysWith
<1>6. CASE OpenAgain(t)
  <2>1. \/ local' = local
        \/ local' = [local EXCEPT ![t] =
                       [local[t] EXCEPT !.mode = Widened(t, ftab[local[t].idx])]]
    BY <1>6 DEF OpenAgain
  <2>2. local'[t].op = local[t].op /\ local'[t].proc = local[t].proc
    BY <1>1, <2>1 DEF LocalType
  <2>3. Mine(t) /\ procs' = procs /\ pc'[t] # "fill"
    BY <1>1, <1>6, <2>1 DEF OpenAgain, Goto, Mine
  <2> QED
    BY <2>2, <2>3 DEF StaysWith
<1>7. CASE Opened(t)
  <2>1. local' = [local EXCEPT ![t] = [local[t] EXCEPT
                    !.ptr = <<ftab_base, local[t].idx>>, !.idx = 0, !.excl = FALSE, !.mode = {}]]
    BY <1>1, <1>7 DEF Opened
  <2>2. local'[t].op = local[t].op /\ local'[t].proc = local[t].proc
    BY <1>1, <2>1 DEF LocalType
  <2>3. Mine(t) /\ procs' = procs /\ pc'[t] = "slot"
    BY <1>1, <1>7, <2>1 DEF Opened, Goto, Mine
  <2> QED
    BY <2>2, <2>3 DEF StaysWith
<1>8. CASE SlotChosen(t) \/ SlotGrow(t)
  <2>1. local[t].proc \in Proc
    BY <1>8 DEF FileInv, InvThreads, InvOps, OpsAt, SlotChosen, SlotGrow, At, OpenSteps
  <2>2. fds[local[t].proc] \in Seq(FdType) /\ Len(fds[local[t].proc]) \in Nat
    BY <1>1, <2>1 DEF FileType
  <2>3. \E n \in Nat : /\ local' = [local EXCEPT ![t] = [local[t] EXCEPT !.fd = n]]
                       /\ n \in 1 .. Len(fds'[local[t].proc])
    <3>1. CASE SlotChosen(t)
      <4>1. DOMAIN fds[local[t].proc] = 1 .. Len(fds[local[t].proc])
        BY <2>2
      <4>2. \E n \in DOMAIN fds[local[t].proc] :
              local' = [local EXCEPT ![t] = [local[t] EXCEPT !.fd = n]]
        BY <3>1 DEF SlotChosen
      <4>3. fds' = fds
        BY <3>1 DEF SlotChosen
      <4>4. PICK n \in 1 .. Len(fds[local[t].proc]) :
                   local' = [local EXCEPT ![t] = [local[t] EXCEPT !.fd = n]]
        BY <4>1, <4>2, Zenon
      <4>5. n \in Nat /\ n \in 1 .. Len(fds'[local[t].proc])
        BY <2>2, <4>3
      <4> QED
        BY <4>4, <4>5
    <3>2. CASE SlotGrow(t)
      <4> DEFINE q == local[t].proc
                 n == Len(fds[q]) + 1
      <4>1. local' = [local EXCEPT ![t] = [local[t] EXCEPT !.fd = n]]
        BY <3>2 DEF SlotGrow
      <4>2. PROC_FDS_ALLOCSZ \in Nat \ {0} /\ fds \in [Proc -> Seq(FdType)]
        BY <1>1, Constants DEF FileType
      <4> DEFINE more == [j \in 1 .. PROC_FDS_ALLOCSZ |-> NoFd]
      <4>3. more \in Seq(FdType) /\ Len(more) = PROC_FDS_ALLOCSZ
        BY <4>2, NoFdFields
      <4>4. fds'[q] = fds[q] \o more
        BY <2>1, <3>2, <4>2 DEF SlotGrow
      <4> HIDE DEF more
      <4>5. Len(fds'[q]) = Len(fds[q]) + PROC_FDS_ALLOCSZ
        <5>1. \A a, b \in Seq(FdType) : Len(a \o b) = Len(a) + Len(b)
          OBVIOUS
        <5> QED
          BY <2>2, <4>3, <4>4, <5>1, Zenon
      <4>6. n \in Nat /\ n \in 1 .. Len(fds'[q])
        BY <2>2, <4>2, <4>5
      <4> HIDE DEF n
      <4> QED
        BY <4>1, <4>6
    <3> QED
      BY <1>8, <3>1, <3>2
  <2>4. PICK n \in Nat : /\ local' = [local EXCEPT ![t] = [local[t] EXCEPT !.fd = n]]
                         /\ n \in 1 .. Len(fds'[local[t].proc])
    BY <2>3
  <2>5. local'[t].op = local[t].op /\ local'[t].proc = local[t].proc /\ local'[t].fd = n
    BY <1>1, <2>4 DEF LocalType
  <2>6. Mine(t) /\ procs' = procs
    BY <1>1, <1>8, <2>4 DEF SlotChosen, SlotGrow, Goto, Mine
  <2> QED
    BY <2>4, <2>5, <2>6 DEF StaysWith
<1> QED
  BY <1>2, <1>3, <1>4, <1>5, <1>6, <1>7, <1>8 DEF FdOpenStep

\* No process loses slots while it runs (exec/process.c).
LEMMA SlotsNeverFewer ==
  ASSUME FileInv, FileInv', NEW t \in Thread, FdOpenStep(t) \/ FdIo(t) \/ FdClose(t)
  PROVE  \A q \in Proc : Len(fds[q]) <= Len(fds'[q])
<1>1. FileType /\ FileType' /\ \A q \in Proc : Len(fds[q]) \in Nat
  BY DEF FileInv, FileType
<1>2. CASE fds' = fds
  BY <1>1, <1>2
<1>3. CASE \E f : FdWritten(local[t].proc, local[t].fd, f)
  <2>1. PICK f : FdWritten(local[t].proc, local[t].fd, f)
    BY <1>3
  <2>2. \A q \in Proc : Len(fds'[q]) = Len(fds[q])
    BY <1>1, <2>1, SlotsKept
  <2> QED
    BY <1>1, <2>2
<1>4. CASE SlotGrow(t)
  <2> DEFINE p == local[t].proc
             more == [j \in 1 .. PROC_FDS_ALLOCSZ |-> NoFd]
  <2>1. p \in Proc
    BY <1>4 DEF FileInv, InvThreads, InvOps, OpsAt, SlotGrow, At, OpenSteps
  <2>2. fds[p] \in Seq(FdType) /\ PROC_FDS_ALLOCSZ \in Nat \ {0} /\ fds \in [Proc -> Seq(FdType)]
    BY <1>1, <2>1, Constants DEF FileType
  <2>3. more \in Seq(FdType) /\ Len(more) = PROC_FDS_ALLOCSZ
    BY <2>2, NoFdFields
  <2>4. fds' = [fds EXCEPT ![p] = fds[p] \o more]
    BY <1>4 DEF SlotGrow
  <2> HIDE DEF more
  <2>5. Len(fds[p] \o more) = Len(fds[p]) + PROC_FDS_ALLOCSZ
    <3>1. \A a, b \in Seq(FdType) : Len(a \o b) = Len(a) + Len(b)
      OBVIOUS
    <3> QED
      BY <2>2, <2>3, <3>1, Zenon
  <2>6. Len(fds'[p]) = Len(fds[p]) + PROC_FDS_ALLOCSZ
    BY <2>1, <2>2, <2>4, <2>5
  <2>7. \A q \in Proc : q # p => fds'[q] = fds[q]
    BY <2>1, <2>2, <2>4
  <2> QED
    BY <1>1, <2>1, <2>2, <2>6, <2>7
<1>5. FdOpenStep(t) => fds' = fds \/ SlotGrow(t) \/ Fill(t)
  BY DEF FdOpenStep, FdOpen, OpenLock, ScanNext, ScanFits, Grow, GrowFails, EntryLock, OpenFirst,
         OpenFirstDone, OpenFirstFails, OpenDenied, OpenAgain, OpenAgainDone, OpenAgainFails,
         OpenUnlock, Opened, SlotChosen, SlotGrowFails
<1>6. Fill(t) => \E f : FdWritten(local[t].proc, local[t].fd, f)
  BY DEF Fill, FdWritten
<1>7. FdIo(t) \/ FdClose(t) => fds' = fds \/ \E f : FdWritten(local[t].proc, local[t].fd, f)
  BY DEF FdIo, FdClose, FdUse, FdRefused, FdLock, IoLock, IoDone, CloseCheck, CloseLock, Close,
         CloseUnlock, SetFd, FdWritten
<1> QED
  BY <1>2, <1>3, <1>4, <1>5, <1>6, <1>7

\* A transfer and a close are the business of no other process (exec/process.c).
LEMMA UseStays ==
  ASSUME FileInv, NEW t \in Thread, FdIo(t) \/ FdClose(t),
         \A q \in Proc : Len(fds[q]) <= Len(fds'[q])
  PROVE  StaysWith(t)
<1>1. FileType /\ local[t] \in LocalType /\ pc \in [Thread -> FileSteps]
      /\ local \in [Thread -> LocalType]
  BY DEF FileInv, FileType
<1>2. ASSUME NEW op \in {"read", "write", "close"}, FdUse(t, op) PROVE StaysWith(t)
  <2>1. \E n : local' = [local EXCEPT ![t] = [NoLocal EXCEPT !.op = op, !.proc = owner[t], !.fd = n]]
    BY <1>2 DEF FdUse
  <2>2. PICK n : local' = [local EXCEPT ![t] = [NoLocal EXCEPT !.op = op, !.proc = owner[t], !.fd = n]]
    BY <2>1
  <2>3. local'[t].op = op
    BY <1>1, <2>2, NoLocalFields DEF LocalType
  <2>4. Mine(t) /\ procs' = procs /\ pc'[t] = "fd_lock"
    BY <1>1, <1>2, <2>2 DEF FdUse, Goto, Mine
  <2> QED
    BY <2>3, <2>4 DEF StaysWith
<1>3. CASE Return(t) /\ procs' = procs
  <2>1. pc'[t] = "idle" /\ local'[t] = NoLocal /\ Mine(t)
    BY <1>1, <1>3 DEF Return, Goto, Mine
  <2> QED
    BY <1>3, <2>1, NoLocalFields DEF StaysWith
<1>4. CASE FdLock(t)
  <2>1. local' = [local EXCEPT ![t] = [local[t] EXCEPT !.ptr = Fd(t).ftab]]
    BY <1>4 DEF FdLock
  <2>2. local'[t].op = local[t].op /\ local'[t].proc = local[t].proc
    BY <1>1, <2>1 DEF LocalType
  <2>3. Mine(t) /\ procs' = procs /\ pc'[t] \in {"close_check", "io_lock"}
    BY <1>1, <1>4, <2>1 DEF FdLock, Goto, Mine
  <2> QED
    BY <2>2, <2>3 DEF StaysWith
<1>5. CASE /\ local' = local /\ procs' = procs
           /\ \E s \in {"io", "close_lock", "close", "close_unlock"} : Goto(t, s)
  <2>1. Mine(t) /\ pc'[t] # "fill"
    BY <1>1, <1>5 DEF Goto, Mine
  <2> QED
    BY <1>5, <2>1 DEF StaysWith
<1>6. FdIo(t) => \/ FdUse(t, "read") \/ FdUse(t, "write") \/ FdRefused(t) \/ FdLock(t)
                 \/ IoLock(t) \/ IoDone(t)
  BY DEF FdIo
<1>7. FdRefused(t) \/ IoDone(t) \/ CloseUnlock(t) => Return(t) /\ procs' = procs
  BY DEF FdRefused, IoDone, CloseUnlock
<1>8. IoLock(t) \/ CloseLock(t) \/ Close(t) =>
        /\ local' = local /\ procs' = procs
        /\ \E s \in {"io", "close_lock", "close", "close_unlock"} : Goto(t, s)
  BY DEF IoLock, CloseLock, Close
<1>9. CloseCheck(t) =>
        \/ Return(t) /\ procs' = procs
        \/ /\ local' = local /\ procs' = procs
           /\ \E s \in {"io", "close_lock", "close", "close_unlock"} : Goto(t, s)
  BY DEF CloseCheck
<1> QED
  BY <1>2, <1>3, <1>4, <1>5, <1>6, <1>7, <1>8, <1>9 DEF FdClose

\* A process that nobody has is created by one thread, which starts it
\* (proc_create() in exec/process.c).
LEMMA Starts ==
  ASSUME FileInv, FileInv', InvProcs, NEW t \in Thread, ProcCreate(t, "start") \/ ProcStart(t)
  PROVE  InvProcs'
<1>1. /\ FileType /\ procs \in [Proc -> {"free", "new", "alive"}] /\ proc_kernel \in Proc
      /\ fds' = fds /\ pc \in [Thread -> FileSteps] /\ local \in [Thread -> LocalType]
  BY FileTabAssumption DEF FileInv, FileType, ProcCreate, ProcStart
<1>2. Mine(t) /\ pc'[t] # "fill"
  BY <1>1 DEF ProcCreate, ProcStart, Return, Goto, Mine
<1>3. \A u \in Thread : pc'[u] = "fill" => local'[u].fd \in 1 .. Len(fds'[local'[u].proc])
  BY <1>1, <1>2 DEF Mine, InvProcs
<1>4. CASE ProcCreate(t, "start")
  <2>1. PICK p \in Proc : /\ procs[p] = "free" /\ procs' = [procs EXCEPT ![p] = "new"]
                          /\ local' = [local EXCEPT ![t] = Creating("start", p)]
    BY <1>4 DEF ProcCreate
  <2>2. local'[t].op = "start" /\ local'[t].proc = p
    <3>1. 0 \in Int
      OBVIOUS
    <3>2. Creating("start", p).op = "start" /\ Creating("start", p).proc = p
      BY <3>1, AfreshConsole
    <3> QED
      BY <1>1, <2>1, <3>2
  <2>3. p # proc_kernel /\ procs'[p] = "new" /\ \A q \in Proc : q # p => procs'[q] = procs[q]
    BY <1>1, <2>1 DEF InvProcs
  <2>4. \A u \in Thread : u # t /\ local[u].op = "start" => local[u].proc # p
    BY <2>1, <2>3 DEF InvProcs
  <2>5. \A u \in Thread : u # t /\ local[u].op = "start" =>
          local[u].proc = proc_kernel \/ procs'[local[u].proc] = "new"
    <3>1. \A q : q # p /\ procs[q] = "new" => procs'[q] = "new"
      BY <2>1
    <3> QED
      BY <2>4, <3>1 DEF InvProcs
  <2> QED
    BY <1>1, <1>2, <1>3, <2>2, <2>3, <2>4, <2>5 DEF InvProcs, Mine
<1>5. CASE ProcStart(t)
  <2>1. /\ local[t].op = "start" /\ procs' = [procs EXCEPT ![local[t].proc] = "alive"]
        /\ local'[t] = NoLocal /\ local[t].proc \in Proc
    BY <1>1, <1>5 DEF ProcStart, Return, At, FileInv, InvThreads, InvOps, OpsAt
  <2>2. procs'[proc_kernel] = "alive"
    BY <1>1, <2>1 DEF InvProcs
  <2>3. \A u \in Thread : u # t /\ local[u].op = "start" => local[u].proc # local[t].proc
    BY <2>1 DEF InvProcs
  <2>4. \A u \in Thread : u # t /\ local[u].op = "start" =>
          local[u].proc = proc_kernel \/ procs'[local[u].proc] = "new"
    <3>1. \A q : q # local[t].proc /\ procs[q] = "new" => procs'[q] = "new"
      BY <2>1
    <3> QED
      BY <2>3, <3>1 DEF InvProcs
  <2>5. local'[t].op = "none"
    BY <2>1, NoLocalFields
  <2> QED
    BY <1>2, <1>3, <2>2, <2>4, <2>5 DEF InvProcs, Mine
<1> QED
  BY <1>4, <1>5
-----------------------------------------------------------------------------
(***************************************************************************)
(* The invariant, and what it says.                                        *)
(***************************************************************************)
\* proc_init() creates the kernel's process (exec/process.c).
LEMMA Initially == Init => FileInv /\ InvProcs
<1> SUFFICES ASSUME Init PROVE FileInv /\ InvProcs
  OBVIOUS
<1> DEFINE K == Creating("start", proc_kernel)
<1>1. /\ proc_kernel \in Proc /\ dev_console \in Node /\ owner \in [Thread -> Proc]
      /\ \E t \in Thread : {u \in Thread : owner[u] = proc_kernel} = {t}
      /\ MAX_FDS \in Nat
  BY FileTabAssumption, Constants, Zenon
<1>2. K \in LocalType /\ K.op = "start" /\ K.proc = proc_kernel /\ K.node = dev_console
      /\ K.ptr = NoPointer
  <2>1. 0 \in Int
    OBVIOUS
  <2> QED
    BY <1>1, <2>1, AfreshConsole
<1>3. NoLocal \in LocalType /\ NoLocal.op = "none" /\ NoLocal.ptr = NoPointer
  BY NoLocalFields
<1>4. /\ ftab = <<>> /\ ftab_mutex = FALSE /\ ftab_base = 0
      /\ procs = [p \in Proc |-> IF p = proc_kernel THEN "alive" ELSE "free"]
      /\ fds = [p \in Proc |-> <<>>]
      /\ pc = [t \in Thread |-> IF owner[t] = proc_kernel THEN "ftab_lock" ELSE "idle"]
      /\ local = [t \in Thread |-> IF owner[t] = proc_kernel THEN K ELSE NoLocal]
  BY DEF Init
<1> HIDE DEF K
<1>5. \A t \in Thread : IF owner[t] = proc_kernel THEN pc[t] = "ftab_lock" /\ local[t] = K
                                                  ELSE pc[t] = "idle" /\ local[t] = NoLocal
  BY <1>4
<1>6. FileType
  <2>1. ftab \in Seq(EntryType) /\ ftab_mutex \in BOOLEAN /\ ftab_base \in Nat
    <3>1. <<>> \in Seq(EntryType) /\ 0 \in Nat /\ FALSE \in BOOLEAN
      OBVIOUS
    <3> QED
      BY <1>4, <3>1, Zenon
  <2>2. fds \in [Proc -> Seq(FdType)] /\ procs \in [Proc -> {"free", "new", "alive"}]
    BY <1>4
  <2>3. pc \in [Thread -> FileSteps] /\ local \in [Thread -> LocalType]
    BY <1>2, <1>3, <1>4 DEF FileSteps, OpenSteps
  <2> QED
    BY <2>1, <2>2, <2>3 DEF FileType
<1>7. InvOps
  BY <1>1, <1>2, <1>3, <1>5 DEF InvOps, OpsAt, OpenSteps, FdSteps, CloseSteps
<1>8. InvAlone
  BY <1>2, <1>3, <1>5 DEF InvAlone
<1>9. InvLock
  BY <1>5 DEF InvLock, InTable
<1>10. InvScan
  BY <1>5 DEF InvScan, ScanAt, InTable
<1>11. InvPointers
  BY <1>2, <1>3, <1>4, <1>5 DEF InvPointers, NoPointer
<1>12. InvHolder
  BY <1>1, <1>4, <1>5 DEF InvHolder, FdSteps, CloseSteps
<1>13. InvEntries
  BY <1>4 DEF InvEntries
<1>14. InvProcs
  <2>1. procs[proc_kernel] = "alive"
    BY <1>1, <1>4
  <2>2. \A t \in Thread : local[t].op # "open" /\ pc[t] # "fill"
          /\ (local[t].op = "start" => local[t].proc = proc_kernel /\ owner[t] = proc_kernel)
    BY <1>2, <1>3, <1>5
  <2>3. \A t, u \in Thread : local[t].op = "start" /\ local[u].op = "start" => t = u
    BY <1>1, <2>2
  <2> QED
    BY <2>1, <2>2, <2>3 DEF InvProcs
<1> QED
  BY <1>6, <1>7, <1>8, <1>9, <1>10, <1>11, <1>12, <1>13, <1>14 DEF FileInv, InvThreads

\* Every step of an open (fs/ftab.c, exec/process.c).
LEMMA OpenKeeps ==
  ASSUME FileInv, InvProcs, NEW t \in Thread, FdOpenStep(t), CloseAlone
  PROVE  FileInv' /\ InvProcs'
<1>1. FileInv'
  <2>1. CASE FdOpen(t)
    BY <2>1, OpenBegins
  <2>2. CASE OpenLock(t) \/ ScanNext(t) \/ ScanFits(t) \/ OpenFirst(t)
    BY <2>2, WalksOn
  <2>3. CASE Grow(t)
    BY <2>3, GrowsOn
  <2>4. CASE GrowFails(t) \/ OpenFirstFails(t) \/ SlotGrowFails(t)
    BY <2>4, FailsQuietly
  <2>5. CASE EntryLock(t) \/ OpenUnlock(t)
    BY <2>5, LocksEntry
  <2>6. CASE OpenFirstDone(t)
    BY <2>6, FirstCounted
  <2>7. CASE OpenDenied(t) \/ OpenAgainFails(t)
    BY <2>7, GivesUp
  <2>8. CASE OpenAgain(t) \/ OpenAgainDone(t)
    BY <2>8, ReopensOn, AgainCounted
  <2>9. CASE Opened(t) \/ SlotChosen(t)
    BY <2>9, SlotIsChosen
  <2>10. CASE SlotGrow(t)
    BY <2>10, SlotsGrow
  <2>11. CASE Fill(t)
    BY <2>11, Fills
  <2> QED
    BY <2>1, <2>2, <2>3, <2>4, <2>5, <2>6, <2>7, <2>8, <2>9, <2>10, <2>11 DEF FdOpenStep
<1>2. \A q \in Proc : Len(fds[q]) <= Len(fds'[q])
  BY <1>1, SlotsNeverFewer
<1>3. StaysWith(t)
  BY <1>2, OpenStays
<1> QED
  BY <1>1, <1>3, ProcsStay

\* Every step of a read, a write and a close (fs/ftab.c, exec/process.c).
LEMMA UseKeeps ==
  ASSUME FileInv, InvProcs, NEW t \in Thread, FdIo(t) \/ FdClose(t), CloseAlone
  PROVE  FileInv' /\ InvProcs'
<1>1. FileInv'
  <2>1. ASSUME NEW op \in {"read", "write", "close"}, FdUse(t, op) PROVE FileInv'
    BY <2>1, UseBegins
  <2>2. CASE FdRefused(t)
    BY <2>2, EndsQuietly
  <2>3. CASE FdLock(t)
    BY <2>3, LocksFd
  <2>4. CASE IoLock(t) \/ CloseLock(t) \/ (CloseCheck(t) /\ pc'[t] = "close_lock")
    BY <2>4, HoldsOn
  <2>5. CASE IoDone(t) \/ CloseUnlock(t) \/ (CloseCheck(t) /\ pc'[t] # "close_lock")
    BY <2>5, UseEnds
  <2>6. CASE Close(t)
    BY <2>6, Closes
  <2>7. FdIo(t) \/ FdClose(t) =>
          \/ \E op \in {"read", "write", "close"} : FdUse(t, op)
          \/ FdRefused(t) \/ FdLock(t) \/ IoLock(t) \/ IoDone(t)
          \/ CloseCheck(t) \/ CloseLock(t) \/ Close(t) \/ CloseUnlock(t)
    BY Zenon DEF FdIo, FdClose
  <2>8. CASE \E op \in {"read", "write", "close"} : FdUse(t, op)
    BY <2>1, <2>8
  <2>9. CASE CloseCheck(t)
    BY <2>4, <2>5, <2>9
  <2> QED
    BY <2>2, <2>3, <2>4, <2>5, <2>6, <2>7, <2>8, <2>9, Zenon
<1>2. \A q \in Proc : Len(fds[q]) <= Len(fds'[q])
  BY <1>1, SlotsNeverFewer
<1>3. StaysWith(t)
  BY <1>2, UseStays
<1> QED
  BY <1>1, <1>3, ProcsStay

\* Every step keeps the invariant, as long as nobody closes while another opens.
LEMMA FileKeeps ==
  ASSUME CloseAlone
  PROVE  FileInv /\ InvProcs /\ [FileNext]_vars => FileInv' /\ InvProcs'
<1> SUFFICES ASSUME FileInv, InvProcs, [FileNext]_vars PROVE FileInv' /\ InvProcs'
  OBVIOUS
<1>1. ASSUME NEW t \in Thread, FdOpenStep(t) PROVE FileInv' /\ InvProcs'
  BY <1>1, OpenKeeps
<1>2. ASSUME NEW t \in Thread, FdIo(t) \/ FdClose(t) PROVE FileInv' /\ InvProcs'
  BY <1>2, UseKeeps
<1>3. ASSUME NEW t \in Thread, Start(t) PROVE FileInv' /\ InvProcs'
  <2>1. ProcCreate(t, "start") \/ ProcStart(t)
    BY <1>3 DEF Start
  <2>2. FileInv'
    BY <2>1, OpenBegins, EndsQuietly
  <2> QED
    BY <2>1, <2>2, Starts
<1>4. ASSUME NEW t \in Thread, Exit(t) PROVE FileInv' /\ InvProcs'
  BY <1>4, Exits
<1>5. CASE UNCHANGED vars
  <2>1. UNCHANGED <<ftab, ftab_mutex, ftab_base, procs, fds, pc, local>>
    BY <1>5 DEF vars
  <2>2. FileType' /\ InvThreads'
    BY <2>1 DEF FileInv, FileType, InvThreads, InvOps, OpsAt, InvAlone, InvLock, InvScan, ScanAt,
                Widened, Denied, InvPointers, InvHolder
  <2>3. InvEntries'
    <3>1. \A k : Descriptors(k)' = Descriptors(k) /\ Opening(k)' = Opening(k)
      BY <2>1 DEF Descriptors, Opening
    <3>2. \A d : FdAt(d)' = FdAt(d)
      BY <2>1 DEF FdAt
    <3>3. \A k \in 1 .. Len(ftab) : EntryInv(k)
      BY DEF FileInv, InvEntries
    <3>4. \A k \in 1 .. Len(ftab) : EntryInv(k)'
      BY <2>1, <3>1, <3>2, <3>3 DEF EntryInv
    <3> QED
      BY <2>1, <3>4 DEF InvEntries
  <2> QED
    BY <2>1, <2>2, <2>3 DEF FileInv, InvProcs
<1> QED
  BY <1>1, <1>2, <1>3, <1>4, <1>5 DEF FileNext

\* What the invariant says of the entries (fs/ftab.h, fs/ftab.c).
LEMMA FileInvMeans ==
  FileInv => RefsCover /\ FilesStayOpen /\ ExclKept
<1> SUFFICES ASSUME FileInv PROVE RefsCover /\ FilesStayOpen /\ ExclKept
  OBVIOUS
<1>1. DOMAIN ftab = 1 .. Len(ftab)
  BY DEF FileInv, FileType
<1>2. RefsCover
  BY <1>1 DEF FileInv, InvEntries, EntryInv, RefsCover
<1>3. FilesStayOpen
  BY <1>1 DEF FileInv, InvEntries, EntryInv, Serves, FilesStayOpen, FdAt
<1>4. ExclKept
  BY <1>1 DEF FileInv, InvEntries, EntryInv, Serves, ExclKept
<1> QED
  BY <1>2, <1>3, <1>4

\* In every state of programs that open, use and close files: the invariant.
LEMMA FileInvHolds ==
  ASSUME CloseAlone
  PROVE  FileSpec => [](FileInv /\ InvProcs)
<1>1. Init => FileInv /\ InvProcs
  BY Initially
<1>2. FileInv /\ InvProcs /\ [FileNext]_vars => FileInv' /\ InvProcs'
  BY FileKeeps
<1> QED
  BY <1>1, <1>2, PTL DEF FileSpec

\* The count of an entry covers the descriptors that refer to it and the threads
\* that are opening it (ftab_open() and ftab_close() in fs/ftab.c), whatever the
\* number of processes and threads, as long as no close runs along with an open.
THEOREM RefsCoverHolds == CloseAlone => (FileSpec => []RefsCover)
<1> SUFFICES ASSUME CloseAlone PROVE FileSpec => []RefsCover
  OBVIOUS
<1>1. FileSpec => [](FileInv /\ InvProcs)
  BY FileInvHolds
<1> QED
  BY <1>1, FileInvMeans, PTL

\* A descriptor's file is open, and in the modes it was opened in, for as long as
\* the descriptor refers to it (proc_fd_open() in exec/process.c).
THEOREM FilesStayOpenHolds == CloseAlone => (FileSpec => []FilesStayOpen)
<1> SUFFICES ASSUME CloseAlone PROVE FileSpec => []FilesStayOpen
  OBVIOUS
<1>1. FileSpec => [](FileInv /\ InvProcs)
  BY FileInvHolds
<1> QED
  BY <1>1, FileInvMeans, PTL

\* An entry that is held exclusively is referred to by its holder alone (excl in
\* fs/ftab.h).
THEOREM ExclKeptHolds == CloseAlone => (FileSpec => []ExclKept)
<1> SUFFICES ASSUME CloseAlone PROVE FileSpec => []ExclKept
  OBVIOUS
<1>1. FileSpec => [](FileInv /\ InvProcs)
  BY FileInvHolds
<1> QED
  BY <1>1, FileInvMeans, PTL
=============================================================================
