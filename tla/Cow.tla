--------------------------------- MODULE Cow ---------------------------------
(***************************************************************************)
(* Copy-on-write of SysX (mm/vmm.c), and the operations on whole spaces    *)
(* that rest on it: unmapping, cloning and freeing (arch/x86cpu/vmm.c).    *)
(*                                                                         *)
(*   m.traps   vmm_traps; info is a pointer to another entry               *)
(*   m.base    which allocation the table is in: krealloc() may move it    *)
(*   m.data    what each frame holds                                       *)
(*   m.staged  vmm_frstage                                                 *)
(*                                                                         *)
(* The pages are small ones: all callers ask for 4096 bytes at a time.     *)
(***************************************************************************)
EXTENDS PageTables

CONSTANTS kernel_end,       \* first page after the kernel's image
          VMM_TRAP_ALLOCSZ,
          MAX_TRAPS,        \* bound: memory for the trap table
          Moves             \* krealloc() moves the trap table when it grows

ASSUME CowAssumption ==
  /\ kernel_end \in kernel_start..Cardinality(Page) /\ Moves \in BOOLEAN
  /\ {VMM_TRAP_ALLOCSZ, MAX_TRAPS} \subseteq Nat \ {0}

NoInfo == <<0, 0>>
NoTrap == [on |-> FALSE, s |-> 0, p |-> 0, info |-> NoInfo]

TrapAt(m, s, p) == {i \in DOMAIN m.traps : m.traps[i].on /\ m.traps[i].s = s /\ m.traps[i].p = p}
\* The entry an info points to can be used if the table has not moved since.
Live(m, info) == info[1] = m.base /\ info[2] \in DOMAIN m.traps
vmm_is_cow(m, s, p) == TrapAt(m, s, p) # {}

\* A free entry, or four more.  idx is 0 when there is no memory.
NewTrap(m, free, len) ==
  LET idx == IF free # {} THEN Min(free)
             ELSE IF len + VMM_TRAP_ALLOCSZ <= MAX_TRAPS THEN len + 1 ELSE 0
  IN [idx |-> idx,
      base |-> IF idx > len /\ len > 0 /\ Moves THEN m.base + 1 ELSE m.base,
      traps |-> IF idx <= len THEN m.traps ELSE m.traps \o [i \in 1..VMM_TRAP_ALLOCSZ |-> NoTrap]]
TrapIn(m, s, p, n) ==
  [idx |-> n.idx, base |-> n.base,
   m |-> IF n.idx = 0 THEN m
         ELSE [m EXCEPT !.base = n.base,
                        !.traps = [n.traps EXCEPT ![n.idx] = [@ EXCEPT !.on = TRUE, !.s = s, !.p = p]]]]
vmm_new_trap(m, s, p) ==
  TrapIn(m, s, p, NewTrap(m, {i \in DOMAIN m.traps : ~m.traps[i].on}, Len(m.traps)))
vmm_delete_trap(m, idx) == IF idx = 0 THEN m ELSE [m EXCEPT !.traps[idx].on = FALSE]

\* One page.  A huge source page is split, around the page and at it; the
\* destination maps the source's frame, not writable.  The pointers in an
\* entry are those of when it was made: the source's is lost if the table
\* moves for the destination's.
ReadOnly(fl) == (fl \ {"W"}) \union {"T"}
SplitPage(m, s, p) ==
  IF PgszOf(m, s, p) # 1 THEN m
  ELSE FoldSet(LAMBDA i, x : vmm_pgmap_small(x, s, DirEntry(m, s, p).pa + i, p - pte(p) + i,
                                             FlagsOf(m, s, p)), m, PTE)
ShareFrame(m, s, p, d, q) ==
  vmm_pgmap(m, d, vmm_get_paddr(m, s, p), q, 0, ReadOnly(vmm_get_flags(m, s, p)))
Linked(src, dst) ==
  [dst.m EXCEPT !.traps[dst.idx].info = <<src.base, src.idx>>,
                !.traps[src.idx].info = IF src.base = dst.base THEN <<dst.base, dst.idx>> ELSE @]

\* A slip: the source stays writable.
GuardedNot(m, s, p) == vmm_set_flags(m, s, p, vmm_get_flags(m, s, p) \union {"T"})

Guarded(m, s, p) == vmm_set_flags(m, s, p, ReadOnly(vmm_get_flags(m, s, p)))
Paired(s, p, src, dst) ==
  IF src.idx = 0 \/ dst.idx = 0
  THEN [m |-> vmm_delete_trap(vmm_delete_trap(dst.m, src.idx), dst.idx), done |-> 0]
  ELSE [m |-> Guarded(Linked(src, dst), s, p), done |-> 1]
NewPair(s, p, d, q, src) == Paired(s, p, src, vmm_new_trap(src.m, d, q))
Share(m, s, p, d, q) ==
  NewPair(s, p, d, q, vmm_new_trap(ShareFrame(Touch(SplitPage(m, s, p), s, p), s, p, d, q), s, p))
CheckTarget(m, s, p, d, q) ==
  IF vmm_get_pgsz(m, d, q) # None THEN [m |-> Probe(m, d, q), done |-> 0]
  ELSE Share(Probe(m, d, q), s, p, d, q)
vmm_cow_setup(m, s, p, d, q) ==
  IF vmm_get_pgsz(m, s, p) = None THEN [m |-> Probe(m, s, p), done |-> 0]
  ELSE CheckTarget(Probe(m, s, p), s, p, d, q)

\* The page of (s, p) gets a frame of its own, with a copy of what the other
\* end of its trap maps.  The copy is made through two pages above the
\* kernel, which stay mapped.  Any entry for (s, p), and there is one, counts
\* as a reference, so that the other end becomes writable.
SetFlag(m, s, p, off, on) ==
  vmm_set_flags(m, s, p, (vmm_get_flags(m, s, p) \ off) \union on)
Window(m, v, f) == vmm_set_paddr(m, m.cur, v, f)
CopyPage(m, v, from, f) == [Window(Window(m, v, from), v + 1, f) EXCEPT !.data[f] = m.data[from]]

\* A slip: the copy's frame is not marked.
DuplicateFree(m, s, p, src, v, from, f) ==
  SetFlag(SetFlag(vmm_set_paddr(CopyPage(Touch(m, src.s, src.p), v, from, f), s, p, f),
                  s, p, {}, {"W"}), src.s, src.p, {"T"}, {"W"})

Duplicate(m, s, p, src, v, from, f) ==
  SetFlag(SetFlag(vmm_set_paddr(CopyPage(Touch(Take(m, f), src.s, src.p), v, from, f), s, p, f),
                  s, p, {}, {"W"}), src.s, src.p, {"T"}, {"W"})

\* A slip: the source's entry stays.
CopyHalf(m, s, p, i, v, f) ==
  LET src == m.traps[m.traps[i].info[2]]
      from == vmm_get_paddr(m, src.s, src.p)
  IN IF f = None \/ from \notin Frame THEN [m |-> m, ok |-> FALSE]
     ELSE [m |-> vmm_delete_trap(Duplicate(m, s, p, src, v, from, f), i), ok |-> TRUE]

CopyTrap(m, s, p, i, v, f) ==
  LET info == m.traps[i].info
      src == m.traps[info[2]]
      from == vmm_get_paddr(m, src.s, src.p)
  IN IF f = None THEN [m |-> m, ok |-> FALSE]
     ELSE IF ~Live(m, info) \/ from \notin Frame THEN [m |-> Halt(m, "fault"), ok |-> FALSE]
     ELSE [m |-> vmm_delete_trap(vmm_delete_trap(Duplicate(m, s, p, src, v, from, f), info[2]), i),
           ok |-> TRUE]
CopyThrough(m, s, p, copy) ==
  IF copy.v = 0 THEN [m |-> Probe(m, s, p), ok |-> FALSE]
  ELSE CopyTrap(copy.m, s, p, Min(TrapAt(m, s, p)), copy.v, FreeFrame(copy.m))
vmm_cow_duplicate(m, s, p) ==
  IF vmm_get_pgsz(m, s, p) = None \/ ~vmm_is_cow(m, s, p)
  THEN [m |-> Probe(m, s, p), ok |-> FALSE]
  ELSE CopyThrough(m, s, p, vmm_alloc_map(m, 0, 2, kernel_end, Cardinality(Page) - 1, 0, FALSE,
                                          {"P", "W"}))

-----------------------------------------------------------------------------
(* Unmapping.  A page with a trap flag is copied for the other ends first;  *)
(* while that fails, it is tried again and again.                           *)
Again(r) == IF ~r.ok /\ r.m.halt = "no" THEN Halt(r.m, "deadlock") ELSE r.m
ResolveOne(m, info) ==
  IF ~Live(m, info) THEN Halt(m, "fault")
  ELSE Again(vmm_cow_duplicate(m, m.traps[info[2]].s, m.traps[info[2]].p))
vmm_unmap_resolve_cow(m, s, p) ==
  FoldLeft(LAMBDA a, t : IF vmm_is_cow(a, s, p) /\ a.halt = "no"
                         THEN ResolveOne(a, a.traps[Min(TrapAt(a, s, p))].info) ELSE a,
           m, m.traps)
ResolvePages(m, s, pages) == FoldSet(LAMBDA p, x : vmm_unmap_resolve_cow(x, s, p), m, pages)
Trapped(m, s, pages) == {p \in pages : "T" \in FlagsOf(m, s, p)}

\* One page of a huge page: the rest of it comes back as small pages.
RemapRest(m, s, p, d) ==
  FoldSet(LAMBDA i, x : vmm_pgmap_small(x, s, d.pa + i, p - pte(p) + i, d.fl \ {"T"}),
          m, PTE \ {pte(p)})
UnmapSmall(m, s, p, d) ==
  CASE d.k = "none" -> m
    [] d.k = "table" -> SetPte(m, s, p, Empty)
    [] d.k = "page" -> RemapRest(SetDir(m, s, p, Empty), s, p, d)
vmm_pgunmap_small(m, s, p) ==
  LET d == DirEntry(m, s, p)
      trap == IF d.k = "page" THEN p - pte(p) ELSE p
  IN Within(Access(m, s, p, TRUE), LAMBDA x, w :
       UnmapSmall(ResolvePages(x, s, IF Trapped(m, s, {p}) = {} THEN {} ELSE {trap}), s, p, d))

\* A whole directory entry, with the table that may be behind it.  Without a
\* window the table is used all the same.
UnmapHuge(m, s, p, d) ==
  CASE d.k = "none" -> m
    [] d.k = "table" ->
         SetDir(Release(ResolvePages(m, s, Trapped(m, s, {p - pte(p) + i : i \in PTE})), d.pa),
                s, p, Empty)
    [] d.k = "page" -> SetDir(ResolvePages(m, s, Trapped(m, s, {p})), s, p, Empty)
vmm_pgunmap_huge(m, s, p) ==
  IF Access(m, s, p, FALSE).ok /\ ~Access(m, s, p, TRUE).ok THEN Halt(m, "fault")
  ELSE Within(Access(m, s, p, TRUE), LAMBDA x, w : UnmapHuge(x, s, p, DirEntry(m, s, p)))

\* An unknown size index is reported, and nothing else.
vmm_pgunmap(m, s, p, idx) ==
  IF idx = 0 THEN vmm_pgunmap_small(m, s, p)
  ELSE IF idx = 1 THEN vmm_pgunmap_huge(m, s, p) ELSE m

\* Both sizes are tried at each place: what follows a huge page is always
\* unmapped as a small one.
vmm_unmap(m, s, p, n) ==
  LET huge(i) == i + PTES <= n /\ (p + i) % PTES = 0
      plan[i \in 0..n] == IF i = n THEN <<>>
                          ELSE IF huge(i)
                          THEN <<<<i, 1>>>> \o (IF i + PTES = n THEN <<>>
                                               ELSE <<<<i + PTES, 0>>>> \o plan[i + PTES + 1])
                          ELSE <<<<i, 0>>>> \o plan[i + 1]
  IN FoldLeft(LAMBDA a, x : vmm_pgunmap(a, s, p + x[1], x[2]), m, plan[0])

-----------------------------------------------------------------------------
(* Freeing and cloning spaces.                                              *)

\* One entry of the trap table.  done: the new source of each address that has
\* one.  A second destination of such an address loses its pair, and is to be
\* set up again: but it is mapped, so that vmm_cow_setup() does nothing, and
\* the removal gives up.
DeletePair(m, i) == vmm_delete_trap(vmm_delete_trap(m, m.traps[i].info[2]), i)
FirstSource(a, i, t) ==
  [a EXCEPT !.m = DeletePair(SetFlag(a.m, t.s, t.p, {}, {"W"}), i), !.done = (t.p :> t.s) @@ @]
SetUpAgain(a, r) == [a EXCEPT !.m = r.m, !.ok = r.done # 0]
NewSource(a, i, t) ==
  IF t.p \notin DOMAIN a.done THEN FirstSource(a, i, t)
  ELSE IF vmm_get_pgsz(a.m, t.s, t.p) = None THEN [a EXCEPT !.m = DeletePair(Probe(a.m, t.s, t.p), i)]
  ELSE SetUpAgain(a, vmm_cow_setup(DeletePair(Probe(a.m, t.s, t.p), i), a.done[t.p], t.p, t.s, t.p))
RemoveTrap(a, s, i) ==
  LET t == a.m.traps[i] IN
  IF ~t.on THEN a
  ELSE IF ~Live(a.m, t.info) THEN [a EXCEPT !.m = Halt(a.m, "fault")]
  ELSE IF a.m.traps[t.info[2]].s = s THEN NewSource(a, i, t)
  ELSE IF t.s = s THEN [a EXCEPT !.m = vmm_delete_trap(a.m, i)] ELSE a
vmm_trap_remove(m, s) ==
  FoldLeftDomain(LAMBDA a, i : IF a.ok /\ a.m.halt = "no" THEN RemoveTrap(a, s, i) ELSE a,
                 [m |-> m, done |-> <<>>, ok |-> TRUE], m.traps)

\* The frames of the user tables and of the directory; the current space is
\* freed later.
UserTables(m, s) == {m.pd[s][d].pa : d \in {x \in 0..UPDES - 1 : m.pd[s][x].k = "table"}}
FreeSpace(m, s, o) ==
  IF m.halt # "no" \/ o.v = 0 THEN m
  ELSE Close([o.m EXCEPT !.used = @ \ (UserTables(m, s) \union {s})], {o.v})
Removed(m, s) == FreeSpace(m, s, Open(m, s, 0))
FreeRest(r, s) == IF r.ok THEN Removed(r.m, s) ELSE r.m
vmm_free(m, s) ==
  IF s = vmm_kernel THEN m
  ELSE IF s = m.cur THEN [m EXCEPT !.staged = @ \union {s}]
  ELSE FreeRest(vmm_trap_remove(m, s), s)

vmm_do_cleanup(m) ==
  FoldSet(LAMBDA s, a : [vmm_free(a, s) EXCEPT !.staged = @ \ {s}], m, m.staged \ {m.cur})
vmm_switch(m, s) == [m EXCEPT !.cur = s]

\* A clone of the current space, in which tables are copied and huge pages
\* taken as they are.  s is None without memory or windows.
TablesBelow(m, s, d) == {m.pd[s][c].pa : c \in {x \in 0..d - 1 : m.pd[s][x].k = "table"}}

\* A slip: the clone keeps the source's table.
SharedTable(m, s, d, e, v, f) == Window(Window(Take(m, f), v, e.pa), v + 1, f)

\* The windows are entered before the copy is made, which may be of their table.
TableInto(m, s, d, e, f) == [SetTable(m, f, m.pt[e.pa]) EXCEPT !.pd[s][d].pa = f]
CopiedTable(m, s, d, e, v, f) == TableInto(Window(Window(Take(m, f), v, e.pa), v + 1, f), s, d, e, f)
CloneTable(a, d, pt_src) ==
  LET e == a.m.pd[a.s][d]
      f == FreeFrame(a.m)
  IN IF a.s = None THEN a
     ELSE IF e.k # "table" THEN a
     ELSE IF f = None
     THEN [s |-> None, m |-> [Window(a.m, pt_src, e.pa) EXCEPT !.used = @ \ TablesBelow(a.m, a.s, d)]]
     ELSE [a EXCEPT !.m = CopiedTable(a.m, a.s, d, e, pt_src, f)]

\* Copy-on-write is set up for the pages whose entries are not empty in the
\* table of the clone, which has none: frame 0 is read for it, and it has
\* entries in what is called low.
CowTable(m, d, s, low) ==
  IF m.pd[m.cur][d].k = "none" THEN m
  ELSE FoldSet(LAMBDA j, x : vmm_cow_setup(x, x.cur, d * PTES + j, s, d * PTES + j).m, m, low)

CloneDir(m, s, cow) ==
  LET dir == [d \in PDE |-> IF cow /\ d < UPDES THEN Empty ELSE m.pd[m.cur][d]]
  IN [m EXCEPT !.pd = [x \in DOMAIN @ \union {s} |-> IF x = s THEN dir ELSE @[x]]]
User == [i \in 1..UPDES |-> i - 1]
CloneUser(m, s, v, cow, low) ==
  IF cow THEN [s |-> s, m |-> FoldLeft(LAMBDA x, d : CowTable(x, d, s, low), m, User)]
  ELSE FoldLeft(LAMBDA a, d : CloneTable(a, d, v), [s |-> s, m |-> m], User)
\* The window on the new directory, s if there is none any more, and those on
\* the tables are closed.
CloneDone(r, s, n, pt, dst) ==
  [m |-> Close(IF r.s = None THEN Release(vmm_unmap(r.m, r.m.cur, pt, n), s)
               ELSE vmm_unmap(r.m, r.m.cur, pt, n), {dst}),
   s |-> r.s]
CloneInto(m, s, dst, pt, cow, low) ==
  IF pt.v = 0 THEN [m |-> Release(Close(pt.m, {dst}), s), s |-> None]
  ELSE CloneDone(CloneUser(pt.m, s, pt.v, cow, low), s, IF cow THEN 1 ELSE 2, pt.v, dst)
CloneFrom(m, s, dst, cow, low) ==
  IF dst.v = 0 THEN [m |-> m, s |-> None]
  ELSE CloneInto(m, s, dst.v, vmm_alloc_map(CloneDir(dst.m, s, cow), 0, IF cow THEN 1 ELSE 2,
                                            0, kernel_start, 0, FALSE, {"P", "W"}), cow, low)
vmm_clone(m, cow, low) ==
  LET s == FreeFrame(m) IN
  IF s = None THEN [m |-> m, s |-> None]
  ELSE CloneFrom(m, s, Open(Take(m, s), s, 0), cow, low)
=============================================================================
