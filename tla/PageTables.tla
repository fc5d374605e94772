----------------------------- MODULE PageTables -----------------------------
(***************************************************************************)
(* Page directories and page tables (arch/x86cpu/vmm.c) as operators on a  *)
(* memory value m, with the range operations of mm/vmm.c on top.           *)
(*                                                                         *)
(*   m.used    frames marked in the bitmap                                 *)
(*   m.pd[s]   page directory of space s; a space is named by the frame of *)
(*             its directory, as a void* vmm is in the code                *)
(*   m.pt[f]   frame f read as a page table, once it has been one          *)
(*   m.cur     vmm_current                                                 *)
(*   m.halt    "no"; "fault": the kernel used an address that is not      *)
(*             mapped; "deadlock": it repeats for ever what fails          *)
(*                                                                         *)
(* Addresses are page numbers; a table has PTES entries, a huge page spans *)
(* PTES pages.  Entries keep the flags P(resent), W (rw), U(ser), T(rapped)*)
(* and what they point to.  The directory and table of a space that is not *)
(* current are reached through windows in the user half of the current     *)
(* one.  Caching bits and the TLB are left out.                            *)
(***************************************************************************)
EXTENDS Integers, FiniteSets, Sequences, SequencesExt, FiniteSetsExt

CONSTANTS Frame,            \* frames, 0..pmm_frames - 1
          PTES,             \* entries of a table
          UPDES, KPDES,     \* directory entries below and above kernel_start
          vmm_kernel        \* directory frame of the kernel's space

ASSUME PageTablesAssumption ==
  /\ \E n \in Frame : Frame = 0..n
  /\ {PTES, UPDES, KPDES} \subseteq Nat \ {0} /\ UPDES + KPDES <= PTES
  /\ vmm_kernel \in Frame

None == -1
PDE == 0..UPDES + KPDES - 1
PTE == 0..PTES - 1
kernel_start == UPDES * PTES
Page == 0..(UPDES + KPDES) * PTES - 1
Flag == {"P", "W", "U", "T"}

pde(p) == p \div PTES
pte(p) == p % PTES

Empty == [k |-> "none", pa |-> 0, fl |-> {}]
TableAt(f, fl) == [k |-> "table", pa |-> f, fl |-> fl]
PageAt(f, fl) == IF f = 0 /\ fl = {} THEN Empty ELSE [k |-> "page", pa |-> f, fl |-> fl]
Entry == [k : {"none", "table", "page"}, pa : Int, fl : SUBSET Flag]
BlankTable == [i \in PTE |-> Empty]
BlankDir == [d \in PDE |-> Empty]

DirEntry(m, s, p) == m.pd[s][pde(p)]
TableOf(m, s, p) == m.pt[DirEntry(m, s, p).pa]
SetDir(m, s, p, e) == [m EXCEPT !.pd[s][pde(p)] = e]
SetTable(m, f, t) == [m EXCEPT !.pt = [g \in DOMAIN @ \union {f} |-> IF g = f THEN t ELSE @[g]]]
SetPte(m, s, p, e) == [m EXCEPT !.pt[DirEntry(m, s, p).pa][pte(p)] = e]

\* The first single frame that pmm_alloc_free(1) finds.
FreeFrame(m) == IF Frame \subseteq m.used THEN None ELSE Min(Frame \ m.used)
Take(m, f) == [m EXCEPT !.used = @ \union {f}]
Halt(m, why) == [m EXCEPT !.halt = why]
Release(m, f) == [m EXCEPT !.used = @ \ {f}]

\* What the entry of page p in space s says.
Leaf(m, s, p) == LET d == DirEntry(m, s, p) IN
  IF d.k = "table" THEN TableOf(m, s, p)[pte(p)] ELSE d
PgszOf(m, s, p) == IF Leaf(m, s, p).k = "none" THEN None
                   ELSE IF DirEntry(m, s, p).k = "table" THEN 0 ELSE 1
FlagsOf(m, s, p) == Leaf(m, s, p).fl
PaddrOf(m, s, p) ==
  IF DirEntry(m, s, p).k = "page" THEN Leaf(m, s, p).pa + pte(p) ELSE Leaf(m, s, p).pa
\* The same as the processor sees it.
Present(m, s, p) == "P" \in DirEntry(m, s, p).fl /\ "P" \in FlagsOf(m, s, p)
Writable(m, s, p) == Present(m, s, p)
                     /\ "W" \in DirEntry(m, s, p).fl /\ "W" \in FlagsOf(m, s, p)
UserPage(m, s, p) == Present(m, s, p)
                     /\ "U" \in DirEntry(m, s, p).fl /\ "U" \in FlagsOf(m, s, p)

-----------------------------------------------------------------------------
(* vmm_first_free(), of a space whose tables are at hand.  Results and      *)
(* blocks are 32 bit numbers, BIG here; an address is one modulo the pages. *)
BIG == 4 * Cardinality(Page)
AtPage(n) == n % Cardinality(Page)

\* Where the search goes on when the run from r has a page mapped at b.
Beyond(r, b, al, reverse) ==
  LET n == IF reverse THEN (r - b - 1) % BIG ELSE (r + b + 1) % BIG
  IN IF al = 0 \/ n % al = 0 THEN n ELSE (IF reverse THEN n - (n % al) ELSE n + al - (n % al)) % BIG

\* The search from start: the first run of sz unmapped pages, or page 0.
vmm_first_free(m, s, va_start, va_end, sz, align, reverse) ==
  LET start == IF va_start = 0 THEN 1 ELSE va_start
      al == align \div sz
      Blocked(r) == {i \in 0..sz - 1 : PgszOf(m, s, AtPage(r + i)) # None}
      search[fuel \in 0..BIG, r \in 0..BIG - 1] ==
        IF fuel = 0 \/ r < start \/ (r + sz) % BIG > va_end THEN 0
        ELSE IF Blocked(r) = {} THEN AtPage(r)
        ELSE search[fuel - 1, Beyond(r, Min(Blocked(r)), al, reverse)]
  IN search[BIG, (IF reverse THEN va_end - sz ELSE start) % BIG]

-----------------------------------------------------------------------------
(* Small pages of the current space, and windows on what another space has. *)
Grant(m, s, p, fl) == SetDir(m, s, p, [DirEntry(m, s, p) EXCEPT !.fl = @ \union (fl \ {"T"})])
PutPage(m, s, p, f, fl) == SetPte(Grant(m, s, p, fl), s, p, PageAt(f, fl))

\* A new page table f for p, with the pages of a huge page that was there
\* spread over it.
NewEntry(m, s, p, f) ==
  SetDir(IF f \in DOMAIN m.pt THEN Take(m, f) ELSE SetTable(Take(m, f), f, BlankTable), s, p,
         TableAt(f, {"P", "W"} \union (DirEntry(m, s, p).fl \intersect {"U"})))
NewTable(m, s, p, f) ==
  LET d == DirEntry(m, s, p)
  IN SetTable(NewEntry(m, s, p, f), f,
        [i \in PTE |-> IF d.k = "page" /\ "P" \in d.fl /\ i # pte(p)
                       THEN PageAt(d.pa + i, d.fl) ELSE Empty])

\* Out of frames, the code goes on with a table that it does not have.
MapHere(m, p, f, fl) ==
  LET new == FreeFrame(m) IN
  IF DirEntry(m, m.cur, p).k = "table" THEN PutPage(m, m.cur, p, f, fl)
  ELSE IF new = None THEN Halt(m, "fault")
  ELSE PutPage(NewTable(m, m.cur, p, new), m.cur, p, f, fl)

\* A window on frame f at the first free user page from page on; v is 0 when
\* there is no room.
OpenAt(m, f, v) == [m |-> IF v = 0 THEN m ELSE MapHere(m, v, f, {"P", "W"}), v |-> v]
Open(m, f, page) == OpenAt(m, f, vmm_first_free(m, m.cur, page, kernel_start, 1, 0, FALSE))
Close(m, w) == FoldSet(LAMBDA v, a : IF DirEntry(a, a.cur, v).k = "table"
                                     THEN SetPte(a, a.cur, v, Empty) ELSE a, m, w)
Top(w) == IF w = {} THEN 0 ELSE Max(w) + 1

\* Windows on the directory of s and, with table, on the table for p: the
\* start of every operation below.
Opened(m, w) == [m |-> m, w |-> w, ok |-> TRUE]
Refused(m) == [m |-> m, w |-> {}, ok |-> FALSE]
OpenTable(d, t) == IF t.v = 0 THEN Refused(Close(d.m, {d.v})) ELSE Opened(t.m, {d.v, t.v})
OpenSpace(m, e, table, d) ==
  IF d.v = 0 THEN Refused(m)
  ELSE IF table /\ e.k = "table" THEN OpenTable(d, Open(d.m, e.pa, d.v + 1))
  ELSE Opened(d.m, {d.v})
Access(m, s, p, table) == IF s = m.cur THEN Opened(m, {})
                          ELSE OpenSpace(m, DirEntry(m, s, p), table, Open(m, 0, 0))

\* Do with the windows, which are closed after it.
Within(a, Do(_, _)) == IF a.ok THEN Close(Do(a.m, a.w), a.w) ELSE a.m

\* Operations that only read may leave a table for their windows behind, and
\* vmm_get_pgsz() the window on the directory, too.
Touch(m, s, p) == Within(Access(m, s, p, TRUE), LAMBDA x, w : x)
Leave(a) == Close(a.m, IF Cardinality(a.w) = 2 THEN {Max(a.w)} ELSE a.w)
Probe(m, s, p) == Leave(Access(m, s, p, TRUE))

vmm_get_pgsz(m, s, p) == IF Access(m, s, p, TRUE).ok THEN PgszOf(m, s, p) ELSE None
vmm_get_flags(m, s, p) == IF Access(m, s, p, TRUE).ok THEN FlagsOf(m, s, p) ELSE {}
vmm_get_paddr(m, s, p) == IF Access(m, s, p, TRUE).ok THEN PaddrOf(m, s, p) ELSE 0

-----------------------------------------------------------------------------
(* vmm_pgmap(), vmm_set_paddr(), vmm_set_flags().                           *)

\* A new entry above kernel_start goes to the other spaces; the code looks up
\* the process of the first task only, which is the kernel's.
ToKernel(m, s, p, o) ==
  IF o.v = 0 THEN m
  ELSE Close(IF s = vmm_kernel THEN o.m ELSE SetDir(o.m, vmm_kernel, p, DirEntry(o.m, s, p)),
             {o.v})
Propagate(m, s, p, w) == IF p < kernel_start THEN m ELSE ToKernel(m, s, p, Open(m, 0, Top(w)))

\* A page of a table that is made for it, and its window t when there is one.
InNewTable(m, s, f, p, fl, w, t) ==
  IF t.v = 0 THEN m
  ELSE Close(PutPage(Propagate(t.m, s, p, w \union {t.v}), s, p, f, fl), {t.v})
MakeTable(m, s, f, p, fl, w, new) ==
  IF new = None THEN Halt(m, "fault")
  ELSE IF s = m.cur
  THEN PutPage(Propagate(NewTable(m, s, p, new), s, p, {}), s, p, f, fl)
  ELSE InNewTable(NewEntry(m, s, p, new), s, f, p, fl, w,
                  Open(NewTable(m, s, p, new), new, Top(w)))
vmm_pgmap_small(m, s, f, p, fl) ==
  Within(Access(m, s, p, TRUE), LAMBDA x, w :
    IF DirEntry(m, s, p).k = "table" THEN PutPage(x, s, p, f, fl)
    ELSE MakeTable(x, s, f, p, fl, w, FreeFrame(x)))

\* A table that was there is freed.
FreeTable(m, d) == IF d.k = "table" THEN Release(m, d.pa) ELSE m
vmm_pgmap_huge(m, s, f, p, fl) ==
  Within(Access(m, s, p, FALSE), LAMBDA x, w :
    Propagate(SetDir(FreeTable(x, DirEntry(m, s, p)), s, p, PageAt(f - (f % PTES), fl)), s, p, w))

vmm_pgmap(m, s, f, p, idx, fl) ==
  IF idx = 0 THEN vmm_pgmap_small(m, s, f, p, fl) ELSE vmm_pgmap_huge(m, s, f, p, fl)

vmm_set_paddr(m, s, p, f) ==
  Within(Access(m, s, p, TRUE), LAMBDA x, w :
    CASE PgszOf(m, s, p) = None -> x
      [] PgszOf(m, s, p) = 0 -> SetPte(x, s, p, [Leaf(m, s, p) EXCEPT !.pa = f])
      [] PgszOf(m, s, p) = 1 ->
           SetDir(x, s, p, [DirEntry(m, s, p) EXCEPT !.pa = f - (f % PTES)]))

\* The trap flag of a small page goes to the entry that has the number of the
\* directory entry, not of the page.  The directory of another space is
\* mapped read-only, and a huge page's flags are in it.
SetTrap(t, i, on) ==
  [t EXCEPT ![i] = PageAt(@.pa, IF on THEN @.fl \union {"T"} ELSE @.fl \ {"T"})]
SetTableFlags(t, p, fl) ==
  SetTrap([t EXCEPT ![pte(p)] = PageAt(@.pa, (fl \ {"T"}) \union (@.fl \intersect {"T"}))],
          pde(p), "T" \in fl)
vmm_set_flags(m, s, p, fl) ==
  Within(Access(m, s, p, TRUE), LAMBDA x, w :
    CASE PgszOf(m, s, p) = None -> x
      [] PgszOf(m, s, p) = 0 -> SetTable(x, DirEntry(m, s, p).pa,
                                         SetTableFlags(TableOf(x, s, p), p, fl))
      [] PgszOf(m, s, p) = 1 -> IF s = m.cur THEN SetDir(x, s, p, PageAt(DirEntry(m, s, p).pa, fl))
                                ELSE Halt(x, "fault"))

-----------------------------------------------------------------------------
(* Ranges: vmm_map() and vmm_alloc_map().                                   *)

\* A slip: only the frames are looked at.
PlanFrames(f, p, n, max) ==
  LET plan[i \in 0..n] == IF i = n THEN <<>>
                          ELSE IF max = 1 /\ i + PTES <= n /\ (f + i) % PTES = 0
                          THEN <<<<i, 1>>>> \o plan[i + PTES] ELSE <<<<i, 0>>>> \o plan[i + 1]
  IN plan[0]

\* The pages that vmm_map() maps in turn, as <<offset, size index>>: the
\* largest page that is aligned on both sides and fits.
Plan(f, p, n, max) ==
  LET huge(i) == max = 1 /\ i + PTES <= n /\ (f + i) % PTES = 0 /\ (p + i) % PTES = 0
      plan[i \in 0..n] == IF i = n THEN <<>>
                          ELSE IF huge(i) THEN <<<<i, 1>>>> \o plan[i + PTES]
                          ELSE <<<<i, 0>>>> \o plan[i + 1]
  IN plan[0]
vmm_map(m, s, f, p, n, max, fl) ==
  FoldLeft(LAMBDA a, x : vmm_pgmap(a, s, f + x[1], p + x[1], x[2], fl), m, Plan(f, p, n, max))

\* In the current space, as every caller asks for.
MapAt(m, f, v, n, max, fl) ==
  [m |-> IF v = 0 THEN m ELSE vmm_map(m, m.cur, f, v, n, max, fl), v |-> v]
vmm_alloc_map(m, f, n, va_start, va_end, max, reverse, fl) ==
  MapAt(m, f, vmm_first_free(m, m.cur, va_start, va_end, n, 0, reverse), n, max, fl)
=============================================================================
