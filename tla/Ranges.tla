------------------------------- MODULE Ranges -------------------------------
(***************************************************************************)
(* What mapping, unmapping and remapping ranges promises: every space is a *)
(* function from pages to frames (want), and page tables with small and    *)
(* huge pages (PageTables, Cow) are a representation of it.                *)
(* The memory m is that of Vmem, whose actions have no part here.          *)
(***************************************************************************)
EXTENDS Vmem

CONSTANTS Space,             \* spaces, vmm_kernel among them
          Device,            \* first frames of what is mapped; not in the bitmap
          RangePages,        \* pages that the ranges lie in
          Lengths,           \* of ranges
          MAX_RANGES         \* bound on operations of a behaviour

VARIABLES want, ops
rvars == <<m, want, ops>>

First == Max(Space) + 1
RangesInit ==
  /\ m = [used |-> Space \union {First}, cur |-> vmm_kernel, halt |-> "no",
          pd |-> [s \in Space |-> [d \in PDE |-> IF s = vmm_kernel /\ d = 0
                                                 THEN TableAt(First, {"P", "W"}) ELSE Empty]],
          pt |-> [f \in {First} |-> BlankTable],
          traps |-> <<>>, base |-> 1, data |-> <<>>, staged |-> {}]
  /\ want = [s \in Space |-> [p \in RangePages |-> None]] /\ ops = 0

Op == ops < MAX_RANGES /\ m.halt = "no" /\ ops' = ops + 1
\* The pages from p on, n of them, show the frames from f on.
Shows(s, p, n, f) ==
  want' = [want EXCEPT ![s] = [q \in RangePages |->
             IF q \in p..p + n - 1 THEN IF f = None THEN None ELSE f + q - p ELSE @[q]]]
MapRange(s, f, p, n, max) ==
  /\ Op /\ p..p + n - 1 \subseteq RangePages
  /\ m' = vmm_map(m, s, f, p, n, max, {"P", "W"}) /\ Shows(s, p, n, f)
UnmapRange(s, p, n) ==
  /\ Op /\ p..p + n - 1 \subseteq RangePages
  /\ m' = vmm_unmap(m, s, p, n) /\ Shows(s, p, n, None)
\* A huge page moves as a whole, to a frame that is aligned like it.
MovePage(s, p, f) ==
  /\ Op /\ PgszOf(m, s, p) # None
  /\ m' = vmm_set_paddr(m, s, p, f)
  /\ IF PgszOf(m, s, p) = 0 THEN Shows(s, p, 1, f)
     ELSE Shows(s, p - pte(p), PTES, f - (f % PTES))
Turn(s) == m.cur # s /\ ops < MAX_RANGES /\ m' = vmm_switch(m, s) /\ UNCHANGED <<want, ops>>

RangesNext ==
  \E s \in Space :
    \/ Turn(s)
    \/ \E p \in RangePages :
         \/ \E f \in Device : MovePage(s, p, f)
         \/ \E n \in Lengths :
              \/ UnmapRange(s, p, n)
              \/ \E f \in Device, max \in {0, 1} : MapRange(s, f, p, n, max)
RangesSpec == RangesInit /\ [][RangesNext]_rvars

-----------------------------------------------------------------------------
\* Whatever was mapped, unmapped and moved before, with small and huge pages
\* over each other, in the current space or through windows, every page shows
\* the frame that it is meant to: vmm_map(), vmm_unmap() and vmm_set_paddr()
\* implement want.
Exact ==
  m.halt = "no" =>
    \A s \in Space, p \in RangePages :
      IF PgszOf(m, s, p) = None THEN want[s][p] = None ELSE PaddrOf(m, s, p) = want[s][p]

\* The bitmap has exactly the directories and the tables they point to: a
\* table is freed when a huge page takes its place, and no window's table or
\* split page's is lost.
NoTableLost ==
  m.halt = "no" =>
    m.used = Space \union UNION {{m.pd[s][d].pa : d \in {x \in PDE : m.pd[s][x].k = "table"}}
                                 : s \in Space}

\* vmm_first_free(), searching upwards, finds the lowest run of unmapped pages
\* whenever there is one.
FirstFit ==
  \A n \in 1..3, lo \in {0, PTES} :
    LET fits == {p \in Max({lo, 1})..kernel_start - n :
                   \A q \in p..p + n - 1 : PgszOf(m, m.cur, q) = None}
    IN vmm_first_free(m, m.cur, lo, kernel_start, n, 0, FALSE) = IF fits = {} THEN 0 ELSE Min(fits)
=============================================================================
