-------------------------------- MODULE Kheap --------------------------------
(***************************************************************************)
(* How the kernel heap grows and shrinks: kmorecore() of mm/kheap.c, which *)
(* the allocator calls for more memory, page by page from the bitmap.      *)
(***************************************************************************)
EXTENDS Integers, FiniteSets

CONSTANTS HeapFrame,        \* frames that the heap and others take from
          framesz,          \* bytes in a frame
          KHEAP_MAX_SIZE,
          Increments        \* what the allocator asks for, in bytes

ASSUME KheapAssumption ==
  /\ HeapFrame \subseteq Nat /\ IsFiniteSet(HeapFrame)
  /\ framesz \in Nat \ {0} /\ KHEAP_MAX_SIZE \in Nat /\ Increments \subseteq Nat

VARIABLES kheap_size,
          mapped,           \* frame of each page of the heap that has one
          others,           \* frames that others have
          given,            \* bytes the allocator was given and has (history)
          short             \* an expansion ran out of frames (history)
kheapVars == <<kheap_size, mapped, others, given, short>>

Pages(n) == (n + framesz - 1) \div framesz
InHeap == {mapped[p] : p \in DOMAIN mapped}
KheapInit == kheap_size = 0 /\ mapped = <<>> /\ others = {} /\ given = {} /\ short = FALSE

\* The size is raised first.  Pages that got a frame before the frames ran out
\* keep it.
Grow(incr) ==
  LET old == Pages(kheap_size)
      new == Pages(kheap_size + incr)
      free == HeapFrame \ (InHeap \union others)
      got == IF new - old <= Cardinality(free) THEN new - old ELSE Cardinality(free)
      pages == [p \in DOMAIN mapped \union (old..old + got - 1) |->
                  IF p \in DOMAIN mapped THEN mapped[p]
                  ELSE CHOOSE f \in free : Cardinality({g \in free : g < f}) = p - old]
  IN /\ incr >= 0 /\ kheap_size + incr <= KHEAP_MAX_SIZE
     /\ kheap_size' = kheap_size + incr
     /\ mapped' = pages
     /\ short' = (short \/ got < new - old)
     /\ given' = IF got < new - old THEN given
                 ELSE given \union (kheap_size..kheap_size + incr - 1)
     /\ UNCHANGED others

\* A slip: the topmost page stays.
TrimLess(decr) ==
  LET gone == Pages(kheap_size - decr) + 1..Pages(kheap_size) - 1 IN
  /\ decr > 0 /\ kheap_size - decr >= 0
  /\ kheap_size' = kheap_size - decr
  /\ mapped' = [p \in DOMAIN mapped \ gone |-> mapped[p]]
  /\ given' = {b \in given : b < kheap_size'}
  /\ UNCHANGED <<others, short>>

\* The allocator gives back the end of what it has, pages from the top down;
\* one without a frame is passed over.
Trim(decr) ==
  LET gone == Pages(kheap_size - decr)..Pages(kheap_size) - 1 IN
  /\ decr > 0 /\ kheap_size - decr >= 0
  /\ kheap_size' = kheap_size - decr
  /\ mapped' = [p \in DOMAIN mapped \ gone |-> mapped[p]]
  /\ given' = {b \in given : b < kheap_size'}
  /\ UNCHANGED <<others, short>>

TakeFrame(f) == f \notin InHeap \union others /\ others' = others \union {f}
                /\ UNCHANGED <<kheap_size, mapped, given, short>>
GiveFrame(f) == f \in others /\ others' = others \ {f}
                /\ UNCHANGED <<kheap_size, mapped, given, short>>

KheapNext == \/ \E n \in Increments : Grow(n) \/ Trim(n)
             \/ \E f \in HeapFrame : TakeFrame(f) \/ GiveFrame(f)
KheapSpec == KheapInit /\ [][KheapNext]_kheapVars

-----------------------------------------------------------------------------
\* kmorecore() gives the heap frames that nobody else has, one for each page,
\* and gives all of them back when the heap shrinks below their pages.
FramesOwn ==
  /\ InHeap \intersect others = {}
  /\ \A p \in DOMAIN mapped, q \in DOMAIN mapped : mapped[p] = mapped[q] => p = q
  /\ \A p \in DOMAIN mapped : p < Pages(kheap_size)
\* While no expansion has run out of frames, every byte that kmorecore()
\* reported as the allocator's is on a page with a frame, with increments and
\* decrements that are no multiples of a page.
GivenMapped == ~short => \A b \in given : b \div framesz \in DOMAIN mapped
\* The heap's addresses are mapped to frames of its own, and what it returned
\* is mapped (mm/kheap.c kmorecore()).
HeapMapped == FramesOwn /\ GivenMapped
=============================================================================
