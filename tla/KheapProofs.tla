----------------------------- MODULE KheapProofs -----------------------------
(***************************************************************************)
(* The pages of the kernel heap have frames of their own, and what         *)
(* kmorecore() reported as the allocator's is on such pages: for any size  *)
(* of a frame, any set of frames and any increments and decrements.        *)
(***************************************************************************)
EXTENDS Kheap, FiniteSetTheorems, TLAPS

-----------------------------------------------------------------------------
(***************************************************************************)
(* Pages and frames                                                        *)
(***************************************************************************)
\* Division with a remainder, as it is used in rounding up to pages.
LEMMA Quotient ==
  ASSUME NEW n \in Nat, NEW k \in Nat \ {0}
  PROVE  /\ n \div k \in Nat
         /\ k * (n \div k) <= n
         /\ n < k * (n \div k) + k
  BY Z3

\* Of two quotients, the one of the larger number is the larger.
LEMMA QuotientOrder ==
  ASSUME NEW a \in Nat, NEW b \in Nat, a <= b, NEW k \in Nat \ {0}
  PROVE  a \div k <= b \div k
<1> DEFINE p == a \div k
           q == b \div k
<1>1. /\ p \in Nat /\ k * p <= a
      /\ q \in Nat /\ b < k * q + k
  BY Quotient
<1> HIDE DEF p, q
<1>2. ASSUME p > q PROVE FALSE
  <2>1. k * p >= k * (q + 1)
    BY <1>1, <1>2, Z3
  <2>2. k * (q + 1) = k * q + k
    BY <1>1, Z3
  <2> QED BY <1>1, <2>1, <2>2, Z3
<1>3. p <= q
  BY <1>1, <1>2
<1> QED BY <1>3 DEF p, q

\* A size is rounded up to a number of pages.
LEMMA PagesType ==
  ASSUME NEW n \in Nat
  PROVE  Pages(n) \in Nat
  BY KheapAssumption, Quotient DEF Pages
\* No page for no byte.
LEMMA PagesZero == Pages(0) = 0
<1>1. framesz - 1 \in Nat /\ framesz - 1 < framesz /\ framesz \in Nat \ {0}
  BY KheapAssumption
<1>2. (framesz - 1) \div framesz = 0
  BY <1>1, Z3
<1> QED BY <1>1, <1>2 DEF Pages
\* More bytes need no fewer pages.
LEMMA PagesOrder ==
  ASSUME NEW a \in Nat, NEW b \in Nat, a <= b
  PROVE  Pages(a) <= Pages(b)
<1>1. /\ a + framesz - 1 \in Nat /\ b + framesz - 1 \in Nat
      /\ a + framesz - 1 <= b + framesz - 1 /\ framesz \in Nat \ {0}
  BY KheapAssumption
<1> QED BY <1>1, QuotientOrder DEF Pages
\* Each byte below a size is on one of the pages of that size.
LEMMA PageOfByte ==
  ASSUME NEW n \in Nat, NEW b \in Nat, b < n
  PROVE  b \div framesz \in Nat /\ b \div framesz < Pages(n)
<1> DEFINE p == b \div framesz
           q == (n + framesz - 1) \div framesz
<1>0. framesz \in Nat \ {0} /\ n + framesz - 1 \in Nat
  BY KheapAssumption
<1>1. /\ p \in Nat /\ framesz * p <= b
      /\ q \in Nat /\ n + framesz - 1 < framesz * q + framesz
  BY <1>0, Quotient
<1>q. Pages(n) = q
  BY DEF Pages
<1> HIDE DEF p, q
<1>2. ASSUME p >= q PROVE FALSE
  <2>1. framesz * p >= framesz * q
    BY <1>0, <1>1, <1>2, Z3
  <2>2. framesz * p \in Nat /\ framesz * q \in Nat
    BY <1>0, <1>1, Z3
  <2> QED BY <1>0, <1>1, <2>1, <2>2
<1>3. p \in Nat /\ p < q
  BY <1>1, <1>2
<1> QED BY <1>3, <1>q DEF p

\* The frames of a finite set are counted from the lowest: each number below
\* their number is the number of lower ones of some frame.
LEMMA Ranked ==
  ASSUME NEW S \in SUBSET Nat, IsFiniteSet(S), NEW k \in Nat, k < Cardinality(S)
  PROVE  \E f \in S : Cardinality({g \in S : g < f}) = k
<1> DEFINE Lower(f) == {g \in S : g < f}
           n == Cardinality(S)
           rank == [f \in S |-> Cardinality(Lower(f))]
<1>1. n \in Nat
  BY FS_CardinalityType
<1>2. ASSUME NEW f \in S
      PROVE  /\ IsFiniteSet(Lower(f)) /\ Cardinality(Lower(f)) \in Nat
             /\ Cardinality(Lower(f)) < n
  <2>1. Lower(f) \in SUBSET S /\ Lower(f) # S
    OBVIOUS
  <2> HIDE DEF Lower
  <2>2. IsFiniteSet(Lower(f)) /\ Cardinality(Lower(f)) <= n /\ Cardinality(Lower(f)) # n
    BY <2>1, FS_Subset
  <2> QED BY <2>2, <1>1, FS_CardinalityType
<1>3. ASSUME NEW f \in S, NEW g \in S, f < g
      PROVE  Cardinality(Lower(f)) < Cardinality(Lower(g))
  <2>0. f \in Nat /\ g \in Nat
    OBVIOUS
  <2>4. \A h \in S : h \in Nat /\ (h < f => h < g)
    BY <1>3, <2>0
  <2>5. f \in Lower(g) /\ f \notin Lower(f)
    BY <1>3, <2>0
  <2>6. Lower(f) \subseteq Lower(g)
    BY <2>4
  <2>1. Lower(f) \in SUBSET Lower(g) /\ f \in Lower(g) /\ f \notin Lower(f)
    BY <2>5, <2>6, Zenon
  <2>3. /\ IsFiniteSet(Lower(g))
        /\ Cardinality(Lower(f)) \in Nat /\ Cardinality(Lower(g)) \in Nat
    BY <1>2
  <2> HIDE DEF Lower
  <2>2. /\ Cardinality(Lower(f)) <= Cardinality(Lower(g))
        /\ Cardinality(Lower(f)) # Cardinality(Lower(g))
    BY <2>1, <2>3, FS_Subset
  <2> QED BY <2>2, <2>3
<1>4. rank \in [S -> 0..n - 1]
  BY <1>1, <1>2
<1>5. \A f, g \in S : rank[f] = rank[g] => f = g
  BY <1>2, <1>3
<1>6. rank \in Injection(S, 0..n - 1)
  BY <1>4, <1>5, Zenon DEF Injection, IsInjective
<1>7. IsFiniteSet(0..n - 1) /\ Cardinality(0..n - 1) = n
  <2>1. 0 \in Int /\ n - 1 \in Int
    BY <1>1
  <2>2. /\ IsFiniteSet(0..n - 1)
        /\ Cardinality(0..n - 1) = IF 0 > n - 1 THEN 0 ELSE (n - 1) - 0 + 1
    BY <2>1, FS_Interval
  <2> HIDE DEF n
  <2> QED BY <1>1, <2>2
<1>8. rank \in Surjection(S, 0..n - 1)
  BY <1>6, <1>7, FS_Injection
<1>9. k \in 0..n - 1
  BY <1>1
<1> QED BY <1>8, <1>9 DEF Surjection

-----------------------------------------------------------------------------
(***************************************************************************)
(* The invariant                                                           *)
(***************************************************************************)
KheapTypeOK ==
  /\ kheap_size \in Nat /\ short \in BOOLEAN
  /\ DOMAIN mapped \subseteq Nat
  /\ mapped \in [DOMAIN mapped -> HeapFrame]
  /\ others \subseteq HeapFrame /\ given \subseteq Nat
\* Without a failed expansion the pages with a frame are the first ones, as
\* many as the size of the heap needs, and what was given is below it.
InvWhole ==
  ~short => /\ DOMAIN mapped = 0..Pages(kheap_size) - 1
            /\ given \subseteq 0..kheap_size - 1
KheapInv == KheapTypeOK /\ FramesOwn /\ InvWhole

\* The heap starts empty.
LEMMA KheapInitInv == KheapInit => KheapInv
<1> SUFFICES ASSUME KheapInit PROVE KheapInv
  OBVIOUS
<1>1. DOMAIN mapped = {} /\ kheap_size = 0 /\ others = {} /\ given = {} /\ short = FALSE
  BY DEF KheapInit
<1>2. KheapTypeOK
  <2>1. mapped \in [DOMAIN mapped -> HeapFrame]
    BY DEF KheapInit
  <2> QED BY <1>1, <2>1 DEF KheapTypeOK
<1>3. FramesOwn
  BY <1>1 DEF FramesOwn
<1>4. 0..Pages(0) - 1 = {}
  BY PagesZero
<1>5. InvWhole
  BY <1>1, <1>4 DEF InvWhole
<1> QED BY <1>2, <1>3, <1>5 DEF KheapInv

\* An expansion takes frames that nobody has, one for each new page, the lowest
\* first.
LEMMA GrowInv ==
  ASSUME KheapInv, NEW incr \in Nat, Grow(incr)
  PROVE  KheapInv'
<1> DEFINE old == Pages(kheap_size)
           new == Pages(kheap_size + incr)
           free == HeapFrame \ (InHeap \union others)
           got == IF new - old <= Cardinality(free) THEN new - old ELSE Cardinality(free)
           pages == [p \in DOMAIN mapped \union (old..old + got - 1) |->
                      IF p \in DOMAIN mapped THEN mapped[p]
                      ELSE CHOOSE f \in free : Cardinality({g \in free : g < f}) = p - old]
<1>1. /\ kheap_size' = kheap_size + incr /\ mapped' = pages /\ others' = others
      /\ short' = (short \/ got < new - old)
      /\ given' = IF got < new - old THEN given
                  ELSE given \union (kheap_size..kheap_size + incr - 1)
  BY Zenon DEF Grow
<1>2. /\ KheapTypeOK /\ FramesOwn /\ InvWhole
      /\ kheap_size \in Nat /\ kheap_size + incr \in Nat /\ short \in BOOLEAN
      /\ DOMAIN mapped \subseteq Nat /\ given \subseteq Nat
      /\ \A p \in DOMAIN mapped : mapped[p] \in HeapFrame
  BY DEF KheapInv, KheapTypeOK
<1>3. old \in Nat /\ new \in Nat /\ old <= new /\ Pages(kheap_size') = new
  BY <1>1, <1>2, PagesType, PagesOrder
<1>4. free \in SUBSET Nat /\ IsFiniteSet(free) /\ Cardinality(free) \in Nat
  <2>1. free \in SUBSET HeapFrame
    OBVIOUS
  <2> HIDE DEF free
  <2>2. IsFiniteSet(free) /\ free \in SUBSET Nat
    BY <2>1, KheapAssumption, FS_Subset
  <2> QED BY <2>2, FS_CardinalityType
<1>5. free \intersect InHeap = {} /\ free \intersect others = {} /\ free \subseteq HeapFrame
  OBVIOUS
<1> HIDE DEF old, new, free
<1>6. got \in Nat /\ got <= Cardinality(free) /\ got <= new - old
  BY <1>3, <1>4
<1> HIDE DEF got
<1>7. \A p \in DOMAIN mapped : p < old /\ p \in Nat
  BY <1>2 DEF FramesOwn, old
<1>8. ASSUME NEW p \in old..old + got - 1
      PROVE  /\ p \notin DOMAIN mapped /\ p < new /\ p \in Nat
             /\ pages[p] \in free
             /\ Cardinality({g \in free : g < pages[p]}) = p - old
  <2>1. p \in Nat /\ p >= old /\ p < old + got /\ p - old \in Nat
    BY <1>3, <1>6
  <2>2. p \notin DOMAIN mapped
    BY <1>3, <1>7, <2>1
  <2>3. \E f \in free : Cardinality({g \in free : g < f}) = p - old
    BY <1>4, <1>6, <2>1, <1>3, Ranked
  <2>4. pages[p] = CHOOSE f \in free : Cardinality({g \in free : g < f}) = p - old
    BY <2>2
  <2>5. pages[p] \in free /\ Cardinality({g \in free : g < pages[p]}) = p - old
    BY <2>3, <2>4, Zenon
  <2>6. p < new
    BY <1>3, <1>6, <2>1
  <2> QED BY <2>1, <2>2, <2>5, <2>6
<1>9. /\ DOMAIN pages = DOMAIN mapped \union (old..old + got - 1)
      /\ \A p \in DOMAIN mapped : pages[p] = mapped[p]
      /\ pages = [p \in DOMAIN pages |-> pages[p]]
  OBVIOUS
<1> HIDE DEF pages
<1>a. KheapTypeOK'
  <2>1. \A p \in DOMAIN pages : pages[p] \in HeapFrame /\ p \in Nat
    BY <1>2, <1>5, <1>7, <1>8, <1>9
  <2>2. pages \in [DOMAIN pages -> HeapFrame]
    BY <2>1, <1>9
  <2>3. given' \subseteq Nat
    BY <1>1, <1>2
  <2>4. short' \in BOOLEAN
    BY <1>1, <1>2
  <2>5. others' \subseteq HeapFrame
    BY <1>1, <1>2 DEF KheapTypeOK
  <2> QED BY <1>1, <1>2, <2>1, <2>2, <2>3, <2>4, <2>5 DEF KheapTypeOK
<1>b. FramesOwn'
  <2>1. \A p \in DOMAIN pages : pages[p] \notin others
    BY <1>2, <1>5, <1>8, <1>9 DEF FramesOwn, InHeap
  <2>2. ASSUME NEW p \in DOMAIN pages, NEW q \in DOMAIN pages, pages[p] = pages[q]
        PROVE  p = q
    <3>1. CASE p \in DOMAIN mapped /\ q \in DOMAIN mapped
      BY <1>2, <1>9, <2>2, <3>1 DEF FramesOwn
    <3>2. CASE p \in old..old + got - 1 /\ q \in old..old + got - 1
      <4>1. p - old = q - old
        BY <1>8, <2>2, <3>2, Zenon
      <4>2. p \in Nat /\ q \in Nat
        BY <1>8, <3>2
      <4> QED BY <1>3, <4>1, <4>2
    <3>3. ASSUME NEW x \in DOMAIN mapped, NEW y \in old..old + got - 1
          PROVE  pages[x] # pages[y]
      BY <1>5, <1>8, <1>9 DEF InHeap
    <3> QED BY <1>9, <2>2, <3>1, <3>2, <3>3
  <2>3. ASSUME NEW p \in DOMAIN pages PROVE p < new
    <3>1. CASE p \in DOMAIN mapped
      BY <1>3, <1>7, <3>1
    <3>2. CASE p \in old..old + got - 1
      BY <1>8, <3>2
    <3> QED BY <1>9, <3>1, <3>2
  <2>4. (InHeap \intersect others = {})'
    BY <1>1, <2>1 DEF InHeap
  <2> QED BY <1>1, <1>3, <2>2, <2>3, <2>4 DEF FramesOwn
<1>c. InvWhole'
  <2> SUFFICES ASSUME ~short'
               PROVE  DOMAIN pages = 0..new - 1 /\ given' \subseteq 0..kheap_size' - 1
    BY <1>1, <1>3 DEF InvWhole
  <2>0. ~short /\ ~(got < new - old)
    BY <1>1
  <2>1. ~short /\ got = new - old
    BY <1>3, <1>6, <2>0
  <2>2. DOMAIN mapped = 0..old - 1 /\ given \subseteq 0..kheap_size - 1
    BY <1>2, <2>1 DEF InvWhole, old
  <2>3. DOMAIN pages = 0..new - 1
    BY <1>3, <1>9, <2>1, <2>2
  <2>4. given' = given \union (kheap_size..kheap_size + incr - 1)
    BY <1>1, <1>3, <2>1
  <2> QED BY <1>1, <1>2, <2>2, <2>3, <2>4
<1> QED BY <1>a, <1>b, <1>c DEF KheapInv

\* Trimming takes the frames of the pages above the new end.
LEMMA TrimInv ==
  ASSUME KheapInv, NEW decr \in Nat, Trim(decr)
  PROVE  KheapInv'
<1> DEFINE old == Pages(kheap_size)
           new == Pages(kheap_size - decr)
           gone == new..old - 1
<1>1. /\ kheap_size - decr >= 0
      /\ kheap_size' = kheap_size - decr
      /\ mapped' = [p \in DOMAIN mapped \ gone |-> mapped[p]]
      /\ given' = {b \in given : b < kheap_size'}
      /\ others' = others /\ short' = short
  BY DEF Trim
<1>2. /\ KheapTypeOK /\ FramesOwn /\ InvWhole
      /\ kheap_size \in Nat /\ kheap_size' \in Nat
      /\ DOMAIN mapped \subseteq Nat /\ given \subseteq Nat
      /\ \A p \in DOMAIN mapped : mapped[p] \in HeapFrame
  BY <1>1 DEF KheapInv, KheapTypeOK
<1>3. old \in Nat /\ new \in Nat /\ new <= old /\ Pages(kheap_size') = new
  BY <1>1, <1>2, PagesType, PagesOrder
<1>4. \A p \in DOMAIN mapped : p < old /\ p \in Nat
  BY <1>2 DEF FramesOwn
<1> HIDE DEF old, new
<1>5. /\ DOMAIN mapped' = DOMAIN mapped \ gone
      /\ \A p \in DOMAIN mapped' : mapped'[p] = mapped[p]
  BY <1>1
<1>6. \A p \in DOMAIN mapped' : p < new
  BY <1>3, <1>4, <1>5
<1>a. KheapTypeOK'
  <2>1. mapped' \in [DOMAIN mapped' -> HeapFrame]
    BY <1>1, <1>2, <1>5
  <2> QED BY <1>1, <1>2, <1>5, <2>1 DEF KheapTypeOK
<1>b. FramesOwn'
  <2>1. (InHeap \intersect others = {})'
    BY <1>1, <1>2, <1>5 DEF InHeap, FramesOwn
  <2>2. \A p \in DOMAIN mapped', q \in DOMAIN mapped' : mapped'[p] = mapped'[q] => p = q
    BY <1>2, <1>5 DEF FramesOwn
  <2> QED BY <1>3, <1>6, <2>1, <2>2 DEF FramesOwn
<1>c. InvWhole'
  <2> SUFFICES ASSUME ~short
               PROVE  DOMAIN mapped' = 0..new - 1 /\ given' \subseteq 0..kheap_size' - 1
    BY <1>1, <1>3 DEF InvWhole
  <2>1. DOMAIN mapped = 0..old - 1
    BY <1>2 DEF InvWhole, old
  <2>2. DOMAIN mapped' = 0..new - 1
    BY <1>3, <1>5, <2>1
  <2>3. \A n \in Nat, b \in Nat : b < n => b \in 0..n - 1
    OBVIOUS
  <2>4. given' \subseteq 0..kheap_size' - 1
    BY <1>1, <1>2, <2>3
  <2> QED BY <2>2, <2>4
<1> QED BY <1>a, <1>b, <1>c DEF KheapInv

\* The invariant is inductive.
LEMMA KheapNextInv ==
  ASSUME KheapInv, [KheapNext]_kheapVars
  PROVE  KheapInv'
<1> USE DEF KheapInv, KheapTypeOK, FramesOwn, InHeap, InvWhole
<1>1. ASSUME NEW n \in Increments, Grow(n) PROVE KheapInv'
  BY <1>1, GrowInv, KheapAssumption
<1>2. ASSUME NEW n \in Increments, Trim(n) PROVE KheapInv'
  BY <1>2, TrimInv, KheapAssumption
<1>3. ASSUME NEW f \in HeapFrame, TakeFrame(f) PROVE KheapInv'
  BY <1>3 DEF TakeFrame
<1>4. ASSUME NEW f \in HeapFrame, GiveFrame(f) PROVE KheapInv'
  BY <1>4 DEF GiveFrame
<1>5. CASE UNCHANGED kheapVars
  BY <1>5 DEF kheapVars
<1> QED BY <1>1, <1>2, <1>3, <1>4, <1>5 DEF KheapNext

\* What the invariant says of the bytes that were given.
LEMMA KheapInvGives == KheapInv => HeapMapped
<1> SUFFICES ASSUME KheapInv, ~short, NEW b \in given
             PROVE  b \div framesz \in DOMAIN mapped
  BY DEF KheapInv, HeapMapped, GivenMapped
<1>1. kheap_size \in Nat /\ b \in Nat /\ b < kheap_size
  BY DEF KheapInv, KheapTypeOK, InvWhole
<1>2. b \div framesz \in Nat /\ b \div framesz < Pages(kheap_size)
  BY <1>1, PageOfByte
<1>3. DOMAIN mapped = 0..Pages(kheap_size) - 1 /\ Pages(kheap_size) \in Nat
  BY <1>1, PagesType DEF KheapInv, InvWhole
<1> QED BY <1>2, <1>3

\* Every page of the kernel heap has a frame of its own, which nobody else has,
\* and until an expansion has run out of frames everything that kmorecore()
\* gave the allocator is mapped.
THEOREM HeapMappedHolds == KheapSpec => []HeapMapped
<1>1. KheapInit => KheapInv
  BY KheapInitInv
<1>2. KheapInv /\ [KheapNext]_kheapVars => KheapInv'
  BY KheapNextInv
<1> QED BY <1>1, <1>2, KheapInvGives, PTL DEF KheapSpec
=============================================================================
