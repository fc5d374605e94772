----------------------------- MODULE MallocProofs -----------------------------
(***************************************************************************)
(* Proof that the kernel's allocator keeps its heap consistent, for heaps  *)
(* of any size, any requests, and any sequence of calls and failures.      *)
(* Each step of Malloc is a sequence of the few changes of a heap that the *)
(* first lemmas are about: a chunk is cut in two, two are joined, one is   *)
(* taken from a list or given to one, and the same at top.                 *)
(***************************************************************************)
EXTENDS Malloc, TLAPS

-----------------------------------------------------------------------------
(* A heap: the sizes of its chunks, the set prev of those whose PREV_INUSE *)
(* bit is set, the free sizes that stand before the others, top, the end   *)
(* of the memory, the chunks U in use and the listed ones L.               *)

End(size, c) == c + size[c]
HeapType(size, prev, free, end) ==
  /\ size \in [DOMAIN size -> Nat \ {0}] /\ DOMAIN size \subseteq Nat
  /\ prev \subseteq DOMAIN size /\ free \in [DOMAIN size \ prev -> Nat] /\ end \in Nat
\* Chunks lie apart, and top lies last.
Tiling(size, top, end) ==
  /\ \A c \in DOMAIN size, d \in DOMAIN size : c < d => End(size, c) <= d
  /\ \A c \in DOMAIN size : c <= top
  /\ top = -1 \/ (top \in DOMAIN size /\ size[top] >= MINSIZE /\ End(size, top) <= end)
Places(size, top, U, L) ==
  /\ U \union L = {c \in DOMAIN size : size[c] >= MINSIZE} \ {top}
  /\ U \intersect L = {}
UsedNext(size, prev, U) == \A c \in U : End(size, c) \in prev
FreeNext(size, prev, free, top, L) ==
  /\ \A c \in L : /\ c \in prev /\ End(size, c) \in DOMAIN size \ prev
                  /\ free[End(size, c)] = size[c] /\ End(size, c) # top
  /\ \A c \in DOMAIN size \ prev : c - free[c] \in L /\ End(size, c - free[c]) = c
\* The fencepost that a chunk borders on is in use, as the one behind it says.
FenceNext(size, prev, S) ==
  \A c \in S : size[End(size, c)] < MINSIZE => End(size, End(size, c)) \in prev
Heap(size, prev, free, top, end, U, L) ==
  /\ HeapType(size, prev, free, end) /\ Tiling(size, top, end) /\ Places(size, top, U, L)
  /\ UsedNext(size, prev, U) /\ FreeNext(size, prev, free, top, L)
  /\ FenceNext(size, prev, U \union L)

SplitAt(size, c, n) == [d \in DOMAIN size \union {c + n} |->
                        IF d = c THEN n ELSE IF d = c + n THEN size[c] - n ELSE size[d]]
OneChunk(brk, end) == [c \in {brk} |-> end - brk]
\* Top is followed by another, and n bytes of it by two fenceposts.
FencedAt(size, top, n, brk, end) ==
  LET fence == {top + n, top + n + 4}
  IN [c \in DOMAIN size \union fence \union {brk} |->
        IF c \in fence THEN 4 ELSE IF c = brk THEN end - brk
        ELSE IF c = top THEN n ELSE size[c]]
Joined(size, c, d) == [x \in DOMAIN size \ {d} |-> IF x = c THEN size[c] + size[d] ELSE size[x]]

-----------------------------------------------------------------------------
(* The changes of a heap.                                                  *)

\* What a heap says of two of its chunks (do_check_chunk()).
LEMMA Apart ==
  ASSUME NEW size, NEW prev, NEW free, NEW top, NEW end, NEW U, NEW L,
         Heap(size, prev, free, top, end, U, L), NEW c \in DOMAIN size, NEW d \in DOMAIN size
  PROVE  /\ c \in Nat /\ size[c] \in Nat /\ size[c] > 0 /\ End(size, c) \in Nat /\ c < End(size, c)
         /\ c < d => End(size, c) <= d
         /\ End(size, c) = End(size, d) => c = d
         /\ d <= top
<1>1. /\ c \in Nat /\ size[c] \in Nat /\ size[c] > 0
      /\ d \in Nat /\ size[d] \in Nat /\ size[d] > 0
  BY DEF Heap, HeapType
<1>2. /\ c < d => End(size, c) <= d
      /\ d < c => End(size, d) <= c
      /\ d <= top
  BY DEF Heap, Tiling
<1> QED
  BY <1>1, <1>2 DEF End

\* Where a chunk is, and what lies behind it (do_check_inuse_chunk(),
\* do_check_free_chunk()).
LEMMA Neighbours ==
  ASSUME NEW size, NEW prev, NEW free, NEW top, NEW end, NEW U, NEW L,
         Heap(size, prev, free, top, end, U, L)
  PROVE  /\ \A c \in U \union L : /\ c \in DOMAIN size /\ c # top /\ size[c] >= MINSIZE
                                  /\ End(size, c) \in DOMAIN size
         /\ U \intersect L = {}
         /\ top # -1 => top \in DOMAIN size /\ top \in prev
         /\ U \union L # {} => top # -1
<1>1. ASSUME NEW c \in U \union L
      PROVE  /\ c \in DOMAIN size /\ c # top /\ size[c] >= MINSIZE
             /\ End(size, c) \in DOMAIN size /\ top # -1
  <2>1. c \in DOMAIN size /\ c # top /\ size[c] >= MINSIZE
    BY DEF Heap, Places
  <2>2. End(size, c) \in DOMAIN size
    BY DEF Heap, UsedNext, FreeNext, HeapType
  <2>3. top # -1
    BY <2>1, Apart
  <2> QED
    BY <2>1, <2>2, <2>3
<1>2. ASSUME top # -1 PROVE top \in DOMAIN size /\ top \in prev
  <2>1. top \in DOMAIN size
    BY <1>2 DEF Heap, Tiling
  <2>2. ASSUME top \notin prev PROVE FALSE
    <3>1. top - free[top] \in L /\ End(size, top - free[top]) = top
      BY <2>1, <2>2 DEF Heap, FreeNext
    <3> QED
      BY <3>1 DEF Heap, FreeNext
  <2> QED
    BY <2>1, <2>2
<1> QED
  BY <1>1, <1>2 DEF Heap, Places

\* A chunk is taken from its list (unlink(), set_inuse_bit_at_offset()).
LEMMA HeapTake ==
  ASSUME NEW size, NEW prev, NEW free, NEW top, NEW end, NEW U, NEW L,
         Heap(size, prev, free, top, end, U, L), NEW v \in L
  PROVE  Heap(size, prev \union {End(size, v)}, Without(free, {End(size, v)}), top, end,
              U \union {v}, L \ {v})
<1> DEFINE next == End(size, v)
<1>1. v \in DOMAIN size /\ next \in DOMAIN size /\ next \notin prev /\ v \notin U
  BY Neighbours DEF Heap, FreeNext
<1>2. \A c \in L \ {v} : End(size, c) # next
  BY <1>1, Neighbours, Apart
<1>3. free \in [DOMAIN size \ prev -> Nat]
  BY DEF Heap, HeapType
<1>4. /\ Without(free, {next}) \in [DOMAIN size \ (prev \union {next}) -> Nat]
      /\ \A c \in DOMAIN size \ (prev \union {next}) : Without(free, {next})[c] = free[c]
  BY <1>3 DEF Without
<1>5. HeapType(size, prev \union {next}, Without(free, {next}), end)
  BY <1>1, <1>4 DEF Heap, HeapType
<1>6. Places(size, top, U \union {v}, L \ {v})
  BY <1>1 DEF Heap, Places
<1>7. UsedNext(size, prev \union {next}, U \union {v})
  BY DEF Heap, UsedNext
<1>8. FreeNext(size, prev \union {next}, Without(free, {next}), top, L \ {v})
  <2>1. ASSUME NEW c \in L \ {v}
        PROVE  /\ c \in prev \union {next} /\ End(size, c) \in DOMAIN size \ (prev \union {next})
               /\ Without(free, {next})[End(size, c)] = size[c] /\ End(size, c) # top
    BY <1>2, <1>4 DEF Heap, FreeNext
  <2>2. ASSUME NEW c \in DOMAIN size \ (prev \union {next})
        PROVE  /\ c - Without(free, {next})[c] \in L \ {v}
               /\ End(size, c - Without(free, {next})[c]) = c
    BY <1>4 DEF Heap, FreeNext
  <2> QED
    BY <2>1, <2>2 DEF FreeNext
<1>9. FenceNext(size, prev \union {next}, (U \union {v}) \union (L \ {v}))
  BY DEF Heap, FenceNext
<1> HIDE DEF next
<1> QED
  BY <1>5, <1>6, <1>7, <1>8, <1>9 DEF Heap, next

\* A chunk with no free neighbour is given to a list (set_foot(), and the bit
\* that fREe() clears).
LEMMA HeapGive ==
  ASSUME NEW size, NEW prev, NEW free, NEW top, NEW end, NEW U, NEW L,
         Heap(size, prev, free, top, end, U, L), NEW c \in U,
         c \in prev, End(size, c) # top, End(size, c) \notin L
  PROVE  Heap(size, prev \ {End(size, c)}, With(free, End(size, c), size[c]), top, end,
              U \ {c}, L \union {c})
<1> DEFINE next == End(size, c)
           f == With(free, next, size[c])
<1>1. /\ c \in DOMAIN size /\ next \in DOMAIN size /\ next \in prev /\ c \notin L
      /\ size[c] \in Nat /\ size[c] >= MINSIZE /\ c < next
  BY Neighbours, Apart DEF Heap, UsedNext
<1>2. \A d \in DOMAIN size : d # c => End(size, d) # next
  BY <1>1, Apart
<1>3. free \in [DOMAIN size \ prev -> Nat]
  BY DEF Heap, HeapType
<1>4. /\ f \in [DOMAIN size \ (prev \ {next}) -> Nat] /\ f[next] = size[c]
      /\ \A d \in DOMAIN size \ prev : f[d] = free[d]
  BY <1>1, <1>3 DEF With
<1> HIDE DEF f
<1>5. HeapType(size, prev \ {next}, f, end)
  BY <1>1, <1>4 DEF Heap, HeapType
<1>6. Places(size, top, U \ {c}, L \union {c})
  BY <1>1 DEF Heap, Places
<1>7. UsedNext(size, prev \ {next}, U \ {c})
  BY <1>2, Neighbours DEF Heap, UsedNext
<1>8. FreeNext(size, prev \ {next}, f, top, L \union {c})
  <2>1. ASSUME NEW d \in L
        PROVE  /\ d \in prev \ {next} /\ End(size, d) \in DOMAIN size \ (prev \ {next})
               /\ f[End(size, d)] = size[d] /\ End(size, d) # top
    BY <1>4 DEF Heap, FreeNext
  <2>2. /\ c \in prev \ {next} /\ next \in DOMAIN size \ (prev \ {next})
        /\ f[next] = size[c] /\ next # top
    <3>1. c # next
      BY <1>1, Apart
    <3> QED
      BY <1>1, <1>4, <3>1
  <2>3. ASSUME NEW d \in DOMAIN size \ (prev \ {next})
        PROVE  d - f[d] \in L \union {c} /\ End(size, d - f[d]) = d
    <3>1. CASE d = next
      <4>1. d - f[d] = c
        <5>1. c \in Nat /\ next = c + size[c]
          BY <1>1, Apart DEF End
        <5> QED
          BY <1>1, <1>4, <3>1, <5>1
      <4> QED
        BY <3>1, <4>1
    <3>2. CASE d # next
      BY <1>4, <3>2 DEF Heap, FreeNext
    <3> QED
      BY <3>1, <3>2
  <2> HIDE DEF next
  <2> QED
    BY <2>1, <2>2, <2>3 DEF FreeNext, next
<1>9. FenceNext(size, prev \ {next}, (U \ {c}) \union (L \union {c}))
  <2> SUFFICES ASSUME NEW d \in U \union L, size[End(size, d)] < MINSIZE
               PROVE  End(size, End(size, d)) \in prev \ {next}
    BY DEF FenceNext
  <2>1. End(size, End(size, d)) \in prev
    BY DEF Heap, FenceNext
  <2>2. End(size, d) \in DOMAIN size /\ End(size, d) # c
    BY <1>1, Neighbours DEF MINSIZE
  <2> QED
    BY <1>2, <2>1, <2>2
<1> HIDE DEF next
<1> QED
  BY <1>5, <1>6, <1>7, <1>8, <1>9 DEF Heap, next, f

\* A chunk in use is cut in two (set_head() twice, mALLOc() and others).
LEMMA HeapSplit ==
  ASSUME NEW size, NEW prev, NEW free, NEW top, NEW end, NEW U, NEW L,
         Heap(size, prev, free, top, end, U, L), NEW c \in U, NEW n \in Nat,
         n >= MINSIZE, size[c] - n >= MINSIZE
  PROVE  /\ Heap(SplitAt(size, c, n), prev \union {c + n}, free, top, end, U \union {c + n}, L)
         /\ c + n \notin DOMAIN size
<1> DEFINE rest == c + n
           s == SplitAt(size, c, n)
<1>1. /\ c \in DOMAIN size /\ c \in Nat /\ size[c] \in Nat /\ c # top /\ c \notin L
      /\ End(size, c) \in prev /\ End(size, c) = c + size[c]
  BY Neighbours, Apart DEF Heap, UsedNext, End
<1>2. rest \in Nat /\ c < rest /\ rest < End(size, c) /\ n > 0 /\ size[c] - n \in Nat \ {0}
  BY <1>1 DEF MINSIZE
<1>3. rest \notin DOMAIN size
  BY <1>1, <1>2, Apart
<1>4. /\ DOMAIN s = DOMAIN size \union {rest} /\ s[c] = n /\ s[rest] = size[c] - n
      /\ \A d \in DOMAIN size : d # c => s[d] = size[d]
  BY <1>1, <1>2, <1>3 DEF SplitAt
<1> HIDE DEF s
<1>5. /\ End(s, c) = rest /\ End(s, rest) = End(size, c)
      /\ \A d \in DOMAIN size : d # c => End(s, d) = End(size, d)
  BY <1>1, <1>2, <1>4 DEF End
<1> HIDE DEF rest
<1>6. HeapType(s, prev \union {rest}, free, end)
  <2>1. /\ size \in [DOMAIN size -> Nat \ {0}] /\ DOMAIN size \subseteq Nat
        /\ prev \subseteq DOMAIN size /\ free \in [DOMAIN size \ prev -> Nat] /\ end \in Nat
    BY DEF Heap, HeapType
  <2>2. \A d \in DOMAIN s : s[d] \in Nat \ {0}
    BY <1>2, <1>4, <2>1
  <2>3. s \in [DOMAIN s -> Nat \ {0}]
    <3>1. s = [d \in DOMAIN s |-> s[d]]
      BY DEF s, SplitAt
    <3> QED
      BY <2>2, <3>1
  <2>4. DOMAIN s \ (prev \union {rest}) = DOMAIN size \ prev
    BY <1>3, <1>4
  <2> QED
    BY <1>2, <1>4, <2>1, <2>3, <2>4 DEF HeapType
<1>7. Tiling(s, top, end)
  <2>1. ASSUME NEW d \in DOMAIN s, NEW e \in DOMAIN s, d < e PROVE End(s, d) <= e
    <3>1. CASE d \in DOMAIN size /\ e \in DOMAIN size
      <4>1. End(size, d) <= e
        BY <2>1, <3>1, Apart
      <4>2. d = c => End(s, d) < End(size, d)
        BY <1>2, <1>5
      <4>3. e \in Nat /\ End(size, d) \in Nat
        BY <3>1, Apart
      <4> QED
        BY <1>2, <1>5, <3>1, <4>1, <4>2, <4>3
    <3>2. CASE d = rest /\ e \in DOMAIN size
      <4>1. c < e
        BY <1>1, <1>2, <2>1, <3>2, Apart
      <4> QED
        BY <1>1, <1>5, <3>2, <4>1, Apart
    <3>3. CASE d \in DOMAIN size /\ e = rest
      <4>1. CASE d = c
        BY <1>2, <1>5, <3>3, <4>1
      <4>2. CASE d # c
        <5>1. d < c
          BY <1>1, <1>2, <2>1, <3>3, <4>2, Apart
        <5> QED
          BY <1>1, <1>2, <1>5, <3>3, <4>2, <5>1, Apart
      <4> QED
        BY <4>1, <4>2
    <3>4. CASE d = rest /\ e = rest
      BY <1>2, <2>1, <3>4
    <3> QED
      BY <1>4, <3>1, <3>2, <3>3, <3>4
  <2>2. top \in DOMAIN size /\ s[top] = size[top] /\ End(s, top) = End(size, top)
    BY <1>1, <1>4, <1>5, Neighbours
  <2>3. ASSUME NEW d \in DOMAIN s PROVE d <= top
    <3>1. End(size, c) <= top
      BY <1>1, <2>2, Apart
    <3> QED
      BY <1>1, <1>2, <1>4, <2>2, <3>1, Apart
  <2>4. top # -1 /\ size[top] >= MINSIZE /\ End(size, top) <= end
    BY <2>2, Apart DEF Heap, Tiling
  <2> QED
    BY <1>4, <2>1, <2>2, <2>3, <2>4 DEF Tiling
<1>8. Places(s, top, U \union {rest}, L)
  <2>1. U \union L = {d \in DOMAIN size : size[d] >= MINSIZE} \ {top} /\ U \intersect L = {}
    BY DEF Heap, Places
  <2>2. {d \in DOMAIN s : s[d] >= MINSIZE} = {d \in DOMAIN size : size[d] >= MINSIZE} \union {rest}
    <3>1. size[c] >= MINSIZE
      BY Neighbours
    <3> QED
      BY <1>4, <3>1
  <2>3. rest # top /\ rest \notin L
    BY <1>3, <2>1, Neighbours
  <2> QED
    BY <2>1, <2>2, <2>3 DEF Places
<1>9. UsedNext(s, prev \union {rest}, U \union {rest})
  <2>1. \A d \in U : d # c => End(s, d) \in prev
    BY <1>5, Neighbours DEF Heap, UsedNext
  <2> QED
    BY <1>1, <1>5, <2>1 DEF UsedNext
<1>10. FreeNext(s, prev \union {rest}, free, top, L)
  <2>1. ASSUME NEW d \in L
        PROVE  /\ d \in prev \union {rest} /\ End(s, d) \in DOMAIN s \ (prev \union {rest})
               /\ free[End(s, d)] = s[d] /\ End(s, d) # top
    <3>1. d \in DOMAIN size /\ End(s, d) = End(size, d) /\ s[d] = size[d] /\ End(size, d) # rest
      BY <1>1, <1>3, <1>4, <1>5, Neighbours
    <3> QED
      BY <1>4, <3>1 DEF Heap, FreeNext
  <2>2. ASSUME NEW d \in DOMAIN s \ (prev \union {rest})
        PROVE  d - free[d] \in L /\ End(s, d - free[d]) = d
    <3>1. d \in DOMAIN size \ prev
      BY <1>4
    <3>2. d - free[d] \in L /\ End(size, d - free[d]) = d
      BY <3>1 DEF Heap, FreeNext
    <3> QED
      BY <1>1, <1>5, <3>2, Neighbours
  <2> QED
    BY <2>1, <2>2 DEF FreeNext
<1>11. FenceNext(s, prev \union {rest}, (U \union {rest}) \union L)
  <2> SUFFICES ASSUME NEW d \in U \union L \union {rest}, s[End(s, d)] < MINSIZE
               PROVE  End(s, End(s, d)) \in prev \union {rest}
    BY DEF FenceNext
  <2>1. d # c
    BY <1>1, <1>4, <1>5 DEF MINSIZE
  <2>2. PICK b \in U \union L : End(s, d) = End(size, b)
    <3>1. CASE d = rest
      BY <1>5, <3>1
    <3>2. CASE d \in U \union L
      BY <1>5, <2>1, <3>2, Neighbours
    <3> QED
      BY <3>1, <3>2
  <2>3. End(size, b) \in DOMAIN size
    BY Neighbours
  <2>4. CASE End(size, b) = c
    <3>1. End(s, End(s, d)) = rest
      BY <1>5, <2>2, <2>4
    <3> QED
      BY <3>1
  <2>5. CASE End(size, b) # c
    BY <1>4, <1>5, <2>2, <2>3, <2>5 DEF Heap, FenceNext
  <2> QED
    BY <2>4, <2>5
<1>12. Heap(s, prev \union {rest}, free, top, end, U \union {rest}, L)
  BY <1>6, <1>7, <1>8, <1>9, <1>10, <1>11 DEF Heap
<1> QED
  BY <1>3, <1>12 DEF s, rest

\* Two chunks in use become one (rEALLOc(), and the merges of fREe()).
LEMMA HeapJoin ==
  ASSUME NEW size, NEW prev, NEW free, NEW top, NEW end, NEW U, NEW L,
         Heap(size, prev, free, top, end, U, L), NEW c \in U, NEW next \in U, next = End(size, c)
  PROVE  Heap(Joined(size, c, next), prev \ {next}, free, top, end, U \ {next}, L)
<1> DEFINE s == Joined(size, c, next)
<1>1. /\ c \in DOMAIN size /\ c \in Nat /\ size[c] \in Nat /\ c # top /\ c \notin L /\ c < next
      /\ next \in DOMAIN size /\ next \in Nat /\ size[next] \in Nat /\ next # top /\ next \notin L
      /\ next \in prev /\ size[c] >= MINSIZE /\ size[next] >= MINSIZE
      /\ End(size, next) \in prev /\ End(size, next) \in Nat /\ next < End(size, next)
  BY Neighbours, Apart DEF Heap, UsedNext
<1>2. /\ DOMAIN s = DOMAIN size \ {next} /\ s[c] = size[c] + size[next] /\ c \in DOMAIN s
      /\ \A d \in DOMAIN s : d # c => s[d] = size[d]
  BY <1>1 DEF Joined
<1> HIDE DEF s
<1>3. /\ End(s, c) = End(size, next)
      /\ \A d \in DOMAIN s : d # c => End(s, d) = End(size, d)
  BY <1>1, <1>2 DEF End
<1>4. \A d \in DOMAIN size : d # c => End(size, d) # next
  BY <1>1, Apart
<1>5. HeapType(s, prev \ {next}, free, end)
  <2>1. /\ size \in [DOMAIN size -> Nat \ {0}] /\ DOMAIN size \subseteq Nat
        /\ prev \subseteq DOMAIN size /\ free \in [DOMAIN size \ prev -> Nat] /\ end \in Nat
    BY DEF Heap, HeapType
  <2>2. \A d \in DOMAIN s : s[d] \in Nat \ {0}
    BY <1>1, <1>2, <2>1 DEF MINSIZE
  <2>3. s \in [DOMAIN s -> Nat \ {0}]
    <3>1. s = [d \in DOMAIN s |-> s[d]]
      BY DEF s, Joined
    <3> QED
      BY <2>2, <3>1
  <2>4. DOMAIN s \ (prev \ {next}) = DOMAIN size \ prev
    BY <1>1, <1>2
  <2> QED
    BY <1>2, <2>1, <2>3, <2>4 DEF HeapType
<1>6. Tiling(s, top, end)
  <2>1. ASSUME NEW d \in DOMAIN s, NEW e \in DOMAIN s, d < e PROVE End(s, d) <= e
    <3>1. d \in DOMAIN size /\ e \in DOMAIN size /\ e # next
      BY <1>2
    <3>2. CASE d = c
      <4>1. next <= e
        BY <1>1, <2>1, <3>1, <3>2, Apart
      <4>2. next < e
        BY <1>1, <3>1, <4>1, Apart
      <4> QED
        BY <1>1, <1>3, <3>1, <3>2, <4>2, Apart
    <3>3. CASE d # c
      BY <1>3, <2>1, <3>1, <3>3, Apart
    <3> QED
      BY <3>2, <3>3
  <2>2. top \in DOMAIN s /\ s[top] = size[top] /\ End(s, top) = End(size, top) /\ top # -1
    BY <1>1, <1>2, <1>3, Neighbours
  <2>3. \A d \in DOMAIN s : d <= top
    BY <1>2, <2>2, Apart
  <2> QED
    BY <2>1, <2>2, <2>3 DEF Heap, Tiling
<1>7. Places(s, top, U \ {next}, L)
  <2>1. U \union L = {d \in DOMAIN size : size[d] >= MINSIZE} \ {top} /\ U \intersect L = {}
    BY DEF Heap, Places
  <2>2. {d \in DOMAIN s : s[d] >= MINSIZE} = {d \in DOMAIN size : size[d] >= MINSIZE} \ {next}
    <3>1. s[c] >= MINSIZE
      BY <1>1, <1>2 DEF MINSIZE
    <3> QED
      BY <1>1, <1>2, <3>1
  <2> QED
    BY <1>1, <2>1, <2>2 DEF Places
<1>8. UsedNext(s, prev \ {next}, U \ {next})
  <2>1. ASSUME NEW d \in U \ {next}, d # c PROVE End(s, d) \in prev \ {next}
    <3>1. d \in DOMAIN s /\ d \in DOMAIN size
      BY <1>2, Neighbours
    <3> QED
      BY <1>3, <1>4, <2>1, <3>1 DEF Heap, UsedNext
  <2>2. End(s, c) \in prev \ {next}
    BY <1>1, <1>3
  <2> QED
    BY <2>1, <2>2 DEF UsedNext
<1>9. FreeNext(s, prev \ {next}, free, top, L)
  <2>1. ASSUME NEW d \in L
        PROVE  /\ d \in prev \ {next} /\ End(s, d) \in DOMAIN s \ (prev \ {next})
               /\ free[End(s, d)] = s[d] /\ End(s, d) # top
    <3>1. d \in DOMAIN s /\ End(s, d) = End(size, d) /\ s[d] = size[d] /\ End(size, d) # next
      BY <1>1, <1>2, <1>3, <1>4, Neighbours
    <3> QED
      BY <1>1, <1>2, <3>1 DEF Heap, FreeNext
  <2>2. ASSUME NEW d \in DOMAIN s \ (prev \ {next})
        PROVE  d - free[d] \in L /\ End(s, d - free[d]) = d
    <3>1. d \in DOMAIN size \ prev
      BY <1>2
    <3>2. d - free[d] \in L /\ End(size, d - free[d]) = d
      BY <3>1 DEF Heap, FreeNext
    <3> QED
      BY <1>1, <1>2, <1>3, <3>2, Neighbours
  <2> QED
    BY <2>1, <2>2 DEF FreeNext
<1>10. FenceNext(s, prev \ {next}, (U \ {next}) \union L)
  <2> SUFFICES ASSUME NEW d \in (U \union L) \ {next}, s[End(s, d)] < MINSIZE
               PROVE  End(s, End(s, d)) \in prev \ {next}
    BY <1>1 DEF FenceNext
  <2>1. PICK b \in U \union L : End(s, d) = End(size, b) /\ b # c
    <3>1. CASE d = c
      BY <1>1, <1>3, <3>1
    <3>2. CASE d # c
      BY <1>2, <1>3, <3>2, Neighbours
    <3> QED
      BY <3>1, <3>2
  <2>2. End(size, b) \in DOMAIN size /\ End(size, b) # next /\ End(size, b) \in DOMAIN s
    BY <1>2, <1>4, <2>1, Neighbours
  <2>3. End(size, b) # c
    BY <1>1, <1>2, <2>1 DEF MINSIZE
  <2> QED
    BY <1>2, <1>3, <1>4, <2>1, <2>2, <2>3 DEF Heap, FenceNext
<1> QED
  BY <1>5, <1>6, <1>7, <1>8, <1>9, <1>10 DEF Heap, s

\* A chunk is cut from top (mALLOc(), use_top).
LEMMA TopSplit ==
  ASSUME NEW size, NEW prev, NEW free, NEW top, NEW end, NEW U, NEW L,
         Heap(size, prev, free, top, end, U, L), top # -1, NEW n \in Nat,
         n >= MINSIZE, size[top] - n >= MINSIZE
  PROVE  /\ Heap(SplitAt(size, top, n), prev \union {top + n}, free, top + n, end, U \union {top}, L)
         /\ top + n \notin DOMAIN size
<1> DEFINE rest == top + n
           s == SplitAt(size, top, n)
<1>1. top \in DOMAIN size /\ top \in Nat /\ size[top] \in Nat /\ top \notin L /\ top \notin U
  BY Neighbours, Apart
<1>2. rest \in Nat /\ top < rest /\ n > 0 /\ size[top] - n \in Nat \ {0} /\ rest # -1
  BY <1>1 DEF MINSIZE
<1>3. rest \notin DOMAIN size
  BY <1>1, <1>2, Apart
<1>4. /\ DOMAIN s = DOMAIN size \union {rest} /\ s[top] = n /\ s[rest] = size[top] - n
      /\ \A d \in DOMAIN size : d # top => s[d] = size[d]
  BY <1>1, <1>2, <1>3 DEF SplitAt
<1> HIDE DEF s
<1>5. /\ End(s, top) = rest /\ End(s, rest) = End(size, top)
      /\ \A d \in DOMAIN size : d # top => End(s, d) = End(size, d)
  BY <1>1, <1>2, <1>4 DEF End
<1> HIDE DEF rest
<1>6. HeapType(s, prev \union {rest}, free, end)
  <2>1. /\ size \in [DOMAIN size -> Nat \ {0}] /\ DOMAIN size \subseteq Nat
        /\ prev \subseteq DOMAIN size /\ free \in [DOMAIN size \ prev -> Nat] /\ end \in Nat
    BY DEF Heap, HeapType
  <2>2. \A d \in DOMAIN s : s[d] \in Nat \ {0}
    BY <1>2, <1>4, <2>1
  <2>3. s \in [DOMAIN s -> Nat \ {0}]
    <3>1. s = [d \in DOMAIN s |-> s[d]]
      BY DEF s, SplitAt
    <3> QED
      BY <2>2, <3>1
  <2>4. DOMAIN s \ (prev \union {rest}) = DOMAIN size \ prev
    BY <1>3, <1>4
  <2> QED
    BY <1>2, <1>4, <2>1, <2>3, <2>4 DEF HeapType
<1>7. Tiling(s, rest, end)
  <2>1. ASSUME NEW d \in DOMAIN s, NEW e \in DOMAIN s, d < e PROVE End(s, d) <= e
    <3>1. d # rest
      BY <1>1, <1>2, <1>4, <2>1, Apart
    <3>2. CASE d = top
      BY <1>1, <1>2, <1>4, <1>5, <2>1, <3>2, Apart
    <3>3. CASE d # top
      <4>1. d < top
        BY <1>1, <1>4, <3>1, <3>3, Apart
      <4>2. End(s, d) <= top /\ End(s, d) \in Nat
        BY <1>1, <1>4, <1>5, <3>1, <3>3, <4>1, Apart
      <4> QED
        BY <1>1, <1>2, <1>4, <1>5, <2>1, <3>1, <3>3, <4>2, Apart
    <3> QED
      BY <3>2, <3>3
  <2>2. \A d \in DOMAIN s : d <= rest
    BY <1>1, <1>2, <1>4, Apart
  <2>3. rest \in DOMAIN s /\ s[rest] >= MINSIZE /\ End(s, rest) <= end
    BY <1>1, <1>2, <1>4, <1>5 DEF Heap, Tiling
  <2> QED
    BY <2>1, <2>2, <2>3 DEF Tiling
<1>8. Places(s, rest, U \union {top}, L)
  <2>1. U \union L = {d \in DOMAIN size : size[d] >= MINSIZE} \ {top} /\ U \intersect L = {}
    BY DEF Heap, Places
  <2>2. {d \in DOMAIN s : s[d] >= MINSIZE} = {d \in DOMAIN size : size[d] >= MINSIZE} \union {top, rest}
    BY <1>1, <1>4
  <2> QED
    BY <1>1, <1>3, <2>1, <2>2 DEF Places
<1>9. UsedNext(s, prev \union {rest}, U \union {top})
  <2>1. \A d \in U : End(s, d) \in prev
    BY <1>5, Neighbours DEF Heap, UsedNext
  <2> QED
    BY <1>5, <2>1 DEF UsedNext
<1>10. FreeNext(s, prev \union {rest}, free, rest, L)
  <2>1. ASSUME NEW d \in L
        PROVE  /\ d \in prev \union {rest} /\ End(s, d) \in DOMAIN s \ (prev \union {rest})
               /\ free[End(s, d)] = s[d] /\ End(s, d) # rest
    <3>1. d \in DOMAIN size /\ End(s, d) = End(size, d) /\ s[d] = size[d] /\ End(size, d) # rest
      BY <1>1, <1>3, <1>4, <1>5, Neighbours
    <3> QED
      BY <1>4, <3>1 DEF Heap, FreeNext
  <2>2. ASSUME NEW d \in DOMAIN s \ (prev \union {rest})
        PROVE  d - free[d] \in L /\ End(s, d - free[d]) = d
    <3>1. d \in DOMAIN size \ prev
      BY <1>4
    <3>2. d - free[d] \in L /\ End(size, d - free[d]) = d
      BY <3>1 DEF Heap, FreeNext
    <3> QED
      BY <1>1, <1>5, <3>2, Neighbours
  <2> QED
    BY <2>1, <2>2 DEF FreeNext
<1>11. FenceNext(s, prev \union {rest}, (U \union {top}) \union L)
  <2> SUFFICES ASSUME NEW d \in U \union L \union {top}, s[End(s, d)] < MINSIZE
               PROVE  End(s, End(s, d)) \in prev \union {rest}
    BY DEF FenceNext
  <2>1. d # top
    BY <1>1, <1>4, <1>5 DEF MINSIZE
  <2>2. End(s, d) = End(size, d) /\ End(size, d) \in DOMAIN size
    BY <1>5, <2>1, Neighbours
  <2>3. End(size, d) # top
    BY <1>4, <2>2 DEF MINSIZE
  <2> QED
    BY <1>4, <1>5, <2>1, <2>2, <2>3 DEF Heap, FenceNext
<1>12. Heap(s, prev \union {rest}, free, rest, end, U \union {top}, L)
  BY <1>6, <1>7, <1>8, <1>9, <1>10, <1>11 DEF Heap
<1> QED
  BY <1>3, <1>12 DEF s, rest

\* A chunk is joined to the top behind it (fREe(), the last case).
LEMMA TopJoin ==
  ASSUME NEW size, NEW prev, NEW free, NEW top, NEW end, NEW U, NEW L,
         Heap(size, prev, free, top, end, U, L), NEW c \in U, c \in prev, End(size, c) = top
  PROVE  Heap(Joined(size, c, top), prev \ {top}, free, c, end, U \ {c}, L)
<1> DEFINE s == Joined(size, c, top)
<1>1. /\ c \in DOMAIN size /\ c \in Nat /\ size[c] \in Nat /\ c # top /\ c \notin L /\ c < top
      /\ top \in DOMAIN size /\ top \in Nat /\ size[top] \in Nat /\ top \notin U /\ top \notin L
      /\ top \in prev /\ size[c] >= MINSIZE /\ End(size, top) <= end /\ size[top] >= MINSIZE
  <2>1. c \in DOMAIN size /\ c # top /\ c \notin L /\ size[c] >= MINSIZE /\ top \in DOMAIN size
    BY Neighbours
  <2>2. top # -1
    BY Neighbours
  <2> QED
    BY <2>1, <2>2, Neighbours, Apart DEF Heap, Tiling
<1>2. /\ DOMAIN s = DOMAIN size \ {top} /\ s[c] = size[c] + size[top] /\ c \in DOMAIN s
      /\ \A d \in DOMAIN s : d # c => s[d] = size[d]
  BY <1>1 DEF Joined
<1> HIDE DEF s
<1>3. /\ End(s, c) = End(size, top)
      /\ \A d \in DOMAIN s : d # c => End(s, d) = End(size, d)
  BY <1>1, <1>2 DEF End
<1>4. \A d \in DOMAIN size : d # c => End(size, d) # top
  BY <1>1, Apart
<1>5. HeapType(s, prev \ {top}, free, end)
  <2>1. /\ size \in [DOMAIN size -> Nat \ {0}] /\ DOMAIN size \subseteq Nat
        /\ prev \subseteq DOMAIN size /\ free \in [DOMAIN size \ prev -> Nat] /\ end \in Nat
    BY DEF Heap, HeapType
  <2>2. \A d \in DOMAIN s : s[d] \in Nat \ {0}
    BY <1>1, <1>2, <2>1 DEF MINSIZE
  <2>3. s \in [DOMAIN s -> Nat \ {0}]
    <3>1. s = [d \in DOMAIN s |-> s[d]]
      BY DEF s, Joined
    <3> QED
      BY <2>2, <3>1
  <2>4. DOMAIN s \ (prev \ {top}) = DOMAIN size \ prev
    BY <1>1, <1>2
  <2> QED
    BY <1>2, <2>1, <2>3, <2>4 DEF HeapType
<1>6. Tiling(s, c, end)
  <2>1. ASSUME NEW d \in DOMAIN s PROVE d <= c
    BY <1>1, <1>2, Apart
  <2>2. ASSUME NEW d \in DOMAIN s, NEW e \in DOMAIN s, d < e PROVE End(s, d) <= e
    <3>1. d # c /\ d \in DOMAIN size /\ e \in DOMAIN size
      BY <1>1, <1>2, <2>1, <2>2, Apart
    <3> QED
      BY <1>3, <2>2, <3>1, Apart
  <2>3. s[c] >= MINSIZE /\ End(s, c) <= end
    BY <1>1, <1>2, <1>3 DEF MINSIZE
  <2> QED
    BY <1>2, <2>1, <2>2, <2>3 DEF Tiling
<1>7. Places(s, c, U \ {c}, L)
  <2>1. U \union L = {d \in DOMAIN size : size[d] >= MINSIZE} \ {top} /\ U \intersect L = {}
    BY DEF Heap, Places
  <2>2. {d \in DOMAIN s : s[d] >= MINSIZE} \ {c} = {d \in DOMAIN size : size[d] >= MINSIZE} \ {top, c}
    BY <1>1, <1>2
  <2> QED
    BY <1>1, <2>1, <2>2 DEF Places
<1>8. UsedNext(s, prev \ {top}, U \ {c})
  <2> SUFFICES ASSUME NEW d \in U, d # c PROVE End(s, d) \in prev \ {top}
    BY DEF UsedNext
  <2>1. d \in DOMAIN size /\ d \in DOMAIN s
    BY <1>1, <1>2, Neighbours
  <2> QED
    BY <1>3, <1>4, <2>1 DEF Heap, UsedNext
<1>9. FreeNext(s, prev \ {top}, free, c, L)
  <2>1. ASSUME NEW d \in L
        PROVE  /\ d \in prev \ {top} /\ End(s, d) \in DOMAIN s \ (prev \ {top})
               /\ free[End(s, d)] = s[d] /\ End(s, d) # c
    <3>1. d \in DOMAIN s /\ End(s, d) = End(size, d) /\ s[d] = size[d] /\ End(size, d) # top
      BY <1>1, <1>2, <1>3, <1>4, Neighbours
    <3>2. End(size, d) \in DOMAIN size \ prev
      BY DEF Heap, FreeNext
    <3> QED
      BY <1>1, <1>2, <3>1, <3>2 DEF Heap, FreeNext
  <2>2. ASSUME NEW d \in DOMAIN s \ (prev \ {top})
        PROVE  d - free[d] \in L /\ End(s, d - free[d]) = d
    <3>1. d \in DOMAIN size \ prev
      BY <1>2
    <3>2. d - free[d] \in L /\ End(size, d - free[d]) = d
      BY <3>1 DEF Heap, FreeNext
    <3> QED
      BY <1>1, <1>2, <1>3, <3>2, Neighbours
  <2> QED
    BY <2>1, <2>2 DEF FreeNext
<1>10. FenceNext(s, prev \ {top}, (U \ {c}) \union L)
  <2> SUFFICES ASSUME NEW d \in (U \union L) \ {c}, s[End(s, d)] < MINSIZE
               PROVE  End(s, End(s, d)) \in prev \ {top}
    BY <1>1 DEF FenceNext
  <2>1. d \in DOMAIN size /\ d \in DOMAIN s /\ End(s, d) = End(size, d) /\ End(size, d) \in DOMAIN s
    BY <1>1, <1>2, <1>3, <1>4, Neighbours
  <2>2. End(size, d) # c
    BY <1>1, <1>2, <2>1 DEF MINSIZE
  <2>3. End(size, d) \in DOMAIN size /\ End(s, End(s, d)) = End(size, End(size, d))
    BY <1>2, <1>3, <2>1, <2>2
  <2> QED
    BY <1>2, <1>4, <2>1, <2>2, <2>3 DEF Heap, FenceNext
<1> QED
  BY <1>5, <1>6, <1>7, <1>8, <1>9, <1>10 DEF Heap, s

\* Top grows or shrinks (sYSMALLOc(), sYSTRIm()).
LEMMA TopResized ==
  ASSUME NEW size, NEW prev, NEW free, NEW top, NEW end, NEW U, NEW L,
         Heap(size, prev, free, top, end, U, L), top # -1,
         NEW n \in Nat, n >= MINSIZE, NEW e \in Nat, top + n <= e
  PROVE  Heap([size EXCEPT ![top] = n], prev, free, top, e, U, L)
<1> DEFINE s == [size EXCEPT ![top] = n]
<1>1. top \in DOMAIN size /\ top \in Nat /\ top \notin U /\ top \notin L /\ size[top] >= MINSIZE
  BY Neighbours, Apart DEF Heap, Tiling
<1>2. DOMAIN s = DOMAIN size /\ s[top] = n /\ \A d \in DOMAIN size : d # top => s[d] = size[d]
  BY <1>1
<1>3. End(s, top) = top + n /\ \A d \in DOMAIN size : d # top => End(s, d) = End(size, d)
  BY <1>2 DEF End
<1>4. HeapType(s, prev, free, e)
  BY <1>1 DEF Heap, HeapType, MINSIZE
<1> HIDE DEF s
<1>5. Tiling(s, top, e)
  <2>1. ASSUME NEW c \in DOMAIN s, NEW d \in DOMAIN s, c < d PROVE End(s, c) <= d
    BY <1>1, <1>2, <1>3, <2>1, Apart
  <2>2. \A c \in DOMAIN s : c <= top
    BY <1>1, <1>2, Apart
  <2> QED
    BY <1>1, <1>2, <1>3, <2>1, <2>2 DEF Tiling
<1>6. Places(s, top, U, L)
  <2>1. {d \in DOMAIN s : s[d] >= MINSIZE} = {d \in DOMAIN size : size[d] >= MINSIZE}
    BY <1>1, <1>2
  <2> QED
    BY <2>1 DEF Heap, Places
<1>7. UsedNext(s, prev, U)
  BY <1>1, <1>3, Neighbours DEF Heap, UsedNext
<1>8. FreeNext(s, prev, free, top, L)
  <2>1. ASSUME NEW d \in L
        PROVE  /\ d \in prev /\ End(s, d) \in DOMAIN s \ prev
               /\ free[End(s, d)] = s[d] /\ End(s, d) # top
    BY <1>1, <1>2, <1>3, Neighbours DEF Heap, FreeNext
  <2>2. ASSUME NEW d \in DOMAIN s \ prev PROVE d - free[d] \in L /\ End(s, d - free[d]) = d
    BY <1>1, <1>2, <1>3, Neighbours DEF Heap, FreeNext
  <2> QED
    BY <2>1, <2>2 DEF FreeNext
<1>9. FenceNext(s, prev, U \union L)
  <2> SUFFICES ASSUME NEW d \in U \union L, s[End(s, d)] < MINSIZE
               PROVE  End(s, End(s, d)) \in prev
    BY DEF FenceNext
  <2>1. End(s, d) = End(size, d) /\ End(size, d) \in DOMAIN size
    BY <1>1, <1>3, Neighbours
  <2>2. End(size, d) # top
    BY <1>2, <2>1 DEF MINSIZE
  <2>3. s[End(size, d)] = size[End(size, d)] /\ End(s, End(size, d)) = End(size, End(size, d))
    BY <1>2, <1>3, <2>1, <2>2
  <2>4. End(size, End(size, d)) \in prev
    BY <2>1, <2>3 DEF Heap, FenceNext
  <2> QED
    BY <2>1, <2>3, <2>4
<1> QED
  BY <1>4, <1>5, <1>6, <1>7, <1>8, <1>9 DEF Heap, s

\* The first memory is one chunk, the top (malloc_init_state(), sYSMALLOc()).
LEMMA FirstTop ==
  ASSUME NEW size, NEW prev, NEW free, NEW end, NEW U, NEW L,
         Heap(size, prev, free, -1, end, U, L), NEW brk \in Nat, NEW e \in Nat, e - brk >= MINSIZE
  PROVE  Heap(OneChunk(brk, e), {brk}, free, brk, e, U, L)
<1> DEFINE s == OneChunk(brk, e)
<1>1. DOMAIN size = {} /\ U = {} /\ L = {}
  <2>1. DOMAIN size = {}
    <3>1. DOMAIN size \subseteq Nat /\ \A c \in DOMAIN size : c <= -1
      BY DEF Heap, HeapType, Tiling
    <3>2. ASSUME NEW c \in DOMAIN size PROVE FALSE
      BY <3>1
    <3> QED
      BY <3>2
  <2>2. U \union L = {}
    <3>1. \A c \in U \union L : c \in DOMAIN size
      BY Neighbours
    <3> QED
      BY <2>1, <3>1
  <2> QED
    BY <2>1, <2>2
<1>2. e - brk \in Nat \ {0}
  BY DEF MINSIZE
<1>3. DOMAIN s = {brk} /\ s[brk] = e - brk /\ s = [c \in {brk} |-> e - brk]
  BY DEF OneChunk
<1>4. HeapType(s, {brk}, free, e)
  <2>1. prev \subseteq DOMAIN size /\ free \in [DOMAIN size \ prev -> Nat]
    BY DEF Heap, HeapType
  <2>2. DOMAIN s \ {brk} = DOMAIN size \ prev
    BY <1>1, <1>3, <2>1
  <2>3. s \in [DOMAIN s -> Nat \ {0}]
    <3> HIDE DEF s
    <3> QED
      BY <1>2, <1>3
  <2> HIDE DEF s
  <2> QED
    BY <1>3, <2>1, <2>2, <2>3 DEF HeapType
<1> HIDE DEF s
<1>5. Tiling(s, brk, e)
  BY <1>2, <1>3 DEF Tiling, End
<1>6. Places(s, brk, U, L) /\ UsedNext(s, {brk}, U) /\ FenceNext(s, {brk}, U \union L)
  BY <1>1, <1>3 DEF Places, UsedNext, FenceNext
<1>7. FreeNext(s, {brk}, free, brk, L)
  BY <1>1, <1>3 DEF FreeNext
<1> QED
  BY <1>4, <1>5, <1>6, <1>7 DEF Heap, s

\* What is left of a former top when two fenceposts end it; nothing, it may be
\* (sYSMALLOc()).
LEMMA FencedSize ==
  ASSUME NEW k \in Nat, k >= MINSIZE, NEW n, n = ((k - 12) \div 8) * 8
  PROVE  n \in Nat /\ (n = 0 \/ n >= 8) /\ n + 12 <= k
<1>1. (k - 12) \div 8 \in Nat /\ 8 * ((k - 12) \div 8) <= k - 12
  BY Z3 DEF MINSIZE
<1>2. ASSUME NEW q \in Nat, 8 * q <= k - 12, n = q * 8
      PROVE  n \in Nat /\ (n = 0 \/ n >= 8) /\ n + 12 <= k
  BY <1>2
<1> QED
  BY <1>1, <1>2

\* The heap goes on behind a gap: a new top, and the former one ends in two
\* fenceposts.
LEMMA TopFenced ==
  ASSUME NEW size, NEW prev, NEW free, NEW top, NEW end, NEW U, NEW L,
         Heap(size, prev, free, top, end, U, L), top # -1,
         NEW brk \in Nat, NEW e \in Nat, brk >= End(size, top), e - brk >= MINSIZE,
         NEW n, n = ((size[top] - 12) \div 8) * 8,
         NEW fence, fence = {top + n, top + n + 4}
  PROVE  Heap(FencedAt(size, top, n, brk, e), prev \union fence \union {brk}, free, brk, e,
              IF n >= MINSIZE THEN U \union {top} ELSE U, L)
<1> DEFINE s == FencedAt(size, top, n, brk, e)
           V == IF n >= MINSIZE THEN U \union {top} ELSE U
           p == prev \union fence \union {brk}
<1>1. /\ top \in DOMAIN size /\ top \in Nat /\ top \notin U /\ top \notin L /\ top \in prev
      /\ size[top] \in Nat /\ size[top] >= MINSIZE /\ End(size, top) = top + size[top]
  BY Neighbours, Apart DEF Heap, Tiling, End
<1>2. n \in Nat /\ (n = 0 \/ n >= 8) /\ n + 12 <= size[top]
  BY <1>1, FencedSize
<1>3. /\ \A c \in DOMAIN size : c \in Nat /\ (c = top \/ (c < top /\ End(size, c) <= top /\ End(size, c) \in Nat))
      /\ top + n + 8 < brk
  <2>1. \A c \in DOMAIN size : c \in Nat /\ c <= top /\ (c < top => End(size, c) <= top) /\ End(size, c) \in Nat
    BY <1>1, Apart
  <2> QED
    BY <1>1, <1>2, <2>1
<1>4. /\ brk \notin DOMAIN size /\ brk \notin fence /\ top + n + 4 \notin DOMAIN size
      /\ top + n \in DOMAIN size => n = 0
      /\ \A c \in DOMAIN size : c # top => c \notin fence
  BY <1>1, <1>2, <1>3
<1>5. /\ DOMAIN s = DOMAIN size \union fence \union {brk}
      /\ s[top + n] = 4 /\ s[top + n + 4] = 4 /\ s[brk] = e - brk
      /\ n > 0 => s[top] = n
      /\ \A c \in DOMAIN size : c # top => s[c] = size[c]
  <2>1. n > 0 => top \notin fence
    BY <1>1, <1>2
  <2>2. s = [c \in DOMAIN size \union fence \union {brk} |->
               IF c \in fence THEN 4 ELSE IF c = brk THEN e - brk
               ELSE IF c = top THEN n ELSE size[c]]
    BY DEF FencedAt
  <2> HIDE DEF s
  <2> QED
    BY <1>1, <1>4, <2>1, <2>2
<1> HIDE DEF s
<1>6. /\ End(s, top + n) = top + n + 4 /\ End(s, top + n + 4) = top + n + 8 /\ End(s, brk) = e
      /\ n > 0 => End(s, top) = top + n
      /\ \A c \in DOMAIN size : c # top => End(s, c) = End(size, c)
  BY <1>1, <1>2, <1>5 DEF End
<1>7. ASSUME NEW c \in DOMAIN s
      PROVE  \/ c \in DOMAIN size /\ c # top
             \/ c = top /\ n > 0
             \/ c = top + n
             \/ c = top + n + 4
             \/ c = brk
  <2>1. c \in DOMAIN size \/ c \in fence \/ c = brk
    BY <1>5
  <2>2. n = 0 => top = top + n
    BY <1>1
  <2> QED
    BY <1>2, <2>1, <2>2
<1>8. HeapType(s, p, free, e)
  <2>1. /\ size \in [DOMAIN size -> Nat \ {0}] /\ DOMAIN size \subseteq Nat
        /\ prev \subseteq DOMAIN size /\ free \in [DOMAIN size \ prev -> Nat]
    BY DEF Heap, HeapType
  <2>2. \A c \in DOMAIN s : s[c] \in Nat \ {0}
    BY <1>2, <1>5, <1>7, <2>1 DEF MINSIZE
  <2>3. s \in [DOMAIN s -> Nat \ {0}]
    <3>1. s = [c \in DOMAIN s |-> s[c]]
      BY DEF s, FencedAt
    <3> QED
      BY <2>2, <3>1
  <2>4. DOMAIN s \ p = DOMAIN size \ prev
    BY <1>1, <1>4, <1>5
  <2>5. DOMAIN s \subseteq Nat
    BY <1>1, <1>2, <1>3, <1>7
  <2> QED
    BY <1>5, <2>1, <2>3, <2>4, <2>5 DEF HeapType
<1>9. Tiling(s, brk, e)
  <2>1. ASSUME NEW c \in DOMAIN s, NEW d \in DOMAIN s, c < d PROVE End(s, c) <= d
    <3>1. CASE c \in DOMAIN size /\ c # top
      <4>1. d \in DOMAIN size \/ d >= top
        BY <1>1, <1>2, <1>3, <1>7
      <4>2. d \in DOMAIN size => End(size, c) <= d
        BY <2>1, <3>1, Apart
      <4>3. d \in Nat
        BY <1>1, <1>2, <1>3, <1>7
      <4> QED
        BY <1>1, <1>3, <1>6, <3>1, <4>1, <4>2, <4>3
    <3>2. CASE c >= top
      <4>1. \/ c = top /\ n > 0
            \/ c = top + n
            \/ c = top + n + 4
            \/ c = brk
        BY <1>1, <1>3, <1>7, <3>2
      <4>2. \/ d = top
            \/ d = top + n
            \/ d = top + n + 4
            \/ d = brk
        BY <1>1, <1>2, <1>3, <1>7, <2>1, <3>2
      <4> QED
        BY <1>1, <1>2, <1>3, <1>6, <2>1, <4>1, <4>2
    <3> QED
      BY <1>1, <1>2, <1>3, <1>7, <3>1, <3>2
  <2>2. \A c \in DOMAIN s : c <= brk
    BY <1>1, <1>2, <1>3, <1>7
  <2> QED
    BY <1>5, <1>6, <2>1, <2>2 DEF Tiling
<1>10. Places(s, brk, V, L)
  <2>1. U \union L = {d \in DOMAIN size : size[d] >= MINSIZE} \ {top} /\ U \intersect L = {}
    BY DEF Heap, Places
  <2>2. ASSUME NEW d PROVE d \in V \union L <=> d \in {c \in DOMAIN s : s[c] >= MINSIZE} \ {brk}
    <3>1. CASE d = top
      <4>1. n = 0 => s[top] = 4
        BY <1>1, <1>5
      <4> QED
        BY <1>1, <1>2, <1>4, <1>5, <3>1, <4>1 DEF MINSIZE
    <3>2. CASE d # top
      <4>1. d \in V \union L <=> d \in U \union L
        BY <3>2
      <4>2. d \in DOMAIN s /\ d # brk /\ s[d] >= MINSIZE => d \in DOMAIN size
        BY <1>5 DEF MINSIZE
      <4>3. d \in DOMAIN size => d # brk /\ d \in DOMAIN s /\ s[d] = size[d]
        BY <1>4, <1>5, <3>2
      <4> QED
        BY <2>1, <3>2, <4>1, <4>2, <4>3
    <3> QED
      BY <3>1, <3>2
  <2> QED
    BY <1>1, <2>1, <2>2 DEF Places
<1>11. UsedNext(s, p, V)
  <2>1. ASSUME NEW c \in U PROVE End(s, c) \in p
    BY <1>1, <1>6, Neighbours DEF Heap, UsedNext
  <2>2. n >= MINSIZE => End(s, top) \in p
    BY <1>2, <1>6 DEF MINSIZE
  <2> QED
    BY <2>1, <2>2 DEF UsedNext
<1>12. FreeNext(s, p, free, brk, L)
  <2>1. ASSUME NEW d \in L
        PROVE  /\ d \in p /\ End(s, d) \in DOMAIN s \ p
               /\ free[End(s, d)] = s[d] /\ End(s, d) # brk
    <3>1. d \in DOMAIN size /\ d # top /\ End(s, d) = End(size, d) /\ s[d] = size[d]
      BY <1>1, <1>5, <1>6, Neighbours
    <3>2. /\ d \in prev /\ End(size, d) \in DOMAIN size \ prev
          /\ free[End(size, d)] = size[d] /\ End(size, d) # top
      BY DEF Heap, FreeNext
    <3> QED
      BY <1>4, <1>5, <3>1, <3>2
  <2>2. ASSUME NEW d \in DOMAIN s \ p PROVE d - free[d] \in L /\ End(s, d - free[d]) = d
    <3>1. d \in DOMAIN size \ prev
      BY <1>5
    <3>2. d - free[d] \in L /\ End(size, d - free[d]) = d
      BY <3>1 DEF Heap, FreeNext
    <3> QED
      BY <1>1, <1>6, <3>2, Neighbours
  <2> QED
    BY <2>1, <2>2 DEF FreeNext
<1>13. FenceNext(s, p, V \union L)
  <2>1. ASSUME NEW d \in U \union L, s[End(s, d)] < MINSIZE PROVE End(s, End(s, d)) \in p
    <3>1. End(s, d) = End(size, d) /\ End(size, d) \in DOMAIN size
      BY <1>1, <1>6, Neighbours
    <3>2. CASE End(size, d) = top
      <4>1. End(s, top) = top + n \/ End(s, top) = top + n + 4
        BY <1>1, <1>2, <1>6
      <4> QED
        BY <3>1, <3>2, <4>1
    <3>3. CASE End(size, d) # top
      BY <1>5, <1>6, <2>1, <3>1, <3>3 DEF Heap, FenceNext
    <3> QED
      BY <3>2, <3>3
  <2>2. n >= MINSIZE => End(s, End(s, top)) \in p
    BY <1>2, <1>6 DEF MINSIZE
  <2> QED
    BY <2>1, <2>2 DEF FenceNext
<1> HIDE DEF V, p
<1>14. Heap(s, p, free, brk, e, V, L)
  BY <1>8, <1>9, <1>10, <1>11, <1>12, <1>13 DEF Heap
<1> QED
  BY <1>14 DEF s, V, p

\* A chunk that was in use is freed into its neighbours (fREe(),
\* malloc_consolidate()): the one before it is taken from its list and joined,
\* then the one behind it, or it goes to top.
LEMMA MergeHeap ==
  ASSUME NEW U, Heap(chunksize, prevInUse, prev_size, av_top, heap_end, U, Listed),
         unsorted \intersect bins = {}, NEW p \in U, Merge(p)
  PROVE  /\ Heap(chunksize', prevInUse', prev_size', av_top', heap_end', U \ {p}, Listed')
         /\ (unsorted \intersect bins)' = {}
         /\ \A c \in U \ {p} : chunksize'[c] = chunksize[c]
         /\ av_top' # -1
<1> SUFFICES ASSUME NEW next, NEW first, NEW end,
                    next = After(p), first = MergeFrom(p), end = MergeTo(p)
             PROVE  /\ Heap(chunksize', prevInUse', prev_size', av_top', heap_end', U \ {p}, Listed')
                    /\ (unsorted \intersect bins)' = {}
                    /\ \A c \in U \ {p} : chunksize'[c] = chunksize[c]
                    /\ av_top' # -1
  OBVIOUS
<1> DEFINE G == {p} \ {first}
           size1 == [c \in Chunk \ G |-> IF c = first THEN next - first ELSE chunksize[c]]
           gone == {c \in {p, next} : first < c /\ c < end}
<1>1. /\ p \in Chunk /\ p \in Nat /\ chunksize[p] \in Nat /\ p # av_top /\ p \notin Listed
      /\ next = End(chunksize, p) /\ next = p + chunksize[p] /\ next \in Chunk /\ next \in Nat /\ p < next
      /\ next \in prevInUse /\ prevInUse \subseteq Chunk
      /\ prev_size \in [Chunk \ prevInUse -> Nat]
      /\ av_top # -1 /\ av_top \in Chunk /\ av_top \in prevInUse /\ av_top \notin Listed /\ av_top \notin U
      /\ chunksize = [c \in Chunk |-> chunksize[c]]
  <2>1. /\ p \in DOMAIN chunksize /\ p # av_top /\ p \notin Listed /\ End(chunksize, p) \in DOMAIN chunksize
        /\ av_top # -1 /\ av_top \in DOMAIN chunksize /\ av_top \in prevInUse /\ av_top \notin Listed /\ av_top \notin U
    <3>1. U \union Listed # {}
      OBVIOUS
    <3> QED
      BY <3>1, Neighbours
  <2>2. /\ p \in Nat /\ chunksize[p] \in Nat /\ End(chunksize, p) \in Nat /\ p < End(chunksize, p)
    BY <2>1, Apart
  <2>3. /\ prevInUse \subseteq Chunk /\ prev_size \in [Chunk \ prevInUse -> Nat]
        /\ chunksize = [c \in Chunk |-> chunksize[c]]
    BY DEF Heap, HeapType, Chunk
  <2>4. End(chunksize, p) \in prevInUse
    BY DEF Heap, UsedNext
  <2> QED
    BY <2>1, <2>2, <2>3, <2>4 DEF After, End, Chunk
<1>2. /\ first \in Chunk /\ first \in Nat /\ first <= p /\ first \in prevInUse /\ first # next
      /\ chunksize[first] \in Nat
      /\ first = p \/ (p \notin prevInUse /\ first \in Listed /\ End(chunksize, first) = p /\ first \notin U)
  <2>1. CASE p \in prevInUse
    BY <1>1, <2>1 DEF MergeFrom
  <2>2. CASE p \notin prevInUse
    <3>1. first \in Listed /\ End(chunksize, first) = p
      BY <1>1, <2>2 DEF Heap, FreeNext, MergeFrom, Chunk
    <3>2. first \in prevInUse /\ first \in Chunk /\ first \notin U
      BY <3>1, Neighbours DEF Heap, FreeNext, Chunk
    <3>3. first \in Nat /\ chunksize[first] \in Nat /\ first < End(chunksize, first)
      BY <3>2, Apart DEF Chunk
    <3> QED
      BY <1>1, <2>2, <3>1, <3>2, <3>3
  <2> QED
    BY <2>1, <2>2
\* The chunk before it.
<1>3. Heap(size1, prevInUse, Without(prev_size, G), av_top, heap_end, (U \ {p}) \union {first}, Listed \ {first})
  <2>1. CASE first = p
    <3>1. G = {} /\ (U \ {p}) \union {first} = U /\ Listed \ {first} = Listed
      BY <1>1, <2>1
    <3>2. size1 = chunksize
      <4>1. next - first = chunksize[first]
        BY <1>1, <2>1
      <4> QED
        BY <1>1, <3>1, <4>1
    <3>3. Without(prev_size, G) = prev_size
      BY <1>1, <3>1 DEF Without
    <3> QED
      BY <3>1, <3>2, <3>3
  <2>2. CASE first # p
    <3>1. Heap(chunksize, prevInUse \union {p}, Without(prev_size, {p}), av_top, heap_end,
               U \union {first}, Listed \ {first})
      BY <1>2, <2>2, HeapTake
    <3>2. Heap(Joined(chunksize, first, p), (prevInUse \union {p}) \ {p}, Without(prev_size, {p}),
               av_top, heap_end, (U \union {first}) \ {p}, Listed \ {first})
      BY <1>2, <2>2, <3>1, HeapJoin
    <3>3. G = {p} /\ (prevInUse \union {p}) \ {p} = prevInUse /\ (U \union {first}) \ {p} = (U \ {p}) \union {first}
      BY <1>2, <2>2
    <3>4. size1 = Joined(chunksize, first, p)
      <4>1. next - first = chunksize[first] + chunksize[p]
        BY <1>1, <1>2, <2>2 DEF End
      <4> QED
        BY <3>3, <4>1 DEF Joined, Chunk
    <3> QED
      BY <3>2, <3>3, <3>4
  <2> QED
    BY <2>1, <2>2
<1>4. /\ DOMAIN size1 = Chunk \ G /\ size1[first] = next - first /\ End(size1, first) = next
      /\ \A c \in Chunk \ G : c # first => size1[c] = chunksize[c]
      /\ next \notin G /\ next \in DOMAIN size1 /\ size1[next] = chunksize[next]
  BY <1>1, <1>2 DEF End
<1>5. /\ chunksize' = [c \in Chunk \ gone |-> IF c = first THEN end - first ELSE chunksize[c]]
      /\ bins' = bins \ {first, next} /\ heap_end' = heap_end
      /\ next = av_top => /\ av_top' = first /\ unsorted' = unsorted \ {first}
                          /\ prevInUse' = (prevInUse \ gone) \union {first}
                          /\ prev_size' = Without(prev_size, gone)
      /\ next # av_top => /\ av_top' = av_top /\ unsorted' = (unsorted \ {next}) \union {first}
                          /\ prevInUse' = (prevInUse \ {p, next}) \union {first}
                          /\ prev_size' = With(Without(prev_size, gone), end, end - first)
  BY DEF Merge
<1> HIDE DEF size1
<1>6. (unsorted \intersect bins)' = {} /\ av_top' # -1
  BY <1>1, <1>2, <1>5
<1>7. end = next \/ (end = After(next) /\ next < end /\ end \in Nat)
  <2>1. After(next) \in Nat /\ next < After(next)
    BY <1>1, Apart DEF After, End, Chunk
  <2> QED
    BY <2>1 DEF MergeTo
<1>8. gone = G \union ({next} \ {end})
  BY <1>1, <1>2, <1>7
\* The one behind it.
<1>9. CASE next = av_top
  <2>1. Heap(Joined(size1, first, next), prevInUse \ {next}, Without(prev_size, G), first, heap_end,
             ((U \ {p}) \union {first}) \ {first}, Listed \ {first})
    BY <1>2, <1>3, <1>4, <1>9, TopJoin
  <2>2. end = After(next) /\ next < end /\ gone = G \union {next} /\ end - first = size1[first] + size1[next]
    <3>1. end = After(next) /\ next # end
      <4>1. After(next) \in Nat /\ next < After(next)
        BY <1>1, Apart DEF After, End, Chunk
      <4> QED
        BY <1>9, <1>1, <4>1 DEF MergeTo
    <3>2. chunksize[next] \in Nat
      BY <1>1, Apart DEF Chunk
    <3> QED
      BY <1>1, <1>2, <1>4, <1>7, <1>8, <3>1, <3>2 DEF After
  <2>3. chunksize' = Joined(size1, first, next)
    <3>1. DOMAIN size1 \ {next} = Chunk \ gone
      BY <1>4, <2>2
    <3> QED
      BY <1>4, <1>5, <2>2, <3>1 DEF Joined
  <2>4. prevInUse' = prevInUse \ {next}
    BY <1>2, <1>5, <1>9, <2>2
  <2>5. prev_size' = Without(prev_size, G)
    <3>1. DOMAIN prev_size \ gone = DOMAIN prev_size \ G
      BY <1>1, <2>2
    <3> QED
      BY <1>5, <1>9, <3>1 DEF Without
  <2>6. Listed' = Listed \ {first} /\ ((U \ {p}) \union {first}) \ {first} = U \ {p}
    BY <1>1, <1>2, <1>5, <1>9 DEF Listed
  <2>7. Heap(chunksize', prevInUse', prev_size', av_top', heap_end', U \ {p}, Listed')
    BY <1>5, <1>9, <2>1, <2>3, <2>4, <2>5, <2>6
  <2>8. ASSUME NEW c \in U \ {p} PROVE chunksize'[c] = chunksize[c]
    <3>1. c \in Chunk /\ c # first /\ c # next
      BY <1>1, <1>2, <1>9, Neighbours DEF Chunk
    <3> QED
      BY <1>5, <2>2, <3>1
  <2> QED
    BY <1>6, <2>7, <2>8
<1>10. CASE next # av_top /\ inuse(next)
  <2>1. end = next /\ gone = G
    BY <1>8, <1>10 DEF MergeTo
  <2>2. next \notin Listed
    BY <1>10 DEF Heap, FreeNext, inuse, After, End
  <2>3. Heap(size1, prevInUse \ {next}, With(Without(prev_size, G), next, next - first), av_top, heap_end,
             ((U \ {p}) \union {first}) \ {first}, (Listed \ {first}) \union {first})
    <3> DEFINE U1 == (U \ {p}) \union {first}
               L1 == Listed \ {first}
               free1 == Without(prev_size, G)
    <3>1. /\ first \in U1 /\ first \in prevInUse
          /\ End(size1, first) # av_top /\ End(size1, first) \notin L1
      BY <1>2, <1>4, <1>10, <2>2
    <3>2. Heap(size1, prevInUse \ {End(size1, first)}, With(free1, End(size1, first), size1[first]),
               av_top, heap_end, U1 \ {first}, L1 \union {first})
      <4> HIDE DEF U1, L1, free1
      <4> QED
        BY <1>3, <3>1, HeapGive DEF U1, L1, free1
    <3> QED
      BY <1>4, <3>2
  <2>4. chunksize' = size1 /\ prev_size' = With(Without(prev_size, G), next, next - first)
    BY <1>5, <1>10, <2>1 DEF size1
  <2>5. prevInUse' = prevInUse \ {next}
    BY <1>2, <1>5, <1>10
  <2>6. Listed' = (Listed \ {first}) \union {first} /\ ((U \ {p}) \union {first}) \ {first} = U \ {p}
    BY <1>1, <1>2, <1>5, <1>10, <2>2 DEF Listed
  <2>7. Heap(chunksize', prevInUse', prev_size', av_top', heap_end', U \ {p}, Listed')
    BY <1>5, <1>10, <2>3, <2>4, <2>5, <2>6
  <2>8. ASSUME NEW c \in U \ {p} PROVE chunksize'[c] = chunksize[c]
    <3>1. c \in Chunk /\ c # first
      BY <1>1, <1>2, Neighbours DEF Chunk
    <3> QED
      BY <1>5, <2>1, <3>1
  <2> QED
    BY <1>6, <2>7, <2>8
<1>11. CASE next # av_top /\ ~inuse(next)
  <2>1. /\ end = After(next) /\ next < end /\ gone = G \union {next} /\ end \in Nat /\ end # next
        /\ end = End(chunksize, next) /\ chunksize[next] \in Nat /\ end = next + chunksize[next]
    <3>1. After(next) \in Nat /\ next < After(next) /\ chunksize[next] \in Nat
      BY <1>1, Apart DEF After, End, Chunk
    <3>2. end = After(next)
      BY <1>11 DEF MergeTo
    <3> QED
      BY <1>1, <1>8, <3>1, <3>2 DEF After, End
  <2>2. next \in Listed /\ next \notin U
    <3>1. next \notin U
      BY <1>11 DEF Heap, UsedNext, inuse, After, End
    <3>2. chunksize[next] >= MINSIZE
      <4>1. ~(chunksize[next] < MINSIZE)
        BY <1>1, <1>11 DEF Heap, FenceNext, inuse, After, End
      <4> QED
        BY <2>1, <4>1 DEF MINSIZE
    <3>3. U \union Listed = {c \in DOMAIN chunksize : chunksize[c] >= MINSIZE} \ {av_top}
      BY DEF Heap, Places
    <3>4. next \in DOMAIN chunksize
      BY <1>1 DEF Chunk
    <3> QED
      BY <1>11, <3>1, <3>2, <3>3, <3>4
  <2>3. end \in Chunk /\ end \notin prevInUse /\ end # av_top /\ end \notin Listed
    <3>1. \A c \in Listed : /\ c \in prevInUse /\ End(chunksize, c) \in DOMAIN chunksize \ prevInUse
                            /\ End(chunksize, c) # av_top
      BY DEF Heap, FreeNext
    <3> QED
      BY <2>1, <2>2, <3>1 DEF Chunk
  <2>4. /\ End(size1, next) = end /\ next \in Listed \ {first} /\ next \in DOMAIN size1
        /\ first \in (U \ {p}) \union {first} \union {next}
    BY <1>2, <1>4, <2>1, <2>2 DEF End
  <2> DEFINE U1 == ((U \ {p}) \union {first}) \union {next}
             L1 == (Listed \ {first}) \ {next}
             free1 == Without(Without(prev_size, G), {end})
  <2>5. Heap(size1, prevInUse \union {end}, free1, av_top, heap_end, U1, L1)
    <3>1. Heap(size1, prevInUse \union {End(size1, next)}, Without(Without(prev_size, G), {End(size1, next)}),
               av_top, heap_end, U1, L1)
      BY <1>3, <2>4, HeapTake
    <3> QED
      BY <2>4, <3>1
  <2> DEFINE size2 == Joined(size1, first, next)
  <2>6. Heap(size2, (prevInUse \union {end}) \ {next}, free1, av_top, heap_end, U1 \ {next}, L1)
    <3>1. first \in U1 /\ next \in U1
      OBVIOUS
    <3> HIDE DEF U1, L1, free1
    <3> QED
      BY <1>4, <2>5, <3>1, HeapJoin
  <2>7. /\ DOMAIN size2 = Chunk \ gone /\ size2[first] = end - first /\ End(size2, first) = end
        /\ size2 = [c \in Chunk \ gone |-> IF c = first THEN end - first ELSE chunksize[c]]
    <3>1. DOMAIN size1 \ {next} = Chunk \ gone /\ first \in Chunk \ gone
      BY <1>2, <1>4, <2>1
    <3>2. size1[first] + size1[next] = end - first /\ first + (end - first) = end
      BY <1>1, <1>2, <1>4, <2>1
    <3>3. size2 = [c \in Chunk \ gone |-> IF c = first THEN end - first ELSE chunksize[c]]
      BY <1>4, <3>1, <3>2 DEF Joined
    <3> HIDE DEF size2, gone
    <3> QED
      BY <3>1, <3>2, <3>3 DEF End
  <2>8. Heap(size2, ((prevInUse \union {end}) \ {next}) \ {end}, With(free1, end, end - first),
             av_top, heap_end, (U1 \ {next}) \ {first}, L1 \union {first})
    <3>1. first \in U1 \ {next} /\ first \in (prevInUse \union {end}) \ {next} /\ end \notin L1
      BY <1>2, <2>3
    <3> HIDE DEF U1, L1, free1, size2
    <3> QED
      BY <2>3, <2>6, <2>7, <3>1, HeapGive
  <2>9. chunksize' = size2
    BY <1>5, <2>7
  <2>10. prevInUse' = ((prevInUse \union {end}) \ {next}) \ {end}
    <3>1. prevInUse' = (prevInUse \ {p, next}) \union {first}
      BY <1>5, <1>11
    <3> QED
      BY <1>2, <2>3, <3>1
  <2>11. prev_size' = With(free1, end, end - first)
    <3>1. DOMAIN prev_size = Chunk \ prevInUse /\ next \notin DOMAIN prev_size
      BY <1>1
    <3>2. With(Without(prev_size, gone), end, end - first)
            = [c \in (DOMAIN prev_size \ G) \union {end} |-> IF c = end THEN end - first ELSE prev_size[c]]
      BY <2>1, <3>1 DEF With, Without
    <3>3. With(free1, end, end - first)
            = [c \in (DOMAIN prev_size \ G) \union {end} |-> IF c = end THEN end - first ELSE prev_size[c]]
      BY DEF With, Without
    <3> QED
      BY <1>5, <1>11, <3>2, <3>3
  <2>12. Listed' = L1 \union {first} /\ (U1 \ {next}) \ {first} = U \ {p}
    BY <1>1, <1>2, <1>5, <1>11, <2>2 DEF Listed
  <2>13. Heap(chunksize', prevInUse', prev_size', av_top', heap_end', U \ {p}, Listed')
    <3> HIDE DEF U1, L1, free1, size2
    <3> QED
      BY <1>5, <1>11, <2>8, <2>9, <2>10, <2>11, <2>12
  <2>14. ASSUME NEW c \in U \ {p} PROVE chunksize'[c] = chunksize[c]
    <3>1. c \in Chunk /\ c # first /\ c # next
      BY <1>1, <1>2, <2>2, Neighbours DEF Chunk
    <3> QED
      BY <1>5, <2>1, <3>1
  <2> QED
    BY <1>6, <2>13, <2>14
<1> QED
  BY <1>9, <1>10, <1>11

-----------------------------------------------------------------------------
(* The invariant: of the heap and its lists, and of the running call.      *)

InUse == DOMAIN used \union fastbins
HeapInv ==
  /\ Heap(chunksize, prevInUse, prev_size, av_top, heap_end, InUse, Listed)
  /\ DOMAIN used \intersect fastbins = {} /\ unsorted \intersect bins = {}
  /\ used \in [DOMAIN used -> Nat]
LargeEnough == \A c \in DOMAIN used : chunksize[c] >= used[c]
FlagsTell == /\ ~anychunks => fastbins \union Listed = {}
             /\ ~fastchunks /\ run.pc # "consolidate" => fastbins = {}

Sorting == {"search", "unsorted", "fit", "top", "sys", "take"}
Freeing == {"free", "consolidate", "trim"}
Labels == {"idle", "copy", "align", "tail"} \union Sorting \union Freeing
RunType == run \in [pc : Labels, caller : {"malloc", "realloc", "memalign"},
                    nb : Nat, want : Nat, align : Nat, oldp : Int, p : Int,
                    ret : {"idle", "take", "tail"}, after : {"idle", "unsorted", "search", "trim"}]
\* Inside mALLOc(), a malloc_consolidate() that it called, or the free of a
\* former top: what was asked for.
InMalloc == \/ run.pc \in Sorting
            \/ run.pc = "consolidate" /\ run.after # "trim"
            \/ run.pc \in Freeing /\ run.ret = "take"
Asked ==
  /\ run.nb >= MINSIZE
  /\ IF run.caller = "realloc" THEN run.oldp \in DOMAIN used ELSE run.oldp = -1
  /\ run.caller = "memalign" => /\ run.align >= MINSIZE /\ run.want >= MINSIZE
                                /\ run.nb >= run.want + run.align + MINSIZE
\* Where the call is, and what holds there.
InvRun ==
  /\ InMalloc => Asked
  /\ run.pc = "consolidate" => run.after # "idle" /\ (run.after # "trim" => run.ret = "idle")
  /\ run.pc \in Sorting \ {"take"} => run.ret = "idle"
  /\ run.pc = "fit" => unsorted = {}
  /\ run.pc = "sys" => TopSize < run.nb + MINSIZE
  /\ run.pc = "take" \/ run.ret = "take" => av_top # -1
  /\ run.pc = "free" => run.p \in DOMAIN used /\ (run.ret # "idle" => run.p # run.oldp)
  /\ run.pc = "copy" => /\ run.p \in DOMAIN used /\ run.oldp \in DOMAIN used /\ run.p # run.oldp
                        /\ run.nb >= MINSIZE /\ chunksize[run.p] >= run.nb
  /\ run.pc = "align" => /\ run.p \in DOMAIN used /\ run.align >= MINSIZE /\ run.want >= MINSIZE
                         /\ chunksize[run.p] >= run.want + run.align + MINSIZE
  /\ run.pc = "tail" \/ run.ret = "tail" => /\ run.oldp \in DOMAIN used /\ run.want >= MINSIZE
                                           /\ used[run.oldp] = run.want
  /\ run.ret = "tail" => run.pc \in Freeing \union {"tail"}
MallocInv == HeapInv /\ LargeEnough /\ FlagsTell /\ RunType /\ InvRun

-----------------------------------------------------------------------------
(* Sizes.                                                                  *)

\* A size is large enough for the request and for a chunk (request2size()).
LEMMA RequestSize ==
  ASSUME NEW n \in Nat
  PROVE  request2size(n) \in Nat /\ request2size(n) >= MINSIZE /\ request2size(n) >= n
<1>1. CASE n + 11 < MINSIZE
  BY <1>1 DEF request2size, MINSIZE
<1>2. CASE ~(n + 11 < MINSIZE)
  <2>1. (n + 11) \div 8 \in Nat /\ 8 * ((n + 11) \div 8) >= n + 4 /\ (n + 11) \div 8 >= 2
    BY <1>2, Z3 DEF MINSIZE
  <2>2. request2size(n) = ((n + 11) \div 8) * 8
    BY <1>2 DEF request2size
  <2>3. ASSUME NEW q \in Nat, 8 * q >= n + 4, q >= 2 PROVE q * 8 \in Nat /\ q * 8 >= 16 /\ q * 8 >= n
    BY <2>3
  <2> QED
    BY <2>1, <2>2, <2>3 DEF MINSIZE
<1> QED
  BY <1>1, <1>2

\* Rounding up loses nothing, and less than the unit is added.
LEMMA Rounded ==
  ASSUME NEW n \in Int, NEW a \in Nat, a > 0
  PROVE  RoundUp(n, a) \in Int /\ RoundUp(n, a) >= n /\ RoundUp(n, a) < n + a
         /\ (n > 0 => RoundUp(n, a) >= a)
<1>1. (n + a - 1) \div a \in Int /\ a * ((n + a - 1) \div a) <= n + a - 1
      /\ a * ((n + a - 1) \div a) >= n
  BY Z3
<1>2. n > 0 => (n + a - 1) \div a >= 1
  BY Z3
<1>3. ASSUME NEW q \in Int, a * q <= n + a - 1, a * q >= n, n > 0 => q >= 1
      PROVE  q * a \in Int /\ q * a >= n /\ q * a < n + a /\ (n > 0 => q * a >= a)
  <2>1. q * a = a * q /\ q * a \in Int
    BY Z3
  <2>2. q >= 1 => q * a >= a
    BY Z3
  <2> QED
    BY <1>3, <2>1, <2>2
<1>4. RoundUp(n, a) = ((n + a - 1) \div a) * a
  BY DEF RoundUp
<1> QED
  BY <1>1, <1>2, <1>3, <1>4

-----------------------------------------------------------------------------
(* Calls, and steps that leave the heap as it is.                          *)

\* More memory behind top changes nothing of the chunks (kmorecore()).
LEMMA HeapLarger ==
  ASSUME NEW size, NEW prev, NEW free, NEW top, NEW end, NEW U, NEW L,
         Heap(size, prev, free, top, end, U, L), NEW e \in Nat, e >= end
  PROVE  Heap(size, prev, free, top, e, U, L)
<1>1. HeapType(size, prev, free, e)
  BY DEF Heap, HeapType
<1>2. Tiling(size, top, e)
  <2>1. top \in DOMAIN size => End(size, top) \in Nat /\ end \in Nat
    BY Apart DEF Heap, HeapType
  <2> QED
    BY <2>1 DEF Heap, Tiling
<1> QED
  BY <1>1, <1>2 DEF Heap

\* A step that touches neither chunks nor lists keeps what is said of them.
LEMMA SameHeap ==
  ASSUME HeapInv, LargeEnough, UNCHANGED <<tags, av_top, fastbins, unsorted, bins, used>>,
         heap_end' \in Nat, heap_end' >= heap_end
  PROVE  HeapInv' /\ LargeEnough'
<1>1. Heap(chunksize, prevInUse, prev_size, av_top, heap_end', InUse, Listed)
  BY HeapLarger DEF HeapInv
<1>2. InUse' = InUse /\ Listed' = Listed
  BY DEF InUse, Listed
<1> QED
  BY <1>1, <1>2 DEF HeapInv, LargeEnough, tags

\* A call that is over leaves nothing to hold of it.
LEMMA CallOver ==
  ASSUME run' = NoCall
  PROVE  RunType' /\ InvRun' /\ run'.pc # "consolidate"
<1>1. run'.pc = "idle" /\ run'.ret = "idle" /\ run'.pc # "consolidate"
  BY DEF NoCall
<1>2. RunType'
  BY DEF NoCall, RunType, Labels
<1>3. InvRun'
  BY <1>1 DEF InvRun, InMalloc, Sorting, Freeing
<1> QED
  BY <1>1, <1>2, <1>3

\* A call starts (kmalloc(), kmemalign(), kfree()).
LEMMA CallStarts ==
  ASSUME MallocInv, \/ \E n \in Requests : kmalloc(n) \/ \E a \in Alignments : kmemalign(a, n)
                    \/ \E p \in DOMAIN used : kfree(p)
  PROVE  MallocInv'
<1>1. UNCHANGED <<tags, av_top, heap_end, lists, used>> /\ run.pc = "idle"
  BY DEF kmalloc, kmemalign, kfree, At
<1>2. HeapInv' /\ LargeEnough'
  <2>1. heap_end' \in Nat /\ heap_end' >= heap_end
    BY <1>1 DEF MallocInv, HeapInv, Heap, HeapType
  <2> QED
    BY <1>1, <2>1, SameHeap DEF MallocInv, lists
<1>3. FlagsTell'
  BY <1>1 DEF MallocInv, FlagsTell, Listed, lists
<1>4. ASSUME NEW n \in Requests
      PROVE  n \in Nat /\ request2size(n) \in Nat /\ request2size(n) >= MINSIZE
  BY RequestSize, MallocAssumption
<1>5. ASSUME NEW n \in Requests, kmalloc(n) PROVE RunType' /\ InvRun'
  <2>1. run' = [NoCall EXCEPT !.pc = "search", !.nb = request2size(n)]
    BY <1>5 DEF kmalloc
  <2>2. run' = [pc |-> "search", caller |-> "malloc", nb |-> request2size(n), want |-> 0, align |-> 0,
                oldp |-> -1, p |-> -1, ret |-> "idle", after |-> "idle"]
    BY <2>1 DEF NoCall
  <2>3. RunType'
    BY <1>4, <2>2 DEF RunType, Labels, Sorting
  <2>4. InvRun'
    BY <1>4, <2>2 DEF InvRun, InMalloc, Asked, Sorting, Freeing
  <2> QED
    BY <2>3, <2>4
<1>6. ASSUME NEW n \in Requests, NEW a \in Alignments, kmemalign(a, n) PROVE RunType' /\ InvRun'
  <2> DEFINE want == request2size(n)
             nb == request2size(want + a + MINSIZE)
  <2>1. a \in Nat /\ a >= MINSIZE /\ want \in Nat /\ want >= MINSIZE
    BY <1>4, MallocAssumption DEF MINSIZE
  <2>2. nb \in Nat /\ nb >= MINSIZE /\ nb >= want + a + MINSIZE
    <3>1. want + a + MINSIZE \in Nat
      BY <2>1 DEF MINSIZE
    <3> QED
      BY <3>1, RequestSize
  <2>3. run' = [NoCall EXCEPT !.pc = "search", !.caller = "memalign", !.align = a, !.want = want, !.nb = nb]
    BY <1>6 DEF kmemalign
  <2> HIDE DEF want, nb
  <2>4. run' = [pc |-> "search", caller |-> "memalign", nb |-> nb, want |-> want, align |-> a,
                oldp |-> -1, p |-> -1, ret |-> "idle", after |-> "idle"]
    BY <2>3 DEF NoCall
  <2>5. RunType'
    BY <2>1, <2>2, <2>4 DEF RunType, Labels, Sorting
  <2>6. InvRun'
    BY <2>1, <2>2, <2>4 DEF InvRun, InMalloc, Asked, Sorting, Freeing
  <2> QED
    BY <2>5, <2>6
<1>7. ASSUME NEW p \in DOMAIN used, kfree(p) PROVE RunType' /\ InvRun'
  <2>1. p \in Nat
    <3>1. p \in InUse \union Listed
      BY DEF InUse
    <3> QED
      BY <3>1, Neighbours, Apart DEF MallocInv, HeapInv
  <2>2. run' = [pc |-> "free", caller |-> "malloc", nb |-> 0, want |-> 0, align |-> 0,
                oldp |-> -1, p |-> p, ret |-> "idle", after |-> "idle"]
    BY <1>7 DEF kfree, NoCall
  <2>3. RunType'
    BY <2>1, <2>2 DEF RunType, Labels, Freeing
  <2>4. InvRun'
    BY <1>1, <2>2 DEF InvRun, InMalloc, Sorting, Freeing
  <2> QED
    BY <2>3, <2>4
<1> QED
  BY <1>2, <1>3, <1>5, <1>6, <1>7 DEF MallocInv

-----------------------------------------------------------------------------
(* malloc.                                                                 *)

\* The next part of a call: its locals are kept.
LEMMA Jumped ==
  ASSUME RunType, NEW l \in Labels, l # "idle", Jump(l)
  PROVE  /\ RunType' /\ run'.pc = l /\ run'.ret = run.ret /\ run'.caller = run.caller
         /\ run'.nb = run.nb /\ run'.want = run.want /\ run'.align = run.align
         /\ run'.oldp = run.oldp /\ run'.p = run.p /\ run'.after = run.after
BY DEF RunType, Jump

\* The search goes on in the next place (mALLOc()).
LEMMA GoesOn ==
  ASSUME MallocInv, run.pc \in Sorting \ {"take"}, NEW l \in Sorting \ {"take"}, GoOn(l),
         l = "fit" => unsorted = {}, l = "sys" => TopSize < run.nb + MINSIZE
  PROVE  MallocInv'
<1>1. UNCHANGED <<tags, av_top, heap_end, lists, used>> /\ Jump(l)
  BY DEF GoOn
<1>2. HeapInv' /\ LargeEnough'
  <2>1. heap_end' \in Nat /\ heap_end' >= heap_end
    BY <1>1 DEF MallocInv, HeapInv, Heap, HeapType
  <2> QED
    BY <1>1, <2>1, SameHeap DEF MallocInv, lists
<1>3. FlagsTell'
  BY <1>1 DEF MallocInv, FlagsTell, Listed, lists, Sorting
<1>4. RunType' /\ run' = [run EXCEPT !.pc = l]
  BY <1>1, Jumped DEF MallocInv, Sorting, Labels, Jump
<1>5. /\ run'.pc = l /\ run'.ret = run.ret /\ run'.caller = run.caller /\ run'.nb = run.nb
      /\ run'.want = run.want /\ run'.align = run.align /\ run'.oldp = run.oldp
  BY <1>1, Jumped DEF MallocInv, Sorting, Labels
<1>6. TopSize' = TopSize
  BY <1>1 DEF TopSize, tags
<1>7. InvRun'
  BY <1>1, <1>5, <1>6 DEF MallocInv, InvRun, InMalloc, Asked, Sorting, Freeing, lists
<1> QED
  BY <1>2, <1>3, <1>4, <1>7 DEF MallocInv

\* malloc_consolidate() is called, and what follows it is kept.
LEMMA Consolidates ==
  ASSUME MallocInv, run.pc \in Sorting \ {"take"}, NEW l \in {"unsorted", "search"}, Consolidate(l)
  PROVE  MallocInv'
<1>1. /\ UNCHANGED <<tags, av_top, heap_end, fastbins, unsorted, bins, anychunks, used>>
      /\ run' = [run EXCEPT !.pc = "consolidate", !.after = l]
  BY DEF Consolidate
<1>2. HeapInv' /\ LargeEnough'
  <2>1. heap_end' \in Nat /\ heap_end' >= heap_end
    BY <1>1 DEF MallocInv, HeapInv, Heap, HeapType
  <2> QED
    BY <1>1, <2>1, SameHeap DEF MallocInv
<1>3. /\ RunType' /\ run'.pc = "consolidate" /\ run'.after = l /\ run'.ret = run.ret
      /\ run'.caller = run.caller /\ run'.nb = run.nb
      /\ run'.want = run.want /\ run'.align = run.align /\ run'.oldp = run.oldp
  BY <1>1 DEF MallocInv, RunType, Labels, Freeing
<1>4. FlagsTell'
  BY <1>1, <1>3 DEF MallocInv, FlagsTell, Listed
<1>5. InvRun'
  BY <1>1, <1>3 DEF MallocInv, InvRun, InMalloc, Asked, Sorting, Freeing
<1> QED
  BY <1>2, <1>3, <1>4, <1>5 DEF MallocInv

\* A chunk is given out, to the caller or to the rest of the call.
LEMMA GotInv ==
  ASSUME MallocInv, run.pc \in Sorting, NEW c \in Nat, c \notin DOMAIN used, Got(c),
         av_top' # -1, chunksize'[c] \in Nat, chunksize'[c] >= run.nb,
         \A d \in DOMAIN used : chunksize'[d] = chunksize[d]
  PROVE  /\ RunType' /\ InvRun' /\ LargeEnough' /\ run'.pc # "consolidate"
         /\ used' \in [DOMAIN used' -> Nat] /\ DOMAIN used' = DOMAIN used \union {c}
<1>1. /\ used' = With(used, c, run.nb) /\ used \in [DOMAIN used -> Nat]
      /\ LargeEnough /\ Asked /\ RunType /\ run.nb \in Nat /\ run.pc \in Sorting
      /\ (run.ret = "tail" => run.pc \in Freeing \union {"tail"})
  BY DEF Got, MallocInv, HeapInv, InvRun, InMalloc, RunType
<1>2. used' \in [DOMAIN used' -> Nat] /\ DOMAIN used' = DOMAIN used \union {c} /\ LargeEnough'
  <2>1. /\ DOMAIN used' = DOMAIN used \union {c} /\ used'[c] = run.nb
        /\ \A d \in DOMAIN used : used'[d] = used[d]
        /\ used' \in [DOMAIN used' -> Nat]
    BY <1>1 DEF With
  <2> QED
    BY <1>1, <2>1 DEF LargeEnough
<1>3. ASSUME NEW l \in Labels, run' = [run EXCEPT !.pc = l, !.p = c] PROVE RunType'
  <2>1. run = [pc |-> run.pc, caller |-> run.caller, nb |-> run.nb, want |-> run.want,
               align |-> run.align, oldp |-> run.oldp, p |-> run.p, ret |-> run.ret,
               after |-> run.after]
    BY <1>1 DEF RunType
  <2>2. run' = [pc |-> l, caller |-> run.caller, nb |-> run.nb, want |-> run.want,
                align |-> run.align, oldp |-> run.oldp, p |-> c, ret |-> run.ret,
                after |-> run.after]
    BY <1>3, <2>1
  <2> QED
    BY <1>1, <1>3, <2>2 DEF RunType
<1>4. CASE run.caller = "malloc"
  <2>1. run' = NoCall
    BY <1>4 DEF Got
  <2> QED
    BY <1>2, <2>1, CallOver
<1>5. CASE run.caller = "realloc"
  <2>1. run' = [run EXCEPT !.pc = "copy", !.p = c]
    BY <1>5 DEF Got
  <2>2. /\ run'.pc = "copy" /\ run'.p = c /\ run'.oldp = run.oldp /\ run'.nb = run.nb
        /\ run'.ret = run.ret /\ run'.want = run.want
    BY <1>1, <2>1 DEF RunType
  <2>3. run.oldp \in DOMAIN used /\ run.nb >= MINSIZE
    BY <1>1, <1>5 DEF Asked
  <2>4. run'.ret # "tail"
    BY <1>1, <2>2 DEF Sorting, Freeing
  <2>5. InvRun'
    BY <1>2, <2>2, <2>3, <2>4 DEF InvRun, InMalloc, Sorting, Freeing
  <2> QED
    BY <1>2, <1>3, <2>1, <2>2, <2>5 DEF Labels
<1>6. CASE run.caller = "memalign"
  <2>1. run' = [run EXCEPT !.pc = "align", !.p = c]
    BY <1>6 DEF Got
  <2>2. /\ run'.pc = "align" /\ run'.p = c /\ run'.oldp = run.oldp /\ run'.nb = run.nb
        /\ run'.ret = run.ret /\ run'.want = run.want /\ run'.align = run.align
    BY <1>1, <2>1 DEF RunType
  <2>3. run.align >= MINSIZE /\ run.want >= MINSIZE /\ run.nb >= run.want + run.align + MINSIZE
    BY <1>1, <1>6 DEF Asked
  <2>4. chunksize'[c] >= run.want + run.align + MINSIZE
    <3>1. run.want \in Nat /\ run.align \in Nat
      BY <1>1 DEF RunType
    <3> QED
      BY <1>1, <2>3, <3>1 DEF MINSIZE
  <2>5. run'.ret # "tail"
    BY <1>1, <2>2 DEF Sorting, Freeing
  <2>6. InvRun'
    BY <1>2, <2>2, <2>3, <2>4, <2>5 DEF InvRun, InMalloc, Sorting, Freeing
  <2> QED
    BY <1>2, <1>3, <2>1, <2>2, <2>6 DEF Labels
<1> QED
  BY <1>1, <1>4, <1>5, <1>6 DEF RunType

\* A listed chunk is taken as it is (mALLOc(), exhausting a chunk).
LEMMA TakesWhole ==
  ASSUME MallocInv, run.pc \in Sorting \ {"take"}, NEW v \in Listed, chunksize[v] >= run.nb, TakeWhole(v),
         Listed' = Listed \ {v}, (unsorted \intersect bins)' = {},
         UNCHANGED <<fastbins, anychunks, fastchunks>>
  PROVE  MallocInv'
<1>1. /\ Got(v) /\ UNCHANGED <<chunksize, av_top, heap_end>>
      /\ prevInUse' = prevInUse \union {End(chunksize, v)}
      /\ prev_size' = Without(prev_size, {End(chunksize, v)})
  BY DEF TakeWhole, After, End
<1>2. Heap(chunksize, prevInUse, prev_size, av_top, heap_end, InUse, Listed)
  BY DEF MallocInv, HeapInv
<1>3. v \in Nat /\ chunksize[v] \in Nat /\ v \notin InUse /\ av_top # -1
  BY <1>2, Neighbours, Apart
<1>4. Heap(chunksize', prevInUse', prev_size', av_top', heap_end', InUse \union {v}, Listed \ {v})
  BY <1>1, <1>2, HeapTake
<1>5. /\ RunType' /\ InvRun' /\ LargeEnough' /\ run'.pc # "consolidate"
      /\ used' \in [DOMAIN used' -> Nat] /\ DOMAIN used' = DOMAIN used \union {v}
  BY <1>1, <1>3, GotInv DEF InUse
<1>6. HeapInv'
  <2>1. InUse' = InUse \union {v} /\ (DOMAIN used \intersect fastbins)' = {}
    BY <1>3, <1>5 DEF InUse, MallocInv, HeapInv
  <2> QED
    BY <1>4, <1>5, <2>1 DEF HeapInv
<1>7. FlagsTell'
  BY <1>5 DEF MallocInv, FlagsTell, Sorting
<1> QED
  BY <1>5, <1>6, <1>7 DEF MallocInv

\* The first part of a listed chunk is taken, and the rest stays listed
\* (mALLOc(), splitting a chunk).
LEMMA SplitsOff ==
  ASSUME MallocInv, run.pc \in Sorting \ {"take"}, NEW v \in Listed, SplitOff(v),
         chunksize[v] - run.nb >= MINSIZE,
         Listed' = (Listed \ {v}) \union {v + run.nb}, (unsorted \intersect bins)' = {},
         UNCHANGED <<fastbins, anychunks, fastchunks>>
  PROVE  MallocInv'
<1> DEFINE n == run.nb
           rest == v + n
           e == End(chunksize, v)
<1>1. /\ Got(v) /\ UNCHANGED <<av_top, heap_end>>
      /\ chunksize' = SplitAt(chunksize, v, n)
      /\ prevInUse' = prevInUse \union {rest}
      /\ prev_size' = With(prev_size, e, chunksize[v] - n)
  BY DEF SplitOff, Cut, SplitAt, After, End, Chunk
<1>2. Heap(chunksize, prevInUse, prev_size, av_top, heap_end, InUse, Listed)
  BY DEF MallocInv, HeapInv
<1>3. n \in Nat /\ n >= MINSIZE
  BY DEF MallocInv, RunType, InvRun, InMalloc, Asked
<1>4. /\ v \in Nat /\ v \in DOMAIN chunksize /\ chunksize[v] \in Nat /\ v \notin InUse /\ av_top # -1
      /\ e \in DOMAIN chunksize /\ e # av_top /\ e = v + chunksize[v] /\ e \notin prevInUse /\ e \notin Listed
      /\ prev_size \in [DOMAIN chunksize \ prevInUse -> Nat]
  <2>1. v \in Nat /\ v \in DOMAIN chunksize /\ chunksize[v] \in Nat /\ v \notin InUse /\ av_top # -1
    BY <1>2, Neighbours, Apart
  <2>2. e \in DOMAIN chunksize /\ e # av_top /\ e \notin prevInUse /\ e \notin Listed
    BY <1>2 DEF Heap, FreeNext
  <2>3. prev_size \in [DOMAIN chunksize \ prevInUse -> Nat]
    BY <1>2 DEF Heap, HeapType
  <2> QED
    BY <2>1, <2>2, <2>3 DEF End
<1> HIDE DEF n, e
<1> DEFINE p1 == prevInUse \union {e}
           f1 == Without(prev_size, {e})
           U1 == InUse \union {v}
           L1 == Listed \ {v}
           size2 == SplitAt(chunksize, v, n)
<1>5. Heap(chunksize, p1, f1, av_top, heap_end, U1, L1)
  BY <1>2, HeapTake DEF e
<1>6. Heap(size2, p1 \union {rest}, f1, av_top, heap_end, U1 \union {rest}, L1) /\ rest \notin DOMAIN chunksize
  <2>1. v \in U1 /\ chunksize[v] - n >= MINSIZE
    BY DEF n
  <2> HIDE DEF p1, f1, U1, L1
  <2> QED
    BY <1>3, <1>5, <2>1, HeapSplit
<1>7. /\ size2[rest] = chunksize[v] - n /\ End(size2, rest) = e /\ rest # v /\ rest # e
      /\ size2[v] = n /\ \A c \in DOMAIN chunksize : c # v => size2[c] = chunksize[c]
  BY <1>3, <1>4, <1>6 DEF SplitAt, End, MINSIZE
<1>8. Heap(size2, (p1 \union {rest}) \ {e}, With(f1, e, chunksize[v] - n), av_top, heap_end,
           (U1 \union {rest}) \ {rest}, L1 \union {rest})
  <2>1. rest \in U1 \union {rest} /\ rest \in p1 \union {rest} /\ e # av_top /\ e \notin L1
    BY <1>4
  <2> HIDE DEF p1, f1, U1, L1, size2, rest
  <2> QED
    BY <1>6, <1>7, <2>1, HeapGive
<1>9. (p1 \union {rest}) \ {e} = prevInUse'
  BY <1>1, <1>4, <1>7
<1>10. With(f1, e, chunksize[v] - n) = prev_size'
  <2>1. (DOMAIN prev_size \ {e}) \union {e} = DOMAIN prev_size \union {e}
    OBVIOUS
  <2>2. With(f1, e, chunksize[v] - n)
          = [c \in (DOMAIN prev_size \ {e}) \union {e} |-> IF c = e THEN chunksize[v] - n ELSE prev_size[c]]
    BY DEF With, Without
  <2> QED
    BY <1>1, <2>1, <2>2 DEF With
<1>11. (U1 \union {rest}) \ {rest} = U1
  <2>1. rest \notin U1
    BY <1>2, <1>6, <1>7, Neighbours
  <2> QED
    BY <2>1
<1>12. Heap(chunksize', prevInUse', prev_size', av_top', heap_end', InUse \union {v}, Listed')
  BY <1>1, <1>8, <1>9, <1>10, <1>11 DEF n
<1>13. /\ RunType' /\ InvRun' /\ LargeEnough' /\ run'.pc # "consolidate"
       /\ used' \in [DOMAIN used' -> Nat] /\ DOMAIN used' = DOMAIN used \union {v}
  <2>1. v \notin DOMAIN used
    BY <1>4 DEF InUse
  <2>2. chunksize'[v] \in Nat /\ chunksize'[v] >= run.nb
    BY <1>1, <1>3, <1>7 DEF n
  <2>3. \A d \in DOMAIN used : chunksize'[d] = chunksize[d]
    <3>1. \A d \in DOMAIN used : d \in DOMAIN chunksize /\ d # v
      BY <1>2, <2>1, Neighbours DEF InUse
    <3> QED
      BY <1>1, <1>7, <3>1
  <2> QED
    BY <1>1, <1>4, <2>1, <2>2, <2>3, GotInv
<1>14. HeapInv'
  <2>1. InUse' = InUse \union {v} /\ (DOMAIN used \intersect fastbins)' = {}
    BY <1>4, <1>13 DEF InUse, MallocInv, HeapInv
  <2> QED
    BY <1>12, <1>13, <2>1 DEF HeapInv
<1>15. FlagsTell'
  BY <1>13 DEF MallocInv, FlagsTell, Sorting
<1> QED
  BY <1>13, <1>14, <1>15 DEF MallocInv

\* A chunk is cut from top (mALLOc(), use_top; the end of sYSMALLOc()).
LEMMA TakesTop ==
  ASSUME MallocInv, run.pc \in {"top", "take"}, av_top # -1, TopSize >= run.nb + MINSIZE, TakeTop
  PROVE  MallocInv'
<1> DEFINE n == run.nb
<1>1. /\ Got(av_top) /\ UNCHANGED <<prev_size, heap_end, lists>>
      /\ av_top' = av_top + n
      /\ chunksize' = SplitAt(chunksize, av_top, n)
      /\ prevInUse' = prevInUse \union {av_top + n}
  BY DEF TakeTop, Cut, SplitAt, Chunk
<1>2. Heap(chunksize, prevInUse, prev_size, av_top, heap_end, InUse, Listed)
  BY DEF MallocInv, HeapInv
<1>3. n \in Nat /\ n >= MINSIZE /\ run.pc \in Sorting
  BY DEF MallocInv, RunType, InvRun, InMalloc, Asked, Sorting
<1>4. /\ av_top \in Nat /\ av_top \in DOMAIN chunksize /\ chunksize[av_top] \in Nat /\ av_top \notin InUse
      /\ chunksize[av_top] - n >= MINSIZE
  <2>1. av_top \in Nat /\ av_top \in DOMAIN chunksize /\ chunksize[av_top] \in Nat /\ av_top \notin InUse
    BY <1>2, Neighbours, Apart
  <2> QED
    BY <1>3, <2>1 DEF TopSize, MINSIZE
<1>5. Heap(chunksize', prevInUse', prev_size', av_top', heap_end', InUse \union {av_top}, Listed)
  BY <1>1, <1>2, <1>3, <1>4, TopSplit
<1>6. /\ RunType' /\ InvRun' /\ LargeEnough' /\ run'.pc # "consolidate"
      /\ used' \in [DOMAIN used' -> Nat] /\ DOMAIN used' = DOMAIN used \union {av_top}
  <2>1. av_top \notin DOMAIN used
    BY <1>4 DEF InUse
  <2>2. av_top + n # av_top /\ av_top + n # -1 /\ av_top + n \notin DOMAIN chunksize
    <3>1. av_top + n \notin DOMAIN chunksize
      BY <1>2, <1>3, <1>4, TopSplit
    <3> QED
      BY <1>3, <1>4, <3>1 DEF MINSIZE
  <2>3. chunksize'[av_top] = n /\ \A d \in DOMAIN chunksize : d # av_top => chunksize'[d] = chunksize[d]
    BY <1>1, <1>4, <2>2 DEF SplitAt
  <2>4. \A d \in DOMAIN used : chunksize'[d] = chunksize[d]
    <3>1. \A d \in DOMAIN used : d \in DOMAIN chunksize /\ d # av_top
      BY <1>2, <2>1, Neighbours DEF InUse
    <3> QED
      BY <2>3, <3>1
  <2>5. av_top' # -1 /\ chunksize'[av_top] \in Nat /\ chunksize'[av_top] >= run.nb
    BY <1>1, <1>3, <2>2, <2>3
  <2> QED
    BY <1>1, <1>3, <1>4, <2>1, <2>4, <2>5, GotInv
<1>7. HeapInv'
  <2>1. /\ InUse' = InUse \union {av_top} /\ (DOMAIN used \intersect fastbins)' = {} /\ Listed' = Listed
        /\ (unsorted \intersect bins)' = {}
    BY <1>1, <1>4, <1>6 DEF InUse, MallocInv, HeapInv, Listed, lists
  <2> QED
    BY <1>5, <1>6, <2>1 DEF HeapInv
<1>8. FlagsTell'
  BY <1>1, <1>3, <1>6 DEF MallocInv, FlagsTell, Sorting, lists, Listed
<1> QED
  BY <1>6, <1>7, <1>8 DEF MallocInv

\* No chunk starts inside a listed one (do_check_free_chunk()).
LEMMA NotInside ==
  ASSUME MallocInv, NEW v \in Listed, run.nb > 0, run.nb \in Nat, chunksize[v] > run.nb
  PROVE  v + run.nb \notin Listed
<1>1. Heap(chunksize, prevInUse, prev_size, av_top, heap_end, InUse, Listed)
  BY DEF MallocInv, HeapInv
<1>2. v \in DOMAIN chunksize /\ v \in Nat /\ chunksize[v] \in Nat
  BY <1>1, Neighbours, Apart
<1>3. SUFFICES ASSUME v + run.nb \in DOMAIN chunksize PROVE FALSE
  BY <1>1, Neighbours
<1>4. v < v + run.nb => End(chunksize, v) <= v + run.nb
  BY <1>1, <1>2, <1>3, Apart
<1> QED
  BY <1>2, <1>4 DEF End

\* The fast and the small chunks that fit are taken, or the search goes on
\* (mALLOc()).
LEMMA FindInv ==
  ASSUME MallocInv, Find
  PROVE  MallocInv'
<1>1. run.pc = "search" /\ run.pc \in Sorting \ {"take"}
  BY DEF Find, At, Sorting
<1>2. ASSUME GoOn("top") PROVE MallocInv'
  BY <1>1, <1>2, GoesOn DEF Sorting
<1>3. ASSUME GoOn("unsorted") PROVE MallocInv'
  BY <1>1, <1>3, GoesOn DEF Sorting
<1>4. ASSUME Consolidate("unsorted") PROVE MallocInv'
  BY <1>1, <1>4, Consolidates
<1>5. ASSUME NEW victim \in BinFit, FromBin(victim) PROVE MallocInv'
  <2>1. victim \in bins /\ victim \in Listed /\ TakeWhole(victim) /\ bins' = bins \ {victim}
        /\ UNCHANGED <<fastbins, unsorted, anychunks, fastchunks>> /\ chunksize[victim] = run.nb
    BY <1>5 DEF FromBin, BinFit, Listed
  <2>2. run.nb \in Nat
    BY DEF MallocInv, RunType
  <2>3. Listed' = Listed \ {victim} /\ (unsorted \intersect bins)' = {}
    BY <2>1 DEF Listed, MallocInv, HeapInv
  <2>4. chunksize[victim] >= run.nb
    BY <2>1, <2>2
  <2> QED
    BY <1>1, <2>1, <2>3, <2>4, TakesWhole
<1>6. ASSUME FromFast PROVE MallocInv'
  <2>1. PICK victim \in FastFit :
          /\ fastbins' = fastbins \ {victim} /\ Got(victim)
          /\ UNCHANGED <<tags, av_top, heap_end, unsorted, bins, anychunks, fastchunks>>
    BY <1>6 DEF FromFast
  <2>2. Heap(chunksize, prevInUse, prev_size, av_top, heap_end, InUse, Listed)
    BY DEF MallocInv, HeapInv
  <2>3. victim \in fastbins /\ victim \in InUse /\ victim \notin DOMAIN used /\ chunksize[victim] = run.nb
    BY DEF FastFit, InUse, MallocInv, HeapInv
  <2>4. victim \in Nat /\ chunksize[victim] \in Nat /\ av_top # -1
    BY <2>2, <2>3, Neighbours, Apart
  <2>5. /\ RunType' /\ InvRun' /\ LargeEnough' /\ run'.pc # "consolidate"
        /\ used' \in [DOMAIN used' -> Nat] /\ DOMAIN used' = DOMAIN used \union {victim}
    <3>1. chunksize'[victim] \in Nat /\ chunksize'[victim] >= run.nb /\ av_top' # -1
          /\ \A d \in DOMAIN used : chunksize'[d] = chunksize[d]
      BY <2>1, <2>3, <2>4 DEF tags
    <3> QED
      BY <1>1, <2>1, <2>3, <2>4, <3>1, GotInv
  <2>6. HeapInv'
    <3>1. /\ InUse' = InUse /\ (DOMAIN used \intersect fastbins)' = {} /\ Listed' = Listed
          /\ (unsorted \intersect bins)' = {}
      BY <2>1, <2>3, <2>5 DEF InUse, MallocInv, HeapInv, Listed
    <3> QED
      BY <2>1, <2>2, <2>5, <3>1 DEF HeapInv, tags
  <2>7. FlagsTell'
    BY <1>1, <2>1, <2>5 DEF MallocInv, FlagsTell, Listed
  <2> QED
    BY <2>5, <2>6, <2>7 DEF MallocInv
<1> QED
  BY <1>2, <1>3, <1>4, <1>5, <1>6 DEF Find

\* The unsorted chunks are taken or sorted (mALLOc()).
LEMMA SortInv ==
  ASSUME MallocInv, Sort
  PROVE  MallocInv'
<1>1. /\ run.pc = "unsorted" /\ run.pc \in Sorting \ {"take"} /\ run.nb \in Nat /\ run.nb >= MINSIZE
      /\ unsorted \intersect bins = {}
      /\ \A c \in Listed : chunksize[c] \in Nat
  <2>1. \A c \in Listed : chunksize[c] \in Nat
    BY Neighbours, Apart DEF MallocInv, HeapInv
  <2> QED
    BY <2>1 DEF Sort, At, Sorting, MallocInv, HeapInv, RunType, InvRun, InMalloc, Asked
<1>2. ASSUME unsorted = {}, GoOn("fit") PROVE MallocInv'
  BY <1>1, <1>2, GoesOn DEF Sorting
<1>3. ASSUME NEW v \in unsorted, LastFits(v), SplitOff(v),
             UNCHANGED <<fastbins, bins, anychunks, fastchunks>>
      PROVE  MallocInv'
  <2>1. /\ v \in Listed /\ unsorted = {v} /\ chunksize[v] > run.nb + MINSIZE
        /\ unsorted' = {v + run.nb} /\ bins' = bins
    BY <1>3 DEF LastFits, SplitOff, Listed
  <2>2. chunksize[v] - run.nb >= MINSIZE /\ run.nb > 0 /\ chunksize[v] > run.nb
    BY <1>1, <2>1 DEF MINSIZE
  <2>3. v + run.nb \notin Listed
    BY <1>1, <2>1, <2>2, NotInside
  <2>4. Listed' = (Listed \ {v}) \union {v + run.nb} /\ (unsorted \intersect bins)' = {}
    BY <1>1, <2>1, <2>3 DEF Listed
  <2> QED
    BY <1>1, <1>3, <2>1, <2>2, <2>4, SplitsOff
<1>4. ASSUME NEW v \in unsorted, chunksize[v] = run.nb, TakeWhole(v), unsorted' = unsorted \ {v},
             UNCHANGED <<fastbins, bins, anychunks, fastchunks>>
      PROVE  MallocInv'
  <2>1. v \in Listed /\ Listed' = Listed \ {v} /\ (unsorted \intersect bins)' = {}
    BY <1>1, <1>4 DEF Listed
  <2>2. chunksize[v] >= run.nb
    BY <1>1, <1>4
  <2> QED
    BY <1>1, <1>4, <2>1, <2>2, TakesWhole
<1>5. ASSUME NEW v \in unsorted, unsorted' = unsorted \ {v}, bins' = bins \union {v},
             UNCHANGED <<tags, av_top, heap_end, fastbins, anychunks, fastchunks, used, run>>
      PROVE  MallocInv'
  <2>1. Listed' = Listed /\ InUse' = InUse /\ (unsorted \intersect bins)' = {}
    BY <1>1, <1>5 DEF Listed, InUse
  <2>2. HeapInv' /\ LargeEnough'
    BY <1>5, <2>1 DEF MallocInv, HeapInv, LargeEnough, tags
  <2>3. FlagsTell' /\ RunType'
    BY <1>5, <2>1 DEF MallocInv, FlagsTell, RunType
  <2>4. InvRun'
    BY <1>1, <1>5 DEF MallocInv, InvRun, InMalloc, Asked, Sorting, Freeing
  <2> QED
    BY <2>2, <2>3, <2>4 DEF MallocInv
<1> QED
  BY <1>2, <1>3, <1>4, <1>5 DEF Sort

\* The best of the sorted chunks is taken (mALLOc()).
LEMMA FitInv ==
  ASSUME MallocInv, Fit
  PROVE  MallocInv'
<1>1. /\ run.pc = "fit" /\ run.pc \in Sorting \ {"take"} /\ run.nb \in Nat /\ run.nb >= MINSIZE
      /\ unsorted = {} /\ \A c \in Listed : chunksize[c] \in Nat
  <2>1. \A c \in Listed : chunksize[c] \in Nat
    BY Neighbours, Apart DEF MallocInv, HeapInv
  <2> QED
    BY <2>1 DEF Fit, At, Sorting, MallocInv, RunType, InvRun, InMalloc, Asked
<1>2. ASSUME GoOn("top") PROVE MallocInv'
  BY <1>1, <1>2, GoesOn DEF Sorting
<1>3. ASSUME NEW v \in BestFit, FromBin(v) PROVE MallocInv'
  <2>1. /\ v \in Listed /\ v \in bins /\ chunksize[v] >= run.nb /\ TakeWhole(v) /\ bins' = bins \ {v}
        /\ UNCHANGED <<fastbins, unsorted, anychunks, fastchunks>>
    BY <1>3 DEF BestFit, FromBin, Listed
  <2>2. Listed' = Listed \ {v} /\ (unsorted \intersect bins)' = {}
    BY <1>1, <2>1 DEF Listed
  <2> QED
    BY <1>1, <2>1, <2>2, TakesWhole
<1>4. ASSUME NEW v \in BestFit, ~(chunksize[v] - run.nb < MINSIZE), SplitOff(v), bins' = bins \ {v},
             UNCHANGED <<fastbins, anychunks, fastchunks>>
      PROVE  MallocInv'
  <2>1. v \in Listed /\ v \in bins /\ unsorted' = {v + run.nb}
    BY <1>4 DEF BestFit, SplitOff, Listed
  <2>2. chunksize[v] - run.nb >= MINSIZE /\ run.nb > 0 /\ chunksize[v] > run.nb
    BY <1>1, <1>4, <2>1 DEF MINSIZE
  <2>3. v + run.nb \notin Listed
    BY <1>1, <2>1, <2>2, NotInside
  <2>4. Listed' = (Listed \ {v}) \union {v + run.nb} /\ (unsorted \intersect bins)' = {}
    BY <1>1, <1>4, <2>1, <2>3 DEF Listed
  <2> QED
    BY <1>1, <1>4, <2>1, <2>2, <2>4, SplitsOff
<1> QED
  BY <1>2, <1>3, <1>4 DEF Fit

\* Top is cut, or more memory is asked for (mALLOc(), use_top).
LEMMA UseTopInv ==
  ASSUME MallocInv, UseTop
  PROVE  MallocInv'
<1>1. run.pc = "top" /\ run.pc \in Sorting \ {"take"} /\ run.nb \in Nat /\ run.nb >= MINSIZE
  BY DEF UseTop, At, Sorting, MallocInv, RunType, InvRun, InMalloc, Asked
<1>2. TopSize \in Nat
  BY Neighbours, Apart DEF MallocInv, HeapInv, TopSize
<1>3. CASE TopSize >= run.nb + MINSIZE
  <2>1. av_top # -1
    BY <1>1, <1>3 DEF TopSize, MINSIZE
  <2>2. TakeTop
    BY <1>3 DEF UseTop
  <2> QED
    BY <1>1, <1>3, <2>1, <2>2, TakesTop
<1>4. CASE ~(TopSize >= run.nb + MINSIZE)
  <2>1. GoOn("sys")
    BY <1>4 DEF UseTop
  <2>2. TopSize < run.nb + MINSIZE
    BY <1>1, <1>2, <1>4 DEF MINSIZE
  <2> QED
    BY <1>1, <2>1, <2>2, GoesOn DEF Sorting
<1> QED
  BY <1>3, <1>4

-----------------------------------------------------------------------------
(* Memory for the heap, and back from it.                                  *)

\* The end never goes down, and memory that was given starts at the old end
\* (kmorecore()).
LEMMA Morecore ==
  ASSUME NEW end \in Nat, NEW incr \in Nat, NEW r \in kmorecore(end, incr)
  PROVE  r.end \in Nat /\ r.end >= end /\ (r.brk = -1 \/ (r.brk = end /\ r.end = end + incr))
BY DEF kmorecore

\* A refusal leaves the heap as it was (sYSMALLOc(), the failure path).
LEMMA FailedInv ==
  ASSUME MallocInv, run.pc \in Sorting, Failed, heap_end' \in Nat, heap_end' >= heap_end
  PROVE  MallocInv'
<1>1. run' = NoCall /\ UNCHANGED <<tags, av_top, lists, used>>
  BY DEF Failed
<1>2. HeapInv' /\ LargeEnough'
  BY <1>1, SameHeap DEF MallocInv, lists
<1>3. RunType' /\ InvRun' /\ run'.pc # "consolidate"
  BY <1>1, CallOver
<1>4. FlagsTell'
  BY <1>1, <1>3 DEF MallocInv, FlagsTell, Listed, lists, Sorting
<1> QED
  BY <1>2, <1>3, <1>4 DEF MallocInv

\* What has to be asked for is a page at least (sYSMALLOc()).
LEMMA Needed ==
  ASSUME MallocInv, run.pc = "sys"
  PROVE  Size \in Nat /\ Size >= MINSIZE /\ TopSize \in Nat
         /\ (av_top # -1 => TopSize = chunksize[av_top])
<1>1. TopSize \in Nat /\ (av_top # -1 => TopSize = chunksize[av_top])
  BY Neighbours, Apart DEF MallocInv, HeapInv, TopSize
<1>2. run.nb \in Nat /\ TopSize < run.nb + MINSIZE
  BY DEF MallocInv, RunType, InvRun
<1>3. run.nb + MINSIZE - TopSize \in Int /\ run.nb + MINSIZE - TopSize > 0
  BY <1>1, <1>2 DEF MINSIZE
<1>4. pagesize \in Nat /\ pagesize > 0 /\ pagesize >= MINSIZE
  BY MallocAssumption DEF MINSIZE
<1>5. Size \in Int /\ Size >= pagesize
  BY <1>3, <1>4, Rounded DEF Size
<1> QED
  BY <1>1, <1>4, <1>5 DEF MINSIZE

\* Top grows by what was given behind it (sYSMALLOc()).
LEMMA ExtendTopInv ==
  ASSUME MallocInv, run.pc = "sys", NEW r \in kmorecore(heap_end, Size), av_top # -1, r.brk = TopEnd,
         ExtendTop, heap_end' = r.end
  PROVE  MallocInv'
<1>1. /\ chunksize' = [chunksize EXCEPT ![av_top] = TopSize + Size] /\ Jump("take")
      /\ UNCHANGED <<prevInUse, prev_size, av_top, lists, used>>
  BY DEF ExtendTop
<1>2. Heap(chunksize, prevInUse, prev_size, av_top, heap_end, InUse, Listed)
  BY DEF MallocInv, HeapInv
<1>3. /\ av_top \in Nat /\ av_top \in DOMAIN chunksize /\ av_top \notin InUse
      /\ Size \in Nat /\ Size >= MINSIZE /\ TopSize \in Nat
  BY <1>2, Neighbours, Apart, Needed
<1>4. heap_end' \in Nat /\ heap_end' = TopEnd + Size
  <2>1. heap_end \in Nat
    BY <1>2 DEF Heap, HeapType
  <2>2. r.end \in Nat /\ (r.brk = -1 \/ (r.brk = heap_end /\ r.end = heap_end + Size))
    BY <1>3, <2>1, Morecore
  <2>3. TopEnd # -1
    BY <1>3 DEF TopEnd
  <2> QED
    BY <2>2, <2>3
<1>5. Heap(chunksize', prevInUse', prev_size', av_top', heap_end', InUse, Listed)
  <2>1. TopSize + Size \in Nat /\ TopSize + Size >= MINSIZE /\ av_top + (TopSize + Size) <= heap_end'
    BY <1>3, <1>4 DEF TopEnd, MINSIZE
  <2> QED
    BY <1>1, <1>2, <1>4, <2>1, TopResized
<1>6. InUse' = InUse /\ Listed' = Listed
  BY <1>1 DEF InUse, Listed, lists
<1>7. HeapInv'
  BY <1>1, <1>5, <1>6 DEF MallocInv, HeapInv, lists
<1>8. LargeEnough'
  <2>1. \A c \in DOMAIN used : c # av_top /\ c \in DOMAIN chunksize
    BY <1>2, <1>3, Neighbours DEF InUse
  <2> QED
    BY <1>1, <2>1 DEF MallocInv, LargeEnough
<1>9. /\ RunType' /\ run'.pc = "take" /\ run'.ret = run.ret /\ run'.caller = run.caller /\ run'.nb = run.nb
      /\ run'.want = run.want /\ run'.align = run.align /\ run'.oldp = run.oldp
  BY <1>1, Jumped DEF MallocInv, Sorting, Labels
<1>10. FlagsTell'
  BY <1>1, <1>9 DEF MallocInv, FlagsTell, Listed, lists
<1>11. InvRun'
  BY <1>1, <1>9 DEF MallocInv, InvRun, InMalloc, Asked, Sorting, Freeing
<1> QED
  BY <1>7, <1>8, <1>9, <1>10, <1>11 DEF MallocInv

\* The heap goes on behind a gap, or starts (sYSMALLOc()).
LEMMA NewTopInv ==
  ASSUME MallocInv, run.pc = "sys", NEW r \in kmorecore(heap_end, Size), r.brk # -1,
         NEW s \in kmorecore(r.end, Correction(r.end)), NewTop(r.brk, s.end), heap_end' = s.end
  PROVE  MallocInv'
<1> DEFINE brk == r.brk
           n == ((TopSize - 12) \div 8) * 8
           fence == {av_top + n, av_top + n + 4}
<1>1. Heap(chunksize, prevInUse, prev_size, av_top, heap_end, InUse, Listed)
  BY DEF MallocInv, HeapInv
<1>2. /\ Size \in Nat /\ Size >= MINSIZE /\ TopSize \in Nat
      /\ av_top # -1 => TopSize = chunksize[av_top]
  BY Needed
<1>3. brk \in Nat /\ brk = heap_end /\ r.end \in Nat /\ r.end = brk + Size
  <2>1. heap_end \in Nat
    BY <1>1 DEF Heap, HeapType
  <2> QED
    BY <1>2, <2>1, Morecore
<1>4. s.end \in Nat /\ s.end - brk >= MINSIZE
  <2>1. Correction(r.end) \in Nat
    <3>1. r.end + TopSize \in Int /\ pagesize \in Nat /\ pagesize > 0
      BY <1>2, <1>3, MallocAssumption DEF MINSIZE
    <3>2. RoundUp(r.end + TopSize, pagesize) \in Int /\ RoundUp(r.end + TopSize, pagesize) >= r.end + TopSize
      BY <3>1, Rounded
    <3> QED
      BY <1>2, <1>3, <3>2 DEF Correction
  <2>2. s.end \in Nat /\ s.end >= r.end
    BY <1>3, <2>1, Morecore
  <2> QED
    BY <1>2, <1>3, <2>2 DEF MINSIZE
<1>5. /\ av_top' = brk /\ UNCHANGED <<prev_size, lists>>
      /\ av_top = -1 => /\ chunksize' = [c \in {brk} |-> s.end - brk] /\ prevInUse' = {brk}
                        /\ Jump("take") /\ UNCHANGED used
      /\ av_top # -1 => /\ chunksize' = [c \in Chunk \union fence \union {brk} |->
                                          IF c \in fence THEN 4 ELSE IF c = brk THEN s.end - brk
                                          ELSE IF c = av_top THEN n ELSE chunksize[c]]
                        /\ prevInUse' = prevInUse \union fence \union {brk}
                        /\ IF n >= MINSIZE
                           THEN /\ used' = With(used, av_top, 0)
                                /\ run' = [run EXCEPT !.pc = "free", !.p = av_top, !.ret = "take"]
                           ELSE Jump("take") /\ UNCHANGED used
  BY DEF NewTop
<1> HIDE DEF brk, n, fence
<1>6. UNCHANGED <<fastbins, unsorted, bins, anychunks, fastchunks>> /\ Listed' = Listed
  BY <1>5 DEF lists, Listed
<1>7. Jump("take") => /\ RunType' /\ run'.pc = "take" /\ run'.ret = run.ret /\ run'.caller = run.caller
                      /\ run'.nb = run.nb /\ run'.want = run.want /\ run'.align = run.align
                      /\ run'.oldp = run.oldp
  BY Jumped DEF MallocInv, Sorting, Labels
<1>8. Jump("take") /\ UNCHANGED used => FlagsTell' /\ InvRun'
  <2> SUFFICES ASSUME Jump("take"), UNCHANGED used PROVE FlagsTell' /\ InvRun'
    OBVIOUS
  <2>1. FlagsTell'
    BY <1>6, <1>7 DEF MallocInv, FlagsTell
  <2>2. av_top' # -1
    BY <1>3, <1>5
  <2>3. InvRun'
    BY <1>7, <2>2 DEF MallocInv, InvRun, InMalloc, Asked, Sorting, Freeing
  <2> QED
    BY <2>1, <2>3
<1>9. CASE av_top = -1
  <2>1. Heap(chunksize', prevInUse', prev_size', av_top', heap_end', InUse, Listed)
    <3>1. Heap(chunksize, prevInUse, prev_size, -1, heap_end, InUse, Listed)
      BY <1>1, <1>9
    <3>2. Heap(OneChunk(brk, s.end), {brk}, prev_size, brk, s.end, InUse, Listed)
      BY <1>3, <1>4, <3>1, FirstTop
    <3> QED
      BY <1>5, <1>9, <3>2 DEF OneChunk
  <2>2. DOMAIN used = {} /\ InUse' = InUse
    <3>1. InUse = {}
      BY <1>1, <1>9, Neighbours
    <3> QED
      BY <1>5, <1>6, <1>9, <3>1 DEF InUse
  <2>3. HeapInv' /\ LargeEnough'
    BY <1>5, <1>6, <1>9, <2>1, <2>2 DEF MallocInv, HeapInv, LargeEnough
  <2> QED
    BY <1>5, <1>7, <1>8, <1>9, <2>3 DEF MallocInv
<1>10. CASE av_top # -1
  <2>1. /\ av_top \in DOMAIN chunksize /\ av_top \in Nat /\ av_top \notin InUse
        /\ End(chunksize, av_top) <= heap_end /\ chunksize[av_top] >= MINSIZE
    BY <1>1, <1>10, Neighbours, Apart DEF Heap, Tiling
  <2> DEFINE V == IF n >= MINSIZE THEN InUse \union {av_top} ELSE InUse
  <2>2. Heap(chunksize', prevInUse', prev_size', av_top', heap_end', V, Listed)
    <3>1. brk >= End(chunksize, av_top)
      BY <1>3, <2>1
    <3>2. n = ((chunksize[av_top] - 12) \div 8) * 8 /\ fence = {av_top + n, av_top + n + 4}
      BY <1>2, <1>10 DEF n, fence
    <3> HIDE DEF V
    <3>3. Heap(FencedAt(chunksize, av_top, n, brk, s.end),
               prevInUse \union fence \union {brk}, prev_size, brk, s.end, V, Listed)
      BY <1>1, <1>3, <1>4, <1>10, <3>1, <3>2, TopFenced DEF V
    <3>4. chunksize' = FencedAt(chunksize, av_top, n, brk, s.end)
      BY <1>5, <1>10 DEF Chunk, FencedAt, fence
    <3> QED
      BY <1>5, <1>10, <3>3, <3>4
  <2>3. /\ n \in Nat /\ n + 12 <= chunksize[av_top] /\ (n = 0 \/ n >= 8)
    <3>1. n = ((chunksize[av_top] - 12) \div 8) * 8 /\ chunksize[av_top] \in Nat
      BY <1>2, <1>10 DEF n
    <3> QED
      BY <2>1, <3>1, FencedSize
  <2>4. \A c \in DOMAIN used : /\ c \in DOMAIN chunksize /\ c # av_top /\ c \in Nat
                               /\ chunksize[c] \in Nat /\ c < av_top
    <3>1. \A c \in DOMAIN used : c \in DOMAIN chunksize /\ c # av_top
      BY <1>1, Neighbours DEF InUse
    <3>2. \A c \in DOMAIN chunksize : c \in Nat /\ chunksize[c] \in Nat /\ c <= av_top
      BY <1>1, <2>1, Apart
    <3> QED
      BY <2>1, <3>1, <3>2
  <2>5. \A c \in DOMAIN used : chunksize'[c] = chunksize[c]
    <3>1. \A c \in DOMAIN used : c \notin fence /\ c # brk
      <4>1. av_top < brk
        BY <1>1, <1>3, <2>1, Apart
      <4> QED
        BY <1>3, <2>1, <2>3, <2>4, <4>1 DEF fence
    <3> QED
      BY <1>5, <1>10, <2>4, <3>1 DEF Chunk
  <2>6. CASE n >= MINSIZE
    <3>1. used' = With(used, av_top, 0) /\ run' = [run EXCEPT !.pc = "free", !.p = av_top, !.ret = "take"]
      BY <1>5, <1>10, <2>6
    <3>2. /\ DOMAIN used' = DOMAIN used \union {av_top} /\ used' \in [DOMAIN used' -> Nat]
          /\ used'[av_top] = 0 /\ \A c \in DOMAIN used : used'[c] = used[c]
      BY <2>4, <3>1 DEF With, MallocInv, HeapInv
    <3>3. HeapInv'
      <4>1. InUse' = InUse \union {av_top} /\ (DOMAIN used \intersect fastbins)' = {}
        BY <1>6, <2>1, <3>2 DEF InUse, MallocInv, HeapInv
      <4>2. Heap(chunksize', prevInUse', prev_size', av_top', heap_end', InUse', Listed')
        BY <1>6, <2>2, <2>6, <4>1
      <4> QED
        BY <1>6, <3>2, <4>1, <4>2 DEF HeapInv, MallocInv
    <3>4. LargeEnough'
      <4>1. chunksize'[av_top] \in Nat
        <5>1. av_top \in DOMAIN chunksize'
          BY <1>5, <1>10, <2>1 DEF Chunk
        <5> QED
          BY <2>2, <5>1 DEF Heap, HeapType
      <4> QED
        BY <2>5, <3>2, <4>1 DEF LargeEnough, MallocInv
    <3>5. run = [pc |-> run.pc, caller |-> run.caller, nb |-> run.nb, want |-> run.want,
                 align |-> run.align, oldp |-> run.oldp, p |-> run.p, ret |-> run.ret,
                 after |-> run.after]
      BY DEF MallocInv, RunType
    <3>6. run' = [pc |-> "free", caller |-> run.caller, nb |-> run.nb, want |-> run.want,
                  align |-> run.align, oldp |-> run.oldp, p |-> av_top, ret |-> "take",
                  after |-> run.after]
      BY <3>1, <3>5
    <3>7. RunType'
      BY <2>1, <3>6 DEF MallocInv, RunType, Labels, Freeing
    <3>8. FlagsTell'
      BY <1>6, <3>6 DEF MallocInv, FlagsTell
    <3>9. InvRun'
      <4>1. Asked
        BY DEF MallocInv, InvRun, InMalloc, Sorting
      <4>2. Asked'
        BY <3>2, <3>6, <4>1 DEF Asked
      <4>3. run.oldp # av_top
        BY <2>1, <2>4, <4>1 DEF Asked
      <4>4. av_top' # -1
        BY <1>3, <1>5
      <4> QED
        BY <3>2, <3>6, <4>2, <4>3, <4>4 DEF InvRun, Sorting
    <3> QED
      BY <3>3, <3>4, <3>7, <3>8, <3>9 DEF MallocInv
  <2>7. CASE ~(n >= MINSIZE)
    <3>1. Jump("take") /\ UNCHANGED used
      BY <1>5, <1>10, <2>7
    <3>2. HeapInv'
      <4>1. InUse' = InUse
        BY <1>6, <3>1 DEF InUse
      <4>2. Heap(chunksize', prevInUse', prev_size', av_top', heap_end', InUse', Listed')
        BY <1>6, <2>2, <2>7, <4>1
      <4> QED
        BY <1>6, <3>1, <4>2 DEF HeapInv, MallocInv
    <3>3. LargeEnough'
      BY <2>5, <3>1 DEF LargeEnough, MallocInv
    <3> QED
      BY <1>7, <1>8, <3>1, <3>2, <3>3 DEF MallocInv
  <2> QED
    BY <2>6, <2>7
<1> QED
  BY <1>9, <1>10

\* More memory is asked for (sYSMALLOc()).
LEMMA SysMallocInv ==
  ASSUME MallocInv, SysMalloc
  PROVE  MallocInv'
<1>1. run.pc = "sys" /\ run.pc \in Sorting \ {"take"}
  BY DEF SysMalloc, At, Sorting
<1>2. CASE fastchunks
  BY <1>1, <1>2, Consolidates DEF SysMalloc
<1>3. CASE ~fastchunks
  <2>1. PICK r \in kmorecore(heap_end, Size) :
          \/ r.brk = -1 /\ Failed /\ heap_end' = r.end
          \/ r.brk # -1 /\ av_top # -1 /\ r.brk = TopEnd /\ ExtendTop /\ heap_end' = r.end
          \/ r.brk # -1 /\ \E s \in kmorecore(r.end, Correction(r.end)) :
                              NewTop(r.brk, s.end) /\ heap_end' = s.end
    BY <1>3 DEF SysMalloc
  <2>2. r.end \in Nat /\ r.end >= heap_end
    <3>1. heap_end \in Nat
      BY DEF MallocInv, HeapInv, Heap, HeapType
    <3> QED
      BY <1>1, <3>1, Needed, Morecore
  <2> QED
    BY <1>1, <2>1, <2>2, FailedInv, ExtendTopInv, NewTopInv
<1> QED
  BY <1>2, <1>3

\* The new top is cut (sYSMALLOc(), the allocation at its end).
LEMMA AfterSysInv ==
  ASSUME MallocInv, AfterSys
  PROVE  MallocInv'
<1>1. run.pc = "take" /\ run.pc \in Sorting /\ av_top # -1 /\ heap_end \in Nat
  BY DEF AfterSys, At, Sorting, MallocInv, InvRun, HeapInv, Heap, HeapType
<1>2. CASE TopSize >= run.nb + MINSIZE
  BY <1>1, <1>2, TakesTop DEF AfterSys
<1>3. CASE ~(TopSize >= run.nb + MINSIZE)
  BY <1>1, <1>3, FailedInv DEF AfterSys
<1> QED
  BY <1>2, <1>3

-----------------------------------------------------------------------------
(* free.                                                                   *)

\* A free is over: its caller goes on, be it the user, sYSMALLOc() or
\* mEMALIGn().
LEMMA Returned ==
  ASSUME RunType, InvRun, run.pc \in Freeing, Jump(run.ret), av_top' # -1 \/ av_top' = av_top,
         run.ret # "idle" /\ run.oldp \in DOMAIN used =>
           run.oldp \in DOMAIN used' /\ used'[run.oldp] = used[run.oldp]
  PROVE  RunType' /\ InvRun' /\ run'.pc # "consolidate"
<1>1. run.ret \in {"idle", "take", "tail"}
  BY DEF RunType
<1>2. CASE run.ret = "idle"
  BY <1>2, CallOver DEF Jump
<1>3. CASE run.ret # "idle"
  <2>1. /\ RunType' /\ run'.pc = run.ret /\ run'.ret = run.ret /\ run'.caller = run.caller /\ run'.nb = run.nb
        /\ run'.want = run.want /\ run'.align = run.align /\ run'.oldp = run.oldp
    BY <1>1, <1>3, Jumped DEF Labels, Sorting
  <2>2. CASE run.ret = "take"
    <3>1. Asked /\ av_top # -1
      BY <2>2 DEF InvRun, InMalloc
    <3>2. Asked'
      BY <1>3, <2>1, <3>1 DEF Asked
    <3> QED
      BY <2>1, <2>2, <3>1, <3>2 DEF InvRun, InMalloc, Sorting, Freeing
  <2>3. CASE run.ret = "tail"
    BY <1>3, <2>1, <2>3 DEF InvRun, InMalloc, Sorting, Freeing
  <2> QED
    BY <1>1, <1>3, <2>2, <2>3
<1> QED
  BY <1>2, <1>3

\* What is given back leaves top a chunk's size (sYSTRIm()).
LEMMA ExtraSize ==
  ASSUME TopSize \in Nat, TopSize >= MINSIZE
  PROVE  Extra \in Int /\ TopSize - Extra >= MINSIZE
<1>1. pagesize \in Nat /\ pagesize > 0 /\ TopSize - MINSIZE \in Nat
  BY MallocAssumption DEF MINSIZE
<1>2. RoundUp(TopSize - MINSIZE, pagesize) \in Int
      /\ RoundUp(TopSize - MINSIZE, pagesize) < TopSize - MINSIZE + pagesize
  BY <1>1, Rounded
<1> DEFINE q == (TopSize - MINSIZE + pagesize - 1) \div pagesize
<1>3. q \in Int /\ RoundUp(TopSize - MINSIZE, pagesize) = q * pagesize /\ Extra = (q - 1) * pagesize
  <2>1. q \in Int
    BY <1>1, Z3
  <2> QED
    BY <2>1 DEF RoundUp, Extra
<1> HIDE DEF q
<1>4. (q - 1) * pagesize = q * pagesize - pagesize
  BY <1>1, <1>3, Z3
<1>5. Extra \in Int
  BY <1>1, <1>2, <1>3, <1>4
<1> QED
  BY <1>1, <1>2, <1>3, <1>4, <1>5 DEF MINSIZE

\* Pages behind top are given back (sYSTRIm()).
LEMMA SysTrimInv ==
  ASSUME MallocInv, SysTrim
  PROVE  MallocInv'
<1>1. /\ run.pc = "trim" /\ run.pc \in Freeing /\ Jump(run.ret)
      /\ UNCHANGED <<prevInUse, prev_size, av_top, lists, used>>
  BY DEF SysTrim, At, Freeing
<1>2. Heap(chunksize, prevInUse, prev_size, av_top, heap_end, InUse, Listed)
  BY DEF MallocInv, HeapInv
<1>3. RunType' /\ InvRun' /\ run'.pc # "consolidate"
  BY <1>1, Returned DEF MallocInv
<1>4. FlagsTell'
  BY <1>1, <1>3 DEF MallocInv, FlagsTell, Listed, lists
<1>5. InUse' = InUse /\ Listed' = Listed
  BY <1>1 DEF InUse, Listed, lists
<1>6. ASSUME chunksize' = chunksize, heap_end' = heap_end PROVE HeapInv' /\ LargeEnough'
  BY <1>1, <1>5, <1>6 DEF MallocInv, HeapInv, LargeEnough, lists
<1>7. ASSUME TopSize >= trim_threshold, Extra > 0, heap_end = TopEnd,
             chunksize' = [chunksize EXCEPT ![av_top] = TopSize - Extra], heap_end' = heap_end - Extra
      PROVE  HeapInv' /\ LargeEnough'
  <2>1. TopSize \in Nat /\ TopSize >= MINSIZE /\ av_top # -1
    <3>1. TopSize \in Nat
      BY <1>2, Neighbours, Apart DEF TopSize
    <3> QED
      BY <1>7, <3>1, MallocAssumption DEF TopSize, MINSIZE
  <2>2. av_top \in Nat /\ av_top \in DOMAIN chunksize /\ av_top \notin InUse
    BY <1>2, <2>1, Neighbours, Apart
  <2>3. Extra \in Int /\ TopSize - Extra >= MINSIZE
    BY <2>1, ExtraSize
  <2>4. /\ TopSize - Extra \in Nat /\ heap_end' \in Nat /\ av_top + (TopSize - Extra) <= heap_end'
    BY <1>7, <2>1, <2>2, <2>3 DEF TopEnd, MINSIZE
  <2>5. Heap(chunksize', prevInUse', prev_size', av_top', heap_end', InUse, Listed)
    BY <1>1, <1>2, <1>7, <2>1, <2>3, <2>4, TopResized
  <2>6. \A c \in DOMAIN used : c # av_top /\ c \in DOMAIN chunksize
    BY <1>2, <2>2, Neighbours DEF InUse
  <2>7. LargeEnough'
    BY <1>1, <1>7, <2>6 DEF MallocInv, LargeEnough
  <2> QED
    BY <1>1, <1>5, <2>5, <2>7 DEF MallocInv, HeapInv, lists
<1>8. HeapInv' /\ LargeEnough'
  BY <1>6, <1>7 DEF SysTrim
<1> QED
  BY <1>3, <1>4, <1>8 DEF MallocInv

\* A chunk is freed: to a fast list, or into its neighbours (fREe()).
LEMMA FreeChunkInv ==
  ASSUME MallocInv, FreeChunk
  PROVE  MallocInv'
<1> DEFINE p == run.p
<1>1. /\ run.pc = "free" /\ run.pc \in Freeing /\ p \in DOMAIN used /\ (run.ret # "idle" => p # run.oldp)
      /\ anychunks' = TRUE /\ used' = Without(used, {p})
  BY DEF FreeChunk, At, Freeing, MallocInv, InvRun
<1>2. Heap(chunksize, prevInUse, prev_size, av_top, heap_end, InUse, Listed)
  BY DEF MallocInv, HeapInv
<1> HIDE DEF p
<1>3. /\ used \in [DOMAIN used -> Nat] /\ DOMAIN used' = DOMAIN used \ {p} /\ used' \in [DOMAIN used' -> Nat]
      /\ \A c \in DOMAIN used' : used'[c] = used[c]
  BY <1>1 DEF Without, MallocInv, HeapInv
<1>4. p \in InUse /\ p \notin fastbins /\ DOMAIN used \intersect fastbins = {} /\ unsorted \intersect bins = {}
  BY <1>1 DEF InUse, MallocInv, HeapInv
<1>5. run.ret # "idle" /\ run.oldp \in DOMAIN used =>
        run.oldp \in DOMAIN used' /\ used'[run.oldp] = used[run.oldp]
  BY <1>1, <1>3
<1>6. ASSUME fastbins' = fastbins \union {p}, fastchunks' = TRUE, Jump(run.ret),
             UNCHANGED <<tags, av_top, heap_end, unsorted, bins>>
      PROVE  MallocInv'
  <2>1. InUse' = InUse /\ Listed' = Listed /\ (DOMAIN used \intersect fastbins)' = {}
    BY <1>3, <1>4, <1>6 DEF InUse, Listed
  <2>2. HeapInv'
    BY <1>2, <1>3, <1>4, <1>6, <2>1 DEF HeapInv, tags
  <2>3. LargeEnough'
    BY <1>3, <1>6 DEF MallocInv, LargeEnough, tags
  <2>4. RunType' /\ InvRun'
    BY <1>1, <1>5, <1>6, Returned DEF MallocInv
  <2>5. FlagsTell'
    BY <1>1, <1>6 DEF FlagsTell
  <2> QED
    BY <2>2, <2>3, <2>4, <2>5 DEF MallocInv
<1>7. ASSUME Merge(p), fastbins' = fastbins,
             \/ /\ run' = [run EXCEPT !.pc = "consolidate", !.after = "trim"] /\ fastchunks' = FALSE
             \/ Jump(run.ret) /\ fastchunks' = fastchunks
      PROVE  MallocInv'
  <2>1. /\ Heap(chunksize', prevInUse', prev_size', av_top', heap_end', InUse \ {p}, Listed')
        /\ (unsorted \intersect bins)' = {} /\ av_top' # -1
        /\ \A c \in InUse \ {p} : chunksize'[c] = chunksize[c]
    BY <1>2, <1>4, <1>7, MergeHeap
  <2>2. InUse' = InUse \ {p} /\ (DOMAIN used \intersect fastbins)' = {}
    BY <1>3, <1>4, <1>7 DEF InUse
  <2>3. HeapInv'
    BY <1>3, <2>1, <2>2 DEF HeapInv
  <2>4. LargeEnough'
    BY <1>3, <2>1 DEF MallocInv, LargeEnough, InUse
  <2>5. CASE run' = [run EXCEPT !.pc = "consolidate", !.after = "trim"]
    <3>1. run = [pc |-> run.pc, caller |-> run.caller, nb |-> run.nb, want |-> run.want,
                 align |-> run.align, oldp |-> run.oldp, p |-> run.p, ret |-> run.ret,
                 after |-> run.after]
      BY DEF MallocInv, RunType
    <3>2. run' = [pc |-> "consolidate", caller |-> run.caller, nb |-> run.nb, want |-> run.want,
                  align |-> run.align, oldp |-> run.oldp, p |-> run.p, ret |-> run.ret,
                  after |-> "trim"]
      BY <2>5, <3>1
    <3>3. RunType'
      BY <3>2 DEF MallocInv, RunType, Labels, Freeing
    <3>4. run.ret = "take" => Asked
      BY <1>1 DEF MallocInv, InvRun, InMalloc
    <3>5. run.ret = "take" => Asked'
      BY <1>5, <3>2, <3>4 DEF Asked
    <3>6. InvRun'
      <4>1. /\ run'.pc = "consolidate" /\ run'.after = "trim" /\ run'.ret = run.ret
            /\ run'.oldp = run.oldp /\ run'.want = run.want
        BY <3>2
      <4>2. run.ret = "tail" => /\ run'.oldp \in DOMAIN used' /\ run'.want >= MINSIZE
                                /\ used'[run'.oldp] = run'.want
        BY <1>5, <4>1 DEF MallocInv, InvRun
      <4> QED
        BY <2>1, <3>5, <4>1, <4>2 DEF InvRun, InMalloc, Sorting, Freeing
    <3>7. FlagsTell'
      BY <1>1, <3>2 DEF FlagsTell
    <3> QED
      BY <2>3, <2>4, <3>3, <3>6, <3>7 DEF MallocInv
  <2>6. CASE Jump(run.ret) /\ fastchunks' = fastchunks
    <3>1. RunType' /\ InvRun'
      BY <1>1, <1>5, <2>1, <2>6, Returned DEF MallocInv
    <3>2. FlagsTell'
      BY <1>1, <1>7, <2>6 DEF MallocInv, FlagsTell
    <3> QED
      BY <2>3, <2>4, <3>1, <3>2 DEF MallocInv
  <2> QED
    BY <1>7, <2>5, <2>6
<1> QED
  BY <1>6, <1>7 DEF FreeChunk, p

\* The fast chunks are merged one by one, and the call goes on
\* (malloc_consolidate()).
LEMMA ConsolidateInv ==
  ASSUME MallocInv, malloc_consolidate
  PROVE  MallocInv'
<1>1. run.pc = "consolidate" /\ run.after \in {"unsorted", "search", "trim"}
  BY DEF malloc_consolidate, At, MallocInv, InvRun, RunType
<1>2. Heap(chunksize, prevInUse, prev_size, av_top, heap_end, InUse, Listed)
  BY DEF MallocInv, HeapInv
<1>3. ASSUME fastbins = {}, GoOn(run.after) PROVE MallocInv'
  <2>1. UNCHANGED <<tags, av_top, heap_end, lists, used>> /\ Jump(run.after)
    BY <1>3 DEF GoOn
  <2>2. HeapInv' /\ LargeEnough'
    <3>1. heap_end' \in Nat /\ heap_end' >= heap_end
      BY <1>2, <2>1 DEF Heap, HeapType
    <3> QED
      BY <2>1, <3>1, SameHeap DEF MallocInv, lists
  <2>3. FlagsTell'
    BY <1>3, <2>1 DEF MallocInv, FlagsTell, Listed, lists
  <2>4. /\ RunType' /\ run'.pc = run.after /\ run'.ret = run.ret /\ run'.caller = run.caller /\ run'.nb = run.nb
        /\ run'.want = run.want /\ run'.align = run.align /\ run'.oldp = run.oldp
    BY <1>1, <2>1, Jumped DEF MallocInv, Labels, Sorting, Freeing
  <2>5. InvRun'
    BY <1>1, <2>1, <2>4 DEF MallocInv, InvRun, InMalloc, Asked, Sorting, Freeing
  <2> QED
    BY <2>2, <2>3, <2>4, <2>5 DEF MallocInv
<1>4. ASSUME NEW p \in fastbins, fastbins' = fastbins \ {p}, Merge(p),
             UNCHANGED <<anychunks, fastchunks, used, run>>
      PROVE  MallocInv'
  <2>1. p \in InUse /\ p \notin DOMAIN used /\ unsorted \intersect bins = {}
        /\ DOMAIN used \intersect fastbins = {} /\ used \in [DOMAIN used -> Nat]
    BY DEF InUse, MallocInv, HeapInv
  <2>2. /\ Heap(chunksize', prevInUse', prev_size', av_top', heap_end', InUse \ {p}, Listed')
        /\ (unsorted \intersect bins)' = {} /\ av_top' # -1
        /\ \A c \in InUse \ {p} : chunksize'[c] = chunksize[c]
    BY <1>2, <1>4, <2>1, MergeHeap
  <2>3. InUse' = InUse \ {p} /\ (DOMAIN used \intersect fastbins)' = {}
    BY <1>4, <2>1 DEF InUse
  <2>4. HeapInv'
    BY <1>4, <2>1, <2>2, <2>3 DEF HeapInv
  <2>5. LargeEnough'
    BY <1>4, <2>1, <2>2 DEF MallocInv, LargeEnough, InUse
  <2>6. RunType' /\ FlagsTell'
    <3>1. anychunks
      BY DEF MallocInv, FlagsTell
    <3> QED
      BY <1>1, <1>4, <3>1 DEF MallocInv, RunType, FlagsTell
  <2>7. InvRun'
    BY <1>1, <1>4, <2>2 DEF MallocInv, InvRun, InMalloc, Asked, Sorting
  <2> QED
    BY <2>4, <2>5, <2>6, <2>7 DEF MallocInv
<1> QED
  BY <1>3, <1>4 DEF malloc_consolidate

-----------------------------------------------------------------------------
(* realloc and memalign.                                                   *)

\* A chunk that is free, and not top, is in a list (fREe(), rEALLOc()).
LEMMA FreeNeighbour ==
  ASSUME NEW size, NEW prev, NEW free, NEW top, NEW end, NEW U, NEW L,
         Heap(size, prev, free, top, end, U, L), NEW c \in U, NEW next, next = End(size, c), next # top,
         End(size, next) \notin prev
  PROVE  next \in L
<1>1. next \in DOMAIN size /\ size[next] \in Nat
  BY Neighbours, Apart
<1>2. next \notin U
  BY DEF Heap, UsedNext
<1>3. ~(size[next] < MINSIZE)
  BY DEF Heap, FenceNext
<1>4. size[next] >= MINSIZE
  BY <1>1, <1>3 DEF MINSIZE
<1>5. U \union L = {d \in DOMAIN size : size[d] >= MINSIZE} \ {top}
  BY DEF Heap, Places
<1> QED
  BY <1>1, <1>2, <1>4, <1>5

\* A chunk grows into the top behind it (rEALLOc()).
TopAt(size, c, top, n) ==
  [d \in (DOMAIN size \ {top}) \union {c + n} |->
     IF d = c THEN n ELSE IF d = c + n THEN size[c] + size[top] - n ELSE size[d]]
LEMMA TopMoves ==
  ASSUME NEW size, NEW prev, NEW free, NEW top, NEW end, NEW U, NEW L,
         Heap(size, prev, free, top, end, U, L), NEW c \in U, End(size, c) = top,
         NEW n \in Nat, n > size[c], size[c] + size[top] >= n + MINSIZE
  PROVE  /\ Heap(TopAt(size, c, top, n), (prev \ {top}) \union {c + n}, free, c + n, end, U, L)
         /\ c + n \notin DOMAIN size
<1> DEFINE s == TopAt(size, c, top, n)
           new == c + n
           p == (prev \ {top}) \union {new}
<1>1. /\ c \in DOMAIN size /\ c \in Nat /\ size[c] \in Nat /\ c # top /\ c \notin L /\ c < top
      /\ top \in DOMAIN size /\ top \in Nat /\ size[top] \in Nat /\ top \notin U /\ top \notin L
      /\ top \in prev /\ size[c] >= MINSIZE /\ End(size, top) <= end /\ size[top] >= MINSIZE
      /\ top = c + size[c] /\ End(size, top) = top + size[top] /\ end \in Nat
  <2>1. c \in DOMAIN size /\ c # top /\ c \notin L /\ size[c] >= MINSIZE /\ top \in DOMAIN size
    BY Neighbours
  <2>2. top # -1
    BY Neighbours
  <2>3. end \in Nat
    BY DEF Heap, HeapType
  <2> QED
    BY <2>1, <2>2, <2>3, Neighbours, Apart DEF Heap, Tiling, End
<1>2. /\ new \in Nat /\ top < new /\ new < End(size, top) /\ n > 0
      /\ size[c] + size[top] - n \in Nat \ {0} /\ size[c] + size[top] - n >= MINSIZE /\ n >= MINSIZE
      /\ new + (size[c] + size[top] - n) = End(size, top)
  BY <1>1 DEF MINSIZE
<1>3. new \notin DOMAIN size
  BY <1>1, <1>2, Apart
<1>4. /\ DOMAIN s = (DOMAIN size \ {top}) \union {new} /\ s[c] = n /\ s[new] = size[c] + size[top] - n
      /\ c \in DOMAIN s /\ \A d \in DOMAIN s : d # c /\ d # new => s[d] = size[d] /\ d \in DOMAIN size
  BY <1>1, <1>2, <1>3 DEF TopAt
<1> HIDE DEF s
<1>5. /\ End(s, c) = new /\ End(s, new) = End(size, top)
      /\ \A d \in DOMAIN s : d # c /\ d # new => End(s, d) = End(size, d)
  BY <1>1, <1>2, <1>4 DEF End
<1> HIDE DEF new
<1>6. \A d \in DOMAIN size : d # c => End(size, d) # top
  BY <1>1, Apart
<1>7. HeapType(s, p, free, end)
  <2>1. /\ size \in [DOMAIN size -> Nat \ {0}] /\ DOMAIN size \subseteq Nat
        /\ prev \subseteq DOMAIN size /\ free \in [DOMAIN size \ prev -> Nat] /\ end \in Nat
    BY DEF Heap, HeapType
  <2>2. \A d \in DOMAIN s : s[d] \in Nat \ {0}
    BY <1>2, <1>4, <2>1
  <2>3. s \in [DOMAIN s -> Nat \ {0}]
    <3>1. s = [d \in DOMAIN s |-> s[d]]
      BY DEF s, TopAt
    <3> QED
      BY <2>2, <3>1
  <2>4. DOMAIN s \ p = DOMAIN size \ prev
    BY <1>1, <1>3, <1>4
  <2> QED
    BY <1>2, <1>4, <2>1, <2>3, <2>4 DEF HeapType
<1>8. Tiling(s, new, end)
  <2>1. ASSUME NEW d \in DOMAIN s PROVE d = new \/ (d \in DOMAIN size /\ d < top /\ d <= c /\ d \in Nat)
    <3>1. d = new \/ (d \in DOMAIN size /\ d # top)
      BY <1>4
    <3> QED
      BY <1>1, <3>1, Apart
  <2>2. ASSUME NEW d \in DOMAIN s, NEW e \in DOMAIN s, d < e PROVE End(s, d) <= e
    <3>1. CASE d = c
      BY <1>1, <1>2, <1>5, <2>1, <2>2, <3>1
    <3>2. CASE d # c /\ d # new
      <4>1. End(s, d) = End(size, d) /\ End(size, d) <= c /\ End(size, d) \in Nat
        BY <1>1, <1>5, <2>1, <3>2, Apart
      <4> QED
        BY <1>1, <1>2, <2>1, <2>2, <3>2, <4>1, Apart
    <3>3. CASE d = new
      BY <1>1, <1>2, <2>1, <2>2, <3>3
    <3> QED
      BY <3>1, <3>2, <3>3
  <2>3. \A d \in DOMAIN s : d <= new
    BY <1>1, <1>2, <2>1
  <2> QED
    BY <1>1, <1>2, <1>4, <1>5, <2>2, <2>3 DEF Tiling
<1>9. Places(s, new, U, L)
  <2>1. U \union L = {d \in DOMAIN size : size[d] >= MINSIZE} \ {top} /\ U \intersect L = {}
    BY DEF Heap, Places
  <2>2. {d \in DOMAIN s : s[d] >= MINSIZE} \ {new} = {d \in DOMAIN size : size[d] >= MINSIZE} \ {top}
    BY <1>1, <1>2, <1>3, <1>4
  <2> QED
    BY <2>1, <2>2 DEF Places
<1>10. \A d \in (U \union L) \ {c} : /\ d \in DOMAIN size /\ d \in DOMAIN s /\ d # new
                                    /\ End(s, d) = End(size, d) /\ End(size, d) # top
                                    /\ End(size, d) \in DOMAIN size /\ End(size, d) # new
                                    /\ End(size, d) \in DOMAIN s
  BY <1>1, <1>3, <1>4, <1>5, <1>6, Neighbours
<1>11. UsedNext(s, p, U)
  BY <1>5, <1>10 DEF Heap, UsedNext
<1>12. FreeNext(s, p, free, new, L)
  <2>1. ASSUME NEW d \in L
        PROVE  /\ d \in p /\ End(s, d) \in DOMAIN s \ p
               /\ free[End(s, d)] = s[d] /\ End(s, d) # new
    <3>1. /\ d \in prev /\ End(size, d) \in DOMAIN size \ prev
          /\ free[End(size, d)] = size[d]
      BY DEF Heap, FreeNext
    <3>2. d # c /\ d # top
      BY <1>1
    <3> QED
      BY <1>4, <1>10, <3>1, <3>2
  <2>2. ASSUME NEW d \in DOMAIN s \ p PROVE d - free[d] \in L /\ End(s, d - free[d]) = d
    <3>1. d \in DOMAIN size \ prev
      BY <1>4
    <3>2. d - free[d] \in L /\ End(size, d - free[d]) = d
      BY <3>1 DEF Heap, FreeNext
    <3> QED
      BY <1>1, <1>10, <3>2
  <2> QED
    BY <2>1, <2>2 DEF FreeNext
<1>13. FenceNext(s, p, U \union L)
  <2> SUFFICES ASSUME NEW d \in U \union L, s[End(s, d)] < MINSIZE
               PROVE  End(s, End(s, d)) \in p
    BY DEF FenceNext
  <2>1. d # c
    BY <1>2, <1>4, <1>5 DEF MINSIZE
  <2>2. End(size, d) # c
    BY <1>2, <1>4, <1>10, <2>1 DEF MINSIZE
  <2>3. /\ End(s, d) = End(size, d) /\ s[End(size, d)] = size[End(size, d)]
        /\ End(s, End(size, d)) = End(size, End(size, d))
    BY <1>4, <1>5, <1>10, <2>1, <2>2
  <2>4. End(size, End(size, d)) \in prev /\ End(size, End(size, d)) # top
    BY <1>6, <1>10, <2>1, <2>2, <2>3 DEF Heap, FenceNext
  <2> QED
    BY <2>3, <2>4
<1>14. Heap(s, p, free, new, end, U, L)
  BY <1>7, <1>8, <1>9, <1>11, <1>12, <1>13 DEF Heap
<1> QED
  BY <1>3, <1>14 DEF s, new

\* A used chunk is given total bytes, its own or with those of the chunk behind
\* it, and what is left after n of them is cut off (rEALLOc()).
LEMMA ResizeInv ==
  ASSUME MallocInv, run.pc # "consolidate", NEW p \in DOMAIN used, NEW total \in Nat, NEW n \in Nat,
         n >= MINSIZE, total >= n, NEW next, next = End(chunksize, p),
         \/ total = chunksize[p]
         \/ total = chunksize[p] + chunksize[next] /\ (next \in Listed \/ next \in DOMAIN used),
         Resize(p, total, n)
  PROVE  MallocInv'
<1> DEFINE gone == IF total > chunksize[p] THEN {next} ELSE {}
           rest == IF total - n >= MINSIZE THEN {p + n} ELSE {}
           e == p + total
           size1 == [c \in Chunk \ gone |-> IF c = p THEN total ELSE chunksize[c]]
           prev1 == (prevInUse \ gone) \union {e}
           free1 == Without(prev_size, gone \union {e})
           U1 == InUse \ gone
           L1 == Listed \ gone
<1>1. /\ chunksize' = [c \in (Chunk \ gone) \union rest |->
                         IF c = p THEN IF rest = {} THEN total ELSE n
                         ELSE IF c \in rest THEN total - n ELSE chunksize[c]]
      /\ prevInUse' = (prevInUse \ gone) \union rest \union {e}
      /\ prev_size' = free1
      /\ unsorted' = unsorted \ gone /\ bins' = bins \ gone
      /\ used' = [c \in (DOMAIN used \ gone) \union rest |->
                    IF c = p THEN n ELSE IF c \in rest THEN 0 ELSE used[c]]
      /\ run' = IF rest = {} THEN NoCall ELSE [NoCall EXCEPT !.pc = "free", !.p = p + n]
      /\ UNCHANGED <<av_top, heap_end, fastbins, anychunks, fastchunks>>
  BY DEF Resize, After, End
<1>2. Heap(chunksize, prevInUse, prev_size, av_top, heap_end, InUse, Listed)
  BY DEF MallocInv, HeapInv
<1>3. /\ p \in InUse /\ p \in Chunk /\ p \in Nat /\ chunksize[p] \in Nat /\ next \in Chunk /\ p < next
      /\ next = p + chunksize[p] /\ next \in prevInUse /\ prevInUse \subseteq Chunk /\ next \in Nat
      /\ prev_size = [c \in Chunk \ prevInUse |-> prev_size[c]]
      /\ chunksize = [c \in Chunk |-> chunksize[c]]
      /\ chunksize[next] \in Nat /\ chunksize[next] > 0
  <2>1. p \in InUse
    BY DEF InUse
  <2>2. /\ p \in DOMAIN chunksize /\ p \in Nat /\ chunksize[p] \in Nat /\ next \in DOMAIN chunksize
        /\ p < next /\ next \in Nat /\ chunksize[next] \in Nat /\ chunksize[next] > 0
    <3>1. p \in DOMAIN chunksize /\ next \in DOMAIN chunksize
      BY <1>2, <2>1, Neighbours
    <3> QED
      BY <1>2, <3>1, Apart
  <2>3. next \in prevInUse
    BY <1>2, <2>1 DEF Heap, UsedNext
  <2>4. /\ prevInUse \subseteq DOMAIN chunksize /\ prev_size \in [DOMAIN chunksize \ prevInUse -> Nat]
        /\ chunksize \in [DOMAIN chunksize -> Nat \ {0}]
    BY <1>2 DEF Heap, HeapType
  <2> QED
    BY <2>1, <2>2, <2>3, <2>4 DEF End, Chunk
\* With the chunk behind it.
<1>4. Heap(size1, prev1, free1, av_top, heap_end, U1, L1)
  <2>1. CASE total = chunksize[p]
    <3>1. gone = {} /\ e = next /\ U1 = InUse /\ L1 = Listed
      BY <1>3, <2>1
    <3>2. size1 = chunksize
      BY <1>3, <2>1, <3>1
    <3>3. prev1 = prevInUse
      BY <1>3, <3>1
    <3>4. free1 = prev_size
      <4>1. DOMAIN prev_size \ (gone \union {e}) = DOMAIN prev_size
        BY <1>3, <3>1
      <4> QED
        BY <1>3, <4>1 DEF Without
    <3> HIDE DEF gone, e, size1, prev1, free1, U1, L1
    <3> QED
      BY <1>2, <3>1, <3>2, <3>3, <3>4
  <2>2. CASE total = chunksize[p] + chunksize[next]
    <3>1. gone = {next} /\ e = End(chunksize, next)
      BY <1>3, <2>2 DEF End
    <3>2. size1 = Joined(chunksize, p, next)
      BY <2>2, <3>1 DEF Joined, Chunk
    <3>3. next \in Listed \/ next \in DOMAIN used
      BY <1>3, <2>2
    <3>4. CASE next \in Listed
      <4>1. /\ Heap(chunksize, prevInUse \union {End(chunksize, next)},
                    Without(prev_size, {End(chunksize, next)}), av_top, heap_end,
                    InUse \union {next}, Listed \ {next})
            /\ next \notin InUse
        BY <1>2, <3>4, HeapTake, Neighbours
      <4>2. Heap(Joined(chunksize, p, next), (prevInUse \union {End(chunksize, next)}) \ {next},
                 Without(prev_size, {End(chunksize, next)}), av_top, heap_end,
                 (InUse \union {next}) \ {next}, Listed \ {next})
        BY <1>3, <4>1, HeapJoin
      <4>3. (prevInUse \union {e}) \ {next} = prev1 /\ (InUse \union {next}) \ {next} = U1 /\ L1 = Listed \ {next}
        <5>1. e # next
          BY <1>3, <2>2
        <5> QED
          BY <3>1, <4>1, <5>1
      <4>4. Without(prev_size, {e}) = free1
        <5>1. DOMAIN prev_size \ {e} = DOMAIN prev_size \ (gone \union {e})
          BY <1>3, <3>1
        <5> QED
          BY <5>1 DEF Without
      <4> HIDE DEF gone, e, size1, prev1, free1, U1, L1
      <4> QED
        BY <3>1, <3>2, <4>2, <4>3, <4>4
    <3>5. CASE next \in DOMAIN used
      <4>1. next \in InUse
        BY <3>5 DEF InUse
      <4>2. e \in prevInUse /\ next \notin Listed
        BY <1>2, <3>1, <4>1, Neighbours DEF Heap, UsedNext
      <4>3. Heap(Joined(chunksize, p, next), prevInUse \ {next}, prev_size, av_top, heap_end,
                 InUse \ {next}, Listed)
        BY <1>2, <1>3, <4>1, HeapJoin
      <4>4. prevInUse \ {next} = prev1 /\ InUse \ {next} = U1 /\ L1 = Listed
        <5>1. e # next
          BY <1>3, <2>2
        <5> QED
          BY <3>1, <4>2, <5>1
      <4>5. prev_size = free1
        <5>1. DOMAIN prev_size \ (gone \union {e}) = DOMAIN prev_size
          BY <1>3, <3>1, <4>2
        <5> QED
          BY <1>3, <5>1 DEF Without
      <4> HIDE DEF gone, e, size1, prev1, free1, U1, L1
      <4> QED
        BY <3>2, <4>3, <4>4, <4>5
    <3> QED
      BY <3>3, <3>4, <3>5
  <2> QED
    BY <2>1, <2>2
<1>5. /\ DOMAIN size1 = Chunk \ gone /\ p \in Chunk \ gone /\ size1[p] = total /\ End(size1, p) = e
      /\ p \in U1 /\ \A c \in Chunk \ gone : c # p => size1[c] = chunksize[c]
      /\ next \notin fastbins \/ gone = {}
  <2>1. p \notin gone
    BY <1>3
  <2>2. next \notin fastbins \/ gone = {}
    <3>1. next \in Listed \/ next \in DOMAIN used => next \notin fastbins
      BY <1>2, Neighbours DEF InUse, MallocInv, HeapInv
    <3> QED
      BY <1>3, <3>1
  <2> QED
    BY <1>3, <2>1, <2>2 DEF End
<1> HIDE DEF e, size1, prev1, free1, U1, L1
\* What is left.
<1>6. /\ Heap(chunksize', prevInUse', prev_size', av_top', heap_end', U1 \union rest, L1)
      /\ rest \intersect (Chunk \ gone) = {}
      /\ chunksize'[p] = IF rest = {} THEN total ELSE n
      /\ \A c \in Chunk \ gone : c # p => chunksize'[c] = chunksize[c]
      /\ \A c \in rest : chunksize'[c] \in Nat
  <2>1. CASE rest = {}
    <3>1. chunksize' = size1
      BY <1>1, <2>1 DEF size1
    <3>2. prevInUse' = prev1 /\ U1 \union rest = U1
      BY <1>1, <2>1 DEF prev1
    <3> HIDE DEF gone, rest
    <3> QED
      BY <1>1, <1>4, <1>5, <2>1, <3>1, <3>2
  <2>2. CASE rest # {}
    <3>1. rest = {p + n} /\ total - n >= MINSIZE
      BY <2>2
    <3> HIDE DEF rest
    <3>2. /\ Heap(SplitAt(size1, p, n), prev1 \union {p + n}, free1, av_top, heap_end, U1 \union {p + n}, L1)
          /\ p + n \notin DOMAIN size1
      BY <1>4, <1>5, <3>1, HeapSplit
    <3>3. chunksize' = SplitAt(size1, p, n)
      <4>1. DOMAIN chunksize' = DOMAIN size1 \union {p + n}
        BY <1>1, <1>5, <3>1
      <4>2. chunksize' = [c \in DOMAIN size1 \union {p + n} |->
                            IF c = p THEN n ELSE IF c = p + n THEN total - n ELSE chunksize[c]]
        BY <1>1, <1>5, <2>2, <3>1
      <4> QED
        BY <1>5, <4>2 DEF SplitAt
    <3>4. prevInUse' = prev1 \union {p + n}
      BY <1>1, <3>1 DEF prev1
    <3>5. p + n \notin Chunk \ gone
      BY <1>5, <3>2
    <3>6. /\ chunksize'[p] = n /\ chunksize'[p + n] = total - n /\ total - n \in Nat
          /\ \A c \in Chunk \ gone : c # p => chunksize'[c] = chunksize[c]
      <4>1. p + n # p /\ total - n \in Nat
        BY <1>3, <3>1 DEF MINSIZE
      <4>2. chunksize' = [c \in (Chunk \ gone) \union rest |->
                            IF c = p THEN n ELSE IF c \in rest THEN total - n ELSE chunksize[c]]
        <5> HIDE DEF gone, rest
        <5> QED
          BY <1>1, <2>2
      <4>3. p \in (Chunk \ gone) \union rest /\ p + n \in rest
        BY <1>5, <3>1
      <4>4. chunksize'[p] = n /\ chunksize'[p + n] = total - n
        BY <4>1, <4>2, <4>3
      <4>5. \A c \in Chunk \ gone : c # p => chunksize'[c] = chunksize[c]
        BY <3>1, <3>5, <4>2
      <4> QED
        BY <4>1, <4>4, <4>5
    <3> HIDE DEF gone, rest, size1, prev1, free1, U1, L1
    <3>7. /\ av_top' = av_top /\ heap_end' = heap_end /\ prev_size' = free1
          /\ U1 \union rest = U1 \union {p + n}
      BY <1>1, <3>1
    <3>8. Heap(chunksize', prevInUse', prev_size', av_top', heap_end', U1 \union rest, L1)
      BY <3>2, <3>3, <3>4, <3>7
    <3>9. rest \intersect (Chunk \ gone) = {} /\ \A c \in rest : chunksize'[c] \in Nat
      BY <3>1, <3>5, <3>6
    <3> QED
      BY <2>2, <3>6, <3>8, <3>9
  <2> QED
    BY <2>1, <2>2
<1>7. /\ DOMAIN used' = (DOMAIN used \ gone) \union rest /\ p \in DOMAIN used' /\ used'[p] = n
      /\ \A c \in DOMAIN used' : c # p => used'[c] = IF c \in rest THEN 0 ELSE used[c]
      /\ used' \in [DOMAIN used' -> Nat]
  <2>1. p \notin gone
    BY <1>5
  <2>2. used \in [DOMAIN used -> Nat]
    BY DEF MallocInv, HeapInv
  <2> HIDE DEF gone, rest
  <2> QED
    BY <1>1, <2>1, <2>2
<1>8. DOMAIN used \subseteq Chunk /\ fastbins \subseteq Chunk /\ DOMAIN used \intersect fastbins = {}
  BY <1>2, Neighbours DEF MallocInv, HeapInv, InUse, Chunk
<1>9. HeapInv'
  <2>1. Listed' = L1 /\ (unsorted \intersect bins)' = {}
    BY <1>1 DEF L1, Listed, MallocInv, HeapInv
  <2>2. fastbins \intersect gone = {}
    BY <1>5
  <2>3. fastbins \intersect rest = {}
    <3> HIDE DEF gone, rest
    <3> QED
      BY <1>6, <1>8, <2>2
  <2>4. InUse' = U1 \union rest /\ (DOMAIN used \intersect fastbins)' = {}
    <3> HIDE DEF gone, rest
    <3> QED
      BY <1>1, <1>7, <1>8, <2>2, <2>3 DEF InUse, U1
  <2> HIDE DEF gone, rest
  <2> QED
    BY <1>6, <1>7, <2>1, <2>4 DEF HeapInv
<1>10. LargeEnough'
  <2> SUFFICES ASSUME NEW c \in DOMAIN used' PROVE chunksize'[c] >= used'[c]
    BY DEF LargeEnough
  <2> HIDE DEF gone
  <2>1. CASE c = p
    <3> HIDE DEF rest
    <3> QED
      BY <1>6, <1>7, <2>1
  <2>2. CASE c # p /\ c \in rest
    <3> HIDE DEF rest
    <3> QED
      BY <1>6, <1>7, <2>2
  <2>3. CASE c # p /\ c \notin rest
    <3> HIDE DEF rest
    <3> QED
      BY <1>6, <1>7, <1>8, <2>3 DEF MallocInv, LargeEnough
  <2> QED
    BY <2>1, <2>2, <2>3
<1>11. FlagsTell'
  <2>1. Listed' \subseteq Listed
    BY <1>1 DEF Listed
  <2> QED
    BY <1>1, <2>1 DEF MallocInv, FlagsTell
<1>12. RunType' /\ InvRun'
  <2>1. CASE rest = {}
    BY <1>1, <2>1, CallOver
  <2>2. CASE rest # {}
    <3>1. rest = {p + n} /\ p + n \in Nat
      BY <1>3, <2>2
    <3>2. run' = [pc |-> "free", caller |-> "malloc", nb |-> 0, want |-> 0, align |-> 0,
                  oldp |-> -1, p |-> p + n, ret |-> "idle", after |-> "idle"]
      BY <1>1, <2>2 DEF NoCall
    <3> HIDE DEF gone, rest
    <3>3. RunType'
      BY <3>1, <3>2 DEF RunType, Labels, Freeing
    <3>4. p + n \in DOMAIN used'
      BY <1>7, <3>1
    <3>5. InvRun'
      BY <3>2, <3>4 DEF InvRun, InMalloc, Sorting, Freeing
    <3> QED
      BY <3>3, <3>5
  <2> QED
    BY <2>1, <2>2
<1> QED
  BY <1>9, <1>10, <1>11, <1>12 DEF MallocInv

\* A chunk grows or shrinks where it is, or another is looked for (rEALLOc()).
LEMMA ReallocInv ==
  ASSUME MallocInv, NEW p \in DOMAIN used, NEW bytes \in Requests, krealloc(p, bytes)
  PROVE  MallocInv'
<1> DEFINE nb == request2size(bytes)
           next == End(chunksize, p)
           both == chunksize[p] + chunksize[next]
<1>1. /\ run.pc = "idle" /\ nb \in Nat /\ nb >= MINSIZE
      /\ \/ chunksize[p] >= nb /\ Resize(p, chunksize[p], nb)
         \/ /\ ~(chunksize[p] >= nb) /\ next = av_top /\ both >= nb + MINSIZE
            /\ chunksize' = [c \in (Chunk \ {next}) \union {p + nb} |->
                               IF c = p THEN nb ELSE IF c = p + nb THEN both - nb ELSE chunksize[c]]
            /\ prevInUse' = (prevInUse \ {next}) \union {p + nb}
            /\ av_top' = p + nb /\ used' = With(used, p, nb)
            /\ UNCHANGED <<prev_size, heap_end, lists, run>>
         \/ next # av_top /\ End(chunksize, next) \notin prevInUse /\ both >= nb /\ Resize(p, both, nb)
         \/ /\ run' = [NoCall EXCEPT !.pc = "search", !.caller = "realloc", !.nb = nb, !.oldp = p]
            /\ UNCHANGED <<tags, av_top, heap_end, lists, used>>
  <2>1. bytes \in Nat
    BY MallocAssumption
  <2>2. nb \in Nat /\ nb >= MINSIZE
    BY <2>1, RequestSize
  <2> QED
    BY <2>2 DEF krealloc, At, After, End, inuse
<1> HIDE DEF nb
<1>2. Heap(chunksize, prevInUse, prev_size, av_top, heap_end, InUse, Listed)
  BY DEF MallocInv, HeapInv
<1>3. /\ p \in InUse /\ p \in DOMAIN chunksize /\ p \in Nat /\ chunksize[p] \in Nat
      /\ next \in DOMAIN chunksize /\ chunksize[next] \in Nat
  <2>1. p \in InUse
    BY DEF InUse
  <2>2. p \in DOMAIN chunksize /\ next \in DOMAIN chunksize
    BY <1>2, <2>1, Neighbours
  <2> QED
    BY <1>2, <2>1, <2>2, Apart
<1>4. ASSUME chunksize[p] >= nb, Resize(p, chunksize[p], nb) PROVE MallocInv'
  BY <1>1, <1>3, <1>4, ResizeInv
<1>5. ASSUME next # av_top, End(chunksize, next) \notin prevInUse, both >= nb, Resize(p, both, nb)
      PROVE  MallocInv'
  <2>1. next \in Listed
    BY <1>2, <1>3, <1>5, FreeNeighbour
  <2>2. both \in Nat
    BY <1>3
  <2> QED
    BY <1>1, <1>5, <2>1, <2>2, ResizeInv
<1>6. ASSUME ~(chunksize[p] >= nb), next = av_top, both >= nb + MINSIZE,
             chunksize' = [c \in (Chunk \ {next}) \union {p + nb} |->
                             IF c = p THEN nb ELSE IF c = p + nb THEN both - nb ELSE chunksize[c]],
             prevInUse' = (prevInUse \ {next}) \union {p + nb},
             av_top' = p + nb, used' = With(used, p, nb),
             UNCHANGED <<prev_size, heap_end, lists, run>>
      PROVE  MallocInv'
  <2>1. nb > chunksize[p]
    BY <1>1, <1>3, <1>6
  <2>2. /\ Heap(TopAt(chunksize, p, av_top, nb), (prevInUse \ {av_top}) \union {p + nb}, prev_size,
                p + nb, heap_end, InUse, Listed)
        /\ p + nb \notin DOMAIN chunksize
    BY <1>1, <1>2, <1>3, <1>6, <2>1, TopMoves
  <2>3. chunksize' = TopAt(chunksize, p, av_top, nb)
    <3>1. both - nb = chunksize[p] + (chunksize[av_top] - nb)
      BY <1>1, <1>3, <1>6
    <3> QED
      BY <1>6, <3>1 DEF TopAt, Chunk
  <2>4. Heap(chunksize', prevInUse', prev_size', av_top', heap_end', InUse, Listed)
    BY <1>6, <2>2, <2>3
  <2>5. /\ DOMAIN used' = DOMAIN used /\ used' \in [DOMAIN used' -> Nat] /\ used'[p] = nb
        /\ \A c \in DOMAIN used : c # p => used'[c] = used[c]
    BY <1>1, <1>6 DEF With, MallocInv, HeapInv
  <2>6. /\ fastbins' = fastbins /\ unsorted' = unsorted /\ bins' = bins
        /\ anychunks' = anychunks /\ fastchunks' = fastchunks
    BY <1>6 DEF lists
  <2>7. HeapInv'
    <3>1. InUse' = InUse /\ Listed' = Listed
      BY <2>5, <2>6 DEF InUse, Listed
    <3> QED
      BY <2>4, <2>5, <2>6, <3>1 DEF MallocInv, HeapInv
  <2>8. LargeEnough'
    <3>1. p # next /\ p # p + nb /\ chunksize'[p] = nb
      <4>1. p # next
        BY <1>2, <1>3, <1>6, Neighbours
      <4>2. p # p + nb
        BY <1>1, <1>3 DEF MINSIZE
      <4> QED
        BY <1>3, <1>6, <4>1, <4>2 DEF Chunk
    <3>2. ASSUME NEW c \in DOMAIN used, c # p PROVE chunksize'[c] = chunksize[c]
      <4>1. c \in DOMAIN chunksize /\ c # next /\ c # p + nb
        BY <1>2, <1>6, <2>2, Neighbours DEF InUse
      <4> QED
        BY <1>6, <3>2, <4>1 DEF Chunk
    <3> QED
      BY <1>1, <2>5, <3>1, <3>2 DEF MallocInv, LargeEnough
  <2>9. FlagsTell' /\ RunType'
    BY <1>6, <2>6 DEF MallocInv, FlagsTell, RunType, Listed
  <2>10. InvRun'
    <3>1. run' = run /\ run.pc = "idle"
      BY <1>1, <1>6
    <3>2. av_top' # -1
      BY <1>1, <1>3, <1>6
    <3> QED
      BY <2>5, <3>1, <3>2 DEF MallocInv, InvRun, InMalloc, Sorting, Freeing
  <2> QED
    BY <2>7, <2>8, <2>9, <2>10 DEF MallocInv
<1>7. ASSUME run' = [NoCall EXCEPT !.pc = "search", !.caller = "realloc", !.nb = nb, !.oldp = p],
             UNCHANGED <<tags, av_top, heap_end, lists, used>>
      PROVE  MallocInv'
  <2>1. HeapInv' /\ LargeEnough'
    <3>1. heap_end' \in Nat /\ heap_end' >= heap_end
      BY <1>2, <1>7 DEF Heap, HeapType
    <3> QED
      BY <1>7, <3>1, SameHeap DEF MallocInv, lists
  <2>2. run' = [pc |-> "search", caller |-> "realloc", nb |-> nb, want |-> 0, align |-> 0,
                oldp |-> p, p |-> -1, ret |-> "idle", after |-> "idle"]
    BY <1>7 DEF NoCall
  <2>3. RunType'
    BY <1>1, <1>3, <2>2 DEF RunType, Labels, Sorting
  <2>4. FlagsTell'
    BY <1>1, <1>7 DEF MallocInv, FlagsTell, Listed, lists
  <2>5. InvRun'
    <3>1. /\ run'.pc = "search" /\ run'.caller = "realloc" /\ run'.nb = nb /\ run'.oldp = p
          /\ run'.ret = "idle"
      BY <2>2
    <3>2. Asked'
      BY <1>1, <1>7, <3>1 DEF Asked
    <3> QED
      BY <3>1, <3>2 DEF InvRun, Sorting, Freeing
  <2> QED
    BY <2>1, <2>3, <2>4, <2>5 DEF MallocInv
<1> QED
  BY <1>1, <1>4, <1>5, <1>6, <1>7

\* The chunk that realloc got joins the old one, or the old one is freed
\* (rEALLOc()).
LEMMA MovedInv ==
  ASSUME MallocInv, Moved
  PROVE  MallocInv'
<1> DEFINE p == run.oldp
<1>1. /\ run.pc = "copy" /\ run.p \in DOMAIN used /\ p \in DOMAIN used /\ run.nb \in Nat
      /\ run.nb >= MINSIZE /\ chunksize[run.p] >= run.nb
  BY DEF Moved, At, MallocInv, InvRun, RunType
<1>2. Heap(chunksize, prevInUse, prev_size, av_top, heap_end, InUse, Listed)
  BY DEF MallocInv, HeapInv
<1>3. /\ p \in DOMAIN chunksize /\ p \in Nat /\ chunksize[p] \in Nat /\ chunksize[run.p] \in Nat
  <2>1. p \in DOMAIN chunksize /\ run.p \in DOMAIN chunksize
    BY <1>1, <1>2, Neighbours DEF InUse
  <2> QED
    BY <1>2, <2>1, Apart
<1>4. CASE run.p = End(chunksize, p)
  <2>1. Resize(p, chunksize[p] + chunksize[run.p], run.nb)
    BY <1>4 DEF Moved, After, End
  <2>2. chunksize[p] + chunksize[run.p] \in Nat /\ chunksize[p] + chunksize[run.p] >= run.nb
    BY <1>1, <1>3
  <2> QED
    BY <1>1, <1>4, <2>1, <2>2, ResizeInv
<1>5. CASE run.p # End(chunksize, p)
  <2>1. /\ run' = [NoCall EXCEPT !.pc = "free", !.p = p]
        /\ UNCHANGED <<tags, av_top, heap_end, lists, used>>
    BY <1>5 DEF Moved, After, End
  <2>2. HeapInv' /\ LargeEnough'
    <3>1. heap_end' \in Nat /\ heap_end' >= heap_end
      BY <1>2, <2>1 DEF Heap, HeapType
    <3> QED
      BY <2>1, <3>1, SameHeap DEF MallocInv, lists
  <2>3. run' = [pc |-> "free", caller |-> "malloc", nb |-> 0, want |-> 0, align |-> 0,
                oldp |-> -1, p |-> p, ret |-> "idle", after |-> "idle"]
    BY <2>1 DEF NoCall
  <2>4. RunType'
    BY <1>3, <2>3 DEF RunType, Labels, Freeing
  <2>5. FlagsTell'
    BY <1>1, <2>1 DEF MallocInv, FlagsTell, Listed, lists
  <2>6. InvRun'
    <3>1. run'.pc = "free" /\ run'.p = p /\ run'.ret = "idle"
      BY <2>3
    <3>2. used' = used
      BY <2>1
    <3> QED
      BY <1>1, <3>1, <3>2 DEF InvRun, InMalloc, Sorting, Freeing
  <2> QED
    BY <2>2, <2>4, <2>5, <2>6 DEF MallocInv
<1> QED
  BY <1>4, <1>5

\* A chunk in use is cut in two, each large enough for its use (mEMALIGn()).
LEMMA CutInv ==
  ASSUME MallocInv, NEW p \in DOMAIN used, NEW n \in Nat, n >= MINSIZE, chunksize[p] - n >= MINSIZE,
         Cut(p, n), UNCHANGED <<prev_size, av_top, heap_end, lists>>,
         NEW a \in Nat, NEW b \in Nat, a <= n, b <= chunksize[p] - n,
         used' = [c \in DOMAIN used \union {p + n} |->
                    IF c = p + n THEN b ELSE IF c = p THEN a ELSE used[c]]
  PROVE  /\ HeapInv' /\ LargeEnough' /\ DOMAIN used' = DOMAIN used \union {p + n}
         /\ p + n \notin DOMAIN used /\ p + n \in Nat
<1>1. Heap(chunksize, prevInUse, prev_size, av_top, heap_end, InUse, Listed)
  BY DEF MallocInv, HeapInv
<1>2. p \in InUse /\ p \in DOMAIN chunksize /\ p \in Nat /\ chunksize[p] \in Nat
  <2>1. p \in InUse
    BY DEF InUse
  <2> QED
    BY <1>1, <2>1, Neighbours, Apart
<1>3. /\ chunksize' = SplitAt(chunksize, p, n) /\ prevInUse' = prevInUse \union {p + n}
      /\ UNCHANGED <<fastbins, unsorted, bins>>
  BY DEF Cut, SplitAt, Chunk, lists
<1>4. /\ Heap(SplitAt(chunksize, p, n), prevInUse \union {p + n}, prev_size, av_top, heap_end,
              InUse \union {p + n}, Listed)
      /\ p + n \notin DOMAIN chunksize
  BY <1>1, <1>2, HeapSplit
<1>5. /\ DOMAIN used' = DOMAIN used \union {p + n} /\ p + n # p /\ p + n \in Nat
      /\ used'[p] = a /\ used'[p + n] = b /\ used' \in [DOMAIN used' -> Nat]
      /\ \A c \in DOMAIN used \ {p} : c # p + n => used'[c] = used[c]
  <2>1. p + n # p /\ p + n \in Nat
    BY <1>2 DEF MINSIZE
  <2> QED
    BY <2>1 DEF MallocInv, HeapInv
<1>6. \A c \in InUse \union Listed : c \in DOMAIN chunksize
  BY <1>1, Neighbours
<1>7. HeapInv'
  <2>1. InUse' = InUse \union {p + n} /\ Listed' = Listed /\ (DOMAIN used \intersect fastbins)' = {}
    BY <1>3, <1>4, <1>5, <1>6 DEF InUse, Listed, MallocInv, HeapInv
  <2>2. Heap(chunksize', prevInUse', prev_size', av_top', heap_end', InUse', Listed')
    BY <1>3, <1>4, <2>1
  <2> QED
    BY <1>3, <1>5, <2>1, <2>2 DEF HeapInv, MallocInv
<1>8. LargeEnough'
  <2>1. chunksize'[p] = n /\ chunksize'[p + n] = chunksize[p] - n
    BY <1>2, <1>3, <1>5 DEF SplitAt
  <2>2. \A c \in DOMAIN used \ {p} : c # p + n /\ chunksize'[c] = chunksize[c]
    BY <1>3, <1>4, <1>6 DEF SplitAt, InUse
  <2> QED
    BY <1>2, <1>5, <2>1, <2>2 DEF MallocInv, LargeEnough
<1> QED
  BY <1>4, <1>5, <1>6, <1>7, <1>8 DEF InUse

\* The aligned place leaves room for a chunk before it, and is not farther than
\* the room that was asked for (mEMALIGn()).
LEMMA AlignedPlace ==
  ASSUME NEW p \in Nat, NEW a \in Nat, a >= MINSIZE
  PROVE  Aligned(p, a) \in Int /\ Aligned(p, a) - p >= MINSIZE /\ Aligned(p, a) - p < a + MINSIZE
<1> DEFINE brk == RoundUp(p + 8, a) - 8
<1>1. RoundUp(p + 8, a) \in Int /\ RoundUp(p + 8, a) >= p + 8 /\ RoundUp(p + 8, a) < p + 8 + a
  <2>1. p + 8 \in Int /\ a > 0
    BY DEF MINSIZE
  <2> QED
    BY <2>1, Rounded
<1>2. brk \in Int /\ brk >= p /\ brk < p + a
  BY <1>1
<1>3. Aligned(p, a) = IF brk - p < MINSIZE THEN brk + a ELSE brk
  BY DEF Aligned
<1> HIDE DEF brk
<1> QED
  BY <1>2, <1>3 DEF MINSIZE

\* What lies before the aligned place is cut off and freed (mEMALIGn()).
LEMMA LeadInv ==
  ASSUME MallocInv, Lead
  PROVE  MallocInv'
<1> DEFINE p == run.p
           newp == Aligned(p, run.align)
<1>1. /\ run.pc = "align" /\ p \in DOMAIN used /\ run.align >= MINSIZE /\ run.want >= MINSIZE
      /\ chunksize[p] >= run.want + run.align + MINSIZE
      /\ run.align \in Nat /\ run.want \in Nat /\ UNCHANGED <<prev_size, av_top, heap_end, lists>>
  BY DEF Lead, At, MallocInv, InvRun, RunType
<1>2. Heap(chunksize, prevInUse, prev_size, av_top, heap_end, InUse, Listed)
  BY DEF MallocInv, HeapInv
<1>3. p \in Nat /\ chunksize[p] \in Nat
  <2>1. p \in DOMAIN chunksize
    BY <1>1, <1>2, Neighbours DEF InUse
  <2> QED
    BY <1>2, <2>1, Apart
<1>4. run = [pc |-> run.pc, caller |-> run.caller, nb |-> run.nb, want |-> run.want,
             align |-> run.align, oldp |-> run.oldp, p |-> run.p, ret |-> run.ret,
             after |-> run.after]
  BY DEF MallocInv, RunType
<1>5. CASE (p + 8) % run.align = 0
  <2>1. /\ run' = [run EXCEPT !.pc = "tail", !.oldp = p] /\ used' = [used EXCEPT ![p] = run.want]
        /\ UNCHANGED <<chunksize, prevInUse>>
    BY <1>5 DEF Lead
  <2>2. run' = [pc |-> "tail", caller |-> run.caller, nb |-> run.nb, want |-> run.want,
                align |-> run.align, oldp |-> p, p |-> p, ret |-> run.ret, after |-> run.after]
    BY <1>4, <2>1
  <2>3. /\ DOMAIN used' = DOMAIN used /\ used'[p] = run.want /\ used' \in [DOMAIN used' -> Nat]
        /\ \A c \in DOMAIN used : c # p => used'[c] = used[c]
    BY <1>1, <2>1 DEF MallocInv, HeapInv
  <2>4. HeapInv'
    <3>1. InUse' = InUse /\ Listed' = Listed
      BY <1>1, <2>3 DEF InUse, Listed, lists
    <3> QED
      BY <1>1, <2>1, <2>3, <3>1 DEF MallocInv, HeapInv, lists
  <2>5. LargeEnough'
    <3>1. chunksize[p] >= run.want
      BY <1>1, <1>3 DEF MINSIZE
    <3> QED
      BY <2>1, <2>3, <3>1 DEF MallocInv, LargeEnough
  <2>6. RunType'
    <3>1. p \in Int
      BY <1>3
    <3> HIDE DEF p
    <3> QED
      BY <2>2, <3>1 DEF MallocInv, RunType, Labels
  <2>7. FlagsTell'
    BY <1>1, <2>2 DEF MallocInv, FlagsTell, Listed, lists
  <2>8. InvRun'
    BY <1>1, <2>2, <2>3 DEF MallocInv, InvRun, InMalloc, Sorting, Freeing
  <2> QED
    BY <2>4, <2>5, <2>6, <2>7, <2>8 DEF MallocInv
<1>6. CASE (p + 8) % run.align # 0
  <2>1. /\ Cut(p, newp - p)
        /\ used' = [c \in DOMAIN used \union {newp} |->
                      IF c = newp THEN run.want ELSE IF c = p THEN 0 ELSE used[c]]
        /\ run' = [run EXCEPT !.pc = "free", !.oldp = newp, !.ret = "tail"]
    BY <1>6 DEF Lead
  <2>2. newp \in Int /\ newp - p >= MINSIZE /\ newp - p < run.align + MINSIZE
    BY <1>1, <1>3, AlignedPlace
  <2> HIDE DEF newp, p
  <2> DEFINE n == newp - p
  <2>3. n \in Nat /\ n >= MINSIZE /\ chunksize[p] - n >= MINSIZE /\ run.want <= chunksize[p] - n /\ p + n = newp
    BY <1>1, <1>3, <2>2 DEF MINSIZE
  <2> HIDE DEF n
  <2>4. /\ HeapInv' /\ LargeEnough' /\ DOMAIN used' = DOMAIN used \union {newp}
        /\ newp \notin DOMAIN used /\ newp \in Nat
    <3>1. Cut(p, n)
      BY <2>1 DEF n
    <3>2. used' = [c \in DOMAIN used \union {p + n} |->
                     IF c = p + n THEN run.want ELSE IF c = p THEN 0 ELSE used[c]]
      BY <2>1, <2>3
    <3>3. 0 \in Nat /\ 0 <= n
      BY <2>3
    <3>4. /\ HeapInv' /\ LargeEnough' /\ DOMAIN used' = DOMAIN used \union {p + n}
          /\ p + n \notin DOMAIN used /\ p + n \in Nat
      BY <1>1, <2>3, <3>1, <3>2, <3>3, CutInv
    <3> QED
      BY <2>3, <3>4
  <2>5. run' = [pc |-> "free", caller |-> run.caller, nb |-> run.nb, want |-> run.want,
                align |-> run.align, oldp |-> newp, p |-> run.p, ret |-> "tail", after |-> run.after]
    BY <1>4, <2>1
  <2>6. RunType'
    BY <2>2, <2>5 DEF MallocInv, RunType, Labels, Freeing
  <2>7. FlagsTell'
    BY <1>1, <2>5 DEF MallocInv, FlagsTell, Listed, lists
  <2>8. InvRun'
    <3>1. run'.pc = "free" /\ run'.p = p /\ run'.ret = "tail" /\ run'.oldp = newp /\ run'.want = run.want
      BY <2>5 DEF p
    <3>2. newp \in DOMAIN used' /\ p \in DOMAIN used' /\ used'[newp] = run.want
      BY <1>1, <2>1, <2>4
    <3>3. p # newp
      BY <1>1, <2>4
    <3> QED
      BY <1>1, <3>1, <3>2, <3>3 DEF InvRun, InMalloc, Sorting, Freeing
  <2> QED
    BY <2>4, <2>6, <2>7, <2>8 DEF MallocInv
<1> QED
  BY <1>5, <1>6

\* What lies behind what was wanted is cut off and freed (mEMALIGn()).
LEMMA TrailInv ==
  ASSUME MallocInv, Trail
  PROVE  MallocInv'
<1> DEFINE p == run.oldp
           n == run.want
<1>1. /\ run.pc = "tail" /\ p \in DOMAIN used /\ n >= MINSIZE /\ n \in Nat
      /\ UNCHANGED <<prev_size, av_top, heap_end, lists>>
  BY DEF Trail, At, MallocInv, InvRun, RunType
<1>2. Heap(chunksize, prevInUse, prev_size, av_top, heap_end, InUse, Listed)
  BY DEF MallocInv, HeapInv
<1>3. p \in Nat /\ chunksize[p] \in Nat /\ p \in DOMAIN chunksize
  <2>1. p \in DOMAIN chunksize
    BY <1>1, <1>2, Neighbours DEF InUse
  <2> QED
    BY <1>2, <2>1, Apart
<1>4. CASE chunksize[p] > n + MINSIZE
  <2>1. Cut(p, n) /\ used' = With(used, p + n, 0) /\ run' = [NoCall EXCEPT !.pc = "free", !.p = p + n]
    BY <1>4 DEF Trail
  <2>2. chunksize[p] - n >= MINSIZE
    BY <1>1, <1>3, <1>4 DEF MINSIZE
  <2>3. used' = [c \in DOMAIN used \union {p + n} |-> IF c = p + n THEN 0 ELSE IF c = p THEN n ELSE used[c]]
    <3>1. p + n # p /\ used[p] = n
      BY <1>1, <1>3 DEF MINSIZE, MallocInv, InvRun
    <3> QED
      BY <1>1, <2>1, <3>1 DEF With
  <2>4. run' = [pc |-> "free", caller |-> "malloc", nb |-> 0, want |-> 0, align |-> 0,
                oldp |-> -1, p |-> p + n, ret |-> "idle", after |-> "idle"]
    BY <2>1 DEF NoCall
  <2> HIDE DEF p, n
  <2>5. /\ HeapInv' /\ LargeEnough' /\ DOMAIN used' = DOMAIN used \union {p + n}
        /\ p + n \notin DOMAIN used /\ p + n \in Nat
    <3>1. 0 \in Nat /\ 0 <= chunksize[p] - n /\ n <= n
      BY <1>1, <1>3, <2>2 DEF MINSIZE
    <3> QED
      BY <1>1, <2>1, <2>2, <2>3, <3>1, CutInv
  <2>6. RunType'
    BY <2>4, <2>5 DEF RunType, Labels, Freeing
  <2>7. FlagsTell'
    BY <1>1, <2>4 DEF MallocInv, FlagsTell, Listed, lists
  <2>8. InvRun'
    BY <2>4, <2>5 DEF InvRun, InMalloc, Sorting, Freeing
  <2> QED
    BY <2>5, <2>6, <2>7, <2>8 DEF MallocInv
<1>5. CASE ~(chunksize[p] > n + MINSIZE)
  <2>1. run' = NoCall /\ UNCHANGED <<tags, av_top, heap_end, lists, used>>
    BY <1>1, <1>5 DEF Trail, tags
  <2>2. HeapInv' /\ LargeEnough'
    <3>1. heap_end' \in Nat /\ heap_end' >= heap_end
      BY <1>1, <1>2 DEF Heap, HeapType
    <3> QED
      BY <1>1, <2>1, <3>1, SameHeap DEF MallocInv, lists
  <2>3. FlagsTell'
    BY <1>1, <2>1 DEF MallocInv, FlagsTell, Listed, lists
  <2> QED
    BY <2>1, <2>2, <2>3, CallOver DEF MallocInv
<1> QED
  BY <1>1, <1>4, <1>5

-----------------------------------------------------------------------------
(* The theorem.                                                            *)

\* Before the first call the heap is empty (initial_top(), malloc_init_state()).
LEMMA Initially ==
  ASSUME MallocInit
  PROVE  MallocInv
<1>1. /\ chunksize = <<>> /\ prevInUse = {} /\ prev_size = <<>> /\ av_top = -1 /\ heap_end = 0
      /\ fastbins = {} /\ unsorted = {} /\ bins = {} /\ used = <<>> /\ run = NoCall
  BY DEF MallocInit
<1>2. DOMAIN chunksize = {} /\ DOMAIN used = {} /\ InUse = {} /\ Listed = {}
  BY <1>1 DEF InUse, Listed
<1>3. /\ chunksize \in [DOMAIN chunksize -> Nat \ {0}] /\ used \in [DOMAIN used -> Nat]
      /\ prev_size \in [DOMAIN chunksize \ prevInUse -> Nat]
  BY <1>1
<1>4. Heap(chunksize, prevInUse, prev_size, av_top, heap_end, InUse, Listed)
  <2>1. HeapType(chunksize, prevInUse, prev_size, heap_end)
    BY <1>1, <1>2, <1>3 DEF HeapType
  <2>2. Tiling(chunksize, av_top, heap_end) /\ Places(chunksize, av_top, InUse, Listed)
    BY <1>1, <1>2 DEF Tiling, Places
  <2>3. UsedNext(chunksize, prevInUse, InUse) /\ FenceNext(chunksize, prevInUse, InUse \union Listed)
    BY <1>2 DEF UsedNext, FenceNext
  <2>4. FreeNext(chunksize, prevInUse, prev_size, av_top, Listed)
    BY <1>2 DEF FreeNext
  <2> QED
    BY <2>1, <2>2, <2>3, <2>4 DEF Heap
<1>5. HeapInv /\ LargeEnough /\ FlagsTell
  BY <1>1, <1>2, <1>3, <1>4 DEF HeapInv, LargeEnough, FlagsTell
<1>6. RunType /\ InvRun
  <2>1. run.pc = "idle" /\ run.ret = "idle"
    BY <1>1 DEF NoCall
  <2>2. RunType
    BY <1>1 DEF NoCall, RunType, Labels
  <2> QED
    BY <2>1, <2>2 DEF InvRun, InMalloc, Sorting, Freeing
<1> QED
  BY <1>5, <1>6 DEF MallocInv

\* No piece of a call breaks the invariant (mm/malloc.c).
LEMMA StepKeeps ==
  ASSUME MallocInv, [MallocNext]_mallocVars
  PROVE  MallocInv'
<1>1. CASE UNCHANGED mallocVars
  <2>1. UNCHANGED <<chunksize, prevInUse, prev_size, av_top, heap_end, fastbins, unsorted, bins,
                    anychunks, fastchunks, used, run>>
    BY <1>1 DEF mallocVars, tags, lists
  <2>2. HeapInv' /\ LargeEnough'
    BY <2>1 DEF MallocInv, HeapInv, LargeEnough, InUse, Listed
  <2>3. FlagsTell' /\ RunType'
    BY <2>1 DEF MallocInv, FlagsTell, RunType, Listed
  <2>4. InvRun'
    BY <2>1 DEF MallocInv, InvRun, InMalloc, Asked, TopSize
  <2> QED
    BY <2>2, <2>3, <2>4 DEF MallocInv
<1>2. CASE \/ \E n \in Requests : kmalloc(n) \/ \E a \in Alignments : kmemalign(a, n)
           \/ \E p \in DOMAIN used : kfree(p)
  BY <1>2, CallStarts
<1>3. CASE \E n \in Requests : \E p \in DOMAIN used : krealloc(p, n)
  BY <1>3, ReallocInv
<1>4. CASE Find \/ Sort \/ Fit \/ UseTop
  BY <1>4, FindInv, SortInv, FitInv, UseTopInv
<1>5. CASE SysMalloc \/ AfterSys \/ SysTrim
  BY <1>5, SysMallocInv, AfterSysInv, SysTrimInv
<1>6. CASE FreeChunk \/ malloc_consolidate
  BY <1>6, FreeChunkInv, ConsolidateInv
<1>7. CASE Moved \/ Lead \/ Trail
  BY <1>7, MovedInv, LeadInv, TrailInv
<1> QED
  BY <1>1, <1>2, <1>3, <1>4, <1>5, <1>6, <1>7 DEF MallocNext

\* What the invariant says of chunks, lists and tags is what is promised
\* (do_check_malloc_state()).
LEMMA InvExact ==
  ASSUME MallocInv
  PROVE  ChunksExact
<1>1. Heap(chunksize, prevInUse, prev_size, av_top, heap_end, InUse, Listed)
  BY DEF MallocInv, HeapInv
<1>2. HeapType(chunksize, prevInUse, prev_size, heap_end) /\ Tiling(chunksize, av_top, heap_end)
  BY <1>1 DEF Heap
<1>3. NoOverlap
  <2>1. ASSUME NEW c \in Chunk, NEW d \in Chunk, c < d PROVE After(c) <= d
    BY <1>2, <2>1 DEF Tiling, End, After, Chunk
  <2>2. ASSUME NEW c \in Chunk PROVE chunksize[c] > 0 /\ c >= 0 /\ After(c) <= heap_end /\ c <= av_top
    <3>1. c \in Nat /\ chunksize[c] \in Nat /\ chunksize[c] > 0 /\ c <= av_top
      BY <1>1, Apart DEF Chunk
    <3>2. av_top # -1 /\ av_top \in Chunk /\ End(chunksize, av_top) <= heap_end
      BY <1>2, <3>1 DEF Tiling, Chunk
    <3>3. av_top \in Nat /\ End(chunksize, av_top) \in Nat /\ End(chunksize, c) \in Nat
          /\ (c < av_top => End(chunksize, c) <= av_top) /\ av_top < End(chunksize, av_top)
      BY <1>1, <3>2, Apart DEF Chunk
    <3>4. heap_end \in Nat
      BY <1>2 DEF HeapType
    <3>5. End(chunksize, c) <= heap_end
      <4>1. CASE c = av_top
        BY <3>2, <4>1
      <4>2. CASE c < av_top
        BY <3>2, <3>3, <3>4, <4>2
      <4> QED
        BY <3>1, <3>3, <4>1, <4>2
    <3> QED
      BY <3>1, <3>5 DEF End, After
  <2>3. av_top # -1 => av_top \in Chunk
    BY <1>2 DEF Tiling, Chunk
  <2> QED
    BY <2>1, <2>2, <2>3 DEF NoOverlap
<1>4. OnePlace
  <2>1. /\ InUse \union Listed = {c \in DOMAIN chunksize : chunksize[c] >= MINSIZE} \ {av_top}
        /\ InUse \intersect Listed = {}
    BY <1>1 DEF Heap, Places
  <2>2. DOMAIN used \intersect fastbins = {} /\ unsorted \intersect bins = {}
    BY DEF MallocInv, HeapInv
  <2>3. {c \in DOMAIN chunksize : chunksize[c] >= MINSIZE} = Chunk \ Fence
    <3>1. ASSUME NEW c \in DOMAIN chunksize PROVE chunksize[c] >= MINSIZE <=> ~(chunksize[c] < MINSIZE)
      BY <1>2 DEF HeapType, MINSIZE
    <3> QED
      BY <3>1 DEF Chunk, Fence
  <2>4. av_top \notin Fence
    BY <1>2 DEF HeapType, Tiling, Fence, Chunk, MINSIZE
  <2> QED
    BY <2>1, <2>2, <2>3, <2>4 DEF OnePlace, InUse
<1>5. TagsAgree
  <2>1. /\ UsedNext(chunksize, prevInUse, InUse)
        /\ FreeNext(chunksize, prevInUse, prev_size, av_top, Listed)
        /\ prevInUse \subseteq Chunk
    BY <1>1 DEF Heap, HeapType, Chunk
  <2>2. \A c \in DOMAIN used \union fastbins : After(c) \in Chunk /\ inuse(c)
    BY <2>1 DEF UsedNext, InUse, End, After, inuse
  <2>3. \A c \in Listed : /\ c \in prevInUse /\ After(c) \in Chunk \ prevInUse
                          /\ prev_size[After(c)] = chunksize[c]
                          /\ After(c) \notin Listed \union {av_top}
    BY <2>1 DEF FreeNext, End, After, Chunk
  <2>4. \A c \in Chunk \ prevInUse : c - prev_size[c] \in Listed /\ After(c - prev_size[c]) = c
    BY <2>1 DEF FreeNext, End, After, Chunk
  <2> QED
    BY <2>2, <2>3, <2>4 DEF TagsAgree
<1>6. Kept
  BY DEF MallocInv, LargeEnough, FlagsTell, Kept
<1> QED
  BY <1>3, <1>4, <1>5, <1>6 DEF ChunksExact

\* What the debugging checks assert holds in every state of every sequence of
\* calls, of requests of any size, and of refusals and failures of kmorecore():
\* chunks do not overlap, each is in one place, the tags tell the truth, and
\* callers have what they asked for (kmalloc(), kfree(), krealloc(),
\* kmemalign(); do_check_malloc_state()).
THEOREM ChunksExactHolds == MallocSpec => []ChunksExact
<1>1. MallocInit => MallocInv
  BY Initially
<1>2. MallocInv /\ [MallocNext]_mallocVars => MallocInv'
  BY StepKeeps
<1>3. MallocInv => ChunksExact
  BY InvExact
<1> QED
  BY <1>1, <1>2, <1>3, PTL DEF MallocSpec
=============================================================================
