-------------------------------- MODULE Malloc --------------------------------
(***************************************************************************)
(* The kernel's allocator, mm/malloc.c, as mm/kheap.c calls it: chunks     *)
(* with their boundary tags, the fast, unsorted and sorted lists, the top  *)
(* chunk, and the memory that kmorecore() gives.  Addresses and sizes are  *)
(* in bytes, from the heap's start; a step is a piece of one call, and a   *)
(* call ends before the next begins.  Lists are sets: which of several     *)
(* equal chunks is taken, and the order of a list's walk, are left open.   *)
(***************************************************************************)
EXTENDS Integers, FiniteSets

CONSTANTS pagesize,
          HEAP_MAX,              \* KHEAP_MAX_SIZE, here a bound
          max_fast,              \* largest size of a fast chunk
          MIN_LARGE_SIZE,
          FASTBIN_CONSOLIDATION_THRESHOLD,
          trim_threshold,
          Requests, Alignments,  \* bytes and alignments that callers ask for; these are
                                 \* powers of 2, at least MINSIZE
          MAX_USED               \* bound on the chunks that callers hold

MINSIZE == 16
ASSUME MallocAssumption ==
  /\ pagesize \in Nat /\ pagesize >= MINSIZE /\ HEAP_MAX \in Nat /\ max_fast \in Nat
  /\ MIN_LARGE_SIZE \in Nat /\ FASTBIN_CONSOLIDATION_THRESHOLD \in Nat
  /\ trim_threshold \in Nat /\ trim_threshold >= MINSIZE
  /\ Requests \subseteq Nat /\ Alignments \subseteq Nat \ 0..MINSIZE - 1

VARIABLES chunksize,         \* of each chunk
          prevInUse,         \* chunks whose PREV_INUSE bit is set
          prev_size,         \* what stands before a chunk whose bit is clear
          av_top,            \* -1: initial_top()
          heap_end,          \* kheap_size
          fastbins, unsorted, bins, last_remainder,
          anychunks, fastchunks,
          used,              \* chunks given out, and the size that was asked for
          run                \* the running call: its position and its locals
lists == <<fastbins, unsorted, bins, last_remainder, anychunks, fastchunks>>
tags == <<chunksize, prevInUse, prev_size>>
mallocVars == <<tags, av_top, heap_end, lists, used, run>>

Chunk == DOMAIN chunksize
After(c) == c + chunksize[c]
inuse(c) == After(c) \in prevInUse
Without(f, S) == [x \in DOMAIN f \ S |-> f[x]]
With(f, x, v) == [y \in DOMAIN f \union {x} |-> IF y = x THEN v ELSE f[y]]
RoundUp(n, a) == ((n + a - 1) \div a) * a
TopSize == IF av_top = -1 THEN 0 ELSE chunksize[av_top]
TopEnd == av_top + TopSize

request2size(req) == IF req + 11 < MINSIZE THEN MINSIZE ELSE ((req + 11) \div 8) * 8
Small(n) == n < MIN_LARGE_SIZE

NoCall == [pc |-> "idle", caller |-> "malloc", nb |-> 0, want |-> 0, align |-> 0,
           oldp |-> -1, p |-> -1, ret |-> "idle", after |-> "idle"]
MallocInit ==
  /\ chunksize = <<>> /\ prevInUse = {} /\ prev_size = <<>> /\ av_top = -1 /\ heap_end = 0
  /\ fastbins = {} /\ unsorted = {} /\ bins = {} /\ last_remainder = -1
  /\ anychunks = FALSE /\ fastchunks = FALSE /\ used = <<>> /\ run = NoCall

At(l) == run.pc = l
Jump(l) == run' = IF l = "idle" THEN NoCall ELSE [run EXCEPT !.pc = l]

-----------------------------------------------------------------------------
(* Shared steps.                                                           *)

\* mALLOc() returns: to the caller of kmalloc(), or inside realloc or memalign.
Got(c) ==
  /\ used' = With(used, c, run.nb)
  /\ run' = CASE run.caller = "malloc" -> NoCall
              [] run.caller = "realloc" -> [run EXCEPT !.pc = "copy", !.p = c]
              [] run.caller = "memalign" -> [run EXCEPT !.pc = "align", !.p = c]
Failed == run' = NoCall /\ UNCHANGED <<tags, av_top, lists, used>>

\* A chunk becomes two, the second after n bytes.
Cut(c, n) ==
  /\ chunksize' = [d \in Chunk \union {c + n} |->
                     IF d = c THEN n ELSE IF d = c + n THEN chunksize[c] - n ELSE chunksize[d]]
  /\ prevInUse' = prevInUse \union {c + n}

\* A listed chunk is taken as it is; it was unlinked from its list.
TakeWhole(victim) ==
  /\ prevInUse' = prevInUse \union {After(victim)}
  /\ prev_size' = Without(prev_size, {After(victim)})
  /\ Got(victim) /\ UNCHANGED <<chunksize, av_top, heap_end>>

\* The first part of a listed chunk is taken; the rest is the unsorted list.
SplitOff(victim) ==
  /\ Cut(victim, run.nb)
  /\ prev_size' = With(prev_size, After(victim), chunksize[victim] - run.nb)
  /\ unsorted' = {victim + run.nb}
  /\ Got(victim) /\ UNCHANGED <<av_top, heap_end>>

TakeTop ==
  /\ Cut(av_top, run.nb) /\ av_top' = av_top + run.nb
  /\ Got(av_top) /\ UNCHANGED <<prev_size, heap_end, lists>>

\* A chunk is freed into its neighbours: a free one before it, then a free one
\* or top after it.
MergeFrom(p) == IF p \in prevInUse THEN p ELSE p - prev_size[p]
\* A slip: the bit of the next chunk itself is read, which tells of p.
MergeToOwnBit(p) == LET next == After(p)
                    IN IF next = av_top \/ next \notin prevInUse THEN After(next) ELSE next
MergeTo(p) == LET next == After(p)
              IN IF next = av_top \/ ~inuse(next) THEN After(next) ELSE next
Merge(p) ==
  LET next == After(p)
      first == MergeFrom(p)
      end == MergeTo(p)
      gone == {c \in {p, next} : first < c /\ c < end}
  IN /\ chunksize' = [c \in Chunk \ gone |-> IF c = first THEN end - first ELSE chunksize[c]]
     /\ bins' = bins \ {first, next}
     /\ IF next = av_top
        THEN /\ av_top' = first
             /\ unsorted' = unsorted \ {first}
             /\ prevInUse' = (prevInUse \ gone) \union {first}
             /\ prev_size' = Without(prev_size, gone)
        ELSE /\ unsorted' = (unsorted \ {next}) \union {first}
             /\ prevInUse' = (prevInUse \ {p, next}) \union {first}
             /\ prev_size' = With(Without(prev_size, gone), end, end - first)
             /\ UNCHANGED av_top
     /\ UNCHANGED <<heap_end, last_remainder>>

-----------------------------------------------------------------------------
(* malloc                                                                  *)

kmalloc(bytes) ==
  /\ At("idle") /\ Cardinality(DOMAIN used) < MAX_USED
  /\ run' = [NoCall EXCEPT !.pc = "search", !.nb = request2size(bytes)]
  /\ UNCHANGED <<tags, av_top, heap_end, lists, used>>

FastFit == {c \in fastbins : chunksize[c] = run.nb /\ run.nb <= max_fast}
BinFit == {c \in bins : chunksize[c] = run.nb /\ Small(run.nb)}
GoOn(l) == Jump(l) /\ UNCHANGED <<tags, av_top, heap_end, lists, used>>
Consolidate(l) ==
  /\ run' = [run EXCEPT !.pc = "consolidate", !.after = l] /\ fastchunks' = FALSE
  /\ UNCHANGED <<tags, av_top, heap_end, fastbins, unsorted, bins, last_remainder, anychunks, used>>

FromFast == \E victim \in FastFit :
  /\ fastbins' = fastbins \ {victim} /\ Got(victim)
  /\ UNCHANGED <<tags, av_top, heap_end, unsorted, bins, last_remainder, anychunks, fastchunks>>
FromBin(victim) ==
  /\ TakeWhole(victim) /\ bins' = bins \ {victim}
  /\ UNCHANGED <<fastbins, unsorted, last_remainder, anychunks, fastchunks>>
Find ==
  /\ At("search")
  /\ \/ ~anychunks /\ GoOn("top")
     \/ anychunks /\ FromFast
     \/ anychunks /\ FastFit = {} /\ \E victim \in BinFit : FromBin(victim)
     \/ /\ anychunks /\ FastFit = {} /\ BinFit = {}
        /\ IF Small(run.nb) \/ ~fastchunks THEN GoOn("unsorted") ELSE Consolidate("unsorted")

\* The only chunk, left over from the last small request, may be split.
LastFits(victim) == /\ Small(run.nb) /\ unsorted = {victim} /\ victim = last_remainder
                    /\ chunksize[victim] > run.nb + MINSIZE
Sort ==
  /\ At("unsorted")
  /\ \/ unsorted = {} /\ GoOn("fit")
     \/ \E victim \in unsorted :
          \/ /\ LastFits(victim) /\ SplitOff(victim) /\ last_remainder' = victim + run.nb
             /\ UNCHANGED <<fastbins, bins, anychunks, fastchunks>>
          \/ /\ ~LastFits(victim) /\ chunksize[victim] = run.nb
             /\ TakeWhole(victim) /\ unsorted' = unsorted \ {victim}
             /\ UNCHANGED <<fastbins, bins, last_remainder, anychunks, fastchunks>>
          \/ /\ ~LastFits(victim) /\ chunksize[victim] # run.nb
             /\ unsorted' = unsorted \ {victim} /\ bins' = bins \union {victim}
             /\ UNCHANGED <<tags, av_top, heap_end, fastbins, last_remainder, anychunks,
                            fastchunks, used, run>>

\* The bins are scanned upwards, and each is sorted: the best fit.
BestFit == LET big == {c \in bins : chunksize[c] >= run.nb}
           IN {c \in big : \A d \in big : chunksize[c] <= chunksize[d]}
Fit ==
  /\ At("fit")
  /\ \/ BestFit = {} /\ GoOn("top")
     \/ \E victim \in BestFit :
          IF chunksize[victim] - run.nb < MINSIZE THEN FromBin(victim)
          ELSE /\ SplitOff(victim) /\ bins' = bins \ {victim}
               /\ last_remainder' = IF Small(run.nb) THEN victim + run.nb ELSE last_remainder
               /\ UNCHANGED <<fastbins, anychunks, fastchunks>>

UseTop ==
  /\ At("top")
  /\ IF TopSize >= run.nb + MINSIZE THEN TakeTop ELSE GoOn("sys")

-----------------------------------------------------------------------------
(* Memory from kmorecore(), and back to it.                                *)

\* Outcomes of kmorecore(): a refusal; an expansion that runs out of frames
\* after the size was raised; memory that starts at the old end.
kmorecore(end, incr) ==
  IF end + incr > HEAP_MAX THEN {[end |-> end, brk |-> -1]}
  ELSE {[end |-> end + incr, brk |-> end]}
       \union (IF incr > 0 THEN {[end |-> end + incr, brk |-> -1]} ELSE {})

Size == RoundUp(run.nb + MINSIZE - TopSize, pagesize)
ExtendTop == /\ chunksize' = [chunksize EXCEPT ![av_top] = TopSize + Size]
             /\ Jump("take") /\ UNCHANGED <<prevInUse, prev_size, av_top, lists, used>>

\* Top starts anew, and what was top ends in two fenceposts.
NewTop(brk, end) ==
  LET n == ((TopSize - 12) \div 8) * 8
      fence == {av_top + n, av_top + n + 4}
  IN /\ av_top' = brk /\ UNCHANGED <<prev_size, lists>>
     /\ IF av_top = -1
        THEN /\ chunksize' = [c \in {brk} |-> end - brk] /\ prevInUse' = {brk}
             /\ Jump("take") /\ UNCHANGED used
        ELSE /\ chunksize' = [c \in Chunk \union fence \union {brk} |->
                                IF c \in fence THEN 4 ELSE IF c = brk THEN end - brk
                                ELSE IF c = av_top THEN n ELSE chunksize[c]]
             /\ prevInUse' = prevInUse \union fence \union {brk}
             /\ IF n >= MINSIZE
                THEN /\ used' = With(used, av_top, 0)
                     /\ run' = [run EXCEPT !.pc = "free", !.p = av_top, !.ret = "take"]
                ELSE Jump("take") /\ UNCHANGED used

Correction(end) == RoundUp(end + TopSize, pagesize) - end
SysMalloc ==
  /\ At("sys")
  /\ IF fastchunks THEN Consolidate("search")
     ELSE \E r \in kmorecore(heap_end, Size) :
            IF r.brk = -1 THEN Failed /\ heap_end' = r.end
            ELSE IF av_top # -1 /\ r.brk = TopEnd THEN ExtendTop /\ heap_end' = r.end
            ELSE \E s \in kmorecore(r.end, Correction(r.end)) :
                   NewTop(r.brk, s.end) /\ heap_end' = s.end

AfterSys ==
  /\ At("take")
  /\ IF TopSize >= run.nb + MINSIZE THEN TakeTop ELSE Failed /\ UNCHANGED heap_end

\* Whole pages are given back, all but one, if nothing lies behind top.  The
\* threshold is off while a former top is freed.
Extra == ((TopSize - MINSIZE + pagesize - 1) \div pagesize - 1) * pagesize
SysTrim ==
  /\ At("trim")
  /\ Jump(run.ret)
  /\ IF run.ret # "take" /\ TopSize >= trim_threshold /\ Extra > 0 /\ heap_end = TopEnd
     THEN /\ chunksize' = [chunksize EXCEPT ![av_top] = TopSize - Extra]
          /\ heap_end' = heap_end - Extra
     ELSE UNCHANGED <<chunksize, heap_end>>
  /\ UNCHANGED <<prevInUse, prev_size, av_top, lists, used>>

-----------------------------------------------------------------------------
(* free                                                                    *)

kfree(p) ==
  /\ At("idle") /\ run' = [NoCall EXCEPT !.pc = "free", !.p = p]
  /\ UNCHANGED <<tags, av_top, heap_end, lists, used>>

FreeChunk ==
  /\ At("free") /\ anychunks' = TRUE /\ used' = Without(used, {run.p})
  /\ IF chunksize[run.p] <= max_fast
     THEN /\ fastbins' = fastbins \union {run.p} /\ fastchunks' = TRUE
          /\ Jump(run.ret) /\ UNCHANGED <<tags, av_top, heap_end, unsorted, bins, last_remainder>>
     ELSE /\ Merge(run.p) /\ UNCHANGED fastbins
          /\ IF MergeTo(run.p) - MergeFrom(run.p) >= FASTBIN_CONSOLIDATION_THRESHOLD
             THEN /\ run' = [run EXCEPT !.pc = "consolidate", !.after = "trim"]
                  /\ fastchunks' = FALSE
             ELSE Jump(run.ret) /\ UNCHANGED fastchunks

malloc_consolidate ==
  /\ At("consolidate")
  /\ \/ fastbins = {} /\ GoOn(run.after)
     \/ \E p \in fastbins : /\ fastbins' = fastbins \ {p} /\ Merge(p)
                            /\ UNCHANGED <<anychunks, fastchunks, used, run>>

-----------------------------------------------------------------------------
(* realloc and memalign                                                    *)

\* A used chunk takes total bytes, with the chunk behind it where that is more
\* than it had; what is left after n of them is freed.
Resize(p, total, n) ==
  LET gone == IF total > chunksize[p] THEN {After(p)} ELSE {}
      rest == IF total - n >= MINSIZE THEN {p + n} ELSE {}
  IN /\ chunksize' = [c \in (Chunk \ gone) \union rest |->
                        IF c = p THEN IF rest = {} THEN total ELSE n
                        ELSE IF c \in rest THEN total - n ELSE chunksize[c]]
     /\ prevInUse' = (prevInUse \ gone) \union rest \union {p + total}
     /\ prev_size' = Without(prev_size, gone \union {p + total})
     /\ unsorted' = unsorted \ gone /\ bins' = bins \ gone
     /\ used' = [c \in (DOMAIN used \ gone) \union rest |->
                   IF c = p THEN n ELSE IF c \in rest THEN 0 ELSE used[c]]
     /\ run' = IF rest = {} THEN NoCall ELSE [NoCall EXCEPT !.pc = "free", !.p = p + n]
     /\ UNCHANGED <<av_top, heap_end, fastbins, last_remainder, anychunks, fastchunks>>

krealloc(p, bytes) ==
  LET nb == request2size(bytes)
      next == After(p)
      both == chunksize[p] + chunksize[next]
  IN /\ At("idle") /\ Cardinality(DOMAIN used) <= MAX_USED
     /\ IF chunksize[p] >= nb THEN Resize(p, chunksize[p], nb)
        ELSE IF next = av_top /\ both >= nb + MINSIZE
        THEN /\ chunksize' = [c \in (Chunk \ {next}) \union {p + nb} |->
                                IF c = p THEN nb ELSE IF c = p + nb THEN both - nb ELSE chunksize[c]]
             /\ prevInUse' = (prevInUse \ {next}) \union {p + nb}
             /\ av_top' = p + nb /\ used' = With(used, p, nb)
             /\ UNCHANGED <<prev_size, heap_end, lists, run>>
        ELSE IF next # av_top /\ ~inuse(next) /\ both >= nb THEN Resize(p, both, nb)
        ELSE /\ run' = [NoCall EXCEPT !.pc = "search", !.caller = "realloc", !.nb = nb, !.oldp = p]
             /\ UNCHANGED <<tags, av_top, heap_end, lists, used>>

\* The new chunk was allocated: it joins the old one if it is next to it, or
\* takes over what the old one holds.
Moved ==
  /\ At("copy")
  /\ IF run.p = After(run.oldp)
     THEN Resize(run.oldp, chunksize[run.oldp] + chunksize[run.p], run.nb)
     ELSE /\ run' = [NoCall EXCEPT !.pc = "free", !.p = run.oldp]
          /\ UNCHANGED <<tags, av_top, heap_end, lists, used>>

kmemalign(alignment, bytes) ==
  /\ At("idle") /\ Cardinality(DOMAIN used) < MAX_USED
  /\ run' = [NoCall EXCEPT !.pc = "search", !.caller = "memalign", !.align = alignment,
               !.want = request2size(bytes),
               !.nb = request2size(request2size(bytes) + alignment + MINSIZE)]
  /\ UNCHANGED <<tags, av_top, heap_end, lists, used>>

\* The first aligned place that leaves room for a chunk before it.
Aligned(p, alignment) ==
  LET brk == RoundUp(p + 8, alignment) - 8
  IN IF brk - p < MINSIZE THEN brk + alignment ELSE brk
Lead ==
  /\ At("align")
  /\ LET newp == Aligned(run.p, run.align) IN
     IF (run.p + 8) % run.align = 0
     THEN /\ run' = [run EXCEPT !.pc = "tail", !.oldp = run.p]
          /\ used' = [used EXCEPT ![run.p] = run.want]
          /\ UNCHANGED <<chunksize, prevInUse>>
     ELSE /\ Cut(run.p, newp - run.p)
          /\ used' = [c \in DOMAIN used \union {newp} |->
                        IF c = newp THEN run.want ELSE IF c = run.p THEN 0 ELSE used[c]]
          /\ run' = [run EXCEPT !.pc = "free", !.oldp = newp, !.ret = "tail"]
  /\ UNCHANGED <<prev_size, av_top, heap_end, lists>>
Trail ==
  /\ At("tail")
  /\ IF chunksize[run.oldp] > run.want + MINSIZE
     THEN /\ Cut(run.oldp, run.want) /\ used' = With(used, run.oldp + run.want, 0)
          /\ run' = [NoCall EXCEPT !.pc = "free", !.p = run.oldp + run.want]
     ELSE run' = NoCall /\ UNCHANGED <<chunksize, prevInUse, used>>
  /\ UNCHANGED <<prev_size, av_top, heap_end, lists>>

MallocNext ==
  \/ \E n \in Requests : \/ kmalloc(n)
                         \/ \E p \in DOMAIN used : krealloc(p, n)
                         \/ \E a \in Alignments : kmemalign(a, n)
  \/ \E p \in DOMAIN used : kfree(p)
  \/ Find \/ Sort \/ Fit \/ UseTop \/ SysMalloc \/ AfterSys
  \/ FreeChunk \/ malloc_consolidate \/ SysTrim
  \/ Moved \/ Lead \/ Trail
MallocSpec == MallocInit /\ [][MallocNext]_mallocVars

-----------------------------------------------------------------------------
Listed == unsorted \union bins
Fence == {c \in Chunk : chunksize[c] < MINSIZE}
\* No chunk reaches into another, and none past the end of the heap.
NoOverlap ==
  /\ \A c \in Chunk, d \in Chunk : c < d => After(c) <= d
  /\ \A c \in Chunk : chunksize[c] > 0 /\ c >= 0 /\ After(c) <= heap_end
  /\ av_top # -1 => av_top \in Chunk /\ \A c \in Chunk : c <= av_top
\* A chunk is the top, given out, in one list, or a fencepost, never two of them.
OnePlace ==
  /\ DOMAIN used \union fastbins \union Listed = Chunk \ (Fence \union {av_top})
  /\ DOMAIN used \intersect fastbins = {} /\ unsorted \intersect bins = {}
  /\ (DOMAIN used \union fastbins) \intersect Listed = {} /\ av_top \notin Fence
\* The boundary tags tell, of the chunk before, whether and from where it is
\* free; no two free chunks touch, and none touches top.
TagsAgree ==
  /\ \A c \in DOMAIN used \union fastbins : After(c) \in Chunk /\ inuse(c)
  /\ \A c \in Listed : /\ c \in prevInUse /\ After(c) \in Chunk \ prevInUse
                       /\ prev_size[After(c)] = chunksize[c]
                       /\ After(c) \notin Listed \union {av_top}
  /\ \A c \in Chunk \ prevInUse : c - prev_size[c] \in Listed /\ After(c - prev_size[c]) = c
\* Callers have at least what they asked for, and a flag that is clear tells
\* that there are no chunks in the lists it stands for.
Kept ==
  /\ \A c \in DOMAIN used : chunksize[c] >= used[c]
  /\ ~anychunks => fastbins \union Listed = {}
  /\ ~fastchunks /\ run.pc # "consolidate" => fastbins = {}
\* What the debugging checks of the allocator assert, in every state of every
\* sequence of calls and failures (do_check_malloc_state() and the others,
\* mm/malloc.c:2548-2853).
ChunksExact == NoOverlap /\ OnePlace /\ TagsAgree /\ Kept
=============================================================================
