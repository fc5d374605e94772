--------------------------------- MODULE Pmm ---------------------------------
(***************************************************************************)
(* The bitmap of physical frames (mm/pmm.c) under preemption.              *)
(*                                                                         *)
(* Threads search and mark under pmm_alloc_mutex, bit by bit; freeing      *)
(* takes no lock.  Setting or clearing a bit changes a word of WORD bits:  *)
(* a build may do so in one instruction, or load the word, change it and   *)
(* store it (split).                                                       *)
(***************************************************************************)
EXTENDS Integers, FiniteSets

CONSTANTS pmm_frames,
          WORD,           \* frames in a word of the bitmap
          Past,           \* a bit read past the end of the bitmap is set
          Reserved,       \* frames that pmm_init() leaves marked
          Thread,
          Sizes,          \* runs of frames that are asked for
          Split,          \* builds: whether the update of a word is split
          Preempted       \* threads are preempted in a split update

ASSUME PmmAssumption ==
  /\ {pmm_frames, WORD} \subseteq Nat \ {0}
  /\ Past \in BOOLEAN /\ Split \subseteq BOOLEAN /\ Preempted \in BOOLEAN
  /\ Reserved \subseteq 0..pmm_frames - 1 /\ Sizes \subseteq Nat \ {0}

VARIABLES marked,         \* set bits
          mutex,
          pc, frame, off, sz, \* of each thread: position and locals
          word,           \* the word it loaded
          held,           \* frames it was given and has not given back
          split           \* the build
pmmVars == <<split, marked, mutex, pc, frame, off, sz, word, held>>

Frames == 0..pmm_frames - 1
Word(f) == LET w == f \div WORD IN w * WORD..w * WORD + WORD - 1
IsMarked(f) == f \in marked \/ (f \notin Frames /\ Past)

PmmInit ==
  /\ split \in Split
  /\ marked = Reserved /\ mutex = FALSE
  /\ pc = [t \in Thread |-> "idle"] /\ frame = [t \in Thread |-> 0]
  /\ off = [t \in Thread |-> 0] /\ sz = [t \in Thread |-> 1]
  /\ word = [t \in Thread |-> {}] /\ held = [t \in Thread |-> {}]

\* Before the scheduler runs, or if all splits were in critical sections.
Start(t) == pc[t] = "idle" /\ (split => Preempted \/ \A u \in Thread : pc[u] = "idle")
Goto(t, l) == pc' = [pc EXCEPT ![t] = l]
Return(t) == /\ Goto(t, "idle") /\ frame' = [frame EXCEPT ![t] = 0]
             /\ off' = [off EXCEPT ![t] = 0] /\ sz' = [sz EXCEPT ![t] = 1]

\* A slip: the mutex is not waited for.
AcquireUnlocked(t, n) ==
  /\ Start(t) /\ mutex' = TRUE
  /\ Goto(t, "search") /\ sz' = [sz EXCEPT ![t] = n]
  /\ UNCHANGED <<marked, frame, off, word, held>>

\* pmm_alloc_free() for n frames.
Acquire(t, n) ==
  /\ Start(t) /\ ~mutex /\ mutex' = TRUE
  /\ Goto(t, "search") /\ sz' = [sz EXCEPT ![t] = n]
  /\ UNCHANGED <<marked, frame, off, word, held>>

\* pmm_first_free(): the first bit of a run, then the others.  After a run
\* that fails at bit off the search goes on two bits further.
Search(t) ==
  /\ pc[t] = "search"
  /\ IF frame[t] \notin Frames
     THEN Return(t) /\ mutex' = FALSE
     ELSE /\ UNCHANGED <<mutex, sz>>
          /\ IF IsMarked(frame[t])
             THEN frame' = [frame EXCEPT ![t] = @ + 1] /\ UNCHANGED <<pc, off>>
             ELSE Goto(t, "run") /\ off' = [off EXCEPT ![t] = 0] /\ UNCHANGED frame
  /\ UNCHANGED <<marked, word, held>>
Extend(t) ==
  /\ pc[t] = "run"
  /\ IF off[t] = sz[t] THEN Goto(t, "mark") /\ off' = [off EXCEPT ![t] = 0] /\ UNCHANGED frame
     ELSE IF IsMarked(frame[t] + off[t])
     THEN /\ Goto(t, "search") /\ UNCHANGED off
          /\ frame' = [frame EXCEPT ![t] = @ + off[t] + 2]
     ELSE off' = [off EXCEPT ![t] = @ + 1] /\ UNCHANGED <<pc, frame>>
  /\ UNCHANGED <<marked, mutex, sz, word, held>>

\* pmm_alloc() of each frame of the run; a bit that is set stays.
Mark(t) ==
  LET f == frame[t] + off[t] IN
  /\ pc[t] = "mark"
  /\ IF off[t] = sz[t]
     THEN /\ Return(t) /\ mutex' = FALSE
          /\ held' = [held EXCEPT ![t] = @ \union (frame[t]..f - 1)]
          /\ UNCHANGED <<marked, word>>
     ELSE /\ UNCHANGED <<mutex, frame, sz, held>>
          /\ IF split /\ f \notin marked
             THEN /\ Goto(t, "set") /\ word' = [word EXCEPT ![t] = Word(f) \intersect marked]
                  /\ UNCHANGED <<marked, off>>
             ELSE /\ marked' = marked \union {f} /\ off' = [off EXCEPT ![t] = @ + 1]
                  /\ UNCHANGED <<pc, word>>
Set(t) ==
  LET f == frame[t] + off[t] IN
  /\ pc[t] = "set" /\ Goto(t, "mark") /\ off' = [off EXCEPT ![t] = @ + 1]
  /\ marked' = (marked \ Word(f)) \union word[t] \union {f}
  /\ word' = [word EXCEPT ![t] = {}]
  /\ UNCHANGED <<mutex, frame, sz, held>>

\* pmm_free() of a frame that the thread holds.
Free(t, f) ==
  /\ Start(t) /\ f \in held[t] /\ held' = [held EXCEPT ![t] = @ \ {f}]
  /\ IF split
     THEN /\ Goto(t, "clear") /\ word' = [word EXCEPT ![t] = Word(f) \intersect marked]
          /\ frame' = [frame EXCEPT ![t] = f] /\ UNCHANGED marked
     ELSE marked' = marked \ {f} /\ UNCHANGED <<pc, word, frame>>
  /\ UNCHANGED <<mutex, off, sz>>

Clear(t) ==
  /\ pc[t] = "clear" /\ Return(t) /\ word' = [word EXCEPT ![t] = {}]
  /\ marked' = (marked \ Word(frame[t])) \union (word[t] \ {frame[t]})
  /\ UNCHANGED <<mutex, held>>
PmmNext == UNCHANGED split /\ \E t \in Thread :
  \/ \E n \in Sizes : Acquire(t, n)
  \/ Search(t) \/ Extend(t) \/ Mark(t) \/ Set(t) \/ Clear(t)
  \/ \E f \in held[t] : Free(t, f)
PmmSpec == PmmInit /\ [][PmmNext]_pmmVars

-----------------------------------------------------------------------------
Idle == \A t \in Thread : pc[t] = "idle"
\* pmm_alloc_free() gives no frame to two threads, or one that pmm_init() left
\* marked, however searching, marking and freeing interleave.
FrameOnce ==
  \A t \in Thread :
    /\ held[t] \intersect Reserved = {}
    /\ \A u \in Thread \ {t} : held[t] \intersect held[u] \intersect Frames = {}
\* When no call is under way, the set bits are those of the frames that are
\* reserved or that somebody has: none is lost, and none was freed under its
\* owner by pmm_alloc() or pmm_free() storing an old word.
BitmapExact ==
  Idle => marked \intersect Frames = Reserved \union
                                      ((UNION {held[t] : t \in Thread}) \intersect Frames)
\* No frame is given to two callers, and the bitmap says which are given
\* (mm/pmm.c pmm_alloc_free(), pmm_free()).
FramesGivenOnce == FrameOnce /\ BitmapExact
=============================================================================
