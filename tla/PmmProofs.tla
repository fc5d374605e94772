------------------------------ MODULE PmmProofs ------------------------------
(***************************************************************************)
(* No physical frame is given out twice, whatever the number of frames and *)
(* threads, the width of a word and the sizes asked for, in builds whose   *)
(* update of a word cannot be preempted halfway.                           *)
(***************************************************************************)
EXTENDS Pmm, TLAPS

Labels == {"idle", "search", "run", "mark", "set", "clear"}
Inside(t) == pc[t] \in {"search", "run", "mark", "set"}
\* The frames that a call of t has marked or is about to clear: they are
\* nobody's, and their bits are set.
Busy(t) == IF pc[t] \in {"mark", "set"} THEN frame[t]..(frame[t] + off[t]) - 1
           ELSE IF pc[t] = "clear" THEN {frame[t]} ELSE {}
Owned(t) == held[t] \union Busy(t)
\* The frames that a call of t has found free and not marked yet.
Found(t) == IF pc[t] \in {"mark", "set"}
            THEN frame[t] + off[t]..(frame[t] + sz[t]) - 1
            ELSE IF pc[t] = "run" THEN frame[t]..(frame[t] + off[t]) - 1 ELSE {}
\* The frame whose bit t changes at its next step.
Target(t) == IF pc[t] = "clear" THEN frame[t] ELSE frame[t] + off[t]

PmmTypeOK ==
  /\ split \in Split /\ mutex \in BOOLEAN
  /\ marked \subseteq Nat
  /\ pc \in [Thread -> Labels]
  /\ frame \in [Thread -> Nat] /\ off \in [Thread -> Nat] /\ sz \in [Thread -> Nat \ {0}]
  /\ word \in [Thread -> SUBSET Nat] /\ held \in [Thread -> SUBSET Nat]

\* One thread at most is between mutex_acquire() and mutex_release().
InvLock ==
  /\ \A t \in Thread : Inside(t) => mutex
  /\ \A t, u \in Thread : Inside(t) /\ Inside(u) => t = u
\* A split update is not preempted: nobody else is in a call.
InvAlone ==
  split => \A t, u \in Thread : pc[t] # "idle" /\ pc[u] # "idle" => t = u
InvWord ==
  \A t \in Thread :
    /\ pc[t] \in {"set", "clear"} => split /\ word[t] = Word(Target(t)) \intersect marked
    /\ pc[t] \in {"run", "mark"} => off[t] <= sz[t]
    /\ pc[t] = "set" => off[t] < sz[t]
\* The set bits are those of the reserved frames, of the frames that somebody
\* has, and of those that a call is busy with.
InvExact ==
  /\ Reserved \subseteq marked
  /\ \A t \in Thread : Owned(t) \subseteq marked
  /\ \A f \in marked : f \in Reserved \/ \E t \in Thread : f \in Owned(t)
InvDisjoint ==
  \A t \in Thread :
    /\ Owned(t) \intersect Reserved = {}
    /\ held[t] \intersect Busy(t) = {}
    /\ Found(t) \intersect marked = {}
    /\ \A u \in Thread \ {t} : Owned(t) \intersect Owned(u) = {}
PmmInv ==
  PmmTypeOK /\ InvLock /\ InvAlone /\ InvWord /\ InvExact /\ InvDisjoint

\* The builds that the theorem is about: a split update is not preempted.
WholeUpdates == Preempted => TRUE \notin Split

-----------------------------------------------------------------------------
\* pmm_init() leaves the bits of the reserved frames, and nobody in a call.
LEMMA PmmInitInv == PmmInit => PmmInv
<1> SUFFICES ASSUME PmmInit PROVE PmmInv
  OBVIOUS
<1> USE PmmAssumption DEF PmmInit
<1>1. PmmTypeOK
  <2>1. split \in Split /\ mutex \in BOOLEAN
    OBVIOUS
  <2>6. marked \subseteq Nat
    OBVIOUS
  <2>2. pc \in [Thread -> Labels]
    BY DEF Labels
  <2>3. frame \in [Thread -> Nat] /\ off \in [Thread -> Nat]
    OBVIOUS
  <2>5. sz \in [Thread -> Nat \ {0}]
    OBVIOUS
  <2>4. word \in [Thread -> SUBSET Nat] /\ held \in [Thread -> SUBSET Nat]
    OBVIOUS
  <2> QED BY <2>1, <2>2, <2>3, <2>4, <2>5, <2>6 DEF PmmTypeOK
<1>2. InvLock /\ InvAlone /\ InvWord
  BY DEF InvLock, InvAlone, InvWord, Inside
<1>3. \A t \in Thread : held[t] = {} /\ Busy(t) = {} /\ Found(t) = {}
  BY DEF Busy, Found
<1>4. InvExact /\ InvDisjoint
  BY <1>3 DEF InvExact, InvDisjoint, Owned
<1> QED BY <1>1, <1>2, <1>4 DEF PmmInv

\* A frame is in its own word of the bitmap.
LEMMA WordOf ==
  ASSUME NEW f \in Nat
  PROVE  f \in Word(f)
<1>1. WORD \in Nat \ {0}
  BY PmmAssumption
<1>2. /\ f \div WORD \in Nat
      /\ (f \div WORD) * WORD <= f
      /\ f <= (f \div WORD) * WORD + WORD - 1
  BY <1>1, Z3
<1> QED BY <1>1, <1>2 DEF Word

PmmStep(t) ==
  \/ \E n \in Sizes : Acquire(t, n)
  \/ Search(t) \/ Extend(t) \/ Mark(t) \/ Set(t) \/ Clear(t)
  \/ \E f \in held[t] : Free(t, f)

\* The last step of pmm_alloc_free() gives the thread the run that it marked.
LEMMA MarkLast ==
  ASSUME NEW t \in Thread, Mark(t), off[t] = sz[t]
  PROVE  /\ held' = [held EXCEPT ![t] = held[t] \union (frame[t]..(frame[t] + off[t]) - 1)]
         /\ Return(t) /\ UNCHANGED <<marked, word>> /\ mutex' = FALSE /\ pc[t] = "mark"
  BY DEF Mark

\* A step keeps the types of the bitmap and of the locals.
LEMMA PmmStepType ==
  ASSUME PmmTypeOK, NEW t \in Thread, PmmStep(t), UNCHANGED split
  PROVE  PmmTypeOK'
<1> USE DEF Goto, Return
<1> USE DEF PmmStep
<1>0. split' \in Split
  BY DEF PmmTypeOK
<1>t. /\ frame[t] \in Nat /\ off[t] \in Nat /\ sz[t] \in Nat \ {0}
      /\ frame[t] + off[t] \in Nat
      /\ held[t] \subseteq Nat /\ word[t] \subseteq Nat
  BY DEF PmmTypeOK
<1>m. mutex' \in BOOLEAN
  BY DEF PmmTypeOK, Acquire, Search, Extend, Mark, Set, Clear, Free
<1>p. pc' \in [Thread -> Labels]
  BY DEF PmmTypeOK, Labels, Acquire, Search, Extend, Mark, Set, Clear, Free
<1>n. marked' \subseteq Nat
  BY <1>t DEF PmmTypeOK, Acquire, Search, Extend, Mark, Set, Clear, Free
<1>f. frame' \in [Thread -> Nat]
  BY <1>t DEF PmmTypeOK, Acquire, Search, Extend, Mark, Set, Clear, Free
<1>o. off' \in [Thread -> Nat]
  BY <1>t DEF PmmTypeOK, Acquire, Search, Extend, Mark, Set, Clear, Free
<1>s. sz' \in [Thread -> Nat \ {0}]
  BY <1>t, PmmAssumption DEF PmmTypeOK, Acquire, Search, Extend, Mark, Set, Clear, Free
<1>w. word' \in [Thread -> SUBSET Nat]
  <2>1. Word(frame[t] + off[t]) \intersect marked \in SUBSET Nat
    BY DEF PmmTypeOK
  <2>2. \A f : Word(f) \intersect marked \in SUBSET Nat
    BY DEF PmmTypeOK
  <2>3. UNCHANGED word \/ \E w \in SUBSET Nat : word' = [word EXCEPT ![t] = w]
    BY <2>1, <2>2 DEF Acquire, Search, Extend, Mark, Set, Clear, Free
  <2> QED BY <2>3 DEF PmmTypeOK
<1>h. held' \in [Thread -> SUBSET Nat]
  <2>1. held[t] \union (frame[t]..(frame[t] + off[t]) - 1) \in SUBSET Nat
    BY <1>t
  <2>2. \A f : held[t] \ {f} \in SUBSET Nat
    BY <1>t
  <2>3. UNCHANGED held \/ \E h \in SUBSET Nat : held' = [held EXCEPT ![t] = h]
    <3>1. CASE Mark(t) /\ off[t] = sz[t]
      BY <3>1, <2>1, MarkLast
    <3>2. CASE Mark(t) /\ off[t] # sz[t]
      BY <3>2 DEF Mark
    <3>3. ASSUME NEW f \in held[t], Free(t, f)
          PROVE  \E h \in SUBSET Nat : held' = [held EXCEPT ![t] = h]
      BY <3>3, <2>2 DEF Free
    <3> QED BY <3>1, <3>2, <3>3 DEF Acquire, Search, Extend, Set, Clear
  <2> QED BY <2>3 DEF PmmTypeOK
<1> QED BY <1>0, <1>m, <1>p, <1>n, <1>f, <1>o, <1>s, <1>w, <1>h DEF PmmTypeOK

\* A step of one thread changes no local variable of another.
LEMMA OthersSame ==
  ASSUME PmmTypeOK, NEW t \in Thread, PmmStep(t), NEW u \in Thread \ {t}
  PROVE  /\ pc'[u] = pc[u] /\ frame'[u] = frame[u] /\ off'[u] = off[u] /\ sz'[u] = sz[u]
         /\ word'[u] = word[u] /\ held'[u] = held[u]
         /\ Busy(u)' = Busy(u) /\ Found(u)' = Found(u) /\ Owned(u)' = Owned(u)
         /\ Target(u)' = Target(u) /\ Inside(u)' = Inside(u)
<1>1. /\ pc'[u] = pc[u] /\ frame'[u] = frame[u] /\ off'[u] = off[u] /\ sz'[u] = sz[u]
      /\ word'[u] = word[u] /\ held'[u] = held[u]
  <2> USE DEF PmmTypeOK, Goto, Return
  <2>1. ASSUME NEW n \in Sizes, Acquire(t, n) PROVE <1>1!:
    BY <2>1 DEF Acquire
  <2>2. CASE Search(t)
    BY <2>2 DEF Search
  <2>3. CASE Extend(t)
    BY <2>3 DEF Extend
  <2>4. CASE Mark(t)
    BY <2>4 DEF Mark
  <2>5. CASE Set(t)
    BY <2>5 DEF Set
  <2>6. CASE Clear(t)
    BY <2>6 DEF Clear
  <2>7. ASSUME NEW f \in held[t], Free(t, f) PROVE <1>1!:
    BY <2>7 DEF Free
  <2> QED BY <2>1, <2>2, <2>3, <2>4, <2>5, <2>6, <2>7 DEF PmmStep
<1> QED BY <1>1 DEF Busy, Found, Owned, Target, Inside

\* pmm_alloc_mutex keeps two searches apart.
LEMMA PmmStepLock ==
  ASSUME PmmInv, NEW t \in Thread, PmmStep(t)
  PROVE  InvLock'
<1> USE DEF PmmInv, InvLock
<1>0. PmmTypeOK
  OBVIOUS
<1>o. \A u \in Thread \ {t} : Inside(u)' = Inside(u)
  BY <1>0, OthersSame
<1>1. ASSUME NEW n \in Sizes, Acquire(t, n) PROVE InvLock'
  <2>1. \A u \in Thread \ {t} : ~Inside(u)'
    BY <1>1, <1>o DEF Acquire
  <2> QED BY <1>1, <2>1 DEF Acquire
<1>2. ASSUME Inside(t) PROVE InvLock'
  <2>1. \A u \in Thread \ {t} : ~Inside(u)'
    BY <1>2, <1>o
  <2>2. mutex' = TRUE \/ ~Inside(t)'
    <3>1. mutex /\ pc[t] \in {"search", "run", "mark", "set"}
      BY <1>2 DEF Inside
    <3> QED BY <3>1 DEF PmmStep, PmmTypeOK, Inside, Acquire, Start, Search, Extend,
                        Mark, Set, Clear, Free, Return, Goto
  <2> QED BY <2>1, <2>2
<1>3. CASE Clear(t)
  BY <1>3, <1>o DEF Clear, Return, Goto, Inside, PmmTypeOK
<1>4. ASSUME NEW f \in held[t], Free(t, f) PROVE InvLock'
  BY <1>4, <1>o DEF Free, Start, Goto, Inside, PmmTypeOK
<1> QED BY <1>1, <1>2, <1>3, <1>4 DEF PmmStep, Inside, Search, Extend, Mark, Set

\* In a split build nobody starts a call while another is under way.
LEMMA PmmStepAlone ==
  ASSUME PmmInv, NEW t \in Thread, PmmStep(t), UNCHANGED split, WholeUpdates
  PROVE  InvAlone'
<1> SUFFICES ASSUME split PROVE \A u \in Thread \ {t} : pc'[u] = "idle"
  BY DEF InvAlone
<1>0. PmmTypeOK /\ InvAlone
  BY DEF PmmInv
<1>1. \A u \in Thread \ {t} : pc'[u] = pc[u]
  BY <1>0, OthersSame
<1>2. CASE pc[t] # "idle"
  BY <1>0, <1>1, <1>2 DEF InvAlone
<1>3. CASE pc[t] = "idle"
  <2>1. Start(t)
    BY <1>3 DEF PmmStep, Acquire, Search, Extend, Mark, Set, Clear, Free
  <2>2. ~Preempted
    BY <1>0, PmmAssumption DEF PmmTypeOK, WholeUpdates
  <2> QED BY <2>1, <2>2, <1>1 DEF Start
<1> QED BY <1>2, <1>3

\* While a thread is between the load and the store of a word, no other steps.
LEMMA SplitAlone ==
  ASSUME PmmInv, NEW t \in Thread, PmmStep(t), WholeUpdates,
         NEW u \in Thread \ {t}, pc[u] \in {"set", "clear"}
  PROVE  FALSE
<1>1. split /\ PmmTypeOK /\ InvAlone
  BY DEF PmmInv, InvWord
<1>2. pc[t] = "idle"
  BY <1>1 DEF InvAlone
<1>3. Start(t)
  BY <1>2 DEF PmmStep, Acquire, Search, Extend, Mark, Set, Clear, Free
<1>4. ~Preempted
  BY <1>1, PmmAssumption DEF PmmTypeOK, WholeUpdates
<1> QED BY <1>1, <1>3, <1>4 DEF Start

\* The word that a thread is about to store is the one in the bitmap, but for
\* the bit that it changes.
LEMMA PmmStepWord ==
  ASSUME PmmInv, NEW t \in Thread, PmmStep(t), UNCHANGED split, WholeUpdates
  PROVE  InvWord'
<1> DEFINE Inv(u) == /\ pc[u] \in {"set", "clear"} =>
                          split /\ word[u] = Word(Target(u)) \intersect marked
                     /\ pc[u] \in {"run", "mark"} => off[u] <= sz[u]
                     /\ pc[u] = "set" => off[u] < sz[u]
<1>0. PmmTypeOK /\ \A u \in Thread : Inv(u)
  BY DEF PmmInv, InvWord
<1>1. ASSUME NEW u \in Thread \ {t} PROVE Inv(u)'
  BY <1>0, OthersSame, SplitAlone
<1>2. Inv(t)'
  <2>0. /\ off[t] \in Nat /\ sz[t] \in Nat /\ frame[t] \in Nat
        /\ pc[t] \in {"run", "mark"} => off[t] <= sz[t]
        /\ pc[t] = "set" => off[t] < sz[t]
    BY <1>0 DEF PmmTypeOK
  <2> USE <1>0, <2>0 DEF PmmTypeOK, Goto, Return, Target
  <2>1. ASSUME NEW n \in Sizes, Acquire(t, n) PROVE Inv(t)'
    BY <2>1 DEF Acquire
  <2>2. CASE Search(t)
    BY <2>2 DEF Search
  <2>3. CASE Extend(t)
    BY <2>3 DEF Extend
  <2>4. CASE Mark(t)
    <3>1. CASE off[t] = sz[t]
      BY <2>4, <3>1 DEF Mark
    <3>2. CASE off[t] # sz[t] /\ split /\ frame[t] + off[t] \notin marked
      BY <2>4, <3>2 DEF Mark
    <3>3. CASE off[t] # sz[t] /\ ~(split /\ frame[t] + off[t] \notin marked)
      BY <2>4, <3>3 DEF Mark
    <3> QED BY <3>1, <3>2, <3>3
  <2>5. CASE Set(t)
    BY <2>5 DEF Set
  <2>6. CASE Clear(t)
    BY <2>6 DEF Clear
  <2>7. ASSUME NEW f \in held[t], Free(t, f) PROVE Inv(t)'
    <3>1. CASE split
      BY <2>7, <3>1 DEF Free
    <3>2. CASE ~split
      BY <2>7, <3>2 DEF Free, Start
    <3> QED BY <3>1, <3>2
  <2> QED BY <2>1, <2>2, <2>3, <2>4, <2>5, <2>6, <2>7 DEF PmmStep
<1> QED BY <1>1, <1>2 DEF InvWord

\* What a step of t does to the bits and to the frames that t answers for.
Keeps(t) == marked' = marked /\ Owned(t)' = Owned(t)
Takes(t) == \E f \in Found(t) : /\ pc[t] \in {"mark", "set"}
                                /\ marked' = marked \union {f}
                                /\ Owned(t)' = Owned(t) \union {f}
Drops(t) == \E f \in Owned(t) : /\ marked' = marked \ {f}
                                /\ Owned(t)' = Owned(t) \ {f}

\* A step leaves the bits alone, sets the bit of a frame that t found, or
\* clears the bit of one that t answers for.
LEMMA PmmStepEffect ==
  ASSUME PmmInv, NEW t \in Thread, PmmStep(t)
  PROVE  /\ Keeps(t) \/ Takes(t) \/ Drops(t)
         /\ held'[t] \intersect Busy(t)' = {}
         /\ Found(t)' \intersect marked' = {}
<1> DEFINE Effect == /\ Keeps(t) \/ Takes(t) \/ Drops(t)
                     /\ held'[t] \intersect Busy(t)' = {}
                     /\ Found(t)' \intersect marked' = {}
<1>0. /\ PmmTypeOK
      /\ off[t] \in Nat /\ sz[t] \in Nat \ {0} /\ frame[t] \in Nat
      /\ held[t] \intersect Busy(t) = {}
      /\ Found(t) \intersect marked = {}
      /\ Owned(t) \subseteq marked
      /\ pc[t] \in {"run", "mark"} => off[t] <= sz[t]
      /\ pc[t] = "set" => off[t] < sz[t]
      /\ pc[t] \in {"set", "clear"} => word[t] = Word(Target(t)) \intersect marked
  BY DEF PmmInv, InvDisjoint, InvExact, InvWord, PmmTypeOK
<1> USE <1>0 DEF PmmTypeOK, Goto, Return, Owned
<1>1. ASSUME NEW n \in Sizes, Acquire(t, n) PROVE Effect
  BY <1>1 DEF Acquire, Start, Keeps, Busy, Found
<1>2. CASE Search(t)
  BY <1>2 DEF Search, Keeps, Busy, Found
<1>3. CASE Extend(t)
  <2>1. Busy(t) = {} /\ UNCHANGED <<marked, held>>
    BY <1>3 DEF Extend, Busy
  <2>2. CASE off[t] = sz[t]
    <3>1. pc'[t] = "mark" /\ off'[t] = 0 /\ frame'[t] = frame[t] /\ sz'[t] = sz[t]
      BY <1>3, <2>2 DEF Extend
    <3>2. Busy(t)' = {}
      BY <3>1 DEF Busy
    <3>3. Found(t)' = Found(t)
      BY <3>1, <1>3, <2>2 DEF Found, Extend
    <3> QED BY <2>1, <3>2, <3>3 DEF Keeps
  <2>3. CASE off[t] # sz[t] /\ IsMarked(frame[t] + off[t])
    BY <1>3, <2>1, <2>3 DEF Extend, Busy, Found, Keeps
  <2>4. CASE off[t] # sz[t] /\ ~IsMarked(frame[t] + off[t])
    <3>1. pc'[t] = "run" /\ off'[t] = off[t] + 1 /\ frame'[t] = frame[t]
      BY <1>3, <2>4 DEF Extend
    <3>2. Busy(t)' = {}
      BY <3>1 DEF Busy
    <3>3. Found(t)' = Found(t) \union {frame[t] + off[t]}
      BY <3>1, <1>3 DEF Found, Extend
    <3>4. frame[t] + off[t] \notin marked
      BY <2>4 DEF IsMarked
    <3> QED BY <2>1, <3>2, <3>3, <3>4 DEF Keeps
  <2> QED BY <2>2, <2>3, <2>4
<1>4. CASE Mark(t)
  <2>0. Busy(t) = frame[t]..(frame[t] + off[t]) - 1 /\ pc[t] = "mark"
    BY <1>4 DEF Mark, Busy
  <2>1. CASE off[t] = sz[t]
    <3>1. /\ held' = [held EXCEPT ![t] = held[t] \union (frame[t]..(frame[t] + off[t]) - 1)]
          /\ Return(t) /\ UNCHANGED <<marked, word>> /\ pc[t] = "mark"
      BY <1>4, <2>1, MarkLast
    <3>2. Busy(t)' = {} /\ Found(t)' = {}
      BY <3>1 DEF Busy, Found
    <3>3. held'[t] = held[t] \union Busy(t)
      BY <3>1, <2>0
    <3> QED BY <3>1, <3>2, <3>3 DEF Keeps
  <2>2. CASE off[t] # sz[t] /\ split /\ frame[t] + off[t] \notin marked
    <3>1. /\ pc'[t] = "set" /\ off' = off /\ frame' = frame /\ sz' = sz
          /\ UNCHANGED <<marked, held>>
      BY <1>4, <2>2 DEF Mark
    <3>2. Busy(t)' = Busy(t) /\ Found(t)' = Found(t)
      BY <3>1, <2>0 DEF Busy, Found
    <3> QED BY <3>1, <3>2 DEF Keeps
  <2>3. CASE off[t] # sz[t] /\ ~(split /\ frame[t] + off[t] \notin marked)
    <3>1. /\ pc'[t] = "mark" /\ off'[t] = off[t] + 1 /\ frame' = frame /\ sz' = sz
          /\ held' = held /\ marked' = marked \union {frame[t] + off[t]}
      BY <1>4, <2>3, <2>0 DEF Mark
    <3>2. frame[t] + off[t] \in Found(t)
      BY <2>0, <2>3 DEF Found
    <3>3. Busy(t)' = Busy(t) \union {frame[t] + off[t]}
      BY <3>1, <2>0 DEF Busy
    <3>5. pc[t] = "mark"
      BY <2>0
    <3>4. Found(t)' = Found(t) \ {frame[t] + off[t]}
      <4>1. Found(t) = frame[t] + off[t]..(frame[t] + sz[t]) - 1
        BY <3>5 DEF Found
      <4>2. Found(t)' = frame[t] + (off[t] + 1)..(frame[t] + sz[t]) - 1
        BY <3>1 DEF Found
      <4>3. frame[t] + (off[t] + 1) = (frame[t] + off[t]) + 1 /\ frame[t] + off[t] \in Nat
        BY <1>0
      <4> QED BY <4>1, <4>2, <4>3
    <3> QED BY <3>1, <3>2, <3>3, <3>4, <3>5 DEF Takes
  <2> QED BY <2>1, <2>2, <2>3
<1>5. CASE Set(t)
  <2>1. /\ pc[t] = "set" /\ pc'[t] = "mark" /\ off'[t] = off[t] + 1
        /\ frame' = frame /\ sz' = sz /\ held' = held
    BY <1>5 DEF Set
  <2>2. marked' = marked \union {frame[t] + off[t]}
    BY <1>5, <2>1 DEF Set, Target
  <2>3. Busy(t) = frame[t]..(frame[t] + off[t]) - 1
    BY <2>1 DEF Busy
  <2>4. frame[t] + off[t] \in Found(t)
    BY <2>1 DEF Found
  <2>5. Busy(t)' = Busy(t) \union {frame[t] + off[t]}
    BY <2>1, <2>3 DEF Busy
  <2>6. Found(t)' = Found(t) \ {frame[t] + off[t]}
    BY <2>1 DEF Found
  <2> QED BY <2>1, <2>2, <2>4, <2>5, <2>6 DEF Takes
<1>6. CASE Clear(t)
  <2>1. pc[t] = "clear" /\ pc'[t] = "idle" /\ held' = held /\ Busy(t) = {frame[t]}
    BY <1>6 DEF Clear, Busy
  <2>2. marked' = marked \ {frame[t]}
    BY <1>6, <2>1, WordOf DEF Clear, Target
  <2>3. Busy(t)' = {} /\ Found(t)' = {}
    BY <2>1 DEF Busy, Found
  <2> QED BY <2>1, <2>2, <2>3 DEF Drops
<1>7. ASSUME NEW f \in held[t], Free(t, f) PROVE Effect
  <2>0. /\ pc[t] = "idle" /\ held'[t] = held[t] \ {f}
        /\ Busy(t) = {} /\ Found(t)' = {}
    BY <1>7 DEF Free, Start, Busy, Found
  <2>1. CASE split
    <3>1. pc'[t] = "clear" /\ frame'[t] = f /\ marked' = marked
      BY <1>7, <2>1 DEF Free
    <3>2. Busy(t)' = {f}
      BY <3>1 DEF Busy
    <3> QED BY <2>0, <3>1, <3>2 DEF Keeps
  <2>2. CASE ~split
    <3>1. pc'[t] = "idle" /\ marked' = marked \ {f}
      BY <1>7, <2>0, <2>2 DEF Free
    <3>2. Busy(t)' = {}
      BY <3>1 DEF Busy
    <3> QED BY <2>0, <3>1, <3>2 DEF Drops
  <2> QED BY <2>1, <2>2
<1> QED BY <1>1, <1>2, <1>3, <1>4, <1>5, <1>6, <1>7 DEF PmmStep

\* Every set bit belongs to one owner, and no owner's bit is clear.
LEMMA PmmStepOwned ==
  ASSUME PmmInv, NEW t \in Thread, PmmStep(t), PmmTypeOK'
  PROVE  InvExact' /\ InvDisjoint'
<1>0. PmmTypeOK /\ InvExact /\ InvDisjoint /\ InvLock
  BY DEF PmmInv
<1>t. /\ Keeps(t) \/ Takes(t) \/ Drops(t)
      /\ held'[t] \intersect Busy(t)' = {}
      /\ Found(t)' \intersect marked' = {}
  BY PmmStepEffect
<1>o. \A u \in Thread \ {t} : /\ Owned(u)' = Owned(u) /\ Found(u)' = Found(u)
                              /\ held'[u] = held[u] /\ Busy(u)' = Busy(u)
  BY <1>0, OthersSame
<1>f. ASSUME NEW u \in Thread \ {t}, Takes(t) PROVE Found(u) = {}
  <2>1. Inside(t) /\ ~Inside(u)
    BY <1>f, <1>0 DEF Takes, InvLock, Inside
  <2> QED BY <2>1 DEF Found, Inside
<1>1. Reserved \subseteq marked'
  BY <1>0, <1>t DEF InvExact, InvDisjoint, Keeps, Takes, Drops
<1>2. ASSUME NEW u \in Thread PROVE (Owned(u) \subseteq marked)'
  BY <1>0, <1>t, <1>o DEF InvExact, InvDisjoint, Keeps, Takes, Drops
<1>3. ASSUME NEW f \in marked', f \notin Reserved
      PROVE  \E u \in Thread : f \in Owned(u)'
  <2>1. CASE f \in Owned(t)'
    BY <2>1
  <2>2. CASE f \notin Owned(t)'
    <3>1. f \in marked /\ f \notin Owned(t)
      BY <1>3, <1>t, <2>2 DEF Keeps, Takes, Drops
    <3>2. PICK u \in Thread : f \in Owned(u)
      BY <1>0, <1>3, <3>1 DEF InvExact
    <3> QED BY <3>1, <3>2, <1>o
  <2> QED BY <2>1, <2>2
<1>4. \A u \in Thread : Owned(u)' \intersect Reserved = {}
  BY <1>0, <1>t, <1>o DEF InvExact, InvDisjoint, Keeps, Takes, Drops
<1>5. \A u \in Thread : held'[u] \intersect Busy(u)' = {}
  BY <1>0, <1>t, <1>o DEF InvDisjoint
<1>6. \A u \in Thread : Found(u)' \intersect marked' = {}
  BY <1>0, <1>t, <1>o, <1>f DEF InvDisjoint, Keeps, Drops
<1>7. \A u \in Thread \ {t} : Owned(t)' \intersect Owned(u)' = {}
  BY <1>0, <1>t, <1>o DEF InvExact, InvDisjoint, Keeps, Takes, Drops
<1>8. ASSUME NEW u \in Thread, NEW v \in Thread \ {u}
      PROVE  Owned(u)' \intersect Owned(v)' = {}
  BY <1>0, <1>o, <1>7 DEF InvDisjoint
<1>9. InvExact'
  BY <1>1, <1>2, <1>3 DEF InvExact
<1> QED BY <1>4, <1>5, <1>6, <1>8, <1>9 DEF InvDisjoint

\* The invariant is inductive.
LEMMA PmmNextInv ==
  ASSUME WholeUpdates, PmmInv, [PmmNext]_pmmVars
  PROVE  PmmInv'
<1>1. CASE UNCHANGED pmmVars
  BY <1>1 DEF pmmVars, PmmInv, PmmTypeOK, InvLock, InvAlone, InvWord, InvExact, InvDisjoint,
              Inside, Busy, Found, Owned, Target
<1>2. ASSUME NEW t \in Thread, PmmStep(t), UNCHANGED split PROVE PmmInv'
  <2>1. PmmTypeOK
    BY DEF PmmInv
  <2>2. PmmTypeOK'
    BY <1>2, <2>1, PmmStepType
  <2> QED BY <1>2, <2>2, PmmStepLock, PmmStepAlone, PmmStepWord, PmmStepOwned DEF PmmInv
<1> QED BY <1>1, <1>2 DEF PmmNext, PmmStep

\* What the invariant says of calls that are over.
LEMMA PmmInvGives == PmmInv => FramesGivenOnce
<1> SUFFICES ASSUME PmmInv PROVE FrameOnce /\ BitmapExact
  BY DEF FramesGivenOnce
<1>1. FrameOnce
  BY DEF PmmInv, InvDisjoint, Owned, FrameOnce
<1>2. ASSUME Idle PROVE marked = Reserved \union UNION {held[t] : t \in Thread}
  <2>1. \A t \in Thread : Owned(t) = held[t]
    BY <1>2 DEF Idle, Owned, Busy
  <2> QED BY <2>1 DEF PmmInv, InvExact
<1>3. Reserved \subseteq Frames
  BY PmmAssumption DEF Frames
<1>4. BitmapExact
  <2>1. \A U : marked = Reserved \union U
               => marked \intersect Frames = Reserved \union (U \intersect Frames)
    BY <1>3
  <2>2. Idle => marked \intersect Frames = Reserved \union
                               ((UNION {held[t] : t \in Thread}) \intersect Frames)
    BY <1>2, <2>1, Zenon
  <2> QED BY <2>2, Zenon DEF BitmapExact
<1> QED BY <1>1, <1>4

\* pmm_alloc_free() gives each frame to one caller at a time, never one that
\* pmm_init() left marked, and no bit is lost or left set: for any number of
\* frames, threads and sizes, of frees without the lock, and of bits in a word.
THEOREM FramesGivenOnceHolds ==
  ASSUME WholeUpdates
  PROVE  PmmSpec => []FramesGivenOnce
<1>1. PmmInit => PmmInv
  BY PmmInitInv
<1>2. PmmInv /\ [PmmNext]_pmmVars => PmmInv'
  BY PmmNextInv
<1> QED BY <1>1, <1>2, PmmInvGives, PTL DEF PmmSpec
=============================================================================
