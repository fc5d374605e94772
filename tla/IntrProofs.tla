------------------------------ MODULE IntrProofs ------------------------------
(***************************************************************************)
(* Every interrupt is acknowledged at the controller that raised it, and   *)
(* every line is masked as the drivers left it: for any number of lines,   *)
(* handlers and nested interrupts, and wherever the switch to the I/O      *)
(* APICs or to another task is.                                            *)
(***************************************************************************)
EXTENDS Intr, WellFoundedInduction, TLAPS

-----------------------------------------------------------------------------
(* A controller and the handlers of its interrupts, oldest first: S are    *)
(* the priorities in service, the smallest of which the controller takes   *)
(* for the one that is acknowledged; C[k] are those that handler k has to  *)
(* acknowledge.                                                            *)
Covered(S, C) == \A s \in S : \E k \in DOMAIN C : s \in C[k]
\* What is in service before an interrupt's priority interrupted it.
Nested(S, C) ==
  \A k \in DOMAIN C : \A s \in C[k] \intersect S : \A h \in S :
    h < s => \E j \in DOMAIN C : j > k /\ h \in C[j]
Sound(S, C) == Covered(S, C) /\ Nested(S, C)

\* Without handlers nothing is in service.
LEMMA SoundEmpty ==
  ASSUME NEW C
  PROVE  Sound({}, C)
  BY DEF Sound, Covered, Nested

\* An interrupt of a higher priority than all in service (PicTakes(), the local
\* APIC's priority classes).
Begins(S, T, N) == T = S \union N /\ N \subseteq Int /\ (\A a, b \in N : a = b) /\ \A a \in N, s \in S : a < s
LEMMA SoundPush ==
  ASSUME NEW S, S \subseteq Int, NEW C, NEW n \in Nat, DOMAIN C = 1 .. n, Sound(S, C),
         NEW D, DOMAIN D = 1 .. n + 1, \A k \in 1 .. n : D[k] = C[k],
         NEW T, NEW N, N = D[n + 1], Begins(S, T, N)
  PROVE  Sound(T, D)
<1> USE DEF Begins
<1>1. Covered(T, D)
  <2> SUFFICES ASSUME NEW s \in T PROVE \E k \in DOMAIN D : s \in D[k]
    BY DEF Covered
  <2>1. CASE s \in S
    <3>1. PICK k \in DOMAIN C : s \in C[k]
      BY <2>1 DEF Sound, Covered
    <3> QED
      BY <3>1
  <2>2. CASE s \in N
    BY <2>2
  <2> QED
    BY <2>1, <2>2
<1>2. Nested(T, D)
  <2> SUFFICES ASSUME NEW k \in DOMAIN D, NEW s \in D[k] \intersect (T),
                      NEW h \in T, h < s
               PROVE  \E j \in DOMAIN D : j > k /\ h \in D[j]
    BY DEF Nested
  <2>0. s \in Int /\ h \in Int
    OBVIOUS
  <2>1. CASE k = n + 1
    <3>1. s \in N
      BY <2>1
    <3>2. h \notin N
      BY <2>0, <3>1
    <3>3. s < h
      BY <3>1, <3>2
    <3> QED
      BY <2>0, <3>3
  <2>2. CASE k \in 1 .. n /\ h \in N
    BY <2>2
  <2>3. CASE k \in 1 .. n /\ h \in S
    <3>1. s \in S
      BY <2>0, <2>3
    <3>2. PICK j \in DOMAIN C : j > k /\ h \in C[j]
      BY <2>3, <3>1 DEF Sound, Nested
    <3> QED
      BY <3>2
  <2> QED
    BY <2>1, <2>2, <2>3
<1> QED
  BY <1>1, <1>2 DEF Sound

\* The newest handler ends and acknowledges what it was called for (EndTop), ...
LEMMA SoundPop ==
  ASSUME NEW S, S \subseteq Int, NEW C, NEW n \in Nat, DOMAIN C = 1 .. n + 1, Sound(S, C),
         NEW D, DOMAIN D = 1 .. n, \A k \in 1 .. n : D[k] = C[k]
  PROVE  Sound(S \ Least(S), D)
<1>1. ASSUME NEW s \in C[n + 1] \intersect S PROVE s \in Least(S)
  <2>1. ASSUME NEW h \in S, h < s PROVE FALSE
    <3>1. PICK j \in DOMAIN C : j > n + 1 /\ h \in C[j]
      BY <2>1 DEF Sound, Nested
    <3> QED
      BY <3>1
  <2>2. ASSUME NEW h \in S PROVE s <= h
    <3>1. s \in Int /\ h \in Int /\ ~(h < s)
      BY <2>1
    <3> QED
      BY <3>1
  <2> QED
    BY <2>2 DEF Least
<1>2. Covered(S \ Least(S), D)
  <2> SUFFICES ASSUME NEW s \in S \ Least(S) PROVE \E k \in DOMAIN D : s \in D[k]
    BY DEF Covered
  <2>1. PICK k \in DOMAIN C : s \in C[k]
    BY DEF Sound, Covered
  <2>2. k # n + 1
    BY <1>1, <2>1
  <2> QED
    BY <2>1, <2>2
<1>3. Nested(S \ Least(S), D)
  <2> SUFFICES ASSUME NEW k \in DOMAIN D, NEW s \in D[k] \intersect (S \ Least(S)),
                      NEW h \in S \ Least(S), h < s
               PROVE  \E j \in DOMAIN D : j > k /\ h \in D[j]
    BY DEF Nested
  <2>1. PICK j \in DOMAIN C : j > k /\ h \in C[j]
    BY DEF Sound, Nested
  <2>2. j # n + 1
    BY <1>1, <2>1
  <2> QED
    BY <2>1, <2>2
<1> QED
  BY <1>2, <1>3 DEF Sound

\* ... or has nothing to acknowledge.
LEMMA SoundDrop ==
  ASSUME NEW S, NEW C, NEW n \in Nat, DOMAIN C = 1 .. n + 1, Sound(S, C), C[n + 1] \intersect S = {},
         NEW D, DOMAIN D = 1 .. n, \A k \in 1 .. n : D[k] = C[k]
  PROVE  Sound(S, D)
<1>1. Covered(S, D)
  <2> SUFFICES ASSUME NEW s \in S PROVE \E k \in DOMAIN D : s \in D[k]
    BY DEF Covered
  <2>1. PICK k \in DOMAIN C : s \in C[k]
    BY DEF Sound, Covered
  <2> QED
    BY <2>1
<1>2. Nested(S, D)
  <2> SUFFICES ASSUME NEW k \in DOMAIN D, NEW s \in D[k] \intersect S, NEW h \in S, h < s
               PROVE  \E j \in DOMAIN D : j > k /\ h \in D[j]
    BY DEF Nested
  <2>1. PICK j \in DOMAIN C : j > k /\ h \in C[j]
    BY DEF Sound, Nested
  <2> QED
    BY <2>1
<1> QED
  BY <1>1, <1>2 DEF Sound

\* Acknowledging more than was asked for leaves no handler out.
LEMMA SoundFewer ==
  ASSUME NEW S, NEW C, Sound(S, C), NEW T \in SUBSET S
  PROVE  Sound(T, C)
  BY DEF Sound, Covered, Nested

-----------------------------------------------------------------------------
(* The stack of handlers, those of the task that was switched away from    *)
(* first, and what each of them acknowledges.                              *)
Frame == [via : {"pic", "apic"}, vector : Nat, irq : Irqs \union {None}, step : {"run", "eoi"}]
Stack == parked \o frames
IrqOfVector(f) == f.vector - PIC_VECT_BASE
\* For an interrupt that was none, the slave alone was not put into service.
Claims(f) == IF f.irq # None THEN Serving(IrqOfVector(f)) ELSE Serving(IrqOfVector(f)) \ {IrqOfVector(f)}
MasterOf(f) == IF f.via = "pic" THEN OnMaster(Claims(f)) ELSE {}
SlaveOf(f) == IF f.via = "pic" THEN OnSlave(Claims(f)) ELSE {}
\* The local APIC's priorities grow with the vector.
LocalOf(f) == IF f.via = "apic" THEN {-f.vector} ELSE {}
Local == {-v : v \in lapic_isr}
MasterClaims == [k \in 1 .. Len(Stack) |-> MasterOf(Stack[k])]
SlaveClaims == [k \in 1 .. Len(Stack) |-> SlaveOf(Stack[k])]
LocalClaims == [k \in 1 .. Len(Stack) |-> LocalOf(Stack[k])]

ServiceType == /\ frames \in Seq(Frame) /\ parked \in Seq(Frame)
               /\ isr \subseteq Irqs /\ lapic_isr \subseteq Nat
InvService ==
  /\ Sound(OnMaster(isr), MasterClaims) /\ Sound(OnSlave(isr), SlaveClaims)
  /\ Sound(Local, LocalClaims)

\* Where apic_init() has written the lines, and where it has masked the PIC.
Redirected == {"entries", "adapt", "mask", "enable", "done"}
Places == {"boot", "pic", "lapic", "info", "cpus", "store", "redirect", "failed", "broken"}
            \union Redirected
InvPlace ==
  /\ at \in Places /\ (apic_enabled <=> at = "done")
  /\ ~Tasking => parked = <<>>
  /\ at = "boot" => frames = <<>>
  /\ at \in {"enable", "done"} => Irqs \ {Cascade} \subseteq imr
  /\ at \notin Redirected => redtbl = <<>>
\* What apic_init() knows of the I/O APICs.
InvInfo ==
  /\ machine \in Machine /\ ioapic_info \in Seq([base : Nat, inputs : Nat])
  /\ at \in {"boot", "pic", "lapic", "info", "cpus"} => ioapic_info = <<>>
  /\ at = "store" => pos = Len(ioapic_info) + 1
  /\ machine.kind # "acpi" /\ 1 \in DOMAIN ioapic_info => ioapic_info[1].base = 0
LineType == [vect : Int, masked : BOOLEAN, mode : {"fixed", "nmi", "extint"}]
LinesOf(tbl) ==
  /\ DOMAIN tbl = DOMAIN ioapic_info
  /\ \A i \in DOMAIN tbl : /\ tbl[i] \in [0..ioapic_info[i].inputs - 1 -> LineType]
                           /\ \A n \in DOMAIN tbl[i] : tbl[i][n].mode = "fixed" => tbl[i][n].vect \in OwnVectors
\* The gates: of the PIC's vectors, and of those of the lines.
Gate(v) == IF v \in DOMAIN idt_handlers THEN idt_handlers[v] ELSE None
InvGates ==
  /\ at # "boot" => \A irq \in Irqs : Gate(PIC_VECT_BASE + irq) = "pic_handler_stub"
  /\ at \in Redirected => LinesOf(redtbl) /\ \A v \in OwnVectors : Gate(v) = "ioapic_handler"
\* The handlers under way came through a path that is open there.
Fits(f) == /\ at \in {"enable", "done"} => f.via = "apic"
           /\ at \notin Redirected => f.via = "pic"
           /\ f.via = "pic" => IrqOfVector(f) \in Irqs
           /\ f.via = "apic" => f.vector \in OwnVectors
InvFrames == \A k \in 1 .. Len(Stack) : Fits(Stack[k])
IntrInv == ServiceType /\ InvService /\ InvPlace /\ InvInfo /\ InvGates /\ InvFrames

-----------------------------------------------------------------------------
(* Steps of the stack.                                                     *)

\* The claims of a frame do not depend on how far its handler is.
LEMMA ClaimsOf ==
  ASSUME NEW f \in Frame, NEW g \in Frame, g.via = f.via, g.vector = f.vector, g.irq = f.irq
  PROVE  MasterOf(g) = MasterOf(f) /\ SlaveOf(g) = SlaveOf(f) /\ LocalOf(g) = LocalOf(f)
  BY DEF MasterOf, SlaveOf, LocalOf, Claims, IrqOfVector

LEMMA FrontOf ==
  ASSUME NEW S, NEW s \in Seq(S), s # <<>>, NEW u, u = SubSeq(s, 1, Len(s) - 1)
  PROVE  u \in Seq(S) /\ Len(u) + 1 = Len(s) /\ \A k \in 1 .. Len(u) : u[k] = s[k]
<1> DEFINE n == Len(s) - 1
<1>1. n \in Nat /\ Len(s) = n + 1 /\ Len(s) \in Nat
  OBVIOUS
<1> HIDE DEF n
<1>2. \A k \in 1 .. n : s[k] \in S
  BY <1>1
<1>3. u = SubSeq(s, 1, n)
  BY DEF n
<1>4. Len(u) = n
  BY <1>1, <1>3
<1>5. \A k \in 1 .. n : u[k] = s[k]
  BY <1>1, <1>3
<1>6. u \in Seq(S)
  BY <1>1, <1>2, <1>3
<1> QED
  BY <1>1, <1>4, <1>5, <1>6

LEMMA TwoPieces ==
  ASSUME NEW S, NEW s \in Seq(S), NEW t \in Seq(S), NEW u, u = s \o t
  PROVE  /\ u \in Seq(S) /\ Len(u) = Len(s) + Len(t) /\ Len(s) \in Nat /\ Len(t) \in Nat
         /\ \A k \in 1 .. Len(u) :
              \/ k \in 1 .. Len(s) /\ u[k] = s[k]
              \/ k - Len(s) \in 1 .. Len(t) /\ u[k] = t[k - Len(s)]
<1>1. Len(s) \in Nat /\ Len(t) \in Nat /\ u \in Seq(S) /\ Len(u) = Len(s) + Len(t)
  OBVIOUS
<1>2. ASSUME NEW k \in 1 .. Len(u), k \in 1 .. Len(s) PROVE u[k] = s[k]
  BY <1>2
<1>3. ASSUME NEW k \in 1 .. Len(u), k \notin 1 .. Len(s)
      PROVE  k - Len(s) \in 1 .. Len(t) /\ u[k] = t[k - Len(s)]
  <2>1. \A j \in 1 .. Len(t) : u[Len(s) + j] = t[j]
    OBVIOUS
  <2>2. PICK j \in 1 .. Len(t) : k = Len(s) + j
    <3>1. k - Len(s) \in 1 .. Len(t) /\ k = Len(s) + (k - Len(s))
      BY <1>1, <1>3
    <3> QED
      BY <3>1
  <2>3. k - Len(s) = j
    BY <1>1, <2>2
  <2> QED
    BY <2>1, <2>2, <2>3
<1> QED
  BY <1>1, <1>2, <1>3

LEMMA OneMore ==
  ASSUME NEW S, NEW s \in Seq(S), NEW x \in S, NEW u, u = Append(s, x)
  PROVE  /\ u \in Seq(S) /\ Len(u) = Len(s) + 1 /\ u[Len(u)] = x
         /\ \A k \in 1 .. Len(s) : u[k] = s[k]
  OBVIOUS

LEMMA StackIs ==
  ASSUME ServiceType
  PROVE  /\ Stack \in Seq(Frame) /\ Len(Stack) = Len(parked) + Len(frames)
         /\ Len(parked) \in Nat /\ Len(frames) \in Nat
         /\ \A k \in 1 .. Len(Stack) :
              \/ k \in 1 .. Len(parked) /\ Stack[k] = parked[k]
              \/ k - Len(parked) \in 1 .. Len(frames) /\ Stack[k] = frames[k - Len(parked)]
         /\ frames # <<>> => Len(Stack) > 0 /\ Top = Stack[Len(Stack)] /\ Top \in Frame
         /\ parked = <<>> => Stack = frames
         /\ frames = <<>> => Stack = parked
<1>1. frames \in Seq(Frame) /\ parked \in Seq(Frame)
  BY DEF ServiceType
<1>2. /\ Stack \in Seq(Frame) /\ Len(Stack) = Len(parked) + Len(frames)
      /\ Len(parked) \in Nat /\ Len(frames) \in Nat
      /\ \A k \in 1 .. Len(Stack) :
           \/ k \in 1 .. Len(parked) /\ Stack[k] = parked[k]
           \/ k - Len(parked) \in 1 .. Len(frames) /\ Stack[k] = frames[k - Len(parked)]
  BY <1>1, TwoPieces DEF Stack
<1>3. ASSUME frames # <<>>
      PROVE  Len(Stack) > 0 /\ Top = Stack[Len(Stack)] /\ Top \in Frame
  <2>1. Len(frames) > 0
    BY <1>1, <1>3
  <2>2. Len(Stack) \in 1 .. Len(Stack) /\ Len(Stack) \notin 1 .. Len(parked)
        /\ Len(Stack) - Len(parked) = Len(frames)
    BY <1>2, <2>1
  <2>3. Stack[Len(Stack)] = frames[Len(frames)]
    BY <1>2, <2>2
  <2>4. frames[Len(frames)] \in Frame
    BY <1>1, <2>1
  <2> QED
    BY <1>2, <2>1, <2>3, <2>4 DEF Top
<1>4. /\ parked = <<>> => Stack = frames
      /\ frames = <<>> => Stack = parked
  BY <1>1 DEF Stack
<1> QED
  BY <1>2, <1>3, <1>4

\* A step may leave the stack's frames where they are, ...
SameFrame(f, g) == f.via = g.via /\ f.vector = g.vector /\ f.irq = g.irq
StackSame == /\ Len(Stack') = Len(Stack)
             /\ \A k \in 1 .. Len(Stack) : SameFrame(Stack'[k], Stack[k])
\* ... take the newest away, ...
StackPop == /\ Len(Stack) = Len(Stack') + 1
            /\ \A k \in 1 .. Len(Stack') : Stack'[k] = Stack[k]
\* ... or put one on it.
StackPush(f) == /\ Len(Stack') = Len(Stack) + 1 /\ Stack'[Len(Stack')] = f
                /\ \A k \in 1 .. Len(Stack) : Stack'[k] = Stack[k]

LEMMA Unmoved ==
  ASSUME ServiceType, UNCHANGED <<frames, parked>>
  PROVE  StackSame
<1>1. Stack' = Stack
  BY DEF Stack
<1> QED
  BY <1>1, StackIs DEF StackSame, SameFrame

\* The frames are those of the task that runs, then those that it parked.
LEMMA StackOf ==
  ASSUME ServiceType, frames' \in Seq(Frame), parked' \in Seq(Frame)
  PROVE  /\ Stack' \in Seq(Frame) /\ Len(Stack') = Len(parked') + Len(frames')
         /\ Len(parked') \in Nat /\ Len(frames') \in Nat
         /\ \A k \in 1 .. Len(Stack') :
              \/ k \in 1 .. Len(parked') /\ Stack'[k] = parked'[k]
              \/ k - Len(parked') \in 1 .. Len(frames') /\ Stack'[k] = frames'[k - Len(parked')]
  BY TwoPieces DEF Stack

\* A handler ends (EndTop).
LEMMA Popping ==
  ASSUME ServiceType, frames # <<>>, frames' = Popped, UNCHANGED parked
  PROVE  StackPop /\ frames' \in Seq(Frame)
<1>1. /\ frames' \in Seq(Frame) /\ Len(frames') + 1 = Len(frames)
      /\ \A k \in 1 .. Len(frames') : frames'[k] = frames[k]
  BY FrontOf DEF ServiceType, Popped
<1>2. parked' \in Seq(Frame)
  BY DEF ServiceType
<1>3. Len(Stack) = Len(Stack') + 1
  BY <1>1, <1>2, StackIs, StackOf
<1>4. ASSUME NEW k \in 1 .. Len(Stack') PROVE Stack'[k] = Stack[k]
  <2>1. k \in 1 .. Len(Stack)
    BY <1>1, <1>2, <1>3, StackIs, StackOf
  <2>2. CASE k \in 1 .. Len(parked)
    <3>1. ~(k - Len(parked) \in 1 .. Len(frames)) /\ ~(k - Len(parked) \in 1 .. Len(frames'))
      BY <2>2, StackIs
    <3> QED
      BY <1>1, <1>2, <2>1, <2>2, <3>1, StackIs, StackOf
  <2>3. CASE k \notin 1 .. Len(parked)
    <3>1. /\ k - Len(parked) \in 1 .. Len(frames') /\ Stack'[k] = frames'[k - Len(parked)]
          /\ Stack[k] = frames[k - Len(parked)]
      BY <1>1, <1>2, <2>1, <2>3, StackIs, StackOf
    <3> QED
      BY <1>1, <3>1
  <2> QED
    BY <2>2, <2>3
<1> QED
  BY <1>1, <1>3, <1>4 DEF StackPop

\* The task of a handler is switched away from (task_switch): the others under
\* way are parked.
LEMMA Parking ==
  ASSUME ServiceType, frames # <<>>, parked = <<>>, frames' = <<>>, parked' = Popped
  PROVE  StackPop /\ parked' \in Seq(Frame)
<1>1. /\ parked' \in Seq(Frame) /\ Len(parked') + 1 = Len(frames)
      /\ \A k \in 1 .. Len(parked') : parked'[k] = frames[k]
  BY FrontOf DEF ServiceType, Popped
<1>2. Stack' = parked' /\ Stack = frames
  BY <1>1, StackIs DEF Stack
<1> QED
  BY <1>1, <1>2 DEF StackPop

LEMMA Extended ==
  ASSUME NEW s \in Seq(Frame), NEW x \in Frame, frames' = Append(s, x)
  PROVE  /\ frames' \in Seq(Frame) /\ Len(frames') = Len(s) + 1 /\ frames'[Len(frames')] = x
         /\ \A k \in 1 .. Len(s) : frames'[k] = s[k]
  BY OneMore

\* A handler is done, but for its acknowledgement (Run).
LEMMA Marking ==
  ASSUME ServiceType, frames # <<>>, frames' = Append(Popped, [Top EXCEPT !.step = "eoi"]),
         UNCHANGED parked
  PROVE  StackSame /\ frames' \in Seq(Frame)
<1> DEFINE f == [Top EXCEPT !.step = "eoi"]
           rest == Popped
<1>1. rest \in Seq(Frame) /\ Len(rest) + 1 = Len(frames) /\ \A k \in 1 .. Len(rest) : rest[k] = frames[k]
  BY FrontOf DEF ServiceType, Popped
<1>2. f \in Frame /\ SameFrame(f, Top)
  BY StackIs DEF Frame, SameFrame
<1> HIDE DEF f, rest
<1>3. /\ frames' \in Seq(Frame) /\ Len(frames') = Len(rest) + 1 /\ frames'[Len(frames')] = f
      /\ \A k \in 1 .. Len(rest) : frames'[k] = rest[k]
  <2>1. PICK s : s = rest
    OBVIOUS
  <2>2. PICK x : x = f
    OBVIOUS
  <2>3. frames' = Append(s, x)
    BY <2>1, <2>2 DEF f, rest
  <2>4. s \in Seq(Frame) /\ x \in Frame
    BY <1>1, <1>2, <2>1, <2>2
  <2>5. /\ frames' \in Seq(Frame) /\ Len(frames') = Len(s) + 1 /\ frames'[Len(frames')] = x
        /\ \A k \in 1 .. Len(s) : frames'[k] = s[k]
    BY <2>3, <2>4, Extended
  <2> QED
    BY <2>1, <2>2, <2>5
<1>4. Len(frames') = Len(frames) /\ Len(rest) \in Nat
  BY <1>1, <1>3
<1>5. ASSUME NEW k \in 1 .. Len(frames) PROVE SameFrame(frames'[k], frames[k])
  <2>1. CASE k = Len(frames)
    BY <1>2, <1>3, <1>4, <2>1 DEF Top
  <2>2. CASE k # Len(frames)
    <3>1. k \in 1 .. Len(rest)
      BY <1>1, <1>4, <2>2
    <3>2. frames'[k] = frames[k]
      BY <1>1, <1>3, <3>1
    <3> QED
      BY <3>2 DEF SameFrame
  <2> QED
    BY <2>1, <2>2
<1>6. parked' \in Seq(Frame)
  BY DEF ServiceType
<1>7. Len(Stack') = Len(Stack)
  BY <1>3, <1>4, <1>6, StackIs, StackOf
<1>8. ASSUME NEW k \in 1 .. Len(Stack) PROVE SameFrame(Stack'[k], Stack[k])
  <2>1. k \in 1 .. Len(Stack')
    BY <1>7
  <2>2. CASE k \in 1 .. Len(parked)
    <3>1. ~(k - Len(parked) \in 1 .. Len(frames)) /\ ~(k - Len(parked) \in 1 .. Len(frames'))
      BY <2>2, StackIs
    <3>2. Stack'[k] = Stack[k]
      BY <1>3, <1>6, <2>1, <2>2, <3>1, StackIs, StackOf
    <3> QED
      BY <3>2 DEF SameFrame
  <2>3. CASE k \notin 1 .. Len(parked)
    <3>1. /\ k - Len(parked) \in 1 .. Len(frames) /\ Stack'[k] = frames'[k - Len(parked)]
          /\ Stack[k] = frames[k - Len(parked)]
      BY <1>3, <1>6, <2>1, <2>3, StackIs, StackOf
    <3> QED
      BY <1>5, <3>1
  <2> QED
    BY <2>2, <2>3
<1> QED
  BY <1>3, <1>7, <1>8 DEF StackSame

\* An interrupt arrives (Pushed).
LEMMA Pushing ==
  ASSUME ServiceType, NEW f \in Frame, frames' = Append(frames, f), UNCHANGED parked
  PROVE  StackPush(f) /\ frames' \in Seq(Frame)
<1>1. /\ frames' \in Seq(Frame) /\ Len(frames') = Len(frames) + 1 /\ frames'[Len(frames')] = f
      /\ \A k \in 1 .. Len(frames) : frames'[k] = frames[k]
  BY Extended DEF ServiceType
<1>2. parked' \in Seq(Frame)
  BY DEF ServiceType
<1>3. Len(Stack') = Len(Stack) + 1 /\ Len(Stack') = Len(parked) + Len(frames')
  <2>1. Len(Stack') = Len(parked') + Len(frames') /\ parked' = parked
    BY <1>1, <1>2, StackOf
  <2>2. Len(Stack) = Len(parked) + Len(frames) /\ Len(parked) \in Nat /\ Len(frames) \in Nat
    BY StackIs
  <2> QED
    BY <1>1, <2>1, <2>2
<1>4. Stack'[Len(Stack')] = f
  <2>1. Len(Stack') \in 1 .. Len(Stack') /\ Len(Stack') \notin 1 .. Len(parked')
        /\ Len(Stack') - Len(parked') = Len(frames')
    BY <1>1, <1>2, <1>3, StackIs
  <2>2. Stack'[Len(Stack')] = frames'[Len(frames')]
    BY <1>1, <1>2, <2>1, StackOf
  <2> QED
    BY <1>1, <2>2
<1>5. ASSUME NEW k \in 1 .. Len(Stack) PROVE Stack'[k] = Stack[k]
  <2>1. k \in 1 .. Len(Stack')
    BY <1>3, StackIs
  <2>2. CASE k \in 1 .. Len(parked)
    <3>1. ~(k - Len(parked) \in 1 .. Len(frames)) /\ ~(k - Len(parked) \in 1 .. Len(frames'))
      BY <2>2, StackIs
    <3> QED
      BY <1>1, <1>2, <2>1, <2>2, <3>1, StackIs, StackOf
  <2>3. CASE k \notin 1 .. Len(parked)
    <3>1. /\ k - Len(parked) \in 1 .. Len(frames) /\ Stack'[k] = frames'[k - Len(parked)]
          /\ Stack[k] = frames[k - Len(parked)]
      BY <1>1, <1>2, <2>1, <2>3, StackIs, StackOf
    <3> QED
      BY <1>1, <3>1
  <2> QED
    BY <2>2, <2>3
<1> QED
  BY <1>1, <1>3, <1>4, <1>5 DEF StackPush

-----------------------------------------------------------------------------
(* What is in service, along with the stack.                               *)

LEMMA Priorities ==
  ASSUME ServiceType
  PROVE  OnMaster(isr) \subseteq Int /\ OnSlave(isr) \subseteq Int /\ Local \subseteq Int
<1>1. Irqs \subseteq Int
  BY IntrAssumption DEF Irqs
<1>2. OnMaster(isr) \subseteq Int /\ OnSlave(isr) \subseteq Int
  BY <1>1 DEF ServiceType, OnMaster, OnSlave
<1>3. ASSUME NEW x \in Local PROVE x \in Int
  BY DEF ServiceType, Local
<1> QED
  BY <1>2, <1>3

LEMMA ServiceSame ==
  ASSUME ServiceType, InvService, frames' \in Seq(Frame), parked' \in Seq(Frame), StackSame,
         isr' \subseteq isr, lapic_isr' \subseteq lapic_isr
  PROVE  ServiceType' /\ InvService'
<1>1. ServiceType'
  BY DEF ServiceType
<1>2. Stack \in Seq(Frame) /\ Stack' \in Seq(Frame)
  BY StackIs, StackOf
<1>3. ASSUME NEW k \in 1 .. Len(Stack)
      PROVE  /\ MasterOf(Stack'[k]) = MasterOf(Stack[k]) /\ SlaveOf(Stack'[k]) = SlaveOf(Stack[k])
             /\ LocalOf(Stack'[k]) = LocalOf(Stack[k])
  <2>1. Stack[k] \in Frame /\ Stack'[k] \in Frame /\ SameFrame(Stack'[k], Stack[k])
    BY <1>2 DEF StackSame
  <2> QED
    BY <2>1, ClaimsOf DEF SameFrame
<1>4. Len(Stack') = Len(Stack)
  BY DEF StackSame
<1>5. MasterClaims' = MasterClaims
  BY <1>3, <1>4 DEF MasterClaims
<1>6. SlaveClaims' = SlaveClaims
  BY <1>3, <1>4 DEF SlaveClaims
<1>7. LocalClaims' = LocalClaims
  BY <1>3, <1>4 DEF LocalClaims
<1>8. OnMaster(isr') \subseteq OnMaster(isr) /\ OnSlave(isr') \subseteq OnSlave(isr) /\ Local' \subseteq Local
  BY DEF OnMaster, OnSlave, Local
<1>9. /\ Sound(OnMaster(isr'), MasterClaims') /\ Sound(OnSlave(isr'), SlaveClaims')
      /\ Sound(Local', LocalClaims')
  BY <1>5, <1>6, <1>7, <1>8, SoundFewer DEF InvService
<1> QED
  BY <1>1, <1>9 DEF InvService

\* What a controller holds for the newest handler goes with it.
Ends(S, T, N) == T = S \ Least(S) \/ (T = S /\ N \intersect S = {})
LEMMA SoundEnds ==
  ASSUME NEW S, S \subseteq Int, NEW C, NEW n \in Nat, DOMAIN C = 1 .. n + 1, Sound(S, C),
         NEW D, DOMAIN D = 1 .. n, \A k \in 1 .. n : D[k] = C[k],
         NEW T, NEW N, N = C[n + 1], Ends(S, T, N)
  PROVE  Sound(T, D)
<1>1. CASE T = S \ Least(S)
  BY <1>1, SoundPop
<1>2. CASE T = S /\ N \intersect S = {}
  BY <1>2, SoundDrop
<1> QED
  BY <1>1, <1>2 DEF Ends

LEMMA ServicePop ==
  ASSUME ServiceType, InvService, frames' \in Seq(Frame), parked' \in Seq(Frame), StackPop,
         isr' \subseteq isr, lapic_isr' \subseteq lapic_isr,
         NEW f, f = Stack[Len(Stack)],
         Ends(OnMaster(isr), OnMaster(isr'), MasterOf(f)), Ends(OnSlave(isr), OnSlave(isr'), SlaveOf(f)),
         Ends(Local, Local', LocalOf(f))
  PROVE  ServiceType' /\ InvService'
<1>1. ServiceType'
  BY DEF ServiceType
<1>2. Stack \in Seq(Frame) /\ Stack' \in Seq(Frame)
  BY StackIs, StackOf
<1>3. PICK n \in Nat : n = Len(Stack')
  BY <1>2
<1>4. Len(Stack) = n + 1 /\ n + 1 \in 1 .. n + 1 /\ \A k \in 1 .. n : k \in 1 .. n + 1 /\ Stack'[k] = Stack[k]
  BY <1>3 DEF StackPop
<1>5. /\ DOMAIN MasterClaims = 1 .. n + 1 /\ DOMAIN MasterClaims' = 1 .. n
      /\ \A k \in 1 .. n : MasterClaims'[k] = MasterClaims[k]
      /\ MasterOf(f) = MasterClaims[n + 1]
  BY <1>3, <1>4 DEF MasterClaims
<1>6. /\ DOMAIN SlaveClaims = 1 .. n + 1 /\ DOMAIN SlaveClaims' = 1 .. n
      /\ \A k \in 1 .. n : SlaveClaims'[k] = SlaveClaims[k]
      /\ SlaveOf(f) = SlaveClaims[n + 1]
  BY <1>3, <1>4 DEF SlaveClaims
<1>7. /\ DOMAIN LocalClaims = 1 .. n + 1 /\ DOMAIN LocalClaims' = 1 .. n
      /\ \A k \in 1 .. n : LocalClaims'[k] = LocalClaims[k]
      /\ LocalOf(f) = LocalClaims[n + 1]
  BY <1>3, <1>4 DEF LocalClaims
<1>8. OnMaster(isr) \subseteq Int /\ OnSlave(isr) \subseteq Int /\ Local \subseteq Int
  BY Priorities
<1>9. Sound(OnMaster(isr'), MasterClaims')
  BY <1>5, <1>8, SoundEnds DEF InvService
<1>10. Sound(OnSlave(isr'), SlaveClaims')
  BY <1>6, <1>8, SoundEnds DEF InvService
<1>11. Sound(Local', LocalClaims')
  BY <1>7, <1>8, SoundEnds DEF InvService
<1> QED
  BY <1>1, <1>9, <1>10, <1>11 DEF InvService

\* An interrupt arrives.
LEMMA ServicePush ==
  ASSUME ServiceType, InvService, NEW f \in Frame, frames' = Append(frames, f), UNCHANGED parked,
         isr' \subseteq Irqs, lapic_isr' \subseteq Nat,
         Begins(OnMaster(isr), OnMaster(isr'), MasterOf(f)), Begins(OnSlave(isr), OnSlave(isr'), SlaveOf(f)),
         Begins(Local, Local', LocalOf(f))
  PROVE  ServiceType' /\ InvService'
<1>1. StackPush(f) /\ frames' \in Seq(Frame) /\ parked' \in Seq(Frame)
  BY Pushing DEF ServiceType
<1>2. ServiceType'
  BY <1>1 DEF ServiceType
<1>3. PICK n \in Nat : n = Len(Stack)
  BY StackIs
<1>4. /\ Len(Stack') = n + 1 /\ n + 1 \in 1 .. n + 1 /\ Stack'[n + 1] = f
      /\ \A k \in 1 .. n : k \in 1 .. n + 1 /\ Stack'[k] = Stack[k]
  BY <1>1, <1>3 DEF StackPush
<1>5. /\ DOMAIN MasterClaims = 1 .. n /\ DOMAIN MasterClaims' = 1 .. n + 1
      /\ \A k \in 1 .. n : MasterClaims'[k] = MasterClaims[k]
      /\ MasterClaims'[n + 1] = MasterOf(f)
  BY <1>3, <1>4 DEF MasterClaims
<1>6. /\ DOMAIN SlaveClaims = 1 .. n /\ DOMAIN SlaveClaims' = 1 .. n + 1
      /\ \A k \in 1 .. n : SlaveClaims'[k] = SlaveClaims[k]
      /\ SlaveClaims'[n + 1] = SlaveOf(f)
  BY <1>3, <1>4 DEF SlaveClaims
<1>7. /\ DOMAIN LocalClaims = 1 .. n /\ DOMAIN LocalClaims' = 1 .. n + 1
      /\ \A k \in 1 .. n : LocalClaims'[k] = LocalClaims[k]
      /\ LocalClaims'[n + 1] = LocalOf(f)
  BY <1>3, <1>4 DEF LocalClaims
<1>8. OnMaster(isr) \subseteq Int /\ OnSlave(isr) \subseteq Int /\ Local \subseteq Int
  BY Priorities
<1>9. Sound(OnMaster(isr'), MasterClaims')
  BY <1>5, <1>8, SoundPush DEF InvService
<1>10. Sound(OnSlave(isr'), SlaveClaims')
  BY <1>6, <1>8, SoundPush DEF InvService
<1>11. Sound(Local', LocalClaims')
  BY <1>7, <1>8, SoundPush DEF InvService
<1> QED
  BY <1>2, <1>9, <1>10, <1>11 DEF InvService

-----------------------------------------------------------------------------
(* The acknowledgements.                                                   *)

LEMMA MasterEoi ==
  ASSUME NEW s
  PROVE  /\ AfterMasterEoi(s) \subseteq s /\ OnSlave(AfterMasterEoi(s)) = OnSlave(s)
         /\ OnMaster(AfterMasterEoi(s)) = OnMaster(s) \ Least(OnMaster(s))
  BY DEF AfterMasterEoi, OnMaster, OnSlave, Least

LEMMA SlaveEoi ==
  ASSUME NEW s
  PROVE  /\ AfterSlaveEoi(s) \subseteq s /\ OnMaster(AfterSlaveEoi(s)) = OnMaster(s)
         /\ OnSlave(AfterSlaveEoi(s)) = OnSlave(s) \ Least(OnSlave(s))
  BY DEF AfterSlaveEoi, OnMaster, OnSlave, Least

LEMMA ApicEoi ==
  ASSUME ServiceType, lapic_isr' = apic_eoi(lapic_isr)
  PROVE  lapic_isr' \subseteq lapic_isr /\ Local' = Local \ Least(Local)
<1>1. lapic_isr' \subseteq lapic_isr
  BY DEF apic_eoi
<1>2. lapic_isr \subseteq Int /\ lapic_isr' = lapic_isr \ Greatest(lapic_isr)
  BY DEF ServiceType, apic_eoi
<1>3. ASSUME NEW v \in lapic_isr', v \in lapic_isr PROVE -v \in Local /\ -v \notin Least(Local)
  <2>1. PICK y \in lapic_isr : ~(v >= y)
    BY <1>2, <1>3 DEF Greatest
  <2>2. -y \in Local /\ ~(-v <= -y)
    BY <1>2, <1>3, <2>1 DEF Local
  <2> QED
    BY <1>3, <2>2 DEF Local, Least
<1>4. ASSUME NEW x \in Local, x \notin Least(Local) PROVE x \in Local'
  <2>1. PICK v \in lapic_isr : x = -v
    BY DEF Local
  <2>2. PICK w \in Local : ~(x <= w)
    BY <1>4 DEF Least
  <2>3. PICK y \in lapic_isr : w = -y
    BY DEF Local
  <2>4. ~(v >= y)
    BY <1>2, <2>1, <2>2, <2>3
  <2>5. v \in lapic_isr'
    BY <1>2, <2>4 DEF Greatest
  <2> QED
    BY <2>1, <2>5 DEF Local
<1>5. ASSUME NEW x \in Local' PROVE x \in Local \ Least(Local)
  <2>1. PICK v \in lapic_isr' : x = -v
    BY DEF Local
  <2> QED
    BY <1>1, <1>3, <2>1
<1> QED
  BY <1>1, <1>4, <1>5

LEMMA PicEoi ==
  ASSUME NEW f \in Frame, f.via = "pic", IrqOfVector(f) \in Irqs,
         isr' = pic_eoi_inline(isr, IrqOfVector(f))
  PROVE  /\ isr' \subseteq isr
         /\ Ends(OnMaster(isr), OnMaster(isr'), MasterOf(f)) /\ Ends(OnSlave(isr), OnSlave(isr'), SlaveOf(f))
<1>1. CASE IrqOfVector(f) >= HALF
  <2>1. isr' = AfterMasterEoi(AfterSlaveEoi(isr))
    BY <1>1 DEF pic_eoi_inline
  <2> QED
    BY <2>1, MasterEoi, SlaveEoi DEF Ends
<1>2. CASE ~(IrqOfVector(f) >= HALF)
  <2>1. isr' = AfterMasterEoi(isr)
    BY <1>2 DEF pic_eoi_inline
  <2>2. SlaveOf(f) = {}
    <3>1. IrqOfVector(f) \in 0..HALF - 1
      BY <1>2, IntrAssumption DEF Irqs
    <3>2. Claims(f) \subseteq {IrqOfVector(f)}
      BY <1>2, <3>1, IntrAssumption DEF Claims, Serving, Irqs
    <3> QED
      BY <3>1, <3>2 DEF SlaveOf, OnSlave
  <2> QED
    BY <2>1, <2>2, MasterEoi DEF Ends
<1> QED
  BY <1>1, <1>2

\* A controller that the handler is none of is left alone.
LEMMA Elsewhere ==
  ASSUME NEW f
  PROVE  /\ f.via = "pic" => LocalOf(f) = {}
         /\ f.via = "apic" => MasterOf(f) = {} /\ SlaveOf(f) = {}
  BY DEF LocalOf, MasterOf, SlaveOf

LEMMA LeftAlone ==
  ASSUME NEW S, NEW N, N \intersect S = {}
  PROVE  Ends(S, S, N)
  BY DEF Ends

-----------------------------------------------------------------------------
(* What handlers leave as it is.                                           *)

LEMMA Around ==
  ASSUME IntrInv, UNCHANGED handlerRest, ~Tasking => parked' = <<>>, at = "boot" => frames' = <<>>
  PROVE  InvPlace' /\ InvInfo' /\ InvGates'
<1> USE DEF handlerRest, initVars, picVars, ioapicVars, lapicVars, opVars
<1>1. InvPlace'
  BY DEF IntrInv, InvPlace, Tasking
<1>2. InvInfo'
  BY DEF IntrInv, InvInfo
<1>3. OwnVectors' = OwnVectors /\ (\A v : Gate(v)' = Gate(v)) /\ (LinesOf(redtbl)' <=> LinesOf(redtbl))
  BY DEF OwnVectors, VectOf, Gate, LinesOf
<1>4. InvGates'
  BY <1>3 DEF IntrInv, InvGates
<1> QED
  BY <1>1, <1>2, <1>4

LEMMA FitsStill ==
  ASSUME NEW f, UNCHANGED <<at, ioapic_info>>
  PROVE  Fits(f)' <=> Fits(f)
  BY DEF Fits, OwnVectors, VectOf, IrqOfVector

LEMMA FramesSame ==
  ASSUME InvFrames, UNCHANGED <<at, ioapic_info>>, StackSame
  PROVE  InvFrames'
<1> SUFFICES ASSUME NEW k \in 1 .. Len(Stack') PROVE Fits(Stack[k])'
  BY DEF InvFrames
<1>1. k \in 1 .. Len(Stack) /\ SameFrame(Stack'[k], Stack[k])
  BY DEF StackSame
<1>2. PICK f, g : f = Stack'[k] /\ g = Stack[k]
  OBVIOUS
<1>3. Fits(g)' /\ SameFrame(f, g)
  BY <1>1, <1>2, FitsStill DEF InvFrames
<1>4. Fits(f)'
  BY <1>3 DEF Fits, SameFrame, IrqOfVector
<1> QED
  BY <1>2, <1>4

LEMMA FramesPop ==
  ASSUME ServiceType, InvFrames, UNCHANGED <<at, ioapic_info>>, StackPop,
         frames' \in Seq(Frame), parked' \in Seq(Frame)
  PROVE  InvFrames'
<1> SUFFICES ASSUME NEW k \in 1 .. Len(Stack') PROVE Fits(Stack[k])'
  BY DEF InvFrames
<1>1. Stack' \in Seq(Frame)
  BY StackOf
<1>2. k \in 1 .. Len(Stack) /\ Stack'[k] = Stack[k]
  BY <1>1 DEF StackPop
<1> QED
  BY <1>2, FitsStill DEF InvFrames

LEMMA FramesPush ==
  ASSUME ServiceType, InvFrames, UNCHANGED <<at, ioapic_info>>, NEW f, Fits(f), StackPush(f)
  PROVE  InvFrames'
<1> SUFFICES ASSUME NEW k \in 1 .. Len(Stack') PROVE Fits(Stack[k])'
  BY DEF InvFrames
<1>1. CASE k \in 1 .. Len(Stack)
  BY <1>1, FitsStill DEF InvFrames, StackPush
<1>2. CASE k \notin 1 .. Len(Stack)
  <2>1. k = Len(Stack')
    BY <1>2, StackIs DEF StackPush
  <2> QED
    BY <2>1, FitsStill DEF StackPush
<1> QED
  BY <1>1, <1>2

-----------------------------------------------------------------------------
(* The handlers.                                                           *)

LEMMA TopIs ==
  ASSUME IntrInv, frames # <<>>
  PROVE  /\ Top \in Frame /\ Top = Stack[Len(Stack)] /\ at # "boot"
         /\ \/ /\ Top.via = "pic" /\ IrqOfVector(Top) \in Irqs /\ at \notin {"enable", "done"}
               /\ idt_stub(Top.vector) = "pic_handler_stub"
            \/ /\ Top.via = "apic" /\ at \in Redirected
               /\ idt_stub(Top.vector) = "ioapic_handler"
<1>1. Top \in Frame /\ Top = Stack[Len(Stack)] /\ Len(Stack) > 0 /\ Len(Stack) \in Nat
  BY StackIs DEF IntrInv
<1>2. at # "boot" /\ at \in Places
  BY DEF IntrInv, InvPlace
<1>3. PICK f \in Frame : f = Top
  BY <1>1
<1>4. Fits(f) /\ f.via \in {"pic", "apic"} /\ f.vector \in Nat
  BY <1>1, <1>3 DEF IntrInv, InvFrames, Frame
<1>5. idt_stub(f.vector) = Gate(f.vector)
  BY DEF idt_stub, Stub, ExcStub, IrqStub, Gate
<1>6. CASE f.via = "pic"
  <2>1. IrqOfVector(f) \in Irqs /\ at \notin {"enable", "done"}
    BY <1>4, <1>6 DEF Fits
  <2>2. PIC_VECT_BASE + IrqOfVector(f) = f.vector
    BY <1>4 DEF IrqOfVector, PIC_VECT_BASE
  <2>3. Gate(PIC_VECT_BASE + IrqOfVector(f)) = "pic_handler_stub"
    BY <1>2, <2>1 DEF IntrInv, InvGates
  <2> QED
    BY <1>1, <1>2, <1>3, <1>5, <1>6, <2>1, <2>2, <2>3
<1>7. CASE f.via = "apic"
  <2>1. f.vector \in OwnVectors /\ at \in Redirected
    BY <1>4, <1>7 DEF Fits
  <2>2. Gate(f.vector) = "ioapic_handler"
    BY <2>1 DEF IntrInv, InvGates
  <2> QED
    BY <1>1, <1>2, <1>3, <1>5, <1>7, <2>1, <2>2
<1> QED
  BY <1>4, <1>6, <1>7

\* The newest handler goes, and with it what its controller held for it.
LEMMA NewestGoes ==
  ASSUME IntrInv, frames # <<>>, UNCHANGED handlerRest, StackPop,
         frames' \in Seq(Frame), parked' \in Seq(Frame), ~Tasking => parked' = <<>>,
         isr' \subseteq isr, lapic_isr' \subseteq lapic_isr,
         Ends(OnMaster(isr), OnMaster(isr'), MasterOf(Top)), Ends(OnSlave(isr), OnSlave(isr'), SlaveOf(Top)),
         Ends(Local, Local', LocalOf(Top))
  PROVE  IntrInv'
<1>1. ServiceType /\ InvService /\ InvFrames /\ at # "boot"
  BY TopIs DEF IntrInv
<1>2. PICK f : f = Top
  OBVIOUS
<1>3. f = Stack[Len(Stack)]
  BY <1>2, TopIs
<1>4. ServiceType' /\ InvService'
  BY <1>1, <1>2, <1>3, ServicePop
<1>5. InvPlace' /\ InvInfo' /\ InvGates'
  BY <1>1, Around
<1>6. InvFrames'
  BY <1>1, FramesPop DEF handlerRest, initVars, ioapicVars
<1> QED
  BY <1>4, <1>5, <1>6 DEF IntrInv

LEMMA EndTopKeeps ==
  ASSUME IntrInv, EndTop
  PROVE  IntrInv'
<1>1. /\ frames # <<>> /\ frames' = Popped /\ UNCHANGED handlerRest /\ UNCHANGED parked
      /\ ServiceType
  BY DEF EndTop, IntrInv
<1>2. StackPop /\ frames' \in Seq(Frame) /\ parked' \in Seq(Frame)
  BY <1>1, Popping DEF ServiceType
<1>3. ~Tasking => parked' = <<>>
  BY <1>1 DEF IntrInv, InvPlace
<1>4. CASE Top.via = "pic"
  <2>1. IrqOfVector(Top) \in Irqs /\ idt_stub(Top.vector) = "pic_handler_stub" /\ Top \in Frame
    BY <1>1, <1>4, TopIs
  <2>2. isr' = pic_eoi_inline(isr, IrqOfVector(Top)) /\ lapic_isr' = lapic_isr
    BY <2>1 DEF EndTop, IrqOfVector
  <2>3. Local' = Local
    BY <2>2 DEF Local
  <2> QED
    BY <1>1, <1>2, <1>3, <1>4, <2>1, <2>2, <2>3, PicEoi, Elsewhere, LeftAlone, NewestGoes
<1>5. CASE Top.via = "apic"
  <2>1. idt_stub(Top.vector) = "ioapic_handler"
    BY <1>1, <1>5, TopIs
  <2>2. isr' = isr /\ lapic_isr' = apic_eoi(lapic_isr)
    BY <2>1 DEF EndTop
  <2>3. lapic_isr' \subseteq lapic_isr /\ Ends(Local, Local', LocalOf(Top))
    BY <1>1, <2>2, ApicEoi DEF Ends
  <2> QED
    BY <1>1, <1>2, <1>3, <1>5, <2>2, <2>3, Elsewhere, LeftAlone, NewestGoes
<1> QED
  BY <1>1, <1>4, <1>5, TopIs

\* What a task switch acknowledges.
LEMMA SwitchEoiEnds ==
  ASSUME IntrInv, Tasking, SwitchEoi
  PROVE  /\ isr' \subseteq isr /\ lapic_isr' \subseteq lapic_isr
         /\ frames # <<>> => /\ Ends(OnMaster(isr), OnMaster(isr'), MasterOf(Top))
                             /\ Ends(OnSlave(isr), OnSlave(isr'), SlaveOf(Top))
                             /\ Ends(Local, Local', LocalOf(Top))
<1>1. ServiceType
  BY DEF IntrInv
<1>2. CASE apic_enabled
  <2>1. isr' = isr /\ lapic_isr' = apic_eoi(lapic_isr) /\ at = "done"
    BY <1>2 DEF SwitchEoi, IntrInv, InvPlace
  <2>2. lapic_isr' \subseteq lapic_isr /\ Ends(Local, Local', LocalOf(Top))
    BY <1>1, <2>1, ApicEoi DEF Ends
  <2>3. frames # <<>> => Top.via = "apic"
    BY <2>1, TopIs
  <2> QED
    BY <2>1, <2>2, <2>3, Elsewhere, LeftAlone
<1>3. CASE ~apic_enabled
  <2>1. isr' = AfterMasterEoi(AfterSlaveEoi(isr)) /\ lapic_isr' = lapic_isr /\ at \in {"failed", "broken"}
    BY <1>3 DEF SwitchEoi, IntrInv, InvPlace, Tasking
  <2>2. /\ isr' \subseteq isr
        /\ Ends(OnMaster(isr), OnMaster(isr'), MasterOf(Top)) /\ Ends(OnSlave(isr), OnSlave(isr'), SlaveOf(Top))
    BY <2>1, MasterEoi, SlaveEoi DEF Ends
  <2>3. frames # <<>> => Top.via = "pic"
    BY <2>1, TopIs DEF Redirected
  <2>4. Local' = Local
    BY <2>1 DEF Local
  <2> QED
    BY <2>1, <2>2, <2>3, <2>4, Elsewhere, LeftAlone
<1> QED
  BY <1>2, <1>3

LEMMA RunKeeps ==
  ASSUME IntrInv, frames # <<>>, UNCHANGED handlerRest, NEW hs, Run(hs)
  PROVE  IntrInv'
<1>1. ServiceType /\ InvService /\ InvFrames /\ at # "boot"
  BY TopIs DEF IntrInv
<1>2. CASE /\ frames' = Append(Popped, [Top EXCEPT !.step = "eoi"])
           /\ UNCHANGED <<isr, lapic_isr, parked>>
  <2>1. StackSame /\ frames' \in Seq(Frame) /\ parked' \in Seq(Frame)
    BY <1>1, <1>2, Marking DEF ServiceType
  <2>2. ServiceType' /\ InvService'
    BY <1>1, <1>2, <2>1, ServiceSame
  <2>3. InvPlace' /\ InvInfo' /\ InvGates'
    BY <1>1, <1>2, Around DEF IntrInv, InvPlace
  <2>4. InvFrames'
    BY <1>1, <2>1, FramesSame DEF handlerRest, initVars, ioapicVars
  <2> QED
    BY <2>2, <2>3, <2>4 DEF IntrInv
<1>3. CASE /\ Tasking /\ parked = <<>> /\ frames' = <<>> /\ parked' = Popped /\ SwitchEoi
  <2>1. StackPop /\ parked' \in Seq(Frame)
    BY <1>1, <1>3, Parking
  <2>2. frames' \in Seq(Frame)
    BY <1>3
  <2> QED
    BY <1>3, <2>1, <2>2, SwitchEoiEnds, NewestGoes
<1> QED
  BY <1>2, <1>3 DEF Run

LEMMA HandleTopKeeps ==
  ASSUME IntrInv, HandleTop
  PROVE  IntrInv'
<1>1. frames # <<>> /\ UNCHANGED handlerRest /\ ServiceType
  BY DEF HandleTop, IntrInv
<1>2. CASE Top.via = "pic"
  <2>1. IrqOfVector(Top) \in Irqs /\ idt_stub(Top.vector) = "pic_handler_stub" /\ Top \in Frame
    BY <1>1, <1>2, TopIs
  <2>2. PICK irq \in Irqs : irq = IrqOfVector(Top)
    BY <2>1
  <2>3. pic_handler_stub(irq)
    BY <2>1, <2>2 DEF HandleTop, IrqOfVector
  <2>4. CASE ~Spurious(irq)
    BY <1>1, <2>3, <2>4, RunKeeps DEF pic_handler_stub
  <2>5. CASE Spurious(irq)
    <3>1. /\ frames' = Popped /\ UNCHANGED <<lapic_isr, parked>>
          /\ isr' = IF irq = 2 * HALF - 1 THEN pic_eoi_inline(isr, Cascade) ELSE isr
      BY <2>3, <2>5 DEF pic_handler_stub
    <3>2. StackPop /\ frames' \in Seq(Frame) /\ parked' \in Seq(Frame)
      BY <1>1, <3>1, Popping DEF ServiceType
    <3>3. ~Tasking => parked' = <<>>
      BY <3>1 DEF IntrInv, InvPlace
    <3>4. lapic_isr' \subseteq lapic_isr /\ Ends(Local, Local', LocalOf(Top))
      BY <1>2, <3>1, Elsewhere, LeftAlone DEF Local
    <3>5. irq \notin isr /\ irq \in {HALF - 1, 2 * HALF - 1}
      BY <2>5 DEF Spurious
    <3>6. SlaveOf(Top) \intersect OnSlave(isr) = {}
      BY <2>2, <3>5, IntrAssumption DEF SlaveOf, OnSlave, Claims, Serving, Cascade
    <3>7. CASE irq = 2 * HALF - 1
      <4>1. isr' = AfterMasterEoi(isr)
        BY <3>1, <3>7, IntrAssumption DEF pic_eoi_inline, Cascade
      <4>2. isr' \subseteq isr /\ Ends(OnMaster(isr), OnMaster(isr'), MasterOf(Top))
            /\ Ends(OnSlave(isr), OnSlave(isr'), SlaveOf(Top))
        BY <3>6, <4>1, MasterEoi, LeftAlone DEF Ends
      <4> QED
        BY <1>1, <3>2, <3>3, <3>4, <4>2, NewestGoes
    <3>8. CASE irq # 2 * HALF - 1
      <4>1. isr' = isr /\ irq = HALF - 1 /\ irq < HALF
        BY <3>1, <3>5, <3>8, IntrAssumption
      <4>2. MasterOf(Top) \intersect OnMaster(isr) = {}
        BY <2>2, <3>5, <4>1 DEF MasterOf, OnMaster, Claims, Serving
      <4>3. isr' \subseteq isr /\ Ends(OnMaster(isr), OnMaster(isr'), MasterOf(Top))
            /\ Ends(OnSlave(isr), OnSlave(isr'), SlaveOf(Top))
        BY <3>6, <4>1, <4>2, LeftAlone
      <4> QED
        BY <1>1, <3>2, <3>3, <3>4, <4>3, NewestGoes
    <3> QED
      BY <3>7, <3>8
  <2> QED
    BY <2>4, <2>5
<1>3. CASE Top.via = "apic"
  <2>1. idt_stub(Top.vector) = "ioapic_handler"
    BY <1>1, <1>3, TopIs
  <2>2. Run(GsiHandlers(Top.vector - IOAPIC_HANDLER_VECT_BASE))
    BY <2>1 DEF HandleTop, ioapic_handler
  <2> QED
    BY <1>1, <2>2, RunKeeps
<1> QED
  BY <1>1, <1>2, <1>3, TopIs

LEMMA YieldTaskKeeps ==
  ASSUME IntrInv, YieldTask
  PROVE  IntrInv'
<1>1. /\ Tasking /\ frames = <<>> /\ frames' = parked /\ parked' = <<>> /\ SwitchEoi
      /\ UNCHANGED handlerRest /\ ServiceType /\ InvService /\ InvFrames
  BY DEF YieldTask, IntrInv
<1>2. frames' \in Seq(Frame) /\ parked' \in Seq(Frame)
  BY <1>1 DEF ServiceType
<1>3. Stack' = Stack /\ Stack \in Seq(Frame)
  BY <1>1, <1>2, StackIs DEF Stack
<1>4. StackSame
  BY <1>3 DEF StackSame, SameFrame
<1>5. isr' \subseteq isr /\ lapic_isr' \subseteq lapic_isr
  BY <1>1, SwitchEoiEnds
<1>6. ServiceType' /\ InvService'
  BY <1>1, <1>2, <1>4, <1>5, ServiceSame
<1>7. InvPlace' /\ InvInfo' /\ InvGates'
  BY <1>1, Around DEF Tasking
<1>8. InvFrames'
  BY <1>1, <1>4, FramesSame DEF handlerRest, initVars, ioapicVars
<1> QED
  BY <1>6, <1>7, <1>8 DEF IntrInv

-----------------------------------------------------------------------------
(* The lines of the I/O APICs.                                             *)

LEMMA FirstIn ==
  ASSUME NEW S, S \subseteq Nat, S # {}
  PROVE  FirstOf(S) \in S
<1> DEFINE R == {ss \in Nat \X Nat : ss[1] < ss[2]}
<1>1. IsWellFoundedOn(R, Nat)
  BY NatLessThanWellFounded DEF OpToRel
<1>2. \A x, y \in Nat : <<y, x>> \in R <=> y < x
  OBVIOUS
<1> HIDE DEF R
<1>3. PICK i \in S : \A j \in S : ~(<<j, i>> \in R)
  BY <1>1, WFMin
<1>4. ASSUME NEW j \in S PROVE i <= j
  <2>1. i \in Nat /\ j \in Nat
    OBVIOUS
  <2>2. ~(<<j, i>> \in R)
    BY <1>3
  <2>3. ~(j < i)
    BY <1>2, <2>1, <2>2, Zenon
  <2> QED
    BY <2>1, <2>3
<1>5. \E x \in S : \A j \in S : x <= j
  BY <1>4
<1> QED
  BY <1>5 DEF FirstOf

\* The I/O APIC that is found for a GSI is one of those there are.
LEMMA ReachedIs ==
  ASSUME InvInfo, NEW gsi, Reached(gsi) # 0
  PROVE  Reached(gsi) \in DOMAIN ioapic_info
<1> DEFINE S == {i \in DOMAIN ioapic_info : Reaches(i, gsi)}
<1>1. S \subseteq Nat
  BY DEF InvInfo
<1>2. S # {}
  BY DEF Reached, FirstOf
<1>3. FirstOf(S) \in S
  BY <1>1, <1>2, FirstIn
<1> QED
  BY <1>3 DEF Reached

LEMMA InfoAt ==
  ASSUME InvInfo, NEW i \in DOMAIN ioapic_info
  PROVE  ioapic_info[i].base \in Nat /\ ioapic_info[i].inputs \in Nat
<1>1. ioapic_info \in Seq([base : Nat, inputs : Nat])
  BY DEF InvInfo
<1>2. PICK S : S = [base : Nat, inputs : Nat]
  OBVIOUS
<1>3. ioapic_info[i] \in S
  <2>1. PICK t : t = ioapic_info
    OBVIOUS
  <2>2. t \in Seq(S) /\ i \in DOMAIN t
    BY <1>1, <1>2, <2>1
  <2>3. t[i] \in S
    BY <2>2
  <2> QED
    BY <2>1, <2>3
<1> QED
  BY <1>2, <1>3

LEMMA OwnerIs ==
  ASSUME InvInfo, NEW gsi, Owner(gsi) # 0, NEW i, i = Owner(gsi)
  PROVE  /\ i \in DOMAIN ioapic_info /\ gsi \in Int
         /\ gsi - ioapic_info[i].base \in 0..ioapic_info[i].inputs - 1
<1> DEFINE S == {j \in DOMAIN ioapic_info : Owns(j, gsi)}
<1>1. S \subseteq Nat
  BY DEF InvInfo
<1>2. S # {}
  BY DEF Owner, FirstOf
<1>3. i \in S
  BY <1>1, <1>2, FirstIn DEF Owner
<1>4. i \in DOMAIN ioapic_info /\ Owns(i, gsi)
  BY <1>3
<1>5. ioapic_info[i].base \in Nat /\ ioapic_info[i].inputs \in Nat
  BY <1>4, InfoAt
<1>6. PICK b \in Nat, m \in Nat : b = ioapic_info[i].base /\ m = ioapic_info[i].inputs
  BY <1>5
<1>7. gsi \in b..b + m - 1
  BY <1>4, <1>6 DEF Owns
<1>8. gsi \in Int /\ gsi - b \in 0..m - 1
  BY <1>7
<1> QED
  BY <1>4, <1>6, <1>8

LEMMA VectorsOf ==
  ASSUME InvInfo
  PROVE  /\ \A v \in OwnVectors : v \in Nat /\ v >= IOAPIC_HANDLER_VECT_BASE
         /\ \A i \in DOMAIN ioapic_info : \A n \in 0..ioapic_info[i].inputs - 1 : VectOf(i, n) \in OwnVectors
<1>1. \A i \in DOMAIN ioapic_info : ioapic_info[i].base \in Nat /\ ioapic_info[i].inputs \in Nat
  BY InfoAt
<1>2. ASSUME NEW v \in OwnVectors PROVE v \in Nat /\ v >= IOAPIC_HANDLER_VECT_BASE
  <2>0. PICK i \in DOMAIN ioapic_info : \E n \in 0..ioapic_info[i].inputs - 1 : v = VectOf(i, n)
    BY DEF OwnVectors
  <2>1. PICK n \in 0..ioapic_info[i].inputs - 1 : v = VectOf(i, n)
    BY <2>0
  <2>2. PICK b \in Nat : b = ioapic_info[i].base
    BY <1>1
  <2>3. n \in Nat
    BY <1>1
  <2>4. v = IOAPIC_HANDLER_VECT_BASE + b + n
    BY <2>1, <2>2 DEF VectOf
  <2> QED
    BY <2>2, <2>3, <2>4 DEF IOAPIC_HANDLER_VECT_BASE
<1> QED
  BY <1>2 DEF OwnVectors

\* The line of a GSI that is open sends a vector of its own.
LEMMA OpenLine ==
  ASSUME IntrInv, NEW gsi, ~LineOf(gsi).masked, LineOf(gsi).mode = "fixed"
  PROVE  at \in Redirected /\ LineOf(gsi).vect \in OwnVectors
<1> DEFINE i == Owner(gsi)
           n == gsi - ioapic_info[i].base
<1>1. i \in DOMAIN redtbl /\ LineOf(gsi) = redtbl[i][n]
  BY DEF LineOf, Line
<1>2. at \in Redirected
  <2>1. CASE at \notin Redirected
    <3>1. redtbl = <<>>
      BY <2>1 DEF IntrInv, InvPlace
    <3> QED
      BY <1>1, <3>1
  <2> QED
    BY <2>1
<1>3. LinesOf(redtbl) /\ InvInfo
  BY <1>2 DEF IntrInv, InvGates
<1>4. i # 0
  BY <1>1, <1>3 DEF LinesOf, InvInfo
<1>5. i \in DOMAIN ioapic_info /\ n \in 0..ioapic_info[i].inputs - 1
  BY <1>3, <1>4, OwnerIs
<1> HIDE DEF n
<1>6. redtbl[i] \in [0..ioapic_info[i].inputs - 1 -> LineType]
  BY <1>1, <1>3 DEF LinesOf
<1>7. n \in DOMAIN redtbl[i]
  BY <1>5, <1>6
<1>8. redtbl[i][n].vect \in OwnVectors
  BY <1>1, <1>3, <1>7 DEF LinesOf
<1> QED
  BY <1>1, <1>2, <1>8

-----------------------------------------------------------------------------
(* An interrupt arrives.                                                   *)

LEMMA PicTakesIs ==
  ASSUME IntrInv, NEW irq \in Irqs, PicTakes(irq), PicPath, NEW f \in Frame,
         f.via = "pic", IrqOfVector(f) \in Irqs, frames' = Append(frames, f),
         UNCHANGED <<interruptRest, lapic_isr>>,
         isr' = isr \union Claims(f), Claims(f) \subseteq Serving(irq)
  PROVE  IntrInv'
<1> USE DEF interruptRest, initVars, picVars, ioapicVars, lapicVars, opVars
<1>1. ServiceType /\ InvService /\ InvFrames
  BY DEF IntrInv
<1>2. HALF \in Nat /\ 2 < HALF /\ Cascade \in Irqs /\ Serving(irq) \subseteq Irqs
  BY IntrAssumption DEF Cascade, Irqs, Serving
<1>3. OnMaster(Serving(irq)) \subseteq Int /\ OnSlave(Serving(irq)) \subseteq Int
  BY <1>2 DEF OnMaster, OnSlave, Irqs
<1>4. /\ \A a, b \in OnMaster(Serving(irq)) : a = b
      /\ \A a, b \in OnSlave(Serving(irq)) : a = b
  <2>1. CASE irq < HALF
    BY <2>1 DEF Serving, OnMaster, OnSlave
  <2>2. CASE ~(irq < HALF)
    <3>1. irq \notin 0..HALF - 1 /\ Cascade \in 0..HALF - 1
      BY <1>2, <2>2 DEF Irqs, Cascade
    <3> QED
      BY <2>2, <3>1 DEF Serving, OnMaster, OnSlave
  <2> QED
    BY <2>1, <2>2
<1>5. /\ \A m \in OnMaster(Serving(irq)), s \in OnMaster(isr) : m < s
      /\ \A m \in OnSlave(Serving(irq)), s \in OnSlave(isr) : m < s
  BY DEF PicTakes
<1>6. MasterOf(f) = OnMaster(Claims(f)) /\ SlaveOf(f) = OnSlave(Claims(f)) /\ LocalOf(f) = {}
  BY DEF MasterOf, SlaveOf, LocalOf
<1>7. MasterOf(f) \subseteq OnMaster(Serving(irq)) /\ SlaveOf(f) \subseteq OnSlave(Serving(irq))
  BY <1>6 DEF OnMaster, OnSlave
<1>8. /\ OnMaster(isr') = OnMaster(isr) \union MasterOf(f)
      /\ OnSlave(isr') = OnSlave(isr) \union SlaveOf(f)
      /\ Local' = Local \union LocalOf(f)
  BY <1>6 DEF OnMaster, OnSlave, Local
<1>9. Begins(OnMaster(isr), OnMaster(isr'), MasterOf(f))
  BY <1>3, <1>4, <1>5, <1>7, <1>8 DEF Begins
<1>10. Begins(OnSlave(isr), OnSlave(isr'), SlaveOf(f))
  BY <1>3, <1>4, <1>5, <1>7, <1>8 DEF Begins
<1>11. Begins(Local, Local', LocalOf(f))
  BY <1>6, <1>8 DEF Begins
<1>12. isr' \subseteq Irqs /\ lapic_isr' \subseteq Nat
  BY <1>1, <1>2 DEF ServiceType
<1>13. ServiceType' /\ InvService'
  BY <1>1, <1>9, <1>10, <1>11, <1>12, ServicePush
<1>14. UNCHANGED handlerRest /\ at # "boot" /\ parked' = parked
  BY DEF handlerRest, PicPath
<1>15. InvPlace' /\ InvInfo' /\ InvGates'
  BY <1>14, Around DEF IntrInv, InvPlace
<1>16. at \notin {"enable", "done"}
  BY DEF PicTakes, IntrInv, InvPlace
<1>17. Fits(f)
  BY <1>16 DEF Fits
<1>18. StackPush(f)
  BY <1>1, <1>14, Pushing
<1>19. InvFrames'
  BY <1>1, <1>17, <1>18, FramesPush
<1> QED
  BY <1>13, <1>15, <1>19 DEF IntrInv

LEMMA RaisePicKeeps ==
  ASSUME IntrInv, NEW irq \in Irqs, RaisePic(irq)
  PROVE  IntrInv'
<1> DEFINE f == [via |-> "pic", vector |-> PIC_VECT_BASE + irq, irq |-> irq, step |-> "run"]
<1>1. irq \in Nat /\ irq # None
  BY IntrAssumption DEF Irqs
<1>2. f \in Frame /\ f.via = "pic" /\ f.irq = irq /\ IrqOfVector(f) = irq
  BY <1>1 DEF Frame, IrqOfVector, PIC_VECT_BASE
<1>3. frames' = Append(frames, f)
  BY DEF RaisePic, Pushed
<1> HIDE DEF f
<1>4. Claims(f) = Serving(irq)
  BY <1>1, <1>2 DEF Claims
<1> QED
  BY <1>2, <1>3, <1>4, PicTakesIs DEF RaisePic

LEMMA RaiseSpuriousKeeps ==
  ASSUME IntrInv, NEW irq \in Irqs, RaiseSpurious(irq)
  PROVE  IntrInv'
<1> DEFINE l == (IF irq < HALF THEN HALF ELSE 2 * HALF) - 1
           f == [via |-> "pic", vector |-> PIC_VECT_BASE + l, irq |-> None, step |-> "run"]
<1>1. l \in Irqs /\ l \in Nat /\ (l < HALF <=> irq < HALF)
  BY IntrAssumption DEF Irqs, Cascade
<1>2. f.vector = PIC_VECT_BASE + (IF irq < HALF THEN HALF ELSE 2 * HALF) - 1
  BY <1>1, IntrAssumption DEF PIC_VECT_BASE
<1>3. frames' = Append(frames, f)
  BY <1>2 DEF RaiseSpurious, Pushed
<1>4. PICK k : k = l
  OBVIOUS
<1>5. f \in Frame /\ f.via = "pic" /\ f.irq = None /\ IrqOfVector(f) = k
  BY <1>1, <1>4 DEF Frame, IrqOfVector, PIC_VECT_BASE
<1>6. k \in Irqs /\ (k < HALF <=> irq < HALF)
  BY <1>1, <1>4
<1> HIDE DEF f, l
<1>7. Claims(f) = Serving(k) \ {k}
  BY <1>5 DEF Claims
<1>8. Claims(f) = Serving(irq) \ {irq}
  <2>1. irq # Cascade
    BY DEF RaiseSpurious, PicTakes
  <2>2. CASE irq < HALF
    BY <1>6, <1>7, <2>2 DEF Serving
  <2>3. CASE ~(irq < HALF)
    <3>1. k # Cascade
      BY <1>6, <2>3, IntrAssumption DEF Cascade
    <3> QED
      BY <1>6, <1>7, <2>1, <2>3, <3>1 DEF Serving
  <2> QED
    BY <2>2, <2>3
<1> QED
  BY <1>3, <1>5, <1>6, <1>8, PicTakesIs DEF RaiseSpurious

LEMMA RaiseApicKeeps ==
  ASSUME IntrInv, NEW irq \in Irqs, RaiseApic(irq)
  PROVE  IntrInv'
<1> USE DEF interruptRest, initVars, picVars, ioapicVars, lapicVars, opVars
<1>1. ServiceType /\ InvService /\ InvFrames /\ InvInfo
  BY DEF IntrInv
<1>2. PICK v : v = LineOf(machine.wire[irq]).vect
  OBVIOUS
<1>3. /\ at \in Redirected /\ v \in OwnVectors /\ v \in Nat
  BY <1>1, <1>2, OpenLine, VectorsOf DEF RaiseApic
<1>4. PICK f : f = [via |-> "apic", vector |-> v, irq |-> irq, step |-> "run"]
  OBVIOUS
<1>5. f \in Frame /\ f.via = "apic" /\ f.vector = v
  BY <1>3, <1>4 DEF Frame
<1>6. /\ frames' = Append(frames, f) /\ lapic_isr' = lapic_isr \union {v} /\ isr' = isr
      /\ \A w \in lapic_isr : w \div 16 < v \div 16
      /\ UNCHANGED <<interruptRest, isr>>
  BY <1>2, <1>4 DEF RaiseApic, Pushed
<1>7. MasterOf(f) = {} /\ SlaveOf(f) = {} /\ LocalOf(f) = {-v}
  BY <1>5 DEF MasterOf, SlaveOf, LocalOf
<1>8. Begins(OnMaster(isr), OnMaster(isr'), MasterOf(f)) /\ Begins(OnSlave(isr), OnSlave(isr'), SlaveOf(f))
  BY <1>6, <1>7 DEF Begins
<1>9. Begins(Local, Local', LocalOf(f))
  <2>1. Local' = Local \union {-v}
    BY <1>6 DEF Local
  <2>2. ASSUME NEW s \in Local PROVE -v < s
    <3>1. PICK w \in lapic_isr : s = -w
      BY DEF Local
    <3>2. w \in Nat /\ w \div 16 < v \div 16
      BY <1>1, <1>6 DEF ServiceType
    <3>3. w < v
      BY <1>3, <3>2
    <3> QED
      BY <1>3, <3>1, <3>2, <3>3
  <2>3. {-v} \subseteq Int
    BY <1>3
  <2> QED
    BY <1>7, <2>1, <2>2, <2>3 DEF Begins
<1>10. isr' \subseteq Irqs /\ lapic_isr' \subseteq Nat
  BY <1>1, <1>3, <1>6 DEF ServiceType
<1>11. ServiceType' /\ InvService'
  BY <1>1, <1>5, <1>6, <1>8, <1>9, <1>10, ServicePush
<1>12. UNCHANGED handlerRest /\ at # "boot" /\ parked' = parked
  BY <1>3, <1>6 DEF handlerRest, Redirected
<1>13. InvPlace' /\ InvInfo' /\ InvGates'
  BY <1>12, Around DEF IntrInv, InvPlace
<1>14. Fits(f)
  BY <1>3, <1>5 DEF Fits
<1>15. StackPush(f)
  BY <1>1, <1>5, <1>6, Pushing
<1>16. InvFrames'
  BY <1>1, <1>6, <1>14, <1>15, FramesPush
<1> QED
  BY <1>11, <1>13, <1>16 DEF IntrInv

-----------------------------------------------------------------------------
(* What is written to the lines.                                           *)

LEMMA LinesStill ==
  ASSUME UNCHANGED ioapic_info, LinesOf(redtbl')
  PROVE  LinesOf(redtbl)'
  BY DEF LinesOf, OwnVectors, VectOf

LEMMA LinesPut ==
  ASSUME NEW t, LinesOf(t), NEW i \in DOMAIN t, NEW n \in DOMAIN t[i], NEW line \in LineType,
         line.mode = "fixed" => line.vect \in OwnVectors,
         NEW u, u = [t EXCEPT ![i][n] = line]
  PROVE  LinesOf(u)
<1>1. /\ DOMAIN t = DOMAIN ioapic_info
      /\ \A j \in DOMAIN t : /\ t[j] \in [0..ioapic_info[j].inputs - 1 -> LineType]
                             /\ \A k \in DOMAIN t[j] : t[j][k].mode = "fixed" => t[j][k].vect \in OwnVectors
  BY DEF LinesOf
<1>2. DOMAIN u = DOMAIN t
  OBVIOUS
<1>3. ASSUME NEW j \in DOMAIN u
      PROVE  /\ u[j] \in [0..ioapic_info[j].inputs - 1 -> LineType]
             /\ \A k \in DOMAIN u[j] : u[j][k].mode = "fixed" => u[j][k].vect \in OwnVectors
  <2>1. CASE j # i
    <3>1. u[j] = t[j]
      BY <2>1
    <3> QED
      BY <1>1, <1>2, <3>1
  <2>2. CASE j = i
    <3>1. PICK s : s = t[i]
      OBVIOUS
    <3>2. PICK r : r = [s EXCEPT ![n] = line]
      OBVIOUS
    <3>3. u[j] = r
      BY <2>2, <3>1, <3>2
    <3>4. s \in [0..ioapic_info[j].inputs - 1 -> LineType]
          /\ \A k \in DOMAIN s : s[k].mode = "fixed" => s[k].vect \in OwnVectors
      BY <1>1, <2>2, <3>1
    <3>5. r \in [0..ioapic_info[j].inputs - 1 -> LineType]
      BY <3>2, <3>4
    <3>6. ASSUME NEW k \in DOMAIN r, r[k].mode = "fixed" PROVE r[k].vect \in OwnVectors
      <4>1. CASE k = n
        <5>1. r[k] = line
          BY <3>1, <3>2, <4>1
        <5> QED
          BY <3>6, <5>1
      <4>2. CASE k # n
        <5>1. r[k] = s[k] /\ k \in DOMAIN s
          BY <3>2, <3>6, <4>2
        <5> QED
          BY <3>4, <3>6, <5>1
      <4> QED
        BY <4>1, <4>2
    <3> QED
      BY <3>3, <3>5, <3>6
  <2> QED
    BY <2>1, <2>2
<1> QED
  BY <1>1, <1>2, <1>3 DEF LinesOf

LEMMA LineWithMask ==
  ASSUME NEW l \in LineType, NEW b \in BOOLEAN, NEW r, r = [l EXCEPT !.masked = b]
  PROVE  r \in LineType /\ r.mode = l.mode /\ r.vect = l.vect
  BY DEF LineType

LEMMA LinesMasked ==
  ASSUME InvInfo, NEW t, LinesOf(t), NEW gsi, NEW b \in BOOLEAN
  PROVE  LinesOf(Masked(t, gsi, b))
<1>1. CASE Reached(gsi) = 0
  BY <1>1 DEF Masked
<1>2. CASE Reached(gsi) # 0
  <2>1. PICK i : i = Reached(gsi)
    OBVIOUS
  <2>2. i \in DOMAIN t
    BY <1>2, <2>1, ReachedIs DEF LinesOf
  <2>3. PICK n : n = gsi - ioapic_info[i].base
    OBVIOUS
  <2>4. Masked(t, gsi, b) = SetMask(t, i, n, b)
    BY <1>2, <2>1, <2>3 DEF Masked
  <2>5. CASE n \notin DOMAIN t[i]
    BY <2>4, <2>5 DEF SetMask
  <2>6. CASE n \in DOMAIN t[i]
    <3>1. PICK l : l = t[i][n]
      OBVIOUS
    <3>2. l \in LineType /\ (l.mode = "fixed" => l.vect \in OwnVectors)
      BY <2>2, <2>6, <3>1 DEF LinesOf
    <3>3. PICK r : r = [l EXCEPT !.masked = b]
      OBVIOUS
    <3>4. r \in LineType /\ (r.mode = "fixed" => r.vect \in OwnVectors)
      BY <3>2, <3>3, LineWithMask
    <3>5. PICK u : u = [t EXCEPT ![i][n] = r]
      OBVIOUS
    <3>6. SetMask(t, i, n, b) = u
      BY <2>6, <3>1, <3>3, <3>5 DEF SetMask
    <3>7. LinesOf(u)
      BY <2>2, <2>6, <3>4, <3>5, LinesPut
    <3> QED
      BY <2>4, <3>6, <3>7
  <2> QED
    BY <2>5, <2>6
<1> QED
  BY <1>1, <1>2

LEMMA LinesEach ==
  ASSUME LinesOf(redtbl), NEW irqs, NEW b \in BOOLEAN
  PROVE  LinesOf(EachGsi(irqs, b))
<1>1. PICK u : u = EachGsi(irqs, b)
  OBVIOUS
<1>2. /\ DOMAIN redtbl = DOMAIN ioapic_info
      /\ \A j \in DOMAIN redtbl :
           /\ redtbl[j] \in [0..ioapic_info[j].inputs - 1 -> LineType]
           /\ \A k \in DOMAIN redtbl[j] : redtbl[j][k].mode = "fixed" => redtbl[j][k].vect \in OwnVectors
  BY DEF LinesOf
<1>3. DOMAIN u = DOMAIN redtbl
  BY <1>1 DEF EachGsi
<1>4. ASSUME NEW j \in DOMAIN u
      PROVE  /\ u[j] \in [0..ioapic_info[j].inputs - 1 -> LineType]
             /\ \A k \in DOMAIN u[j] : u[j][k].mode = "fixed" => u[j][k].vect \in OwnVectors
  <2>1. PICK s : s = redtbl[j]
    OBVIOUS
  <2>2. s \in [0..ioapic_info[j].inputs - 1 -> LineType]
        /\ \A k \in DOMAIN s : s[k].mode = "fixed" => s[k].vect \in OwnVectors
    BY <1>2, <1>3, <2>1
  <2>3. PICK L : L = Led(irqs)
    OBVIOUS
  <2>4. u[j] = [n \in DOMAIN s |-> IF <<j, n>> \in L THEN [s[n] EXCEPT !.masked = b] ELSE s[n]]
    BY <1>1, <1>3, <2>1, <2>3 DEF EachGsi
  <2>5. ASSUME NEW n \in DOMAIN s
        PROVE  u[j][n] \in LineType /\ u[j][n].mode = s[n].mode /\ u[j][n].vect = s[n].vect
    <3>1. s[n] \in LineType
      BY <2>2
    <3>2. PICK l \in LineType : l = s[n]
      BY <3>1
    <3>3. PICK r : r = [l EXCEPT !.masked = b]
      OBVIOUS
    <3>4. u[j][n] = r \/ u[j][n] = l
      BY <2>4, <3>2, <3>3
    <3>5. r \in LineType /\ r.mode = l.mode /\ r.vect = l.vect
      BY <3>3, LineWithMask
    <3> QED
      BY <3>2, <3>4, <3>5
  <2>6. DOMAIN u[j] = DOMAIN s /\ DOMAIN s = 0..ioapic_info[j].inputs - 1
    BY <2>2, <2>4
  <2>7. PICK t : t = u[j]
    OBVIOUS
  <2>8. t \in [0..ioapic_info[j].inputs - 1 -> LineType]
    <3>1. t = [n \in DOMAIN t |-> t[n]]
      BY <2>4, <2>7
    <3> QED
      BY <2>5, <2>6, <2>7, <3>1
  <2> QED
    BY <2>2, <2>5, <2>6, <2>7, <2>8
<1> QED
  BY <1>1, <1>2, <1>3, <1>4 DEF LinesOf

-----------------------------------------------------------------------------
(* Calls of drivers.                                                       *)

LEMMA CallKeeps ==
  ASSUME IntrInv, UNCHANGED <<initVars, idt_handlers, ioapic_info, serviceVars, apic_enabled>>,
         at \in {"enable", "done"} => imr' = imr,
         at \in Redirected => LinesOf(redtbl'), at \notin Redirected => redtbl' = redtbl
  PROVE  IntrInv'
<1> USE DEF initVars, serviceVars
<1>1. ServiceType /\ InvService /\ InvFrames
  BY DEF IntrInv
<1>2. StackSame
  BY <1>1, Unmoved
<1>3. ServiceType' /\ InvService'
  BY <1>1, <1>2, ServiceSame DEF ServiceType
<1>4. InvFrames'
  BY <1>1, <1>2, FramesSame
<1>5. InvPlace'
  BY DEF IntrInv, InvPlace, Tasking
<1>6. InvInfo'
  BY DEF IntrInv, InvInfo
<1>7. OwnVectors' = OwnVectors /\ (\A v : Gate(v)' = Gate(v))
  BY DEF OwnVectors, VectOf, Gate
<1>8. InvGates'
  BY <1>7, LinesStill DEF IntrInv, InvGates
<1> QED
  BY <1>3, <1>4, <1>5, <1>6, <1>8 DEF IntrInv

\* Where drivers call, the lines are written by apic_init() or not at all.
LEMMA WhereCalled ==
  ASSUME IntrInv, Calls
  PROVE  /\ apic_enabled => at \in Redirected /\ LinesOf(redtbl) /\ InvInfo
         /\ ~apic_enabled => at \notin Redirected /\ at \notin {"enable", "done"}
         /\ at \in Redirected => LinesOf(redtbl)
  BY DEF IntrInv, InvPlace, InvGates, Calls, Redirected

LEMMA MaskKeeps ==
  ASSUME IntrInv, Masking, UNCHANGED maskRest, NEW t,
         apic_enabled => LinesOf(t) /\ redtbl' = t /\ UNCHANGED imr,
         ~apic_enabled => UNCHANGED redtbl
  PROVE  IntrInv'
<1>1. Calls
  BY DEF Masking
<1> QED
  BY <1>1, WhereCalled, CallKeeps DEF maskRest, lapicVars

LEMMA DriverCallKeeps ==
  ASSUME IntrInv, DriverCall
  PROVE  IntrInv'
<1> USE DEF picVars, ioapicVars, lapicVars
<1>1. ASSUME NEW d \in Handler, pic_unhandle(d) PROVE IntrInv'
  BY <1>1, WhereCalled, CallKeeps DEF pic_unhandle
<1>2. ASSUME NEW d \in Handler, NEW irq \in irqOf[d], HandleIrq(d, irq) PROVE IntrInv'
  BY <1>2, WhereCalled, CallKeeps DEF HandleIrq
<1>3. CASE HandleHandler
  BY <1>3, WhereCalled, CallKeeps DEF HandleHandler
<1>4. CASE HandleAdapter
  BY <1>4, WhereCalled, CallKeeps DEF HandleAdapter
<1>5. ASSUME NEW irq, pic_mask(irq) PROVE IntrInv'
  <2>1. Calls /\ Masking /\ UNCHANGED maskRest
    BY <1>5 DEF pic_mask, Masking
  <2>2. CASE apic_enabled
    <3>1. LinesOf(ioapic_mask(redtbl, ioapic_irq_gsi[irq]))
      BY <2>1, <2>2, WhereCalled, LinesMasked DEF ioapic_mask
    <3> QED
      BY <1>5, <2>1, <2>2, <3>1, MaskKeeps DEF pic_mask
  <2>3. CASE ~apic_enabled
    BY <1>5, <2>1, <2>3, MaskKeeps DEF pic_mask, pic_mask_bm
  <2> QED
    BY <2>2, <2>3
<1>6. ASSUME NEW irq, pic_unmask(irq) PROVE IntrInv'
  <2>1. Calls /\ Masking /\ UNCHANGED maskRest
    BY <1>6 DEF pic_unmask, Masking
  <2>2. CASE apic_enabled
    <3>1. LinesOf(ioapic_unmask(redtbl, ioapic_irq_gsi[irq]))
      BY <2>1, <2>2, WhereCalled, LinesMasked DEF ioapic_unmask
    <3> QED
      BY <1>6, <2>1, <2>2, <3>1, MaskKeeps DEF pic_unmask
  <2>3. CASE ~apic_enabled
    BY <1>6, <2>1, <2>3, MaskKeeps DEF pic_unmask, pic_unmask_bm
  <2> QED
    BY <2>2, <2>3
<1>7. ASSUME NEW irqs, MaskMany(irqs) PROVE IntrInv'
  <2>1. Calls /\ Masking /\ UNCHANGED maskRest
    BY <1>7 DEF MaskMany, Masking
  <2>2. PICK some : some = {irq \in irqs : ~ioapic_get_mask(ioapic_irq_gsi[irq])}
    OBVIOUS
  <2>3. apic_enabled => LinesOf(EachGsi(some, TRUE))
    BY <2>1, WhereCalled, LinesEach
  <2> QED
    BY <1>7, <2>1, <2>2, <2>3, MaskKeeps DEF MaskMany, pic_mask_bm
<1>8. ASSUME NEW irqs, UnmaskMany(irqs) PROVE IntrInv'
  <2>1. Calls /\ Masking /\ UNCHANGED maskRest
    BY <1>8 DEF UnmaskMany, Masking
  <2>2. PICK some : some = {irq \in irqs : ioapic_get_mask(ioapic_irq_gsi[irq])}
    OBVIOUS
  <2>3. apic_enabled => LinesOf(EachGsi(some, FALSE))
    BY <2>1, WhereCalled, LinesEach
  <2> QED
    BY <1>8, <2>1, <2>2, <2>3, MaskKeeps DEF UnmaskMany, pic_unmask_bm
<1> QED
  BY <1>1, <1>2, <1>3, <1>4, <1>5, <1>6, <1>7, <1>8 DEF DriverCall

-----------------------------------------------------------------------------
(* The start of the kernel, and the switch to the I/O APICs.               *)

\* No handler is under way when pic_init() or apic_init() makes a step.
LEMMA Quiet ==
  ASSUME IntrInv, frames = <<>>, ~Tasking, UNCHANGED <<frames, parked>>,
         isr' \subseteq isr, lapic_isr' \subseteq lapic_isr
  PROVE  ServiceType' /\ InvService' /\ InvFrames' /\ frames' = <<>> /\ parked' = <<>>
<1>1. ServiceType /\ InvService
  BY DEF IntrInv
<1>2. parked = <<>>
  BY DEF IntrInv, InvPlace
<1>3. StackSame
  BY <1>1, Unmoved
<1>4. ServiceType' /\ InvService'
  BY <1>1, <1>3, ServiceSame DEF ServiceType
<1>5. Len(Stack) = 0 /\ Len(Stack') = 0
  BY <1>1, <1>2, <1>3, StackIs DEF StackSame
<1>6. InvFrames'
  BY <1>5 DEF InvFrames
<1> QED
  BY <1>2, <1>4, <1>6

LEMMA GateSet ==
  ASSUME NEW vs, NEW h, idt_handlers' = intr_handle(idt_handlers, vs, h), NEW v
  PROVE  Gate(v)' = IF v \in vs THEN h ELSE Gate(v)
  BY DEF Gate, intr_handle

\* What is left to show of a step of apic_init().
LEMMA InitStep ==
  ASSUME IntrInv, NEW from, Begin(from), from \notin {"boot", "failed", "broken", "done"},
         UNCHANGED <<frames, parked>>, isr' \subseteq isr, lapic_isr' \subseteq lapic_isr,
         at' \in Places \ {"boot"}, apic_enabled' <=> at' = "done",
         at' \in {"enable", "done"} => Irqs \ {Cascade} \subseteq imr',
         at' \notin Redirected => redtbl' = <<>>,
         InvInfo',
         \A irq \in Irqs : Gate(PIC_VECT_BASE + irq)' = Gate(PIC_VECT_BASE + irq),
         at' \in Redirected => LinesOf(redtbl)' /\ \A v \in OwnVectors' : Gate(v)' = "ioapic_handler"
  PROVE  IntrInv'
<1>1. frames = <<>> /\ at = from /\ ~Tasking /\ at # "boot"
  BY DEF Begin, Tasking
<1>2. ServiceType' /\ InvService' /\ InvFrames' /\ frames' = <<>> /\ parked' = <<>>
  BY <1>1, Quiet
<1>3. InvPlace'
  BY <1>2 DEF InvPlace
<1>4. InvGates'
  BY <1>1 DEF IntrInv, InvGates
<1> QED
  BY <1>2, <1>3, <1>4 DEF IntrInv

\* Those that get no further than a place before the lines are written ...
LEMMA EarlyStep ==
  ASSUME IntrInv, NEW from, Begin(from), from \in {"pic", "lapic", "info", "cpus", "store"}, UNCHANGED apicRest,
         at' \in {"lapic", "info", "cpus", "store", "redirect", "failed", "broken"},
         UNCHANGED <<idt_handlers, imr, redtbl, apic_enabled>>, InvInfo'
  PROVE  IntrInv'
<1>1. at = from /\ at \notin Redirected /\ redtbl = <<>> /\ (apic_enabled <=> FALSE) /\ at' # "done"
  BY DEF Begin, Redirected, IntrInv, InvPlace
<1>2. at' \notin Redirected /\ at' \in Places \ {"boot"} /\ at' \notin {"enable", "done"}
  BY DEF Redirected, Places
<1>3. \A irq \in Irqs : Gate(PIC_VECT_BASE + irq)' = Gate(PIC_VECT_BASE + irq)
  BY DEF Gate
<1>4. apic_enabled' <=> at' = "done"
  BY <1>1
<1>5. at' \in {"enable", "done"} => Irqs \ {Cascade} \subseteq imr'
  BY <1>2
<1>6. redtbl' = <<>>
  BY <1>1
<1>7. at' \in Redirected => LinesOf(redtbl)' /\ \A v \in OwnVectors' : Gate(v)' = "ioapic_handler"
  BY <1>2
<1> QED
  BY <1>2, <1>3, <1>4, <1>5, <1>6, <1>7, InitStep DEF apicRest, serviceVars

\* ... and those that write lines.
LEMMA LateStep ==
  ASSUME IntrInv, NEW from, Begin(from), from \in {"entries", "adapt"}, UNCHANGED apicRest,
         at' \in {"entries", "adapt", "mask"},
         UNCHANGED <<imr, ioapic_info, apic_enabled>>, LinesOf(redtbl'),
         \A irq \in Irqs : Gate(PIC_VECT_BASE + irq)' = Gate(PIC_VECT_BASE + irq),
         \A v \in OwnVectors : Gate(v)' = Gate(v)
  PROVE  IntrInv'
<1>1. at = from /\ at \in Redirected /\ at \notin {"boot", "pic", "lapic", "info", "cpus", "store"}
  BY DEF Begin, Redirected
<1>2. at' \in Redirected /\ at' \in Places \ {"boot"} /\ at' \notin {"enable", "done"}
  BY DEF Redirected, Places
<1>3. apic_enabled' <=> at' = "done"
  BY <1>1, <1>2 DEF IntrInv, InvPlace
<1>4. InvInfo'
  BY <1>1, <1>2 DEF IntrInv, InvInfo, apicRest, Redirected
<1>5. LinesOf(redtbl)'
  BY LinesStill
<1>6. \A v \in OwnVectors' : Gate(v)' = "ioapic_handler"
  <2>1. OwnVectors' = OwnVectors
    BY DEF OwnVectors, VectOf
  <2> QED
    BY <1>1, <2>1 DEF IntrInv, InvGates
<1> QED
  BY <1>1, <1>2, <1>3, <1>4, <1>5, <1>6, InitStep DEF apicRest, serviceVars

LEMMA PicInitKeeps ==
  ASSUME IntrInv, pic_init
  PROVE  IntrInv'
<1>1. /\ at = "boot" /\ at' = "pic" /\ isr' = {} /\ UNCHANGED <<frames, parked, lapic_isr>>
      /\ UNCHANGED <<machine, pos, ioapic_info, redtbl, apic_enabled>>
      /\ idt_handlers' = intr_handle(idt_handlers, {PIC_VECT_BASE + irq : irq \in Irqs}, "pic_handler_stub")
  BY DEF pic_init, ioapicVars, lapicVars
<1>2. frames = <<>> /\ ~Tasking /\ parked = <<>> /\ redtbl = <<>> /\ (apic_enabled <=> FALSE)
  BY <1>1 DEF IntrInv, InvPlace, Tasking, Redirected
<1>3. ServiceType' /\ InvService' /\ InvFrames' /\ frames' = <<>> /\ parked' = <<>>
  BY <1>1, <1>2, Quiet
<1>4. InvPlace'
  BY <1>1, <1>2, <1>3 DEF InvPlace, Places, Redirected
<1>5. InvInfo'
  BY <1>1 DEF IntrInv, InvInfo
<1>6. ASSUME NEW irq \in Irqs PROVE Gate(PIC_VECT_BASE + irq)' = "pic_handler_stub"
  BY <1>1, GateSet
<1>7. InvGates'
  BY <1>1, <1>6 DEF InvGates, Redirected
<1> QED
  BY <1>3, <1>4, <1>5, <1>7 DEF IntrInv

LEMMA ApicStartKeeps ==
  ASSUME IntrInv, ApicStart
  PROVE  IntrInv'
<1>1. Begin("pic") /\ at' \in {"lapic", "failed"} /\ UNCHANGED tables /\ UNCHANGED apicRest
  BY DEF ApicStart, GiveUp
<1>2. InvInfo'
  BY <1>1 DEF IntrInv, InvInfo, Begin, tables, ioapicVars, apicRest
<1> QED
  BY <1>1, <1>2, EarlyStep DEF tables, picVars, ioapicVars, lapicVars

LEMMA AcquireKeeps ==
  ASSUME IntrInv, NEW from, NEW what, NEW to, Acquire(from, what, to),
         <<from, to>> \in {<<"lapic", "info">>, <<"info", "cpus">>, <<"cpus", "store">>}
  PROVE  IntrInv'
<1>1. from \in {"lapic", "info", "cpus"} /\ to \in {"info", "cpus", "store"}
  OBVIOUS
<1>2. /\ Begin(from) /\ at' \in {to, "failed"} /\ pos' = 1 /\ UNCHANGED tables /\ UNCHANGED apicRest
  BY DEF Acquire, GiveUp
<1>3. ioapic_info = <<>> /\ ioapic_info' = <<>> /\ machine' = machine /\ machine \in Machine
  BY <1>1, <1>2 DEF IntrInv, InvInfo, Begin, tables, ioapicVars, apicRest
<1>4. InvInfo'
  BY <1>2, <1>3 DEF InvInfo
<1> QED
  BY <1>1, <1>2, <1>4, EarlyStep DEF tables, picVars, ioapicVars, lapicVars

LEMMA StoreIoapicKeeps ==
  ASSUME IntrInv, StoreIoapic
  PROVE  IntrInv'
<1>1. /\ Begin("store") /\ at' \in {"store", "failed"} /\ UNCHANGED apicRest
      /\ UNCHANGED <<idt_handlers, imr, redtbl, apic_enabled>>
  BY DEF StoreIoapic, GiveUp, picVars, lapicVars, Begin
<1>2. InvInfo /\ at = "store" /\ pos = Len(ioapic_info) + 1 /\ machine' = machine
  BY <1>1 DEF IntrInv, InvInfo, Begin, apicRest
<1>3. ASSUME ioapic_info' = ioapic_info, at' = "failed" PROVE InvInfo'
  BY <1>2, <1>3 DEF InvInfo
<1>4. ASSUME ioapic_info' = Append(ioapic_info, [base |-> Base(pos), inputs |-> machine.ioapics[pos].inputs]),
             pos' = pos + 1, UNCHANGED at
      PROVE  InvInfo'
  <2>1. PICK S : S = [base : Nat, inputs : Nat]
    OBVIOUS
  <2>2. PICK s : s = ioapic_info
    OBVIOUS
  <2>3. s \in Seq(S) /\ pos = Len(s) + 1 /\ Len(s) \in Nat
    BY <1>2, <2>1, <2>2 DEF InvInfo
  <2>4. PICK io : io = machine.ioapics[pos]
    OBVIOUS
  <2>5. io \in S
    <3>1. PICK t : t = machine.ioapics
      OBVIOUS
    <3>2. t \in Seq(S) /\ pos <= Len(t) /\ pos \in Nat /\ pos >= 1
      BY <1>2, <2>1, <2>3, <3>1, IntrAssumption DEF InvInfo, StoreIoapic
    <3>3. t[pos] \in S
      BY <3>2
    <3> QED
      BY <2>4, <3>1, <3>3
  <2>6. PICK b : b = Base(pos)
    OBVIOUS
  <2>7. b \in Nat
    <3>1. CASE machine.kind = "acpi"
      BY <2>1, <2>4, <2>5, <2>6, <3>1 DEF Base
    <3>2. CASE machine.kind # "acpi" /\ pos = 1
      BY <2>6, <3>2 DEF Base
    <3>3. CASE machine.kind # "acpi" /\ pos # 1
      <4>1. pos - 1 \in DOMAIN ioapic_info
        BY <2>2, <2>3, <3>3
      <4>2. ioapic_info[pos - 1].base \in Nat /\ ioapic_info[pos - 1].inputs \in Nat
        BY <1>2, <4>1, InfoAt
      <4> QED
        BY <2>6, <3>3, <4>2 DEF Base
    <3> QED
      BY <3>1, <3>2, <3>3
  <2>8. PICK r : r = [base |-> b, inputs |-> io.inputs]
    OBVIOUS
  <2>9. r \in S /\ r.base = b
    BY <2>1, <2>5, <2>7, <2>8
  <2>10. ioapic_info' = Append(s, r)
    BY <1>4, <2>2, <2>4, <2>6, <2>8
  <2>11. ioapic_info' \in Seq(S) /\ Len(ioapic_info') = Len(s) + 1
    BY <2>3, <2>9, <2>10
  <2>12. machine.kind # "acpi" => ioapic_info'[1].base = 0
    <3>1. SUFFICES ASSUME machine.kind # "acpi" PROVE ioapic_info'[1].base = 0
      OBVIOUS
    <3>2. CASE Len(s) = 0
      <4>1. pos = 1 /\ ioapic_info'[1] = r
        BY <2>3, <2>9, <2>10, <3>2
      <4>2. b = 0
        BY <2>6, <3>1, <4>1 DEF Base
      <4> QED
        BY <2>9, <4>1, <4>2
    <3>3. CASE Len(s) # 0
      <4>1. 1 \in DOMAIN s /\ ioapic_info'[1] = s[1]
        BY <2>3, <2>9, <2>10, <3>3
      <4> QED
        BY <1>2, <2>2, <3>1, <4>1 DEF InvInfo
    <3> QED
      BY <2>3, <3>2, <3>3
  <2> QED
    BY <1>2, <1>4, <2>1, <2>3, <2>11, <2>12 DEF InvInfo
<1>5. InvInfo'
  BY <1>1, <1>3, <1>4 DEF StoreIoapic, GiveUp
<1> QED
  BY <1>1, <1>5, EarlyStep

LEMMA AllocHandlersKeeps ==
  ASSUME IntrInv, AllocHandlers
  PROVE  IntrInv'
<1>1. /\ Begin("store") /\ at' \in {"redirect", "failed", "broken"} /\ UNCHANGED apicRest
      /\ UNCHANGED <<idt_handlers, imr, redtbl, apic_enabled, ioapic_info>>
  BY DEF AllocHandlers, GiveUp, picVars
<1>2. InvInfo'
  BY <1>1 DEF IntrInv, InvInfo, apicRest
<1> QED
  BY <1>1, <1>2, EarlyStep

LEMMA RedirectLinesKeeps ==
  ASSUME IntrInv, RedirectLines
  PROVE  IntrInv'
<1>1. /\ Begin("redirect") /\ at' = "entries" /\ UNCHANGED apicRest
      /\ UNCHANGED <<ioapic_info, apic_enabled>>
      /\ idt_handlers' = intr_handle(idt_handlers, OwnVectors, "ioapic_handler")
      /\ redtbl' = [i \in DOMAIN ioapic_info |->
                      [n \in 0..ioapic_info[i].inputs - 1 |-> Line(VectOf(i, n), TRUE, "fixed")]]
  BY DEF RedirectLines, lapicVars
<1>2. InvInfo /\ InvInfo'
  BY <1>1 DEF IntrInv, InvInfo, apicRest
<1>3. OwnVectors' = OwnVectors
  BY <1>1 DEF OwnVectors, VectOf
<1>4. ASSUME NEW v \in OwnVectors PROVE Gate(v)' = "ioapic_handler"
  BY <1>1, GateSet
<1>5. ASSUME NEW irq \in Irqs PROVE Gate(PIC_VECT_BASE + irq)' = Gate(PIC_VECT_BASE + irq)
  <2>1. PIC_VECT_BASE + irq < IOAPIC_HANDLER_VECT_BASE
    BY IntrAssumption DEF Irqs, PIC_VECT_BASE, IOAPIC_HANDLER_VECT_BASE
  <2>2. PIC_VECT_BASE + irq \notin OwnVectors
    <3>1. SUFFICES ASSUME PIC_VECT_BASE + irq \in OwnVectors PROVE FALSE
      OBVIOUS
    <3>2. PIC_VECT_BASE + irq >= IOAPIC_HANDLER_VECT_BASE
      BY <1>2, <3>1, VectorsOf
    <3> QED
      BY <2>1, <3>2, IntrAssumption DEF Irqs, PIC_VECT_BASE, IOAPIC_HANDLER_VECT_BASE
  <2> QED
    BY <1>1, <2>2, GateSet
<1>6. LinesOf(redtbl')
  <2>1. DOMAIN redtbl' = DOMAIN ioapic_info
    BY <1>1
  <2>2. ASSUME NEW i \in DOMAIN ioapic_info
        PROVE  /\ redtbl'[i] \in [0..ioapic_info[i].inputs - 1 -> LineType]
               /\ \A n \in DOMAIN redtbl'[i] : redtbl'[i][n].mode = "fixed" => redtbl'[i][n].vect \in OwnVectors
    <3>1. redtbl'[i] = [n \in 0..ioapic_info[i].inputs - 1 |-> Line(VectOf(i, n), TRUE, "fixed")]
      BY <1>1
    <3>2. \A n \in 0..ioapic_info[i].inputs - 1 : VectOf(i, n) \in OwnVectors /\ VectOf(i, n) \in Int
      BY <1>2, VectorsOf
    <3> QED
      BY <3>1, <3>2 DEF Line, LineType
  <2> QED
    BY <2>1, <2>2 DEF LinesOf
<1>7. LinesOf(redtbl)'
  BY <1>1, <1>6, LinesStill
<1>8. /\ at' \in Places \ {"boot"} /\ at' \in Redirected /\ at' \notin {"enable", "done"}
      /\ (apic_enabled' <=> at' = "done")
  BY <1>1 DEF Places, Redirected, IntrInv, InvPlace, Begin
<1> QED
  BY <1>1, <1>2, <1>3, <1>4, <1>5, <1>7, <1>8, InitStep DEF apicRest, serviceVars

\* Where lines are written.
LEMMA LinesThere ==
  ASSUME IntrInv, Begin("entries") \/ Begin("adapt")
  PROVE  LinesOf(redtbl) /\ InvInfo
  BY DEF IntrInv, InvGates, Begin, Redirected

LEMMA PutLineKeeps ==
  ASSUME IntrInv, Begin("entries"), NEW i, NEW n, NEW line \in LineType, PutLine(i, n, line),
         i \in DOMAIN redtbl /\ n \in DOMAIN redtbl[i] /\ line.mode = "fixed" => line.vect \in OwnVectors
  PROVE  LinesOf(redtbl')
<1>1. LinesOf(redtbl)
  BY LinesThere
<1>2. CASE i \in DOMAIN redtbl /\ n \in DOMAIN redtbl[i]
  <2>1. redtbl' = [redtbl EXCEPT ![i][n] = line]
    BY <1>2 DEF PutLine
  <2> QED
    BY <1>1, <1>2, <2>1, LinesPut
<1>3. CASE ~(i \in DOMAIN redtbl /\ n \in DOMAIN redtbl[i])
  BY <1>1, <1>3 DEF PutLine
<1> QED
  BY <1>2, <1>3

\* A line written for a GSI has a vector of its own, if it has any.
LEMMA PutGsiKeeps ==
  ASSUME IntrInv, Begin("entries"), NEW gsi, NEW line, PutGsi(gsi, line),
         gsi \in Int => line \in LineType,
         line.mode = "fixed" => line.vect = IOAPIC_HANDLER_VECT_BASE + gsi
  PROVE  LinesOf(redtbl')
<1>1. LinesOf(redtbl) /\ InvInfo
  BY LinesThere
<1>2. CASE Owner(gsi) = 0
  BY <1>1, <1>2 DEF PutGsi
<1>3. CASE Owner(gsi) # 0
  <2>1. PICK i : i = Owner(gsi)
    OBVIOUS
  <2>2. PICK n : n = gsi - ioapic_info[i].base
    OBVIOUS
  <2>3. PutLine(i, n, line)
    BY <1>3, <2>1, <2>2 DEF PutGsi
  <2>4. i \in DOMAIN ioapic_info /\ gsi \in Int /\ n \in 0..ioapic_info[i].inputs - 1
    BY <1>1, <1>3, <2>1, <2>2, OwnerIs
  <2>5. VectOf(i, n) \in OwnVectors
    BY <1>1, <2>4, VectorsOf
  <2>6. VectOf(i, n) = IOAPIC_HANDLER_VECT_BASE + gsi
    <3>1. PICK b \in Nat : b = ioapic_info[i].base
      BY <1>1, <2>4, InfoAt
    <3> QED
      BY <2>2, <2>4, <3>1 DEF VectOf, IOAPIC_HANDLER_VECT_BASE
  <2> QED
    BY <2>3, <2>4, <2>5, <2>6, PutLineKeeps
<1> QED
  BY <1>2, <1>3

\* An entry of another bus gives its line the vector of a line of an I/O APIC.
OtherBuses ==
  at = "entries" /\ pos <= Len(machine.entries) =>
    LET e == machine.entries[pos] IN
    e.type = "irq" /\ ~e.isa => IOAPIC_HANDLER_VECT_BASE + ioapic_irq_gsi[e.irq] \in OwnVectors

LEMMA FirmwareEntryKeeps ==
  ASSUME IntrInv, OtherBuses, FirmwareEntry
  PROVE  IntrInv'
<1> DEFINE e == machine.entries[pos]
<1>1. Begin("entries") /\ at' = "entries" /\ UNCHANGED apicRest
      /\ UNCHANGED <<idt_handlers, imr, ioapic_info, apic_enabled>>
  BY DEF FirmwareEntry, picVars, Begin
<1>2. LinesOf(redtbl) /\ InvInfo
  BY <1>1, LinesThere
<1>3. Nmi \in LineType /\ Nmi.mode # "fixed" /\ ExtInt \in LineType /\ ExtInt.mode # "fixed"
  BY DEF Nmi, ExtInt, Line, LineType, NMI_VECT, LAPIC_SPURIOUS_VECT
<1>4. ASSUME SourceOverride(e) PROVE LinesOf(redtbl')
  <2>1. PICK g : g = e.gsi
    OBVIOUS
  <2>2. PICK line : line = Line(IOAPIC_HANDLER_VECT_BASE + g, TRUE, "fixed")
    OBVIOUS
  <2>3. PutGsi(g, line)
    BY <1>4, <2>1, <2>2 DEF SourceOverride
  <2>4. (g \in Int => line \in LineType) /\ line.vect = IOAPIC_HANDLER_VECT_BASE + g
    BY <2>2 DEF Line, LineType, IOAPIC_HANDLER_VECT_BASE
  <2> QED
    BY <1>1, <2>3, <2>4, PutGsiKeeps
<1>5. ASSUME IoapicNmi(e) PROVE LinesOf(redtbl')
  BY <1>1, <1>3, <1>5, PutGsiKeeps DEF IoapicNmi
<1>6. ASSUME e.type = "irq", IrqAssign(e) PROVE LinesOf(redtbl')
  <2>1. PICK i, n, b : i = e.dest /\ n = e.intin /\ b = ioapic_info[i].base
    OBVIOUS
  <2>0. PICK g : g = IF e.isa THEN b + n ELSE ioapic_irq_gsi[e.irq]
    OBVIOUS
  <2>2. PICK own : own = Line(IOAPIC_HANDLER_VECT_BASE + g, TRUE, "fixed")
    OBVIOUS
  <2>3. \/ PutLine(i, n, Nmi)
        \/ PutLine(i, n, ExtInt)
        \/ PutLine(i, n, own)
    BY <1>6, <2>0, <2>1, <2>2 DEF IrqAssign
  <2>4. CASE i \in DOMAIN redtbl /\ n \in DOMAIN redtbl[i]
    <3>1. i \in DOMAIN ioapic_info /\ n \in 0..ioapic_info[i].inputs - 1
      BY <1>2, <2>4 DEF LinesOf
    <3>2. b \in Nat /\ n \in Nat
      BY <1>2, <2>1, <3>1, InfoAt
    <3>3. IOAPIC_HANDLER_VECT_BASE + g \in OwnVectors
      <4>1. CASE e.isa
        <5>1. IOAPIC_HANDLER_VECT_BASE + g = VectOf(i, n)
          BY <2>0, <2>1, <3>2, <4>1 DEF VectOf, IOAPIC_HANDLER_VECT_BASE
        <5> QED
          BY <1>2, <3>1, <5>1, VectorsOf
      <4>2. CASE ~e.isa
        BY <1>1, <1>6, <2>0, <4>2 DEF OtherBuses, FirmwareEntry, Begin
      <4> QED
        BY <4>1, <4>2
    <3>4. own.vect \in OwnVectors /\ own \in LineType
      <4>1. own.vect = IOAPIC_HANDLER_VECT_BASE + g /\ own.masked = TRUE /\ own.mode = "fixed"
            /\ own = [vect |-> IOAPIC_HANDLER_VECT_BASE + g, masked |-> TRUE, mode |-> "fixed"]
        BY <2>2 DEF Line
      <4>2. IOAPIC_HANDLER_VECT_BASE + g \in Int
        BY <1>2, <3>3, VectorsOf
      <4> QED
        BY <3>3, <4>1, <4>2 DEF LineType
    <3> QED
      BY <1>1, <1>3, <2>3, <3>4, PutLineKeeps
  <2>5. CASE ~(i \in DOMAIN redtbl /\ n \in DOMAIN redtbl[i])
    BY <1>2, <2>3, <2>5 DEF PutLine
  <2> QED
    BY <2>4, <2>5
<1>7. ASSUME LocalInt(e) PROVE LinesOf(redtbl')
  BY <1>2, <1>7 DEF LocalInt
<1>8. LinesOf(redtbl')
  BY <1>4, <1>5, <1>6, <1>7 DEF FirmwareEntry
<1>9. \A v : Gate(v)' = Gate(v)
  BY <1>1 DEF Gate
<1> QED
  BY <1>1, <1>8, <1>9, LateStep

LEMMA DefaultConfigKeeps ==
  ASSUME IntrInv, DefaultConfig
  PROVE  IntrInv'
<1>1. /\ Begin("entries") /\ machine.kind = "default" /\ at' = "entries" /\ UNCHANGED apicRest
      /\ UNCHANGED <<idt_handlers, imr, ioapic_info, apic_enabled>>
      /\ redtbl' = [redtbl EXCEPT ![1] = [n \in DOMAIN redtbl[1] |->
                                           IF n \in Irqs THEN DefaultLine(n) ELSE redtbl[1][n]]]
  BY DEF DefaultConfig, picVars, Begin
<1>2. LinesOf(redtbl) /\ InvInfo
  BY <1>1, LinesThere
<1>3. CASE 1 \notin DOMAIN redtbl
  <2>1. DOMAIN redtbl' = DOMAIN redtbl /\ \A j \in DOMAIN redtbl : redtbl'[j] = redtbl[j]
    BY <1>1, <1>3
  <2>2. LinesOf(redtbl')
    <3> SUFFICES ASSUME NEW j \in DOMAIN redtbl
                 PROVE  /\ redtbl'[j] \in [0..ioapic_info[j].inputs - 1 -> LineType]
                        /\ \A n \in DOMAIN redtbl'[j] : redtbl'[j][n].mode = "fixed" => redtbl'[j][n].vect \in OwnVectors
      BY <1>2, <2>1 DEF LinesOf
    <3>1. redtbl'[j] = redtbl[j]
      BY <2>1
    <3> QED
      BY <1>2, <3>1 DEF LinesOf
  <2>3. \A v : Gate(v)' = Gate(v)
    BY <1>1 DEF Gate
  <2> QED
    BY <1>1, <2>2, <2>3, LateStep
<1>4. CASE 1 \in DOMAIN redtbl
  <2>1. PICK s : s = redtbl[1]
    OBVIOUS
  <2>2. PICK m : m = ioapic_info[1].inputs
    OBVIOUS
  <2>3. PICK u : u = [n \in DOMAIN s |-> IF n \in Irqs THEN DefaultLine(n) ELSE s[n]]
    OBVIOUS
  <2>4. DOMAIN redtbl' = DOMAIN redtbl /\ redtbl'[1] = u /\ \A j \in DOMAIN redtbl \ {1} : redtbl'[j] = redtbl[j]
    BY <1>1, <1>4, <2>1, <2>3
  <2>5. /\ s \in [0..m - 1 -> LineType] /\ DOMAIN redtbl = DOMAIN ioapic_info
        /\ \A n \in DOMAIN s : s[n].mode = "fixed" => s[n].vect \in OwnVectors
    BY <1>2, <1>4, <2>1, <2>2 DEF LinesOf
  <2>6. m \in Nat /\ ioapic_info[1].base = 0
    BY <1>1, <1>2, <1>4, <2>2, <2>5, InfoAt DEF InvInfo
  <2>7. \A k \in 0..m - 1 : IOAPIC_HANDLER_VECT_BASE + k \in OwnVectors
    <3> SUFFICES ASSUME NEW k \in 0..m - 1 PROVE IOAPIC_HANDLER_VECT_BASE + k \in OwnVectors
      OBVIOUS
    <3>1. VectOf(1, k) \in OwnVectors
      BY <1>2, <1>4, <2>2, <2>5, VectorsOf
    <3> QED
      BY <2>6, <3>1 DEF VectOf, IOAPIC_HANDLER_VECT_BASE
  <2>8. ASSUME NEW n \in 0..m - 1
        PROVE  DefaultLine(n) \in LineType /\ (DefaultLine(n).mode = "fixed" => DefaultLine(n).vect \in OwnVectors)
    <3>1. CASE n = 0
      BY <3>1 DEF DefaultLine, ExtInt, Line, LineType, LAPIC_SPURIOUS_VECT
    <3>2. CASE n = 2
      <4>1. 0 \in 0..m - 1
        BY <2>6, <3>2
      <4>2. DefaultLine(n) = Line(IOAPIC_HANDLER_VECT_BASE + 0, TRUE, "fixed")
        BY <3>2 DEF DefaultLine
      <4> QED
        BY <2>7, <4>1, <4>2 DEF Line, LineType, IOAPIC_HANDLER_VECT_BASE
    <3>3. CASE n # 0 /\ n # 2
      <4>1. DefaultLine(n) = Line(IOAPIC_HANDLER_VECT_BASE + n, TRUE, "fixed")
        BY <3>3 DEF DefaultLine
      <4> QED
        BY <2>6, <2>7, <4>1 DEF Line, LineType, IOAPIC_HANDLER_VECT_BASE
    <3> QED
      BY <3>1, <3>2, <3>3
  <2>9. DOMAIN u = 0..m - 1
    BY <2>3, <2>5
  <2>10. ASSUME NEW n \in 0..m - 1
         PROVE  u[n] \in LineType /\ (u[n].mode = "fixed" => u[n].vect \in OwnVectors)
    <3>1. u[n] = IF n \in Irqs THEN DefaultLine(n) ELSE s[n]
      BY <2>3, <2>5
    <3> QED
      BY <2>5, <2>8, <3>1
  <2>11. u \in [0..m - 1 -> LineType]
    <3>1. u = [n \in 0..m - 1 |-> u[n]]
      BY <2>3, <2>9
    <3> QED
      BY <2>10, <3>1
  <2>12. LinesOf(redtbl')
    <3>1. ASSUME NEW j \in DOMAIN redtbl'
          PROVE  /\ redtbl'[j] \in [0..ioapic_info[j].inputs - 1 -> LineType]
                 /\ \A n \in DOMAIN redtbl'[j] : redtbl'[j][n].mode = "fixed" => redtbl'[j][n].vect \in OwnVectors
      <4>1. CASE j = 1
        BY <2>2, <2>4, <2>9, <2>10, <2>11, <4>1
      <4>2. CASE j # 1
        BY <1>2, <2>4, <4>2 DEF LinesOf
      <4> QED
        BY <4>1, <4>2
    <3> QED
      BY <2>4, <2>5, <3>1 DEF LinesOf
  <2>13. \A v : Gate(v)' = Gate(v)
    BY <1>1 DEF Gate
  <2> QED
    BY <1>1, <2>12, <2>13, LateStep
<1> QED
  BY <1>3, <1>4

LEMMA EntriesDoneKeeps ==
  ASSUME IntrInv, EntriesDone
  PROVE  IntrInv'
<1>1. /\ Begin("entries") /\ at' = "adapt" /\ UNCHANGED apicRest
      /\ UNCHANGED <<idt_handlers, imr, ioapic_info, apic_enabled, redtbl>>
  BY DEF EntriesDone, tables, picVars, ioapicVars, lapicVars
<1>2. LinesOf(redtbl') /\ \A v : Gate(v)' = Gate(v)
  BY <1>1, LinesThere DEF Gate
<1> QED
  BY <1>1, <1>2, LateStep

LEMMA AdaptKeeps ==
  ASSUME IntrInv, Adapt
  PROVE  IntrInv'
<1>1. /\ Begin("adapt") /\ at' = "adapt" /\ UNCHANGED apicRest
      /\ UNCHANGED <<idt_handlers, imr, ioapic_info, apic_enabled>>
  BY DEF Adapt, picVars, lapicVars, Begin
<1>2. LinesOf(redtbl) /\ InvInfo
  BY <1>1, LinesThere
<1>3. \/ redtbl' = redtbl
      \/ \E g : redtbl' = ioapic_mask(redtbl, g) \/ redtbl' = ioapic_unmask(redtbl, g)
  BY DEF Adapt, AdaptOne
<1>4. LinesOf(redtbl')
  BY <1>2, <1>3, LinesMasked DEF ioapic_mask, ioapic_unmask
<1>5. \A v : Gate(v)' = Gate(v)
  BY <1>1 DEF Gate
<1> QED
  BY <1>1, <1>4, <1>5, LateStep

\* The vectors of the lines end before that of the local APIC.
FewLines == \A v \in OwnVectors : v < LAPIC_SPURIOUS_VECT

LEMMA EnableKeeps ==
  ASSUME IntrInv, FewLines, Enable
  PROVE  IntrInv'
<1>1. /\ Begin("adapt") /\ at' = "mask" /\ UNCHANGED apicRest
      /\ UNCHANGED <<imr, ioapic_info, apic_enabled, redtbl>>
      /\ idt_handlers' = intr_handle(idt_handlers, {LAPIC_SPURIOUS_VECT}, "apic_spurious_handler")
  BY DEF Enable, picVars, ioapicVars
<1>2. LinesOf(redtbl') /\ InvInfo
  BY <1>1, LinesThere
<1>3. ASSUME NEW v \in OwnVectors PROVE Gate(v)' = Gate(v)
  <2>1. v \in Nat /\ v < LAPIC_SPURIOUS_VECT
    BY <1>2, VectorsOf DEF FewLines
  <2>2. v \notin {LAPIC_SPURIOUS_VECT}
    BY <2>1 DEF LAPIC_SPURIOUS_VECT
  <2> QED
    BY <1>1, <2>2, GateSet
<1>4. ASSUME NEW irq \in Irqs PROVE Gate(PIC_VECT_BASE + irq)' = Gate(PIC_VECT_BASE + irq)
  <2>1. PIC_VECT_BASE + irq \notin {LAPIC_SPURIOUS_VECT}
    BY IntrAssumption DEF Irqs, PIC_VECT_BASE, IOAPIC_HANDLER_VECT_BASE, LAPIC_SPURIOUS_VECT
  <2> QED
    BY <1>1, <2>1, GateSet
<1> QED
  BY <1>1, <1>2, <1>3, <1>4, LateStep

LEMMA MaskPicKeeps ==
  ASSUME IntrInv, MaskPic
  PROVE  IntrInv'
<1>1. /\ Begin("mask") /\ at' = "enable" /\ pic_mask_bm(Irqs)
      /\ UNCHANGED <<machine, frames, parked, idt_handlers, ioapic_info, apic_enabled>>
      /\ isr' = pic_eoi_inline(isr, 2 * HALF - 1) /\ lapic_isr' = apic_eoi(lapic_isr)
  BY DEF MaskPic, lapicVars
<1>2. at = "mask" /\ (apic_enabled <=> FALSE) /\ at \in Redirected
  BY <1>1 DEF Begin, IntrInv, InvPlace, Redirected
<1>3. imr' = imr \union (Irqs \ {Cascade}) /\ redtbl' = redtbl
  BY <1>1, <1>2 DEF pic_mask_bm
<1>4. isr' \subseteq isr
  BY <1>1, MasterEoi, SlaveEoi DEF pic_eoi_inline
<1>5. lapic_isr' \subseteq lapic_isr
  BY <1>1 DEF apic_eoi
<1>6. /\ at' \in Places \ {"boot"} /\ (apic_enabled' <=> at' = "done")
      /\ Irqs \ {Cascade} \subseteq imr' /\ at' \in Redirected
  BY <1>1, <1>2, <1>3 DEF Places, Redirected
<1>7. InvInfo'
  BY <1>1, <1>2 DEF IntrInv, InvInfo
<1>8. LinesOf(redtbl)' /\ OwnVectors' = OwnVectors /\ \A v : Gate(v)' = Gate(v)
  BY <1>1, <1>2, <1>3, LinesStill DEF IntrInv, InvGates, OwnVectors, VectOf, Gate
<1>9. \A v \in OwnVectors : Gate(v) = "ioapic_handler"
  BY <1>2 DEF IntrInv, InvGates
<1> QED
  BY <1>1, <1>4, <1>5, <1>6, <1>7, <1>8, <1>9, InitStep

LEMMA SwitchDoneKeeps ==
  ASSUME IntrInv, SwitchDone
  PROVE  IntrInv'
<1>1. /\ Begin("enable") /\ at' = "done" /\ apic_enabled' = TRUE
      /\ UNCHANGED <<machine, frames, parked, isr, lapic_isr, idt_handlers, ioapic_info, redtbl, imr>>
  BY DEF SwitchDone, serviceVars, ioapicVars, picVars
<1>2. at = "enable" /\ at \in Redirected
  BY <1>1 DEF Begin, Redirected
<1>3. /\ at' \in Places \ {"boot"} /\ (apic_enabled' <=> at' = "done")
      /\ Irqs \ {Cascade} \subseteq imr' /\ at' \in Redirected
  BY <1>1, <1>2 DEF Places, Redirected, IntrInv, InvPlace
<1>4. InvInfo'
  BY <1>1, <1>2 DEF IntrInv, InvInfo
<1>5. LinesOf(redtbl)' /\ OwnVectors' = OwnVectors /\ \A v : Gate(v)' = Gate(v)
  BY <1>1, <1>2, LinesStill DEF IntrInv, InvGates, OwnVectors, VectOf, Gate
<1>6. \A v \in OwnVectors : Gate(v) = "ioapic_handler"
  BY <1>2 DEF IntrInv, InvGates
<1> QED
  BY <1>1, <1>3, <1>4, <1>5, <1>6, InitStep

-----------------------------------------------------------------------------
(* The invariant, and what it says of a handler under way.                 *)

LEMMA IntrStarts ==
  ASSUME IntrInit
  PROVE  IntrInv
<1> USE DEF IntrInit, IntrStart
<1>1. Stack = <<>> /\ Len(Stack) = 0
  BY DEF Stack
<1>2. ServiceType
  BY DEF ServiceType
<1>3. OnMaster(isr) = {} /\ OnSlave(isr) = {} /\ Local = {}
  BY DEF OnMaster, OnSlave, Local
<1>4. InvService
  BY <1>3, SoundEmpty DEF InvService
<1>5. InvPlace
  BY DEF InvPlace, Places, Redirected
<1>6. InvInfo
  BY DEF InvInfo
<1>7. InvGates
  BY DEF InvGates, Redirected
<1>8. InvFrames
  BY <1>1 DEF InvFrames
<1> QED
  BY <1>2, <1>4, <1>5, <1>6, <1>7, <1>8 DEF IntrInv

LEMMA IntrStutters ==
  ASSUME IntrInv, UNCHANGED intrVars
  PROVE  IntrInv'
<1>1. UNCHANGED <<initVars, idt_handlers, ioapic_info, serviceVars, apic_enabled, imr, redtbl>>
  BY DEF intrVars, picVars, ioapicVars, lapicVars
<1>2. at \in Redirected => LinesOf(redtbl')
  BY <1>1 DEF IntrInv, InvGates
<1> QED
  BY <1>1, <1>2, CallKeeps

LEMMA IntrSteps ==
  ASSUME IntrInv, FewLines, OtherBuses, [IntrNext]_intrVars
  PROVE  IntrInv'
<1>1. CASE pic_init
  BY <1>1, PicInitKeeps
<1>2. CASE apic_init
  <2>1. CASE MapLapic \/ AllocInfo \/ AllocCpus
    BY <2>1, AcquireKeeps DEF MapLapic, AllocInfo, AllocCpus
  <2> QED
    BY <1>2, <2>1, ApicStartKeeps, StoreIoapicKeeps, AllocHandlersKeeps, RedirectLinesKeeps,
       FirmwareEntryKeeps, DefaultConfigKeeps, EntriesDoneKeeps, AdaptKeeps, EnableKeeps,
       MaskPicKeeps, SwitchDoneKeeps
       DEF apic_init
<1>3. CASE DriverCall
  BY <1>3, DriverCallKeeps
<1>4. CASE Interrupt
  BY <1>4, RaisePicKeeps, RaiseSpuriousKeeps, RaiseApicKeeps, HandleTopKeeps, EndTopKeeps, YieldTaskKeeps
     DEF Interrupt
<1>5. CASE UNCHANGED intrVars
  BY <1>5, IntrStutters
<1> QED
  BY <1>1, <1>2, <1>3, <1>4, <1>5 DEF IntrNext

LEMMA UnderwayIs ==
  ASSUME ServiceType, NEW k \in 1 .. Len(Stack)
  PROVE  Stack[k] \in Underway(Stack[k].via)
<1>1. \/ k \in 1 .. Len(parked) /\ Stack[k] = parked[k]
      \/ k - Len(parked) \in 1 .. Len(frames) /\ Stack[k] = frames[k - Len(parked)]
  BY StackIs
<1>2. DOMAIN parked = 1 .. Len(parked) /\ DOMAIN frames = 1 .. Len(frames)
  BY DEF ServiceType
<1>3. Stack[k] \in {frames[i] : i \in DOMAIN frames} \union {parked[i] : i \in DOMAIN parked}
  BY <1>1, <1>2
<1> QED
  BY <1>3 DEF Underway

LEMMA IntrInvImplies ==
  ASSUME IntrInv
  PROVE  ServiceEnds
<1>1. ServiceType /\ InvService
  BY DEF IntrInv
<1>2. ASSUME NEW s \in isr PROVE \E f \in Underway("pic") : s \in Serving(f.vector - PIC_VECT_BASE)
  <2>1. s \in OnMaster(isr) \/ s \in OnSlave(isr)
    BY DEF OnMaster, OnSlave
  <2>2. PICK k \in 1 .. Len(Stack) : s \in MasterOf(Stack[k]) \/ s \in SlaveOf(Stack[k])
    BY <1>1, <2>1 DEF InvService, Sound, Covered, MasterClaims, SlaveClaims
  <2>3. Stack[k].via = "pic" /\ s \in Claims(Stack[k])
    BY <2>2 DEF MasterOf, SlaveOf, OnMaster, OnSlave
  <2>4. s \in Serving(Stack[k].vector - PIC_VECT_BASE)
    BY <2>3 DEF Claims, IrqOfVector
  <2> QED
    BY <1>1, <2>3, <2>4, UnderwayIs
<1>3. ASSUME NEW v \in lapic_isr PROVE \E f \in Underway("apic") : v = f.vector
  <2>1. -v \in Local
    BY DEF Local
  <2>2. PICK k \in 1 .. Len(Stack) : -v \in LocalOf(Stack[k])
    BY <1>1, <2>1 DEF InvService, Sound, Covered, LocalClaims
  <2>3. Stack[k].via = "apic" /\ -v = -Stack[k].vector
    BY <2>2 DEF LocalOf
  <2>4. Stack[k] \in Frame
    BY <1>1, StackIs
  <2>5. v \in Nat /\ Stack[k].vector \in Nat
    BY <1>1, <2>4 DEF ServiceType, Frame
  <2>6. v = Stack[k].vector
    BY <2>3, <2>5
  <2> QED
    BY <1>1, <2>3, <2>6, UnderwayIs
<1> QED
  BY <1>2, <1>3 DEF ServiceEnds

(* Whatever a controller has in service is there for a handler that has    *)
(* still to end, under way or parked with the task it interrupted, so the  *)
(* acknowledgements leave no line shut off for good: as long as the lines  *)
(* of the I/O APICs keep clear of the local APIC's own vector, and those   *)
(* that entries of other buses get are of lines (pic_eoi(), apic_eoi(),    *)
(* pic_handler_stub() and task_switch()).                                  *)
THEOREM ServiceEndsHolds == IntrSpec /\ []FewLines /\ []OtherBuses => []ServiceEnds
<1>1. IntrInit => IntrInv
  BY IntrStarts
<1>2. IntrInv /\ FewLines /\ OtherBuses /\ [IntrNext]_intrVars => IntrInv'
  BY IntrSteps
<1>3. IntrInv => ServiceEnds
  BY IntrInvImplies
<1> QED
  BY <1>1, <1>2, <1>3, PTL DEF IntrSpec

-----------------------------------------------------------------------------
(* The lines of the devices: masked as the drivers left them, whichever    *)
(* controller they arrive at.                                              *)

\* The IRQs drivers ask for, and those whose line is known.
Asked == UNION {irqOf[d] : d \in Handler}
Told == Irqs \ ({Cascade} \union Astray)
\* The GSI that the entries before place p give an IRQ: the last of them for it does.
Names(e, irq) == (e.type = "override" \/ (e.type = "irq" /\ e.isa)) /\ e.irq = irq
GsiOf(e) == IF e.type = "override" THEN e.gsi ELSE ioapic_info[e.dest].base + e.intin
EntriesBefore(p) == {k \in DOMAIN machine.entries : k < p}
Unnamed(irq, p) == \A k \in EntriesBefore(p) : ~Names(machine.entries[k], irq)
LastNaming(irq, p) ==
  {k \in EntriesBefore(p) : /\ Names(machine.entries[k], irq)
                            /\ \A j \in EntriesBefore(p) : k < j => ~Names(machine.entries[j], irq)}
Said(irq, p, gsi) ==
  \/ gsi = irq /\ Unnamed(irq, p)
  \/ \E k \in LastNaming(irq, p) : gsi = GsiOf(machine.entries[k])
AllEntries == Len(machine.entries) + 1
\* The line of IRQ irq is at the GSI it is told to be at, and is no other's.
Known(irq, gsi) ==
  /\ irq \in Told => gsi = machine.wire[irq]
  /\ \A other \in Told \ {irq} : machine.wire[other] # gsi
\* The firmware tells the truth of the lines that drivers ask for: each is at an
\* input of an I/O APIC, which is the one looked in for its GSI, and no other
\* device is wired to it; the third input, in the default configuration, is the timer's.
\* A line that an entry of another bus is for is none of an IRQ's.
Apart(e) ==
  e.type = "irq" /\ ~e.isa => \A irq \in Told : machine.wire[irq] # ioapic_info[e.dest].base + e.intin
Wired ==
  at \in Redirected =>
    /\ \A k \in DOMAIN machine.entries : Apart(machine.entries[k])
    /\ \A irq \in Told : Owner(machine.wire[irq]) # 0
    /\ \A irq \in Told \intersect Asked : Reached(machine.wire[irq]) = Owner(machine.wire[irq])
    /\ \A irq \in Asked : Unnamed(irq, AllEntries) => Known(irq, irq)
    /\ \A irq \in Asked : \A k \in LastNaming(irq, AllEntries) : Known(irq, GsiOf(machine.entries[k]))
    /\ machine.kind = "default" => \A irq \in Told : machine.wire[irq] # 2

\* The lines of the PIC are masked but for those that drivers have opened.
InvOpen ==
  /\ open \subseteq Asked
  /\ at \notin {"enable", "done"} => imr \ {Cascade} = Irqs \ ({Cascade} \union open)
  /\ at = "boot" => open = {} /\ pic_handlers = <<>> /\ reg = None
  /\ at = "failed" => held = {}
\* An entry with a handler is for an IRQ its driver asks for.
HandlerEntry == [irq : Irqs, handler : Handler \union {None}]
InvTable ==
  /\ pic_handlers \in Seq(HandlerEntry)
  /\ \A k \in DOMAIN pic_handlers : pic_handlers[k].handler # None => pic_handlers[k].irq \in Asked
  /\ reg # None =>
       /\ reg.irq \in Asked /\ reg.driver \in Handler
       /\ reg.step = "handler" /\ reg.slot \in DOMAIN pic_handlers => pic_handlers[reg.slot].irq = reg.irq
\* The GSIs, while the entries are gone through and after.
InvGsis ==
  /\ DOMAIN ioapic_irq_gsi = Irqs
  /\ at \notin Redirected => \A irq \in Irqs : ioapic_irq_gsi[irq] = irq
  /\ at \in {"entries", "adapt"} => pos \in Nat \ {0}
  /\ at = "entries" => \A irq \in Irqs : Said(irq, pos, ioapic_irq_gsi[irq])
  /\ at \in Redirected \ {"entries"} => \A irq \in Asked : Known(irq, ioapic_irq_gsi[irq])
\* A line is opened when apic_init() comes to a handler for it.
AdaptedTo(irq) == \E k \in DOMAIN pic_handlers : k < pos /\ Handles(pic_handlers[k], irq)
Shown(irq) ==
  CASE at = "entries" -> FALSE
    [] at = "adapt" -> irq \in open /\ AdaptedTo(irq)
    [] at \in {"mask", "enable"} -> irq \in open /\ pic_is_handled(irq)
    [] OTHER -> irq \in open
RightLine(l, gsi, opened) == l.mode = "fixed" => l.vect = IOAPIC_HANDLER_VECT_BASE + gsi /\ (l.masked <=> ~opened)
WireLine(irq) == LineOf(machine.wire[irq])
InvLines ==
  at \in Redirected => \A irq \in Told : Owner(machine.wire[irq]) # 0 => RightLine(WireLine(irq), machine.wire[irq], Shown(irq))
LinesInv == InvOpen /\ InvTable /\ InvGsis /\ InvLines

-----------------------------------------------------------------------------
(* What is known of one line.                                              *)

LEMMA LineAt ==
  ASSUME InvInfo, NEW t, LinesOf(t), NEW gsi, Owner(gsi) # 0, NEW i, i = Owner(gsi),
         NEW n, n = gsi - ioapic_info[i].base
  PROVE  /\ i \in DOMAIN t /\ n \in DOMAIN t[i] /\ t[i][n] \in LineType
         /\ i \in Nat \ {0} /\ n \in Nat /\ gsi \in Int
         /\ ioapic_info[i].base \in Nat /\ gsi = ioapic_info[i].base + n
<1>1. i \in DOMAIN ioapic_info /\ gsi \in Int /\ gsi - ioapic_info[i].base \in 0..ioapic_info[i].inputs - 1
  BY OwnerIs
<1>2. ioapic_info[i].base \in Nat /\ ioapic_info[i].inputs \in Nat
  BY <1>1, InfoAt
<1>3. i \in DOMAIN t /\ t[i] \in [0..ioapic_info[i].inputs - 1 -> LineType]
  BY <1>1 DEF LinesOf
<1>4. i \in Nat \ {0}
  BY <1>1 DEF InvInfo
<1>5. PICK b \in Nat, m \in Nat : b = ioapic_info[i].base /\ m = ioapic_info[i].inputs
  BY <1>2
<1>6. n = gsi - b /\ n \in 0..m - 1
  BY <1>1, <1>5
<1>7. n \in Nat /\ gsi = b + n
  BY <1>1, <1>5, <1>6
<1>8. n \in DOMAIN t[i] /\ t[i][n] \in LineType
  BY <1>3, <1>5, <1>6
<1> QED
  BY <1>1, <1>2, <1>3, <1>4, <1>5, <1>7, <1>8

\* A GSI that an I/O APIC is found for is a number.
LEMMA ReachedInt ==
  ASSUME InvInfo, NEW gsi, Reached(gsi) # 0
  PROVE  gsi \in Int
<1>1. PICK i : i = Reached(gsi)
  OBVIOUS
<1>2. PICK S : S = {k \in DOMAIN ioapic_info : Reaches(k, gsi)}
  OBVIOUS
<1>3. S \subseteq Nat
  BY <1>2 DEF InvInfo
<1>4. i = FirstOf(S) /\ i # 0
  BY <1>1, <1>2 DEF Reached
<1>5. S # {}
  BY <1>4 DEF FirstOf
<1>6. i \in S
  BY <1>3, <1>4, <1>5, FirstIn
<1>7. gsi \in ioapic_info[i].base..ioapic_info[i].base + ioapic_info[i].inputs
  BY <1>2, <1>6 DEF Reaches
<1>8. ioapic_info[i].base \in Nat /\ ioapic_info[i].inputs \in Nat
  BY <1>2, <1>6, InfoAt
<1> QED
  BY <1>7, <1>8

LEMMA LineIs ==
  ASSUME InvInfo, LinesOf(redtbl), NEW gsi, Owner(gsi) # 0, NEW i, i = Owner(gsi),
         NEW n, n = gsi - ioapic_info[i].base
  PROVE  LineOf(gsi) = redtbl[i][n]
  BY LineAt DEF LineOf

\* The same after a step that leaves the I/O APICs as they are.
LEMMA OwnerStays ==
  ASSUME UNCHANGED ioapic_info, NEW gsi
  PROVE  Owner(gsi)' = Owner(gsi) /\ Reached(gsi)' = Reached(gsi)
  BY DEF Owner, Reached, Owns, Reaches

LEMMA LineIsThen ==
  ASSUME InvInfo, NEW t, LinesOf(t), redtbl' = t, UNCHANGED ioapic_info, NEW gsi, Owner(gsi) # 0,
         NEW i, i = Owner(gsi), NEW n, n = gsi - ioapic_info[i].base
  PROVE  LineOf(gsi)' = t[i][n]
<1>1. i \in DOMAIN t
  BY LineAt
<1>2. Owner(gsi)' = i
  BY OwnerStays
<1>3. LineOf(gsi)' = IF i \notin DOMAIN redtbl' THEN Line(0, TRUE, "fixed") ELSE redtbl'[i][gsi - ioapic_info'[i].base]
  BY <1>2 DEF LineOf
<1> QED
  BY <1>1, <1>3

\* A line r that differs from l in its mask alone.
MaskOf(r, l, m) == r.mode = l.mode /\ r.vect = l.vect /\ (r.masked <=> m)

LEMMA MaskedAlone ==
  ASSUME NEW l \in LineType, NEW b \in BOOLEAN, NEW r, r = [l EXCEPT !.masked = b]
  PROVE  MaskOf(r, l, b)
  BY DEF LineType, MaskOf

LEMMA MaskedLine ==
  ASSUME InvInfo, LinesOf(redtbl), NEW w, Owner(w) # 0, NEW gsi, NEW b \in BOOLEAN,
         redtbl' = Masked(redtbl, gsi, b), UNCHANGED ioapic_info
  PROVE  /\ gsi # w => LineOf(w)' = LineOf(w)
         /\ gsi = w /\ Reached(w) = Owner(w) => MaskOf(LineOf(w)', LineOf(w), b)
<1>1. PICK j : j = Owner(w)
  OBVIOUS
<1>2. PICK m : m = w - ioapic_info[j].base
  OBVIOUS
<1>3. PICK t : t = Masked(redtbl, gsi, b)
  OBVIOUS
<1>4. LinesOf(t)
  BY <1>3, LinesMasked
<1>5. LineOf(w) = redtbl[j][m] /\ LineOf(w)' = t[j][m]
  BY <1>1, <1>2, <1>3, <1>4, LineIs, LineIsThen
<1>6. /\ j \in DOMAIN redtbl /\ m \in DOMAIN redtbl[j] /\ redtbl[j][m] \in LineType
      /\ j \in Nat \ {0} /\ m \in Nat /\ w \in Int /\ w = ioapic_info[j].base + m /\ ioapic_info[j].base \in Nat
  BY <1>1, <1>2, LineAt
<1>7. CASE Reached(gsi) = 0
  <2>1. t = redtbl
    BY <1>3, <1>7 DEF Masked
  <2> QED
    BY <1>1, <1>5, <1>6, <1>7, <2>1
<1>8. CASE Reached(gsi) # 0
  <2>1. PICK i : i = Reached(gsi)
    OBVIOUS
  <2>2. PICK n : n = gsi - ioapic_info[i].base
    OBVIOUS
  <2>3. t = SetMask(redtbl, i, n, b)
    BY <1>3, <1>8, <2>1, <2>2 DEF Masked
  <2>4. CASE n \notin DOMAIN redtbl[i]
    <3>1. t = redtbl
      BY <2>3, <2>4 DEF SetMask
    <3>2. ~(gsi = w /\ Reached(w) = Owner(w))
      BY <1>1, <1>2, <1>6, <2>1, <2>2, <2>4
    <3> QED
      BY <1>5, <3>1, <3>2
  <2>5. CASE n \in DOMAIN redtbl[i]
    <3>1. i \in DOMAIN redtbl /\ ioapic_info[i].base \in Nat
      BY <1>8, <2>1, ReachedIs, InfoAt DEF LinesOf
    <3>2. redtbl[i] \in [0..ioapic_info[i].inputs - 1 -> LineType]
      BY <3>1 DEF LinesOf
    <3>3. redtbl[i][n] \in LineType
      BY <2>5, <3>2
    <3>4. PICK r : r = [redtbl[i][n] EXCEPT !.masked = b]
      OBVIOUS
    <3>5. t = [redtbl EXCEPT ![i][n] = r]
      BY <2>3, <2>5, <3>4 DEF SetMask
    <3>6. MaskOf(r, redtbl[i][n], b)
      BY <3>3, <3>4, MaskedAlone
    <3>7. CASE i = j /\ n = m
      <4>1. t[j][m] = r
        BY <1>6, <3>5, <3>7
      <4>2. gsi \in Int
        BY <1>8, ReachedInt
      <4>3. gsi = w
        BY <1>2, <1>6, <2>2, <3>1, <3>7, <4>2
      <4> QED
        BY <1>5, <3>6, <3>7, <4>1, <4>3
    <3>8. CASE ~(i = j /\ n = m)
      <4>1. t[j][m] = redtbl[j][m]
        BY <1>6, <3>1, <3>5, <3>8
      <4>2. ~(gsi = w /\ Reached(w) = Owner(w))
        BY <1>1, <1>2, <2>1, <2>2, <3>8
      <4> QED
        BY <1>5, <4>1, <4>2
    <3> QED
      BY <3>7, <3>8
  <2> QED
    BY <2>4, <2>5
<1> QED
  BY <1>7, <1>8

\* The lines of several IRQs at once: that of a GSI is among them when one of them has it.
LEMMA EachLine ==
  ASSUME InvInfo, LinesOf(redtbl), NEW w, Owner(w) # 0, NEW irqs, NEW b \in BOOLEAN,
         redtbl' = EachGsi(irqs, b), UNCHANGED ioapic_info
  PROVE  /\ (\A irq \in irqs : ioapic_irq_gsi[irq] # w) => LineOf(w)' = LineOf(w)
         /\ \/ LineOf(w)' = LineOf(w)
            \/ MaskOf(LineOf(w)', LineOf(w), b)
         /\ (\E irq \in irqs : ioapic_irq_gsi[irq] = w) /\ Reached(w) = Owner(w) => MaskOf(LineOf(w)', LineOf(w), b)
<1>1. PICK j : j = Owner(w)
  OBVIOUS
<1>2. PICK m : m = w - ioapic_info[j].base
  OBVIOUS
<1>3. PICK t : t = EachGsi(irqs, b)
  OBVIOUS
<1>4. LinesOf(t)
  BY <1>3, LinesEach
<1>5. LineOf(w) = redtbl[j][m] /\ LineOf(w)' = t[j][m]
  BY <1>1, <1>2, <1>3, <1>4, LineIs, LineIsThen
<1>6. /\ j \in DOMAIN redtbl /\ m \in DOMAIN redtbl[j] /\ redtbl[j][m] \in LineType
      /\ j \in Nat \ {0} /\ m \in Nat /\ w \in Int /\ w = ioapic_info[j].base + m /\ ioapic_info[j].base \in Nat
  BY <1>1, <1>2, LineAt
<1>7. t[j][m] = IF <<j, m>> \in Led(irqs) THEN [redtbl[j][m] EXCEPT !.masked = b] ELSE redtbl[j][m]
  BY <1>3, <1>6 DEF EachGsi
<1>8. PICK r : r = [redtbl[j][m] EXCEPT !.masked = b]
  OBVIOUS
<1>9. MaskOf(r, redtbl[j][m], b)
  BY <1>6, <1>8, MaskedAlone
<1>10. ASSUME <<j, m>> \in Led(irqs) PROVE \E irq \in irqs : ioapic_irq_gsi[irq] = w
  <2>1. PICK g \in {ioapic_irq_gsi[irq] : irq \in irqs} : Reached(g) # 0 /\ j = Reached(g) /\ m = g - ioapic_info[Reached(g)].base
    BY <1>10 DEF Led
  <2>2. PICK irq \in irqs : g = ioapic_irq_gsi[irq]
    BY <2>1
  <2>3. g \in Int
    BY <2>1, ReachedInt
  <2>4. g = w
    BY <1>6, <2>1, <2>3
  <2> QED
    BY <2>2, <2>4
<1>11. ASSUME NEW irq \in irqs, ioapic_irq_gsi[irq] = w, Reached(w) = Owner(w) PROVE <<j, m>> \in Led(irqs)
  <2>1. w \in {g \in {ioapic_irq_gsi[q] : q \in irqs} : Reached(g) # 0}
    BY <1>1, <1>6, <1>11
  <2>2. <<j, m>> = <<Reached(w), w - ioapic_info[Reached(w)].base>>
    BY <1>1, <1>2, <1>11
  <2> QED
    BY <2>1, <2>2 DEF Led
<1>12. CASE <<j, m>> \in Led(irqs)
  <2>1. LineOf(w)' = r
    BY <1>5, <1>7, <1>8, <1>12
  <2> QED
    BY <1>5, <1>9, <1>10, <1>12, <2>1
<1>13. CASE <<j, m>> \notin Led(irqs)
  <2>1. LineOf(w)' = LineOf(w)
    BY <1>5, <1>7, <1>13
  <2> QED
    BY <1>11, <1>13, <2>1
<1> QED
  BY <1>12, <1>13

\* The masks as they are read.
LEMMA MaskRead ==
  ASSUME InvInfo, LinesOf(redtbl), NEW w, Owner(w) # 0, Reached(w) = Owner(w)
  PROVE  ioapic_get_mask(w) <=> LineOf(w).masked
<1>1. PICK j : j = Owner(w)
  OBVIOUS
<1>2. PICK m : m = w - ioapic_info[j].base
  OBVIOUS
<1>3. LineOf(w) = redtbl[j][m] /\ m \in DOMAIN redtbl[j] /\ j # 0
  BY <1>1, <1>2, LineIs, LineAt
<1> QED
  BY <1>1, <1>2, <1>3 DEF ioapic_get_mask

\* What is right stays so when the line and what is asked of it change together.
LEMMA RightMask ==
  ASSUME NEW l, NEW r, NEW gsi, NEW b \in BOOLEAN, NEW opened, RightLine(l, gsi, opened), MaskOf(r, l, b)
  PROVE  RightLine(r, gsi, ~b)
  BY DEF RightLine, MaskOf

-----------------------------------------------------------------------------
(* Steps that leave the lines alone, and the calls of the drivers.         *)

LEMMA LineSame ==
  ASSUME UNCHANGED <<ioapic_info, redtbl>>, NEW gsi
  PROVE  LineOf(gsi)' = LineOf(gsi)
<1>1. Owner(gsi)' = Owner(gsi)
  BY OwnerStays
<1> QED
  BY <1>1 DEF LineOf

LEMMA LinesSame ==
  ASSUME InvLines, UNCHANGED <<machine, ioapic_info, redtbl>>,
         at' \in Redirected => at \in Redirected /\ \A irq \in Told : Shown(irq)' <=> Shown(irq)
  PROVE  InvLines'
<1> SUFFICES ASSUME at' \in Redirected, NEW irq \in Told, Owner(machine.wire[irq])' # 0
             PROVE  RightLine(WireLine(irq)', machine.wire[irq], Shown(irq)')
  BY DEF InvLines, Told, Astray, RightLine
<1>1. PICK w : w = machine.wire[irq]
  OBVIOUS
<1>2. machine'.wire[irq] = w
  BY <1>1
<1>3. Owner(w)' = Owner(w) /\ LineOf(w)' = LineOf(w)
  BY OwnerStays, LineSame
<1>4. Owner(machine.wire[irq])' = Owner(w)'
  BY <1>2
<1>5. WireLine(irq)' = LineOf(w)' /\ WireLine(irq) = LineOf(w)
  BY <1>1, <1>2 DEF WireLine
<1>6. RightLine(LineOf(w), w, Shown(irq))
  BY <1>1, <1>3, <1>4, <1>5 DEF InvLines
<1> QED
  BY <1>1, <1>3, <1>5, <1>6 DEF RightLine

LEMMA GsisSame ==
  ASSUME InvGsis, UNCHANGED <<machine, at, pos, ioapic_info, ioapic_irq_gsi>>
  PROVE  InvGsis'
  BY DEF InvGsis, Known, Said, Told, Astray, LastNaming, Unnamed, GsiOf, EntriesBefore

\* No interrupt touches a mask.
LEMMA LinesStay ==
  ASSUME LinesInv, UNCHANGED <<initVars, picVars, ioapicVars, opVars>>
  PROVE  LinesInv'
<1> USE DEF initVars, picVars, ioapicVars, opVars
<1>1. InvOpen' /\ InvTable'
  BY DEF LinesInv, InvOpen, InvTable
<1>2. InvGsis'
  BY GsisSame DEF LinesInv
<1>3. \A irq : Shown(irq)' <=> Shown(irq)
  BY DEF Shown, AdaptedTo, pic_is_handled
<1>4. InvLines'
  BY <1>3, LinesSame DEF LinesInv
<1> QED
  BY <1>1, <1>2, <1>4 DEF LinesInv

LEMMA InterruptStays ==
  ASSUME LinesInv, Interrupt
  PROVE  LinesInv'
<1>1. UNCHANGED <<initVars, picVars, ioapicVars, opVars>>
  BY DEF Interrupt, RaisePic, RaiseSpurious, RaiseApic, HandleTop, EndTop, YieldTask, interruptRest, handlerRest
<1> QED
  BY <1>1, LinesStay

\* Where drivers call, the entries of the table of handlers show in no line.
LEMMA CallPlace ==
  ASSUME IntrInv, Calls
  PROVE  /\ at \notin {"boot", "entries", "adapt", "mask", "enable"}
         /\ apic_enabled <=> at = "done"
         /\ at = "done" => at \in Redirected /\ LinesOf(redtbl) /\ InvInfo
         /\ at # "done" => at \notin Redirected
         /\ \A irq : Shown(irq) <=> irq \in open
  BY DEF IntrInv, InvPlace, InvGates, Calls, Redirected, Shown

\* A call that leaves the masks alone.
LEMMA TableCall ==
  ASSUME IntrInv, LinesInv, Calls, UNCHANGED <<initVars, imr, redtbl, ioapic_irq_gsi, ioapic_info, open>>, InvTable'
  PROVE  LinesInv'
<1> USE DEF initVars
<1>1. at \notin {"boot", "entries", "adapt", "mask", "enable"} /\ at' = at
  BY CallPlace
<1>2. InvOpen'
  BY <1>1 DEF LinesInv, InvOpen
<1>3. InvGsis'
  BY GsisSame DEF LinesInv
<1>4. \A irq : Shown(irq)' <=> Shown(irq)
  BY <1>1 DEF Shown
<1>5. at' \in Redirected => at \in Redirected
  BY <1>1
<1>6. InvLines'
  BY <1>4, <1>5, LinesSame DEF LinesInv
<1> QED
  BY <1>2, <1>3, <1>6 DEF LinesInv

LEMMA EntryAt ==
  ASSUME InvTable, NEW k \in DOMAIN pic_handlers
  PROVE  pic_handlers[k] \in HandlerEntry /\ pic_handlers[k].irq \in Irqs /\ pic_handlers[k].handler \in Handler \union {None}
<1>1. PICK t : t = pic_handlers
  OBVIOUS
<1>2. t[k] \in HandlerEntry
  <2>1. t \in Seq(HandlerEntry) /\ k \in DOMAIN t
    BY <1>1 DEF InvTable
  <2> HIDE DEF HandlerEntry
  <2> QED
    BY <2>1
<1> QED
  BY <1>1, <1>2 DEF HandlerEntry

\* A table of which one entry is replaced.
LEMMA EntrySets ==
  ASSUME InvTable, NEW k, NEW e \in HandlerEntry, NEW u, u = [pic_handlers EXCEPT ![k] = e]
  PROVE  /\ u \in Seq(HandlerEntry) /\ DOMAIN u = DOMAIN pic_handlers
         /\ \A j \in DOMAIN u : u[j] = IF j = k THEN e ELSE pic_handlers[j]
<1>1. PICK S : S = HandlerEntry
  OBVIOUS
<1>2. PICK t : t = pic_handlers
  OBVIOUS
<1>3. t \in Seq(S) /\ e \in S
  BY <1>1, <1>2 DEF InvTable
<1>4. u = [t EXCEPT ![k] = e]
  BY <1>2
<1>5. DOMAIN u = DOMAIN t /\ \A j \in DOMAIN u : u[j] = IF j = k THEN e ELSE t[j]
  BY <1>4
<1>6. CASE k \in 1..Len(t)
  <2>1. [t EXCEPT ![k] = e] \in Seq(S)
    BY <1>3, <1>6
  <2> QED
    BY <1>1, <1>2, <1>4, <1>5, <2>1
<1>7. CASE k \notin 1..Len(t)
  <2>1. u = t
    BY <1>3, <1>4, <1>7
  <2> QED
    BY <1>1, <1>2, <1>3, <1>5, <2>1
<1> QED
  BY <1>6, <1>7

LEMMA AskedIn ==
  ASSUME NEW d \in Handler, NEW irq \in irqOf[d]
  PROVE  irq \in Asked /\ irq \in Irqs
  BY LineAssumption DEF Asked

LEMMA HandleIrqTable ==
  ASSUME LinesInv, NEW d \in Handler, NEW irq \in irqOf[d], HandleIrq(d, irq)
  PROVE  InvTable'
<1>1. InvTable /\ irq \in Asked /\ irq \in Irqs
  BY AskedIn DEF LinesInv
<1>2. PICK k : k = FreeSlot(pic_handlers)
  OBVIOUS
<1>3. pic_handlers' = [pic_handlers EXCEPT ![k].irq = irq] /\ reg' = [driver |-> d, irq |-> irq, slot |-> k, step |-> "handler"]
  BY <1>2 DEF HandleIrq
<1>4. CASE k \notin DOMAIN pic_handlers
  <2>1. pic_handlers' = pic_handlers
    BY <1>1, <1>3, <1>4 DEF InvTable
  <2>2. reg'.irq = irq /\ reg'.driver = d /\ reg'.slot = k
    BY <1>3
  <2> QED
    BY <1>1, <1>4, <2>1, <2>2 DEF InvTable
<1>5. CASE k \in DOMAIN pic_handlers
  <2>1. PICK e : e = [pic_handlers[k] EXCEPT !.irq = irq]
    OBVIOUS
  <2>2. pic_handlers[k] \in HandlerEntry
    BY <1>1, <1>5, EntryAt
  <2>3. e \in HandlerEntry /\ e.irq = irq
    BY <1>1, <2>1, <2>2 DEF HandlerEntry
  <2>4. PICK u : u = [pic_handlers EXCEPT ![k] = e]
    OBVIOUS
  <2>5. pic_handlers' = u
    BY <1>3, <2>1, <2>4
  <2>6. /\ u \in Seq(HandlerEntry) /\ DOMAIN u = DOMAIN pic_handlers
        /\ \A j \in DOMAIN u : u[j] = IF j = k THEN e ELSE pic_handlers[j]
    BY <1>1, <2>3, <2>4, EntrySets
  <2>7. reg'.irq = irq /\ reg'.driver = d /\ reg'.slot = k
    BY <1>3
  <2> QED
    BY <1>1, <1>5, <2>3, <2>5, <2>6, <2>7 DEF InvTable
<1> QED
  BY <1>4, <1>5

LEMMA HandleHandlerTable ==
  ASSUME LinesInv, HandleHandler
  PROVE  InvTable'
<1>1. InvTable /\ reg # None /\ reg.step = "handler" /\ reg.irq \in Asked /\ reg.driver \in Handler
  BY DEF LinesInv, InvTable, HandleHandler
<1>2. PICK k : k = reg.slot
  OBVIOUS
<1>3. PICK d \in Handler : d = reg.driver
  BY <1>1
<1>4. pic_handlers' = [pic_handlers EXCEPT ![k].handler = d]
  BY <1>2, <1>3 DEF HandleHandler, Registered
<1>5. reg' = None \/ (reg' # None => reg'.irq = reg.irq /\ reg'.driver = reg.driver /\ reg'.step # "handler")
  <2>1. CASE apic_enabled
    <3>1. PICK r : r = reg
      OBVIOUS
    <3>2. reg' = [r EXCEPT !.step = "adapter"]
      BY <2>1, <3>1 DEF HandleHandler
    <3>3. "step" \in DOMAIN r => reg'.step = "adapter"
      BY <3>2
    <3> QED
      BY <3>1, <3>2, <3>3
  <2>2. CASE ~apic_enabled
    BY <2>2 DEF HandleHandler
  <2> QED
    BY <2>1, <2>2
<1>6. CASE k \notin DOMAIN pic_handlers
  <2>1. pic_handlers' = pic_handlers
    BY <1>1, <1>4, <1>6 DEF InvTable
  <2> QED
    BY <1>1, <1>5, <2>1 DEF InvTable
<1>7. CASE k \in DOMAIN pic_handlers
  <2>1. PICK e : e = [pic_handlers[k] EXCEPT !.handler = d]
    OBVIOUS
  <2>2. pic_handlers[k] \in HandlerEntry
    BY <1>1, <1>7, EntryAt
  <2>3. e \in HandlerEntry /\ e.irq = pic_handlers[k].irq
    BY <1>3, <2>1, <2>2 DEF HandlerEntry
  <2>4. pic_handlers[k].irq = reg.irq
    BY <1>1, <1>2, <1>7 DEF InvTable
  <2>5. PICK u : u = [pic_handlers EXCEPT ![k] = e]
    OBVIOUS
  <2>6. pic_handlers' = u
    BY <1>4, <2>1, <2>5
  <2>7. /\ u \in Seq(HandlerEntry) /\ DOMAIN u = DOMAIN pic_handlers
        /\ \A j \in DOMAIN u : u[j] = IF j = k THEN e ELSE pic_handlers[j]
    BY <1>1, <2>3, <2>5, EntrySets
  <2> QED
    BY <1>1, <1>5, <1>7, <2>3, <2>4, <2>6, <2>7 DEF InvTable
<1> QED
  BY <1>6, <1>7

LEMMA UnhandleTable ==
  ASSUME LinesInv, NEW d \in Handler, pic_unhandle(d)
  PROVE  InvTable'
<1>1. InvTable /\ reg' = None
  BY DEF LinesInv, pic_unhandle
<1>2. PICK k : k = bound[d].id
  OBVIOUS
<1>3. pic_handlers' = [pic_handlers EXCEPT ![k].handler = None]
  BY <1>2 DEF pic_unhandle
<1>4. CASE k \notin DOMAIN pic_handlers
  <2>1. pic_handlers' = pic_handlers
    BY <1>1, <1>3, <1>4 DEF InvTable
  <2> QED
    BY <1>1, <2>1 DEF InvTable
<1>5. CASE k \in DOMAIN pic_handlers
  <2>1. PICK e : e = [pic_handlers[k] EXCEPT !.handler = None]
    OBVIOUS
  <2>2. pic_handlers[k] \in HandlerEntry
    BY <1>1, <1>5, EntryAt
  <2>3. e \in HandlerEntry /\ e.handler = None
    BY <2>1, <2>2 DEF HandlerEntry
  <2>4. PICK u : u = [pic_handlers EXCEPT ![k] = e]
    OBVIOUS
  <2>5. pic_handlers' = u
    BY <1>3, <2>1, <2>4
  <2>6. /\ u \in Seq(HandlerEntry) /\ DOMAIN u = DOMAIN pic_handlers
        /\ \A j \in DOMAIN u : u[j] = IF j = k THEN e ELSE pic_handlers[j]
    BY <1>1, <2>3, <2>4, EntrySets
  <2> QED
    BY <1>1, <2>3, <2>5, <2>6 DEF InvTable
<1> QED
  BY <1>4, <1>5

\* What a call that masks or opens lines leaves to show.
LEMMA MaskCall ==
  ASSUME IntrInv, LinesInv, Masking, UNCHANGED maskRest, open' \subseteq Asked,
         at # "done" => imr' \ {Cascade} = Irqs \ ({Cascade} \union open'),
         at = "done" => \A irq \in Told : Owner(machine.wire[irq]) # 0 =>
                          RightLine(LineOf(machine.wire[irq])', machine.wire[irq], irq \in open')
  PROVE  LinesInv'
<1> USE DEF maskRest, initVars
<1>1. Calls
  BY DEF Masking
<1>2. at \notin {"boot", "entries", "adapt", "mask", "enable"} /\ at' = at /\ (at # "done" => at \notin Redirected)
  BY <1>1, CallPlace
<1>3. InvOpen' /\ InvTable'
  BY <1>2 DEF LinesInv, InvOpen, InvTable
<1>4. InvGsis'
  BY GsisSame DEF LinesInv
<1>5. \A irq : Shown(irq)' <=> irq \in open'
  BY <1>2 DEF Shown
<1>6. InvLines'
  <2> SUFFICES ASSUME at' \in Redirected, NEW irq \in Told, Owner(machine.wire[irq])' # 0
               PROVE  RightLine(WireLine(irq)', machine.wire[irq], Shown(irq)')
    BY DEF InvLines, Told, Astray, RightLine
  <2>1. PICK w : w = machine.wire[irq]
    OBVIOUS
  <2>2. machine'.wire[irq] = w
    BY <2>1
  <2>3. Owner(machine.wire[irq])' = Owner(w)' /\ Owner(w)' = Owner(w)
    BY <2>2, OwnerStays
  <2>4. WireLine(irq)' = LineOf(w)'
    BY <2>2 DEF WireLine
  <2>5. RightLine(LineOf(w)', w, irq \in open')
    <3>1. at = "done"
      BY <1>2
    <3> QED
      BY <2>1, <2>3, <3>1
  <2> QED
    BY <1>5, <2>1, <2>4, <2>5 DEF RightLine
<1> QED
  BY <1>3, <1>4, <1>6 DEF LinesInv

\* Once the switch is done, the line that an IRQ asked for has is its own.
LEMMA DoneLine ==
  ASSUME IntrInv, LinesInv, at = "done", NEW irq \in Told, NEW w, w = machine.wire[irq], Owner(w) # 0
  PROVE  /\ RightLine(LineOf(w), w, irq \in open) /\ LineOf(w) \in LineType
         /\ \A other \in Asked \ {irq} : ioapic_irq_gsi[other] # w
         /\ irq \in Asked => ioapic_irq_gsi[irq] = w
<1>1. at \in Redirected /\ at \in Redirected \ {"entries"} /\ InvInfo /\ LinesOf(redtbl)
  BY DEF Redirected, IntrInv, InvGates
<1>2. Shown(irq) <=> irq \in open
  BY DEF Shown
<1>3. RightLine(LineOf(w), w, irq \in open)
  BY <1>1, <1>2 DEF LinesInv, InvLines, WireLine, RightLine
<1>4. \A other \in Asked : Known(other, ioapic_irq_gsi[other])
  BY <1>1 DEF LinesInv, InvGsis
<1>5. LineOf(w) \in LineType
  BY <1>1, LineIs, LineAt
<1> QED
  BY <1>3, <1>4, <1>5 DEF Known

LEMMA OneMask ==
  ASSUME IntrInv, LinesInv, Wired, Masking, UNCHANGED maskRest, NEW a \in Asked, NEW b \in BOOLEAN,
         open' = (IF b THEN open \ {a} ELSE open \union {a}),
         apic_enabled => redtbl' = Masked(redtbl, ioapic_irq_gsi[a], b) /\ UNCHANGED imr,
         ~apic_enabled => imr' = (IF b THEN imr \union ({a} \ {Cascade}) ELSE imr \ {a})
  PROVE  LinesInv'
<1>1. Calls /\ a \in Irqs /\ UNCHANGED <<machine, ioapic_info>>
  BY LineAssumption DEF Masking, Asked, maskRest, initVars
<1>2. /\ apic_enabled <=> at = "done"
      /\ at \notin {"boot", "entries", "adapt", "mask", "enable"}
      /\ at = "done" => at \in Redirected /\ LinesOf(redtbl) /\ InvInfo
  BY <1>1, CallPlace
<1>3. open' \subseteq Asked
  BY DEF LinesInv, InvOpen
<1>4. at # "done" => imr' \ {Cascade} = Irqs \ ({Cascade} \union open')
  BY <1>1, <1>2 DEF LinesInv, InvOpen
<1>5. ASSUME at = "done", NEW irq \in Told, Owner(machine.wire[irq]) # 0
      PROVE  RightLine(LineOf(machine.wire[irq])', machine.wire[irq], irq \in open')
  <2>1. PICK w : w = machine.wire[irq]
    OBVIOUS
  <2>2. Owner(w) # 0 /\ LineOf(machine.wire[irq])' = LineOf(w)'
    <3>1. machine'.wire[irq] = w
      BY <1>1, <2>1
    <3> QED
      BY <1>5, <2>1, <3>1
  <2>3. /\ RightLine(LineOf(w), w, irq \in open)
        /\ \A other \in Asked \ {irq} : ioapic_irq_gsi[other] # w
        /\ irq \in Asked => ioapic_irq_gsi[irq] = w
    BY <1>5, <2>1, <2>2, DoneLine
  <2>4. PICK g : g = ioapic_irq_gsi[a]
    OBVIOUS
  <2>5. redtbl' = Masked(redtbl, g, b)
    BY <1>2, <1>5, <2>4
  <2>6. /\ g # w => LineOf(w)' = LineOf(w)
        /\ g = w /\ Reached(w) = Owner(w) => MaskOf(LineOf(w)', LineOf(w), b)
    BY <1>1, <1>2, <1>5, <2>2, <2>5, MaskedLine
  <2>7. CASE a = irq
    <3>1. g = w /\ Reached(w) = Owner(w)
      BY <1>2, <1>5, <2>1, <2>3, <2>4, <2>7 DEF Wired
    <3>2. RightLine(LineOf(w)', w, ~b)
      BY <2>3, <2>6, <3>1, RightMask
    <3>3. (irq \in open') <=> ~b
      BY <2>7
    <3>4. RightLine(LineOf(w)', w, irq \in open')
      BY <3>2, <3>3 DEF RightLine
    <3> QED
      BY <2>1, <2>2, <3>4
  <2>8. CASE a # irq
    <3>1. LineOf(w)' = LineOf(w) /\ (irq \in open' <=> irq \in open)
      BY <2>3, <2>4, <2>6, <2>8
    <3>2. RightLine(LineOf(w)', w, irq \in open')
      BY <2>3, <3>1 DEF RightLine
    <3> QED
      BY <2>1, <2>2, <3>2
  <2> QED
    BY <2>7, <2>8
<1> QED
  BY <1>3, <1>4, <1>5, MaskCall

LEMMA MaskManyKeeps ==
  ASSUME IntrInv, LinesInv, Wired, MaskMany(Irqs)
  PROVE  LinesInv'
<1>1. Masking /\ Calls /\ UNCHANGED maskRest /\ UNCHANGED <<machine, ioapic_info>> /\ open' = open \ Irqs /\ pic_mask_bm(Irqs)
  BY DEF MaskMany, Masking, maskRest, initVars
<1>2. /\ apic_enabled <=> at = "done"
      /\ at \notin {"boot", "entries", "adapt", "mask", "enable"}
      /\ at = "done" => at \in Redirected /\ LinesOf(redtbl) /\ InvInfo
  BY <1>1, CallPlace
<1>3. open' \subseteq Asked /\ open' = {}
  BY <1>1, LineAssumption DEF LinesInv, InvOpen, Asked
<1>4. at # "done" => imr' \ {Cascade} = Irqs \ ({Cascade} \union open')
  BY <1>1, <1>2, <1>3 DEF LinesInv, InvOpen, pic_mask_bm
<1>5. ASSUME at = "done", NEW irq \in Told, Owner(machine.wire[irq]) # 0
      PROVE  RightLine(LineOf(machine.wire[irq])', machine.wire[irq], irq \in open')
  <2>1. PICK w : w = machine.wire[irq]
    OBVIOUS
  <2>2. Owner(w) # 0 /\ LineOf(machine.wire[irq])' = LineOf(w)'
    <3>1. machine'.wire[irq] = w
      BY <1>1, <2>1
    <3> QED
      BY <1>5, <2>1, <3>1
  <2>3. /\ RightLine(LineOf(w), w, irq \in open) /\ LineOf(w) \in LineType
        /\ irq \in Asked => ioapic_irq_gsi[irq] = w
    BY <1>5, <2>1, <2>2, DoneLine
  <2>4. PICK some : some = {q \in Irqs : ~ioapic_get_mask(ioapic_irq_gsi[q])}
    OBVIOUS
  <2>5. redtbl' = EachGsi(some, TRUE)
    BY <1>1, <1>2, <1>5, <2>4 DEF pic_mask_bm
  <2>6. /\ \/ LineOf(w)' = LineOf(w)
           \/ MaskOf(LineOf(w)', LineOf(w), TRUE)
        /\ (\E q \in some : ioapic_irq_gsi[q] = w) /\ Reached(w) = Owner(w) => MaskOf(LineOf(w)', LineOf(w), TRUE)
    BY <1>1, <1>2, <1>5, <2>2, <2>5, EachLine
  <2>7. CASE MaskOf(LineOf(w)', LineOf(w), TRUE)
    <3>1. RightLine(LineOf(w)', w, ~TRUE)
      BY <2>3, <2>7, RightMask
    <3> QED
      BY <1>3, <2>1, <2>2, <3>1 DEF RightLine
  <2>8. CASE ~MaskOf(LineOf(w)', LineOf(w), TRUE)
    <3>1. LineOf(w)' = LineOf(w)
      BY <2>6, <2>8
    <3>2. irq \in open => LineOf(w).masked
      <4> SUFFICES ASSUME irq \in open PROVE LineOf(w).masked
        OBVIOUS
      <4>1. irq \in Asked
        BY DEF LinesInv, InvOpen
      <4>2. Reached(w) = Owner(w) /\ ioapic_irq_gsi[irq] = w
        BY <1>2, <1>5, <2>1, <2>3, <4>1 DEF Wired
      <4>3. irq \notin some
        BY <2>6, <2>8, <4>2
      <4>4. ioapic_get_mask(w)
        BY <2>4, <4>2, <4>3 DEF Told
      <4> QED
        BY <1>2, <1>5, <2>2, <4>2, <4>4, MaskRead
    <3> QED
      BY <1>3, <2>1, <2>2, <2>3, <3>1, <3>2 DEF RightLine
  <2> QED
    BY <2>7, <2>8
<1> QED
  BY <1>1, <1>3, <1>4, <1>5, MaskCall

LEMMA UnmaskManyKeeps ==
  ASSUME IntrInv, LinesInv, Wired, NEW d \in Handler, UnmaskMany(irqOf[d])
  PROVE  LinesInv'
<1>1. /\ Masking /\ Calls /\ UNCHANGED maskRest /\ UNCHANGED <<machine, ioapic_info>>
      /\ open' = open \union irqOf[d] /\ pic_unmask_bm(irqOf[d])
  BY DEF UnmaskMany, Masking, maskRest, initVars
<1>2. /\ apic_enabled <=> at = "done"
      /\ at \notin {"boot", "entries", "adapt", "mask", "enable"}
      /\ at = "done" => at \in Redirected /\ LinesOf(redtbl) /\ InvInfo
  BY <1>1, CallPlace
<1>3. open' \subseteq Asked /\ irqOf[d] \subseteq Asked
  BY <1>1 DEF LinesInv, InvOpen, Asked
<1>4. at # "done" => imr' \ {Cascade} = Irqs \ ({Cascade} \union open')
  BY <1>1, <1>2, <1>3 DEF LinesInv, InvOpen, pic_unmask_bm
<1>5. ASSUME at = "done", NEW irq \in Told, Owner(machine.wire[irq]) # 0
      PROVE  RightLine(LineOf(machine.wire[irq])', machine.wire[irq], irq \in open')
  <2>1. PICK w : w = machine.wire[irq]
    OBVIOUS
  <2>2. Owner(w) # 0 /\ LineOf(machine.wire[irq])' = LineOf(w)'
    <3>1. machine'.wire[irq] = w
      BY <1>1, <2>1
    <3> QED
      BY <1>5, <2>1, <3>1
  <2>3. /\ RightLine(LineOf(w), w, irq \in open) /\ LineOf(w) \in LineType
        /\ \A other \in Asked \ {irq} : ioapic_irq_gsi[other] # w
        /\ irq \in Asked => ioapic_irq_gsi[irq] = w
    BY <1>5, <2>1, <2>2, DoneLine
  <2>4. PICK some : some = {q \in irqOf[d] : ioapic_get_mask(ioapic_irq_gsi[q])}
    OBVIOUS
  <2>5. redtbl' = EachGsi(some, FALSE)
    BY <1>1, <1>2, <1>5, <2>4 DEF pic_unmask_bm
  <2>6. /\ (\A q \in some : ioapic_irq_gsi[q] # w) => LineOf(w)' = LineOf(w)
        /\ (\E q \in some : ioapic_irq_gsi[q] = w) /\ Reached(w) = Owner(w) => MaskOf(LineOf(w)', LineOf(w), FALSE)
    BY <1>1, <1>2, <1>5, <2>2, <2>5, EachLine
  <2>7. \A q \in some : q # irq => ioapic_irq_gsi[q] # w
    BY <1>3, <2>3, <2>4
  <2>8. CASE irq \in some
    <3>1. irq \in Asked /\ irq \in open'
      BY <1>1, <1>3, <2>4, <2>8
    <3>2. Reached(w) = Owner(w) /\ ioapic_irq_gsi[irq] = w
      BY <1>2, <1>5, <2>1, <2>3, <3>1 DEF Wired
    <3>3. MaskOf(LineOf(w)', LineOf(w), FALSE)
      BY <2>6, <2>8, <3>2
    <3>4. RightLine(LineOf(w)', w, ~FALSE)
      BY <2>3, <3>3, RightMask
    <3> QED
      BY <2>1, <2>2, <3>1, <3>4 DEF RightLine
  <2>9. CASE irq \notin some
    <3>1. LineOf(w)' = LineOf(w)
      BY <2>6, <2>7, <2>9
    <3>2. CASE irq \in irqOf[d]
      <4>1. irq \in Asked /\ irq \in open'
        BY <1>1, <1>3, <3>2
      <4>2. Reached(w) = Owner(w) /\ ioapic_irq_gsi[irq] = w
        BY <1>2, <1>5, <2>1, <2>3, <4>1 DEF Wired
      <4>3. ~ioapic_get_mask(w)
        BY <2>4, <2>9, <3>2, <4>2
      <4>4. ~LineOf(w).masked
        BY <1>2, <1>5, <2>2, <4>2, <4>3, MaskRead
      <4> QED
        BY <2>1, <2>2, <2>3, <3>1, <4>1, <4>4 DEF RightLine
    <3>3. CASE irq \notin irqOf[d]
      <4>1. irq \in open' <=> irq \in open
        BY <1>1, <3>3
      <4> QED
        BY <2>1, <2>2, <2>3, <3>1, <4>1 DEF RightLine
    <3> QED
      BY <3>2, <3>3
  <2> QED
    BY <2>8, <2>9
<1> QED
  BY <1>1, <1>3, <1>4, <1>5, MaskCall

LEMMA DriverCallLines ==
  ASSUME IntrInv, LinesInv, Wired, DriverCall
  PROVE  LinesInv'
<1> USE DEF initVars, picVars, ioapicVars
<1>1. ASSUME NEW d \in Handler, pic_unhandle(d) PROVE LinesInv'
  BY <1>1, UnhandleTable, TableCall DEF pic_unhandle
<1>2. ASSUME NEW d \in Handler, NEW irq \in irqOf[d], HandleIrq(d, irq) PROVE LinesInv'
  BY <1>2, HandleIrqTable, TableCall DEF HandleIrq
<1>3. CASE HandleHandler
  BY <1>3, HandleHandlerTable, TableCall DEF HandleHandler
<1>4. CASE HandleAdapter
  <2>1. InvTable'
    BY <1>4 DEF HandleAdapter, LinesInv, InvTable
  <2> QED
    BY <1>4, <2>1, TableCall DEF HandleAdapter
<1>5. ASSUME NEW irq \in Asked, pic_mask(irq) PROVE LinesInv'
  <2>1. Masking /\ UNCHANGED maskRest
    BY <1>5 DEF pic_mask
  <2>2. PICK b \in BOOLEAN : b = TRUE
    OBVIOUS
  <2>3. open' = (IF b THEN open \ {irq} ELSE open \union {irq})
    BY <1>5, <2>2 DEF pic_mask
  <2>4. apic_enabled => redtbl' = Masked(redtbl, ioapic_irq_gsi[irq], b) /\ UNCHANGED imr
    BY <1>5, <2>2 DEF pic_mask, ioapic_mask
  <2>5. ~apic_enabled => imr' = (IF b THEN imr \union ({irq} \ {Cascade}) ELSE imr \ {irq})
    BY <1>5, <2>2 DEF pic_mask, pic_mask_bm
  <2> QED
    BY <2>1, <2>3, <2>4, <2>5, OneMask
<1>6. ASSUME NEW irq \in Asked, pic_unmask(irq) PROVE LinesInv'
  <2>1. Masking /\ UNCHANGED maskRest
    BY <1>6 DEF pic_unmask
  <2>2. PICK b \in BOOLEAN : b = FALSE
    OBVIOUS
  <2>3. open' = (IF b THEN open \ {irq} ELSE open \union {irq})
    BY <1>6, <2>2 DEF pic_unmask
  <2>4. apic_enabled => redtbl' = Masked(redtbl, ioapic_irq_gsi[irq], b) /\ UNCHANGED imr
    BY <1>6, <2>2 DEF pic_unmask, ioapic_unmask
  <2>5. ~apic_enabled => imr' = (IF b THEN imr \union ({irq} \ {Cascade}) ELSE imr \ {irq})
    BY <1>6, <2>2 DEF pic_unmask, pic_unmask_bm
  <2> QED
    BY <2>1, <2>3, <2>4, <2>5, OneMask
<1> QED
  BY <1>1, <1>2, <1>3, <1>4, <1>5, <1>6, MaskManyKeeps, UnmaskManyKeeps DEF DriverCall, Asked

-----------------------------------------------------------------------------
(* The switch: until the lines are written, ...                            *)

LEMMA PicInitLines ==
  ASSUME LinesInv, pic_init
  PROVE  LinesInv'
<1>1. /\ at = "boot" /\ at' = "pic" /\ imr' = Irqs \ {Cascade} /\ pic_handlers' = [i \in 1..PIC_SLOTS |-> Empty]
      /\ UNCHANGED <<machine, ioapic_irq_gsi, reg, open>>
  BY DEF pic_init, ioapicVars, opVars
<1>2. open = {} /\ reg = None
  BY <1>1 DEF LinesInv, InvOpen
<1>3. InvOpen'
  BY <1>1, <1>2 DEF InvOpen
<1>4. InvTable'
  <2>1. PICK S : S = HandlerEntry
    OBVIOUS
  <2>2. PICK e : e = Empty
    OBVIOUS
  <2>3. e \in S /\ e.handler = None
    BY <2>1, <2>2, IntrAssumption DEF HandlerEntry, Empty, Entry, Irqs, Cascade
  <2>4. PICK u : u = [i \in 1..PIC_SLOTS |-> e]
    OBVIOUS
  <2>5. u \in Seq(S) /\ \A k \in DOMAIN u : u[k] = e
    BY <2>3, <2>4, LineAssumption
  <2>6. pic_handlers' = u
    BY <1>1, <2>2, <2>4
  <2> QED
    BY <1>1, <1>2, <2>1, <2>3, <2>5, <2>6 DEF InvTable
<1>5. InvGsis'
  BY <1>1 DEF LinesInv, InvGsis, Redirected
<1>6. InvLines'
  BY <1>1 DEF InvLines, Redirected
<1> QED
  BY <1>3, <1>4, <1>5, <1>6 DEF LinesInv

LEMMA EarlyLines ==
  ASSUME LinesInv, NEW from, Begin(from), from \in {"pic", "lapic", "info", "cpus", "store"}, UNCHANGED apicRest,
         at' \in {"lapic", "info", "cpus", "store", "redirect", "failed", "broken"}, at' = "failed" => held' = {},
         UNCHANGED <<picVars, ioapic_irq_gsi>>
  PROVE  LinesInv'
<1> USE DEF apicRest, opVars, picVars
<1>1. at = from
  BY DEF Begin
<1>2. InvOpen' /\ InvTable'
  BY <1>1 DEF LinesInv, InvOpen, InvTable
<1>3. InvGsis'
  BY <1>1 DEF LinesInv, InvGsis, Redirected
<1>4. InvLines'
  BY DEF InvLines, Redirected
<1> QED
  BY <1>2, <1>3, <1>4 DEF LinesInv

LEMMA EarlyStepLines ==
  ASSUME LinesInv, ApicStart \/ MapLapic \/ AllocInfo \/ AllocCpus \/ StoreIoapic \/ AllocHandlers
  PROVE  LinesInv'
<1> USE DEF tables, ioapicVars, GiveUp
<1>1. CASE ApicStart
  BY <1>1, EarlyLines DEF ApicStart, Begin
<1>2. ASSUME NEW from, NEW what, NEW to, Acquire(from, what, to),
             <<from, to>> \in {<<"lapic", "info">>, <<"info", "cpus">>, <<"cpus", "store">>}
      PROVE  LinesInv'
  BY <1>2, EarlyLines DEF Acquire
<1>3. CASE StoreIoapic
  BY <1>3, EarlyLines DEF StoreIoapic, Begin
<1>4. CASE AllocHandlers
  BY <1>4, EarlyLines DEF AllocHandlers, Begin
<1> QED
  BY <1>1, <1>2, <1>3, <1>4 DEF MapLapic, AllocInfo, AllocCpus

\* ... while they are written, ...
LEMMA EntriesBelow ==
  ASSUME InvInfo, NEW p \in Nat
  PROVE  /\ p <= 1 => EntriesBefore(p) = {}
         /\ EntriesBefore(p + 1) = EntriesBefore(p) \union {k \in DOMAIN machine.entries : k = p}
         /\ p > Len(machine.entries) => EntriesBefore(p) = EntriesBefore(AllEntries)
         /\ p \in DOMAIN machine.entries <=> 1 <= p /\ p <= Len(machine.entries)
<1>1. Len(machine.entries) \in Nat /\ DOMAIN machine.entries = 1..Len(machine.entries)
  BY LineAssumption DEF InvInfo
<1>0. PICK n \in Nat : n = Len(machine.entries)
  BY <1>1
<1>2. PICK D : n = Len(machine.entries) /\ D = DOMAIN machine.entries /\ D = 1..n
  BY <1>0, <1>1
<1>3. EntriesBefore(p) = {k \in D : k < p} /\ EntriesBefore(p + 1) = {k \in D : k < p + 1}
      /\ EntriesBefore(AllEntries) = {k \in D : k < n + 1}
  BY <1>2 DEF EntriesBefore, AllEntries
<1>4. {k \in D : k < p + 1} = {k \in D : k < p} \union {k \in D : k = p}
  BY <1>2
<1>5. p > n => {k \in D : k < p} = {k \in D : k < n + 1}
  BY <1>2
<1>6. p <= 1 => {k \in D : k < p} = {}
  BY <1>2
<1> QED
  BY <1>2, <1>3, <1>4, <1>5, <1>6

LEMMA LinesThen ==
  ASSUME UNCHANGED ioapic_info, LinesOf(redtbl)'
  PROVE  LinesOf(redtbl')
  BY DEF LinesOf, OwnVectors, VectOf

LEMMA RedirectLinesLines ==
  ASSUME IntrInv, IntrInv', LinesInv, RedirectLines
  PROVE  LinesInv'
<1>1. /\ at = "redirect" /\ at' = "entries" /\ pos' = 1
      /\ UNCHANGED <<machine, imr, pic_handlers, ioapic_irq_gsi, ioapic_info, reg, open>>
      /\ redtbl' = [i \in DOMAIN ioapic_info |-> [n \in 0..ioapic_info[i].inputs - 1 |-> Line(VectOf(i, n), TRUE, "fixed")]]
  BY DEF RedirectLines, Begin, picVars, apicRest, opVars
<1>2. InvInfo
  BY DEF IntrInv
<1>3. InvOpen' /\ InvTable'
  BY <1>1 DEF LinesInv, InvOpen, InvTable
<1>4. InvGsis'
  <2>1. EntriesBefore(1)' = {}
    <3>1. EntriesBefore(1) = {}
      BY <1>2, EntriesBelow
    <3> QED
      BY <1>1, <3>1 DEF EntriesBefore
  <2>2. ASSUME NEW irq \in Irqs PROVE Said(irq, pos, ioapic_irq_gsi[irq])'
    <3>1. ioapic_irq_gsi'[irq] = irq
      BY <1>1 DEF LinesInv, InvGsis, Redirected
    <3>2. EntriesBefore(pos)' = {}
      BY <1>1, <2>1 DEF EntriesBefore
    <3> QED
      BY <3>1, <3>2 DEF Said, Unnamed
  <2> QED
    BY <1>1, <2>2 DEF LinesInv, InvGsis, Redirected
<1>5. InvLines'
  <2> SUFFICES ASSUME NEW irq \in Told, Owner(machine.wire[irq])' # 0
               PROVE  RightLine(WireLine(irq)', machine.wire[irq], Shown(irq)')
    BY <1>1 DEF InvLines, Told, Astray, RightLine
  <2>1. PICK w : w = machine.wire[irq]
    OBVIOUS
  <2>2. machine'.wire[irq] = w
    BY <1>1, <2>1
  <2>3. Owner(machine.wire[irq])' = Owner(w)' /\ Owner(w)' = Owner(w) /\ WireLine(irq)' = LineOf(w)'
    BY <1>1, <2>2, OwnerStays DEF WireLine
  <2>4. PICK j : j = Owner(w)
    OBVIOUS
  <2>5. PICK m : m = w - ioapic_info[j].base
    OBVIOUS
  <2>6. PICK t : t = redtbl'
    OBVIOUS
  <2>7. LinesOf(t)
    BY <1>1, <2>6, LinesThen DEF IntrInv, InvGates, Redirected
  <2>8. LineOf(w)' = t[j][m]
    <3>1. Owner(w) # 0 /\ redtbl' = t /\ UNCHANGED ioapic_info
      BY <1>1, <2>3, <2>6
    <3> QED
      BY <1>2, <2>4, <2>5, <2>7, <3>1, LineIsThen
  <2>9. /\ j \in DOMAIN t /\ m \in DOMAIN t[j] /\ m \in Nat /\ w \in Int
        /\ ioapic_info[j].base \in Nat /\ w = ioapic_info[j].base + m
    BY <1>2, <2>3, <2>4, <2>5, <2>7, LineAt
  <2>10. t[j][m] = Line(VectOf(j, m), TRUE, "fixed")
    BY <1>1, <2>6, <2>9
  <2>11. VectOf(j, m) = IOAPIC_HANDLER_VECT_BASE + w
    BY <2>9 DEF VectOf, IOAPIC_HANDLER_VECT_BASE
  <2>12. ~Shown(irq)'
    BY <1>1 DEF Shown
  <2> QED
    BY <2>1, <2>3, <2>8, <2>10, <2>11, <2>12 DEF RightLine, Line
<1> QED
  BY <1>3, <1>4, <1>5 DEF LinesInv

\* A line that is put is right if what is written is.
LEMMA PutRight ==
  ASSUME InvInfo, LinesOf(redtbl), LinesOf(redtbl'), UNCHANGED ioapic_info, NEW i, NEW n, NEW l, PutLine(i, n, l),
         NEW w, Owner(w) # 0, RightLine(LineOf(w), w, FALSE),
         i \in DOMAIN redtbl /\ n \in DOMAIN redtbl[i] /\ w = ioapic_info[i].base + n =>
           RightLine(l, ioapic_info[i].base + n, FALSE)
  PROVE  RightLine(LineOf(w)', w, FALSE)
<1>1. PICK j : j = Owner(w)
  OBVIOUS
<1>2. PICK m : m = w - ioapic_info[j].base
  OBVIOUS
<1>3. PICK t : t = redtbl'
  OBVIOUS
<1>4. LineOf(w) = redtbl[j][m] /\ LineOf(w)' = t[j][m]
  BY <1>1, <1>2, <1>3, LineIs, LineIsThen
<1>5. j \in DOMAIN redtbl /\ m \in DOMAIN redtbl[j] /\ w = ioapic_info[j].base + m
  BY <1>1, <1>2, LineAt
<1>6. CASE ~(i \in DOMAIN redtbl /\ n \in DOMAIN redtbl[i])
  BY <1>3, <1>4, <1>6 DEF PutLine
<1>7. CASE i \in DOMAIN redtbl /\ n \in DOMAIN redtbl[i]
  <2>1. t = [redtbl EXCEPT ![i][n] = l]
    BY <1>3, <1>7 DEF PutLine
  <2>2. CASE i = j /\ n = m
    <3>1. t[j][m] = l
      BY <1>5, <2>1, <2>2
    <3> QED
      BY <1>4, <1>5, <1>7, <2>2, <3>1
  <2>3. CASE ~(i = j /\ n = m)
    <3>1. t[j][m] = redtbl[j][m]
      BY <1>5, <1>7, <2>1, <2>3
    <3> QED
      BY <1>4, <3>1
  <2> QED
    BY <2>2, <2>3
<1> QED
  BY <1>6, <1>7

LEMMA PutGsiRight ==
  ASSUME InvInfo, LinesOf(redtbl), LinesOf(redtbl'), UNCHANGED ioapic_info, NEW gsi, NEW l, PutGsi(gsi, l),
         RightLine(l, gsi, FALSE), NEW w, Owner(w) # 0, RightLine(LineOf(w), w, FALSE)
  PROVE  RightLine(LineOf(w)', w, FALSE)
<1>1. CASE Owner(gsi) = 0
  <2>1. redtbl' = redtbl
    BY <1>1 DEF PutGsi
  <2>2. LineOf(w)' = LineOf(w)
    BY <2>1, LineSame
  <2> QED
    BY <2>2
<1>2. CASE Owner(gsi) # 0
  <2>1. PICK i : i = Owner(gsi)
    OBVIOUS
  <2>2. PICK n : n = gsi - ioapic_info[i].base
    OBVIOUS
  <2>3. PutLine(i, n, l)
    BY <1>2, <2>1, <2>2 DEF PutGsi
  <2>4. gsi = ioapic_info[i].base + n
    BY <1>2, <2>1, <2>2, LineAt
  <2>5. i \in DOMAIN redtbl /\ n \in DOMAIN redtbl[i] => RightLine(l, ioapic_info[i].base + n, FALSE)
    BY <2>4
  <2> QED
    BY <2>3, <2>5, PutRight
<1> QED
  BY <1>1, <1>2

\* What a step among the entries leaves to show.
LEMMA EntryLines ==
  ASSUME IntrInv, IntrInv', LinesInv, Begin("entries"), at' = "entries", UNCHANGED apicRest,
         UNCHANGED <<picVars, ioapic_info>>, pos' = pos + 1,
         \A irq \in Irqs : Said(irq, pos, ioapic_irq_gsi[irq]) => Said(irq, pos + 1, ioapic_irq_gsi'[irq]),
         DOMAIN ioapic_irq_gsi' = Irqs,
         \A irq \in Told : Owner(machine.wire[irq]) # 0 /\ RightLine(WireLine(irq), machine.wire[irq], FALSE) =>
                             RightLine(LineOf(machine.wire[irq])', machine.wire[irq], FALSE)
  PROVE  LinesInv'
<1> USE DEF apicRest, opVars, picVars
<1>1. at = "entries" /\ at \in Redirected
  BY DEF Begin, Redirected
<1>2. InvOpen' /\ InvTable'
  BY <1>1 DEF LinesInv, InvOpen, InvTable
<1>3. InvGsis'
  <2>1. pos' \in Nat \ {0}
    BY <1>1 DEF LinesInv, InvGsis
  <2>2. ASSUME NEW irq \in Irqs PROVE Said(irq, pos, ioapic_irq_gsi[irq])'
    <3>1. PICK p, g : p = pos' /\ g = ioapic_irq_gsi'[irq]
      OBVIOUS
    <3>2. Said(irq, p, g)
      BY <1>1, <3>1 DEF LinesInv, InvGsis
    <3>3. Said(irq, p, g)'
      BY <3>2 DEF Said, Unnamed, LastNaming, EntriesBefore, GsiOf
    <3> QED
      BY <3>1, <3>3 DEF Said, Unnamed, LastNaming, EntriesBefore, GsiOf
  <2> QED
    BY <1>1, <2>1, <2>2 DEF LinesInv, InvGsis, Redirected
<1>4. InvLines'
  <2> SUFFICES ASSUME NEW irq \in Told, Owner(machine.wire[irq])' # 0
               PROVE  RightLine(WireLine(irq)', machine.wire[irq], Shown(irq)')
    BY DEF InvLines, Told, Astray, RightLine
  <2>1. PICK w : w = machine.wire[irq]
    OBVIOUS
  <2>2. machine'.wire[irq] = w
    BY <2>1
  <2>3. Owner(machine.wire[irq])' = Owner(w)' /\ Owner(w)' = Owner(w) /\ WireLine(irq)' = LineOf(w)'
        /\ LineOf(machine.wire[irq])' = LineOf(w)'
    BY <2>2, OwnerStays DEF WireLine
  <2>4. ~Shown(irq) /\ ~Shown(irq)'
    BY <1>1 DEF Shown
  <2>5. RightLine(WireLine(irq), w, FALSE)
    BY <1>1, <2>1, <2>3, <2>4 DEF LinesInv, InvLines, RightLine
  <2>6. RightLine(LineOf(w)', w, FALSE)
    BY <2>1, <2>3, <2>5
  <2> QED
    BY <2>1, <2>3, <2>4, <2>6 DEF RightLine
<1> QED
  BY <1>2, <1>3, <1>4 DEF LinesInv

LEMMA FirmwareEntryLines ==
  ASSUME IntrInv, IntrInv', LinesInv, Wired, FirmwareEntry
  PROVE  LinesInv'
<1> DEFINE e == machine.entries[pos]
<1>1. /\ Begin("entries") /\ at = "entries" /\ at' = "entries" /\ UNCHANGED apicRest /\ UNCHANGED <<picVars, ioapic_info, machine>>
      /\ pos' = pos + 1 /\ pos <= Len(machine.entries)
  BY DEF FirmwareEntry, Begin, apicRest
<1>2. InvInfo /\ LinesOf(redtbl) /\ LinesOf(redtbl')
  BY <1>1, LinesThen DEF IntrInv, InvGates, Redirected
<1>3. pos \in Nat /\ pos # 0 /\ DOMAIN ioapic_irq_gsi = Irqs
  BY <1>1 DEF LinesInv, InvGsis
<1>4. pos \in DOMAIN machine.entries /\ EntriesBefore(pos + 1) = EntriesBefore(pos) \union {pos}
  <2>1. pos \in DOMAIN machine.entries
    BY <1>1, <1>2, <1>3, EntriesBelow, LineAssumption DEF InvInfo
  <2>2. EntriesBefore(pos + 1) = EntriesBefore(pos) \union {k \in DOMAIN machine.entries : k = pos}
    BY <1>2, <1>3, EntriesBelow
  <2> QED
    BY <2>1, <2>2
<1>5. /\ DOMAIN ioapic_irq_gsi' = Irqs
      /\ \A irq \in Irqs : ioapic_irq_gsi'[irq] = IF Names(e, irq) THEN GsiOf(e) ELSE ioapic_irq_gsi[irq]
  <2>1. CASE e.type = "override" /\ SourceOverride(e)
    BY <1>3, <2>1 DEF SourceOverride, Names, GsiOf
  <2>2. CASE e.type = "irq" /\ IrqAssign(e)
    BY <1>3, <2>2 DEF IrqAssign, Names, GsiOf
  <2>3. CASE e.type \in {"ioapic nmi", "local"} /\ ioapic_irq_gsi' = ioapic_irq_gsi
    BY <1>3, <2>3 DEF Names
  <2> QED
    BY <2>1, <2>2, <2>3 DEF FirmwareEntry, IoapicNmi, LocalInt
<1>6. ASSUME NEW irq \in Irqs, Said(irq, pos, ioapic_irq_gsi[irq])
      PROVE  Said(irq, pos + 1, ioapic_irq_gsi'[irq])
  <2>1. \A k \in EntriesBefore(pos) : k < pos /\ k \in Nat
    BY <1>2, LineAssumption DEF EntriesBefore, InvInfo
  <2>2. CASE Names(e, irq)
    <3>1. pos \in LastNaming(irq, pos + 1)
      BY <1>3, <1>4, <2>1, <2>2 DEF LastNaming
    <3> QED
      BY <1>5, <2>2, <3>1 DEF Said
  <2>3. CASE ~Names(e, irq)
    <3>1. Unnamed(irq, pos) => Unnamed(irq, pos + 1)
      BY <1>4, <2>3 DEF Unnamed
    <3>2. LastNaming(irq, pos) \subseteq LastNaming(irq, pos + 1)
      BY <1>4, <2>3 DEF LastNaming
    <3> QED
      BY <1>5, <1>6, <2>3, <3>1, <3>2 DEF Said
  <2> QED
    BY <2>2, <2>3
<1>7. ASSUME NEW irq \in Told, Owner(machine.wire[irq]) # 0, RightLine(WireLine(irq), machine.wire[irq], FALSE)
      PROVE  RightLine(LineOf(machine.wire[irq])', machine.wire[irq], FALSE)
  <2>1. PICK w : w = machine.wire[irq]
    OBVIOUS
  <2>2. LineOf(machine.wire[irq])' = LineOf(w)' /\ RightLine(LineOf(w), w, FALSE) /\ Owner(w) # 0
    <3>1. machine'.wire[irq] = w
      BY <1>1, <2>1
    <3> QED
      BY <1>7, <2>1, <3>1 DEF WireLine
  <2>3. UNCHANGED ioapic_info
    BY <1>1
  <2>4. ASSUME SourceOverride(e) PROVE RightLine(LineOf(w)', w, FALSE)
    <3>1. PICK g : g = e.gsi
      OBVIOUS
    <3>2. PICK l : l = Line(IOAPIC_HANDLER_VECT_BASE + g, TRUE, "fixed")
      OBVIOUS
    <3>3. PutGsi(g, l) /\ RightLine(l, g, FALSE)
      BY <2>4, <3>1, <3>2 DEF SourceOverride, RightLine, Line
    <3> QED
      BY <1>2, <2>2, <2>3, <3>3, PutGsiRight
  <2>5. ASSUME IoapicNmi(e) PROVE RightLine(LineOf(w)', w, FALSE)
    <3>1. PICK g, l : g = e.gsi /\ l = Nmi
      OBVIOUS
    <3>2. PutGsi(g, l) /\ RightLine(l, g, FALSE)
      BY <2>5, <3>1 DEF IoapicNmi, RightLine, Line, Nmi
    <3> QED
      BY <1>2, <2>2, <2>3, <3>2, PutGsiRight
  <2>6. ASSUME e.type = "irq", IrqAssign(e) PROVE RightLine(LineOf(w)', w, FALSE)
    <3>1. PICK i, n : i = e.dest /\ n = e.intin
      OBVIOUS
    <3>0. PICK own : own = ioapic_info[i].base + n
      OBVIOUS
    <3>4. PICK g : g = IF e.isa THEN own ELSE ioapic_irq_gsi[e.irq]
      OBVIOUS
    <3>2. PICK l : l = IF e.kind = "nmi" THEN Nmi ELSE IF e.kind = "extint" THEN ExtInt
                       ELSE Line(IOAPIC_HANDLER_VECT_BASE + g, TRUE, "fixed")
      OBVIOUS
    <3>5. PutLine(i, n, l) /\ RightLine(l, g, FALSE)
      BY <2>6, <3>0, <3>1, <3>2, <3>4 DEF IrqAssign, RightLine, Line, Nmi, ExtInt
    <3>6. ~e.isa => w # own
      <4>1. Apart(e)
        BY <1>1, <1>4 DEF Wired, Redirected
      <4> QED
        BY <2>1, <2>6, <3>0, <3>1, <4>1 DEF Apart
    <3>3. PutLine(i, n, l) /\ (w = own => RightLine(l, own, FALSE))
      BY <3>4, <3>5, <3>6
    <3> QED
      BY <1>2, <2>2, <2>3, <3>0, <3>3, PutRight
  <2>7. ASSUME LocalInt(e) PROVE RightLine(LineOf(w)', w, FALSE)
    <3>1. redtbl' = redtbl
      BY <2>7 DEF LocalInt
    <3>2. LineOf(w)' = LineOf(w)
      BY <2>3, <3>1, LineSame
    <3> QED
      BY <2>2, <3>2
  <2>8. RightLine(LineOf(w)', w, FALSE)
    BY <2>4, <2>5, <2>6, <2>7 DEF FirmwareEntry
  <2> QED
    BY <2>1, <2>2, <2>8
<1> QED
  BY <1>1, <1>5, <1>6, <1>7, EntryLines

LEMMA DefaultConfigLines ==
  ASSUME IntrInv, IntrInv', LinesInv, Wired, DefaultConfig
  PROVE  LinesInv'
<1>1. /\ Begin("entries") /\ at = "entries" /\ at' = "entries" /\ UNCHANGED apicRest /\ machine.kind = "default"
      /\ UNCHANGED <<picVars, ioapic_info, machine, ioapic_irq_gsi>>
      /\ pos' = pos + 1 /\ pos = Len(machine.entries) + 1
      /\ redtbl' = [redtbl EXCEPT ![1] = [n \in DOMAIN redtbl[1] |-> IF n \in Irqs THEN DefaultLine(n) ELSE redtbl[1][n]]]
  BY DEF DefaultConfig, Begin, apicRest
<1>2. InvInfo /\ LinesOf(redtbl) /\ LinesOf(redtbl')
  BY <1>1, LinesThen DEF IntrInv, InvGates, Redirected
<1>3. pos \in Nat /\ pos # 0 /\ DOMAIN ioapic_irq_gsi' = Irqs
  BY <1>1 DEF LinesInv, InvGsis
<1>4. ASSUME NEW irq \in Irqs, Said(irq, pos, ioapic_irq_gsi[irq])
      PROVE  Said(irq, pos + 1, ioapic_irq_gsi'[irq])
  <2>1. Len(machine.entries) \in Nat
    BY <1>2, LineAssumption DEF InvInfo
  <2>2. EntriesBefore(pos) = EntriesBefore(AllEntries) /\ EntriesBefore(pos + 1) = EntriesBefore(AllEntries)
    <3>1. pos > Len(machine.entries) /\ pos + 1 > Len(machine.entries) /\ pos + 1 \in Nat
      BY <1>1, <1>3, <2>1
    <3> QED
      BY <1>2, <1>3, <3>1, EntriesBelow
  <2> QED
    BY <1>1, <1>4, <2>2 DEF Said, Unnamed, LastNaming
<1>5. ASSUME NEW irq \in Told, Owner(machine.wire[irq]) # 0, RightLine(WireLine(irq), machine.wire[irq], FALSE)
      PROVE  RightLine(LineOf(machine.wire[irq])', machine.wire[irq], FALSE)
  <2>1. PICK w : w = machine.wire[irq]
    OBVIOUS
  <2>2. LineOf(machine.wire[irq])' = LineOf(w)' /\ RightLine(LineOf(w), w, FALSE) /\ Owner(w) # 0
    <3>1. machine'.wire[irq] = w
      BY <1>1, <2>1
    <3> QED
      BY <1>5, <2>1, <3>1 DEF WireLine
  <2>3. PICK j : j = Owner(w)
    OBVIOUS
  <2>4. PICK m : m = w - ioapic_info[j].base
    OBVIOUS
  <2>5. PICK t : t = redtbl'
    OBVIOUS
  <2>6. LineOf(w) = redtbl[j][m]
    BY <1>2, <2>2, <2>3, <2>4, LineIs
  <2>7. LineOf(w)' = t[j][m]
    <3>1. LinesOf(t) /\ redtbl' = t /\ UNCHANGED ioapic_info
      BY <1>1, <1>2, <2>5
    <3> QED
      BY <1>2, <2>2, <2>3, <2>4, <3>1, LineIsThen
  <2>8. /\ j \in DOMAIN redtbl /\ m \in DOMAIN redtbl[j] /\ m \in Nat /\ w \in Int
        /\ ioapic_info[j].base \in Nat /\ w = ioapic_info[j].base + m
    BY <1>2, <2>2, <2>3, <2>4, LineAt
  <2>9. CASE j # 1
    <3>1. t[j][m] = redtbl[j][m]
      BY <1>1, <2>5, <2>8, <2>9
    <3> QED
      BY <2>1, <2>2, <2>6, <2>7, <3>1
  <2>10. CASE j = 1
    <3>1. m = w
      BY <1>1, <1>2, <2>8, <2>10 DEF InvInfo, LinesOf
    <3>2. t[j][m] = IF m \in Irqs THEN DefaultLine(m) ELSE redtbl[j][m]
      BY <1>1, <2>5, <2>8, <2>10
    <3>3. w # 2
      BY <1>1, <2>1 DEF Wired, Redirected
    <3>4. RightLine(DefaultLine(m), w, FALSE)
      BY <3>1, <3>3 DEF DefaultLine, RightLine, Line, ExtInt
    <3> QED
      BY <2>1, <2>2, <2>6, <2>7, <3>2, <3>4
  <2> QED
    BY <2>9, <2>10
<1> QED
  BY <1>1, <1>3, <1>4, <1>5, EntryLines

\* ... and when they are handed over.
LEMMA EntriesDoneLines ==
  ASSUME IntrInv, LinesInv, Wired, EntriesDone
  PROVE  LinesInv'
<1>1. /\ at = "entries" /\ at' = "adapt" /\ pos' = 1 /\ at \in Redirected
      /\ UNCHANGED <<machine, imr, pic_handlers, ioapic_irq_gsi, ioapic_info, redtbl, reg, open>>
      /\ pos = Len(machine.entries) + (IF machine.kind = "default" THEN 2 ELSE 1)
  BY DEF EntriesDone, Begin, tables, picVars, ioapicVars, apicRest, opVars, Redirected
<1>2. InvInfo
  BY DEF IntrInv
<1>3. InvOpen' /\ InvTable'
  BY <1>1 DEF LinesInv, InvOpen, InvTable
<1>4. InvGsis'
  <2>1. Len(machine.entries) \in Nat
    BY <1>2, LineAssumption DEF InvInfo
  <2>2. EntriesBefore(pos) = EntriesBefore(AllEntries)
    <3>1. pos = Len(machine.entries) + 2 \/ pos = Len(machine.entries) + 1
      BY <1>1, Zenon
    <3>2. pos \in Nat /\ pos > Len(machine.entries)
      BY <2>1, <3>1
    <3> QED
      BY <1>2, <3>2, EntriesBelow
  <2>3. ASSUME NEW irq \in Asked PROVE Known(irq, ioapic_irq_gsi[irq])
    <3>1. irq \in Irqs
      BY LineAssumption DEF Asked
    <3>2. Said(irq, pos, ioapic_irq_gsi[irq])
      BY <1>1, <3>1 DEF LinesInv, InvGsis
    <3>3. Said(irq, AllEntries, ioapic_irq_gsi[irq])
      BY <2>2, <3>2 DEF Said, Unnamed, LastNaming
    <3> QED
      BY <1>1, <3>3 DEF Wired, Said
  <2>4. ASSUME NEW irq \in Asked PROVE Known(irq, ioapic_irq_gsi[irq])'
    BY <1>1, <2>3 DEF Known, Told, Astray
  <2> QED
    BY <1>1, <2>4 DEF LinesInv, InvGsis, Redirected
<1>5. ASSUME NEW irq \in Told PROVE Shown(irq)' <=> Shown(irq)
  <2>1. ~Shown(irq)
    BY <1>1 DEF Shown
  <2>2. \A k \in DOMAIN pic_handlers' : ~(k < pos')
    <3>1. PICK t : t = pic_handlers
      OBVIOUS
    <3>2. t \in Seq(HandlerEntry)
      BY <3>1 DEF LinesInv, InvTable
    <3>3. \A k \in DOMAIN t : k >= 1 /\ k \in Nat
      BY <3>2
    <3> QED
      BY <1>1, <3>1, <3>3
  <2>3. ~Shown(irq)'
    BY <1>1, <2>2 DEF Shown, AdaptedTo
  <2> QED
    BY <2>1, <2>3
<1>6. InvLines'
  BY <1>1, <1>5, LinesSame DEF LinesInv
<1> QED
  BY <1>3, <1>4, <1>6 DEF LinesInv

LEMMA AdaptLines ==
  ASSUME IntrInv, LinesInv, Wired, Adapt
  PROVE  LinesInv'
<1>1. /\ at = "adapt" /\ at' = "adapt" /\ pos' = pos + 1 /\ at \in Redirected /\ pos <= Len(pic_handlers)
      /\ UNCHANGED <<machine, imr, pic_handlers, ioapic_irq_gsi, ioapic_info, reg, open>>
  BY DEF Adapt, Begin, picVars, apicRest, opVars, Redirected
<1>2. InvInfo /\ LinesOf(redtbl) /\ ~apic_enabled
  BY <1>1 DEF IntrInv, InvGates, InvPlace
<1>3. pos \in Nat /\ pos # 0 /\ pos \in DOMAIN pic_handlers
  <2>1. PICK t : t = pic_handlers
    OBVIOUS
  <2>2. t \in Seq(HandlerEntry) /\ pos <= Len(t) /\ pos \in Nat \ {0}
    BY <1>1, <2>1 DEF LinesInv, InvTable, InvGsis
  <2>3. pos \in DOMAIN t
    BY <2>2
  <2> QED
    BY <2>1, <2>2, <2>3
<1>4. InvOpen' /\ InvTable'
  BY <1>1 DEF LinesInv, InvOpen, InvTable
<1>5. InvGsis'
  <2>1. pos' \in Nat \ {0}
    BY <1>1, <1>3
  <2>2. ASSUME NEW irq \in Asked PROVE Known(irq, ioapic_irq_gsi[irq])'
    <3>1. Known(irq, ioapic_irq_gsi[irq])
      BY <1>1 DEF LinesInv, InvGsis, Redirected
    <3> QED
      BY <1>1, <3>1 DEF Known, Told, Astray
  <2> QED
    BY <1>1, <2>1, <2>2 DEF LinesInv, InvGsis, Redirected
<1>6. PICK e : e = pic_handlers[pos]
  OBVIOUS
<1>7. \A k \in DOMAIN pic_handlers : k \in Nat /\ (k < pos + 1 <=> k < pos \/ k = pos)
  <2>1. PICK t : t = pic_handlers
    OBVIOUS
  <2>2. t \in Seq(HandlerEntry)
    BY <2>1 DEF LinesInv, InvTable
  <2>3. \A k \in DOMAIN t : k \in Nat /\ (k < pos + 1 <=> k < pos \/ k = pos)
    BY <1>3, <2>2
  <2> QED
    BY <2>1, <2>3
<1>8. ASSUME NEW irq PROVE AdaptedTo(irq)' <=> AdaptedTo(irq) \/ Handles(e, irq)
  BY <1>1, <1>3, <1>6, <1>7 DEF AdaptedTo
<1>9. InvLines'
  <2> SUFFICES ASSUME NEW irq \in Told, Owner(machine.wire[irq])' # 0
               PROVE  RightLine(WireLine(irq)', machine.wire[irq], Shown(irq)')
    BY <1>1 DEF InvLines, Told, Astray, RightLine
  <2>1. PICK w : w = machine.wire[irq]
    OBVIOUS
  <2>2. machine'.wire[irq] = w
    BY <1>1, <2>1
  <2>3. Owner(machine.wire[irq])' = Owner(w)' /\ Owner(w)' = Owner(w) /\ WireLine(irq)' = LineOf(w)'
    BY <1>1, <2>2, OwnerStays DEF WireLine
  <2>4. Owner(w) # 0 /\ UNCHANGED ioapic_info
    BY <1>1, <2>3
  <2>5. /\ Shown(irq) <=> irq \in open /\ AdaptedTo(irq)
        /\ Shown(irq)' <=> irq \in open /\ (AdaptedTo(irq) \/ Handles(e, irq))
    BY <1>1, <1>8 DEF Shown
  <2>6. RightLine(LineOf(w), w, Shown(irq)) /\ LineOf(w) \in LineType
    <3>1. RightLine(WireLine(irq), machine.wire[irq], Shown(irq))
      BY <1>1, <2>1, <2>4 DEF LinesInv, InvLines
    <3>2. LineOf(w) \in LineType
      BY <1>2, <2>4, LineIs, LineAt
    <3> QED
      BY <2>1, <3>1, <3>2 DEF WireLine
  <2>7. CASE e.handler # None /\ e.irq \notin Seen(pos)
    <3>1. PICK a : a = e.irq
      OBVIOUS
    <3>2. a \in Asked
      BY <1>3, <1>6, <2>7, <3>1 DEF LinesInv, InvTable
    <3>3. PICK g : g = ioapic_irq_gsi[a]
      OBVIOUS
    <3>4. Known(a, g)
      BY <1>1, <3>2, <3>3 DEF LinesInv, InvGsis, Redirected
    <3>5. PICK b \in BOOLEAN : b <=> a \in imr
      OBVIOUS
    <3>6. redtbl' = Masked(redtbl, g, b)
      BY <1>2, <1>6, <2>7, <3>1, <3>3, <3>5 DEF Adapt, AdaptOne, pic_get_mask, ioapic_mask, ioapic_unmask
    <3>7. /\ g # w => LineOf(w)' = LineOf(w)
          /\ g = w /\ Reached(w) = Owner(w) => MaskOf(LineOf(w)', LineOf(w), b)
      BY <1>2, <2>4, <3>6, MaskedLine
    <3>8. CASE a = irq
      <4>1. g = w /\ Reached(w) = Owner(w)
        BY <1>1, <2>1, <3>2, <3>4, <3>8 DEF Wired, Known
      <4>2. RightLine(LineOf(w)', w, ~b)
        BY <2>6, <3>7, <4>1, RightMask
      <4>3. a \in imr <=> a \notin open
        BY <1>1, <3>8 DEF LinesInv, InvOpen, Told
      <4>4. Shown(irq)' <=> ~b
        BY <2>5, <2>7, <3>1, <3>5, <3>8, <4>3 DEF Handles
      <4> QED
        BY <2>1, <2>3, <4>2, <4>4 DEF RightLine
    <3>9. CASE a # irq
      <4>1. LineOf(w)' = LineOf(w)
        BY <2>1, <3>4, <3>7, <3>9 DEF Known
      <4>2. Shown(irq)' <=> Shown(irq)
        BY <2>5, <3>1, <3>9 DEF Handles
      <4> QED
        BY <2>1, <2>3, <2>6, <4>1, <4>2 DEF RightLine
    <3> QED
      BY <3>8, <3>9
  <2>8. CASE ~(e.handler # None /\ e.irq \notin Seen(pos))
    <3>1. redtbl' = redtbl
      BY <1>6, <2>8 DEF Adapt
    <3>2. LineOf(w)' = LineOf(w)
      BY <2>4, <3>1, LineSame
    <3>3. Handles(e, irq) => AdaptedTo(irq)
      <4> SUFFICES ASSUME Handles(e, irq) PROVE AdaptedTo(irq)
        OBVIOUS
      <4>1. irq \in Seen(pos)
        BY <2>8 DEF Handles
      <4>2. PICK k \in {j \in 1..pos - 1 : pic_handlers[j].handler # None} : irq = pic_handlers[k].irq
        BY <4>1 DEF Seen
      <4>3. k \in DOMAIN pic_handlers
        <5>1. PICK t : t = pic_handlers
          OBVIOUS
        <5>2. t \in Seq(HandlerEntry) /\ pos \in DOMAIN t
          BY <1>3, <5>1 DEF LinesInv, InvTable
        <5>3. k \in DOMAIN t
          BY <1>3, <4>2, <5>2
        <5> QED
          BY <5>1, <5>3
      <4>4. k < pos
        BY <1>3, <4>2
      <4> QED
        BY <4>2, <4>3, <4>4 DEF AdaptedTo, Handles
    <3> QED
      BY <2>1, <2>3, <2>5, <2>6, <3>2, <3>3 DEF RightLine
  <2> QED
    BY <2>7, <2>8
<1> QED
  BY <1>4, <1>5, <1>9 DEF LinesInv

LEMMA EnableLines ==
  ASSUME LinesInv, Enable
  PROVE  LinesInv'
<1>1. /\ at = "adapt" /\ at' = "mask" /\ at \in Redirected /\ pos > Len(pic_handlers)
      /\ UNCHANGED <<machine, imr, pic_handlers, ioapic_irq_gsi, ioapic_info, redtbl, reg, open>>
  BY DEF Enable, Begin, picVars, ioapicVars, apicRest, opVars, Redirected
<1>2. InvOpen' /\ InvTable'
  BY <1>1 DEF LinesInv, InvOpen, InvTable
<1>3. InvGsis'
  <2>1. \A irq \in Asked : Known(irq, ioapic_irq_gsi[irq])'
    BY <1>1 DEF LinesInv, InvGsis, Redirected, Known, Told, Astray
  <2> QED
    BY <1>1, <2>1 DEF LinesInv, InvGsis, Redirected
<1>4. ASSUME NEW irq \in Told PROVE Shown(irq)' <=> Shown(irq)
  <2>1. \A k \in DOMAIN pic_handlers : k < pos
    <3>1. PICK t : t = pic_handlers
      OBVIOUS
    <3>2. t \in Seq(HandlerEntry) /\ pos \in Nat /\ pos > Len(t)
      BY <1>1, <3>1 DEF LinesInv, InvTable, InvGsis
    <3>3. \A k \in DOMAIN t : k < pos
      BY <3>2
    <3> QED
      BY <3>1, <3>3
  <2>2. AdaptedTo(irq) <=> pic_is_handled(irq)
    BY <2>1 DEF AdaptedTo, pic_is_handled
  <2>3. pic_is_handled(irq)' <=> pic_is_handled(irq)
    BY <1>1 DEF pic_is_handled
  <2> QED
    BY <1>1, <2>2, <2>3 DEF Shown
<1>5. InvLines'
  BY <1>1, <1>4, LinesSame DEF LinesInv
<1> QED
  BY <1>2, <1>3, <1>5 DEF LinesInv

LEMMA MaskPicLines ==
  ASSUME IntrInv, LinesInv, MaskPic
  PROVE  LinesInv'
<1>1. /\ at = "mask" /\ at' = "enable" /\ at \in Redirected
      /\ UNCHANGED <<machine, pic_handlers, ioapic_irq_gsi, ioapic_info, reg, open>> /\ pic_mask_bm(Irqs)
  BY DEF MaskPic, Begin, opVars, Redirected
<1>2. redtbl' = redtbl
  BY <1>1 DEF pic_mask_bm, IntrInv, InvPlace
<1>3. InvOpen' /\ InvTable'
  BY <1>1 DEF LinesInv, InvOpen, InvTable
<1>4. InvGsis'
  <2>1. \A irq \in Asked : Known(irq, ioapic_irq_gsi[irq])'
    BY <1>1 DEF LinesInv, InvGsis, Redirected, Known, Told, Astray
  <2> QED
    BY <1>1, <2>1 DEF LinesInv, InvGsis, Redirected
<1>5. \A irq : Shown(irq)' <=> Shown(irq)
  BY <1>1 DEF Shown, pic_is_handled
<1>6. InvLines'
  BY <1>1, <1>2, <1>5, LinesSame DEF LinesInv
<1> QED
  BY <1>3, <1>4, <1>6 DEF LinesInv

LEMMA SwitchDoneLines ==
  ASSUME LinesInv, SwitchDone
  PROVE  LinesInv'
<1>1. /\ at = "enable" /\ at' = "done" /\ at \in Redirected /\ open' = open \intersect Handled
      /\ UNCHANGED <<machine, imr, pic_handlers, ioapic_irq_gsi, ioapic_info, redtbl, reg>>
  BY DEF SwitchDone, Begin, picVars, ioapicVars, Redirected
<1>2. InvOpen' /\ InvTable'
  BY <1>1 DEF LinesInv, InvOpen, InvTable
<1>3. InvGsis'
  <2>1. \A irq \in Asked : Known(irq, ioapic_irq_gsi[irq])'
    BY <1>1 DEF LinesInv, InvGsis, Redirected, Known, Told, Astray
  <2> QED
    BY <1>1, <2>1 DEF LinesInv, InvGsis, Redirected
<1>4. ASSUME NEW irq \in Told PROVE Shown(irq)' <=> Shown(irq)
  BY <1>1 DEF Shown, Handled, Told
<1>5. InvLines'
  BY <1>1, <1>4, LinesSame DEF LinesInv
<1> QED
  BY <1>2, <1>3, <1>5 DEF LinesInv

LEMMA LinesStart ==
  ASSUME IntrInit
  PROVE  LinesInv
<1> USE DEF IntrInit, IntrStart
<1>1. InvOpen
  BY DEF InvOpen
<1>2. InvTable
  BY DEF InvTable
<1>3. InvGsis
  BY DEF InvGsis, Redirected
<1>4. InvLines
  BY DEF InvLines, Redirected
<1> QED
  BY <1>1, <1>2, <1>3, <1>4 DEF LinesInv

LEMMA LinesSteps ==
  ASSUME IntrInv, IntrInv', LinesInv, Wired, [IntrNext]_intrVars
  PROVE  LinesInv'
<1>1. CASE apic_init
  BY <1>1, EarlyStepLines, RedirectLinesLines, FirmwareEntryLines, DefaultConfigLines, EntriesDoneLines,
     AdaptLines, EnableLines, MaskPicLines, SwitchDoneLines
     DEF apic_init
<1>2. CASE UNCHANGED intrVars
  BY <1>2, LinesStay DEF intrVars
<1> QED
  BY <1>1, <1>2, PicInitLines, DriverCallLines, InterruptStays DEF IntrNext

LEMMA LinesInvMeans ==
  ASSUME IntrInv, LinesInv, Wired
  PROVE  LinesExact /\ InitUndone
<1>1. InitUndone
  BY DEF InitUndone, LinesInv, InvOpen
<1>2. at \in {"pic", "failed"} => imr \ {Cascade} = Irqs \ ({Cascade} \union open)
  BY DEF LinesInv, InvOpen
<1>3. ASSUME at = "done", NEW irq \in Irqs \ ({Cascade} \union Astray), LineOf(machine.wire[irq]).mode = "fixed"
      PROVE  /\ LineOf(machine.wire[irq]).vect = IOAPIC_HANDLER_VECT_BASE + machine.wire[irq]
             /\ idt_stub(LineOf(machine.wire[irq]).vect) = "ioapic_handler"
             /\ LineOf(machine.wire[irq]).masked <=> irq \notin open
  <2>1. PICK w : w = machine.wire[irq]
    OBVIOUS
  <2>2. irq \in Told /\ Owner(w) # 0 /\ at \in Redirected
    BY <1>3, <2>1 DEF Wired, Told, Redirected
  <2>3. RightLine(LineOf(w), w, irq \in open)
    BY <1>3, <2>1, <2>2, DoneLine
  <2>4. LineOf(w).vect \in OwnVectors
    <3>1. PICK i : i = Owner(w)
      OBVIOUS
    <3>2. PICK n : n = w - ioapic_info[i].base
      OBVIOUS
    <3>3. LinesOf(redtbl) /\ InvInfo
      BY <2>2 DEF IntrInv, InvGates
    <3>4. LineOf(w) = redtbl[i][n] /\ i \in DOMAIN redtbl /\ n \in DOMAIN redtbl[i]
      BY <2>2, <3>1, <3>2, <3>3, LineIs, LineAt
    <3> QED
      BY <1>3, <2>1, <3>3, <3>4 DEF LinesOf
  <2>5. Gate(LineOf(w).vect) = "ioapic_handler"
    BY <2>2, <2>4 DEF IntrInv, InvGates
  <2>6. idt_stub(LineOf(w).vect) = Gate(LineOf(w).vect)
    BY DEF idt_stub, Gate, Stub, ExcStub, IrqStub
  <2> QED
    BY <1>3, <2>1, <2>3, <2>5, <2>6 DEF RightLine
<1>4. LinesExact
  BY <1>2, <1>3 DEF LinesExact
<1> QED
  BY <1>1, <1>4

(* The masks that drivers have asked for are those of the lines, through   *)
(* the PIC, at every point of the switch, and through the I/O APICs after; *)
(* each line raises the vector of its own gate; and a switch that is given *)
(* up leaves nothing mapped or allocated (apic_init(), pic_mask(),         *)
(* pic_unmask(), ioapic_mask()): for any machine whose tables tell the     *)
(* truth, with any number of lines, drivers and handlers.                  *)
THEOREM SwitchExactHolds == IntrSpec /\ []FewLines /\ []OtherBuses /\ []Wired => []SwitchExact
<1>1. IntrInit => IntrInv /\ LinesInv
  BY IntrStarts, LinesStart
<1>2. IntrInv /\ LinesInv /\ FewLines /\ OtherBuses /\ Wired /\ [IntrNext]_intrVars => IntrInv' /\ LinesInv'
  <2> SUFFICES ASSUME IntrInv, LinesInv, FewLines, OtherBuses, Wired, [IntrNext]_intrVars PROVE IntrInv' /\ LinesInv'
    OBVIOUS
  <2>1. IntrInv'
    BY IntrSteps
  <2> QED
    BY <2>1, LinesSteps
<1>3. IntrInv /\ LinesInv /\ FewLines /\ Wired => SwitchExact
  BY LinesInvMeans DEF SwitchExact
<1> QED
  BY <1>1, <1>2, <1>3, PTL DEF IntrSpec

===============================================================================
