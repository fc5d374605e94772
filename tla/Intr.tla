-------------------------------- MODULE Intr --------------------------------
(***************************************************************************)
(* Interrupts: the handler tables of the PIC and of the I/O APICs, the     *)
(* switch from one to the other while the kernel starts, and the way of an *)
(* interrupt through the gates to the handlers and to its acknowledgement  *)
(* (arch/x86/i8259.c, arch/x86cpu/apic.c, idt.c and desctabs.asm).         *)
(*                                                                         *)
(* HALF lines to a PIC stand for the eight of the hardware. A line of an   *)
(* I/O APIC is numbered from 0; wire gives the GSI a device's IRQ arrives  *)
(* at, which is what the tables of the firmware are there to say.          *)
(***************************************************************************)
EXTENDS Integers, Sequences, FiniteSets, SequencesExt

CONSTANTS
  HALF,           \* lines of a PIC
  PIC_SLOTS,      \* entries pic_init() allocates in pic_handlers
  Machine,        \* what the firmware may describe
  Handler, irqOf, \* handlers of drivers, and the lines each may be asked for
  timer,          \* the handler that may switch tasks
  None,
  MAX_NEST,       \* bound: interrupts that wait for one another
  MAX_OPS         \* bound: calls of drivers

Irqs == 0..2 * HALF - 1
Cascade == 2
PIC_VECT_BASE == 32
IOAPIC_HANDLER_VECT_BASE == 48
NMI_VECT == 2
LAPIC_SPURIOUS_VECT == 255
ASSUME IntrAssumption ==
  /\ HALF \in Nat /\ Cascade < HALF /\ PIC_VECT_BASE + 2 * HALF <= IOAPIC_HANDLER_VECT_BASE
  /\ None \notin Irqs
  /\ \A m \in Machine : m.ioapics \in Seq([base : Nat, inputs : Nat])
\* What drivers ask for, and the entries of a machine's tables.
ASSUME LineAssumption ==
  /\ PIC_SLOTS \in Nat
  /\ irqOf \in [Handler -> SUBSET Irqs] /\ None \notin Handler
  /\ \A m \in Machine : Len(m.entries) \in Nat /\ DOMAIN m.entries = 1..Len(m.entries)
Vectors == 0..255

VARIABLES
  machine,          \* tables of the firmware, and the wires
  at, pos,          \* place in apic_init(), and the entry it is at
  held,             \* what apic_init() has mapped and allocated
  idt_handlers, imr, isr, pic_handlers,
  ioapic_irq_gsi, ioapic_info, redtbl, ioapic_handlers,
  lint0, lapic_isr, apic_on, apic_enabled,
  frames, parked,   \* handlers under way, and those of tasks switched away from
  reg, ops,         \* registration under way, calls made
  bound, open, last \* history: who registered what, lines unmasked, the last interrupt
initVars == <<machine, at, pos, held>>
picVars == <<imr, pic_handlers>>
ioapicVars == <<ioapic_irq_gsi, ioapic_info, redtbl, ioapic_handlers>>
lapicVars == <<lint0, apic_on, apic_enabled>>
serviceVars == <<isr, lapic_isr, frames, parked, last>>
opVars == <<reg, ops, bound, open>>
intrVars == <<initVars, idt_handlers, picVars, ioapicVars, lapicVars, serviceVars, opVars>>

-----------------------------------------------------------------------------
(* The gates. Every vector has a stub, which pushes an error code where    *)
(* the processor does not, and the vector; idt_stub() looks the handler up. *)

WithCode == {8} \union 10..14 \union {17, 30}
ExcStub(v) == [vector |-> v, pushes |-> IF v \in WithCode THEN <<"vector">> ELSE <<"zero", "vector">>]
IrqStub(v) == [vector |-> v, pushes |-> <<"zero", "vector">>]
Stub(v) == IF v < 32 THEN ExcStub(v) ELSE IrqStub(v)
exc_stubs == [v \in 0..31 |-> "exc_stub"]
intr_handle(t, vs, h) == [v \in DOMAIN t \union vs |-> IF v \in vs THEN h ELSE t[v]]
idt_stub(v) == LET seen == Stub(v).vector IN IF seen \in DOMAIN idt_handlers THEN idt_handlers[seen] ELSE None

-----------------------------------------------------------------------------
(* The tables of handlers: a table is grown only when every entry is used. *)

Entry(irq, h) == [irq |-> irq, handler |-> h]
Empty == Entry(0, None)
FreeSlot(t) == SelectInSeq(t, LAMBDA e : e.handler = None)
Handles(e, irq) == e.handler # None /\ e.irq = irq
Called(t, irq) == LET hs == SelectSeq(t, LAMBDA e : Handles(e, irq)) IN [i \in DOMAIN hs |-> hs[i].handler]
pic_is_handled(irq) == \E i \in DOMAIN pic_handlers : Handles(pic_handlers[i], irq)
ioapic_handle(t, gsi, h) == IF FreeSlot(t) = 0 THEN t ELSE [t EXCEPT ![FreeSlot(t)] = Entry(gsi, h)]

\* The adapter of the PIC's handlers: those of the first IRQ that has the GSI.
Adapted(gsi) == {irq \in Irqs : ioapic_irq_gsi[irq] = gsi}
LegacyIrq(gsi) == CHOOSE irq \in Adapted(gsi) : \A other \in Adapted(gsi) : irq <= other
ioapic_legacy_handler(gsi) == IF Adapted(gsi) = {} THEN <<>> ELSE Called(pic_handlers, LegacyIrq(gsi))

-----------------------------------------------------------------------------
(* The lines of the I/O APICs.                                             *)

Line(vect, masked, mode) == [vect |-> vect, masked |-> masked, mode |-> mode]
\* The I/O APIC a GSI is looked for in: one line too many is taken as its own.
Reaches(i, gsi) == gsi \in ioapic_info[i].base..ioapic_info[i].base + ioapic_info[i].inputs
Owns(i, gsi) == gsi \in ioapic_info[i].base..ioapic_info[i].base + ioapic_info[i].inputs - 1
FirstOf(S) == IF S = {} THEN 0 ELSE CHOOSE i \in S : \A j \in S : i <= j
Reached(gsi) == FirstOf({i \in DOMAIN ioapic_info : Reaches(i, gsi)})
Owner(gsi) == FirstOf({i \in DOMAIN ioapic_info : Owns(i, gsi)})
SetMask(tbl, i, n, masked) == IF n \in DOMAIN tbl[i] THEN [tbl EXCEPT ![i][n].masked = masked] ELSE tbl
\* A slip: the GSI itself taken for the line of its I/O APIC.
MaskedByGsi(tbl, gsi, masked) == IF Reached(gsi) = 0 THEN tbl ELSE SetMask(tbl, Reached(gsi), gsi, masked)
Masked(tbl, gsi, masked) ==
  IF Reached(gsi) = 0 THEN tbl
  ELSE SetMask(tbl, Reached(gsi), gsi - ioapic_info[Reached(gsi)].base, masked)
ioapic_mask(tbl, gsi) == Masked(tbl, gsi, TRUE)
ioapic_unmask(tbl, gsi) == Masked(tbl, gsi, FALSE)
ioapic_get_mask(gsi) ==
  \/ Reached(gsi) = 0
  \/ LET n == gsi - ioapic_info[Reached(gsi)].base IN n \in DOMAIN redtbl[Reached(gsi)] /\ redtbl[Reached(gsi)][n].masked

pic_get_mask == IF apic_enabled THEN {irq \in Irqs : ioapic_get_mask(ioapic_irq_gsi[irq])} ELSE imr
\* The lines that IRQs lead to, and the table with all of them masked or open.
Led(irqs) ==
  {<<Reached(gsi), gsi - ioapic_info[Reached(gsi)].base>> :
     gsi \in {g \in {ioapic_irq_gsi[irq] : irq \in irqs} : Reached(g) # 0}}
EachGsi(irqs, masked) ==
  [i \in DOMAIN redtbl |-> [n \in DOMAIN redtbl[i] |->
     IF <<i, n>> \in Led(irqs) THEN [redtbl[i][n] EXCEPT !.masked = masked] ELSE redtbl[i][n]]]
pic_mask_bm(irqs) ==
  IF apic_enabled
  THEN /\ redtbl' = EachGsi({irq \in irqs : ~ioapic_get_mask(ioapic_irq_gsi[irq])}, TRUE)
       /\ UNCHANGED imr
  ELSE imr' = imr \union (irqs \ {Cascade}) /\ UNCHANGED redtbl
pic_unmask_bm(irqs) ==
  IF apic_enabled
  THEN /\ redtbl' = EachGsi({irq \in irqs : ioapic_get_mask(ioapic_irq_gsi[irq])}, FALSE)
       /\ UNCHANGED imr
  ELSE imr' = imr \ irqs /\ UNCHANGED redtbl

-----------------------------------------------------------------------------
(* Calls of the drivers. An interrupt may come between the steps in which  *)
(* an entry is filled in.                                                  *)

IntrStart(machines) ==
  /\ machine \in machines
  /\ at = "boot" /\ pos = 1 /\ held = {}
  /\ idt_handlers = exc_stubs /\ imr = Irqs \ {Cascade} /\ isr = {} /\ pic_handlers = <<>>
  /\ ioapic_irq_gsi = [irq \in Irqs |-> irq] /\ ioapic_info = <<>> /\ redtbl = <<>> /\ ioapic_handlers = <<>>
  /\ lint0 = "extint" /\ lapic_isr = {} /\ apic_on = machine.bios /\ apic_enabled = FALSE
  /\ frames = <<>> /\ parked = <<>> /\ reg = None /\ ops = 0
  /\ bound = [d \in Handler |-> None] /\ open = {} /\ last = None
IntrInit == IntrStart(Machine)

pic_init ==
  /\ at = "boot"
  /\ at' = "pic" /\ imr' = Irqs \ {Cascade} /\ isr' = {}
  /\ pic_handlers' = [i \in 1..PIC_SLOTS |-> Empty]
  /\ idt_handlers' = intr_handle(idt_handlers, {PIC_VECT_BASE + irq : irq \in Irqs}, "pic_handler_stub")
  /\ UNCHANGED <<machine, pos, held, ioapicVars, lapicVars, lapic_isr, frames, parked, last, opVars>>

\* The thread that makes the calls runs: no handler does, and apic_init() is not under way.
Calls == at \in {"pic", "done", "failed", "broken"} /\ frames = <<>>
Count == ops < MAX_OPS /\ ops' = ops + 1
\* A line that has an adapter already gets no second one: the callers of the
\* source register before the switch, or for a line of their own.
MayJoin(irq) == ~apic_enabled \/ ~\E i \in DOMAIN ioapic_handlers : Handles(ioapic_handlers[i], ioapic_irq_gsi[irq])
HandleIrq(d, irq) ==
  /\ Calls /\ Count /\ reg = None /\ bound[d] = None /\ MayJoin(irq)
  /\ FreeSlot(pic_handlers) # 0
  /\ pic_handlers' = [pic_handlers EXCEPT ![FreeSlot(pic_handlers)].irq = irq]
  /\ reg' = [driver |-> d, irq |-> irq, slot |-> FreeSlot(pic_handlers), step |-> "handler"]
  /\ UNCHANGED <<initVars, idt_handlers, imr, ioapicVars, lapicVars, serviceVars, bound, open>>
Registered(t) == [t EXCEPT ![reg.slot].handler = reg.driver]
HandleHandler ==
  /\ Calls /\ reg # None /\ reg.step = "handler"
  /\ pic_handlers' = Registered(pic_handlers)
  /\ IF apic_enabled THEN reg' = [reg EXCEPT !.step = "adapter"] /\ UNCHANGED bound
     ELSE reg' = None /\ bound' = [bound EXCEPT ![reg.driver] = [irq |-> reg.irq, id |-> reg.slot]]
  /\ UNCHANGED <<initVars, idt_handlers, imr, ioapicVars, lapicVars, serviceVars, ops, open>>
HandleAdapter ==
  /\ Calls /\ reg # None /\ reg.step = "adapter"
  /\ ioapic_handlers' = ioapic_handle(ioapic_handlers, ioapic_irq_gsi[reg.irq], "ioapic_legacy_handler")
  /\ reg' = None /\ bound' = [bound EXCEPT ![reg.driver] = [irq |-> reg.irq, id |-> reg.slot]]
  /\ UNCHANGED <<initVars, idt_handlers, picVars, ioapic_irq_gsi, ioapic_info, redtbl, lapicVars, serviceVars, ops, open>>
pic_unhandle(d) ==
  /\ Calls /\ Count /\ reg = None /\ bound[d] # None
  /\ pic_handlers' = [pic_handlers EXCEPT ![bound[d].id].handler = None]
  /\ bound' = [bound EXCEPT ![d] = None]
  /\ UNCHANGED <<initVars, idt_handlers, imr, ioapicVars, lapicVars, serviceVars, reg, open>>

Masking == Calls /\ Count /\ reg = None
maskRest == <<initVars, idt_handlers, pic_handlers, ioapic_irq_gsi, ioapic_info, ioapic_handlers, lapicVars, serviceVars, reg, bound>>
pic_mask(irq) ==
  /\ Masking /\ open' = open \ {irq}
  /\ IF apic_enabled THEN redtbl' = ioapic_mask(redtbl, ioapic_irq_gsi[irq]) /\ UNCHANGED imr ELSE pic_mask_bm({irq})
  /\ UNCHANGED maskRest
pic_unmask(irq) ==
  /\ Masking /\ open' = open \union {irq}
  /\ IF apic_enabled THEN redtbl' = ioapic_unmask(redtbl, ioapic_irq_gsi[irq]) /\ UNCHANGED imr ELSE pic_unmask_bm({irq})
  /\ UNCHANGED maskRest
MaskMany(irqs) == Masking /\ open' = open \ irqs /\ pic_mask_bm(irqs) /\ UNCHANGED maskRest
UnmaskMany(irqs) == Masking /\ open' = open \union irqs /\ pic_unmask_bm(irqs) /\ UNCHANGED maskRest

-----------------------------------------------------------------------------
(* An interrupt: it is taken when its line is open and nothing of the same *)
(* or a higher priority is in service, since the stub turns interrupts on  *)
(* again before it calls the handler.                                      *)

OnMaster(irqs) == irqs \intersect 0..HALF - 1
OnSlave(irqs) == irqs \ 0..HALF - 1
Least(S) == {x \in S : \A y \in S : x <= y}
AfterMasterEoi(s) == s \ Least(OnMaster(s))
AfterSlaveEoi(s) == s \ Least(OnSlave(s))
\* A slip: a line of the slave acknowledged there alone.
SlaveEoiAlone(s, irq) == IF irq >= HALF THEN AfterSlaveEoi(s) ELSE AfterMasterEoi(s)
pic_eoi_inline(s, irq) == AfterMasterEoi(IF irq >= HALF THEN AfterSlaveEoi(s) ELSE s)
Greatest(S) == {x \in S : \A y \in S : x >= y}
apic_eoi(s) == s \ Greatest(s)

Serving(irq) == IF irq < HALF THEN {irq} ELSE {irq, Cascade}
PicTakes(irq) ==
  /\ irq # Cascade /\ irq \notin imr /\ (irq >= HALF => Cascade \notin imr)
  /\ \A m \in OnMaster(Serving(irq)), s \in OnMaster(isr) : m < s
  /\ \A m \in OnSlave(Serving(irq)), s \in OnSlave(isr) : m < s
PicPath == at # "boot" /\ (apic_on => lint0 = "extint")
Pushed(via, vector, irq) == frames' = Append(frames, [via |-> via, vector |-> vector, irq |-> irq, step |-> "run"])
Arrives == Len(frames) < MAX_NEST /\ last' = None
interruptRest == <<initVars, idt_handlers, picVars, ioapicVars, lapicVars, parked, opVars>>
RaisePic(irq) ==
  /\ Arrives /\ PicPath /\ PicTakes(irq)
  /\ isr' = isr \union Serving(irq)
  /\ Pushed("pic", PIC_VECT_BASE + irq, irq)
  /\ UNCHANGED <<interruptRest, lapic_isr>>
\* The line falls before the processor asks for the vector: it gets that of the last line.
RaiseSpurious(irq) ==
  /\ Arrives /\ PicPath /\ PicTakes(irq)
  /\ isr' = isr \union (Serving(irq) \ {irq})
  /\ Pushed("pic", PIC_VECT_BASE + (IF irq < HALF THEN HALF ELSE 2 * HALF) - 1, None)
  /\ UNCHANGED <<interruptRest, lapic_isr>>
LineOf(gsi) == LET i == Owner(gsi) IN IF i \notin DOMAIN redtbl THEN Line(0, TRUE, "fixed") ELSE redtbl[i][gsi - ioapic_info[i].base]
RaiseApic(irq) ==
  LET line == LineOf(machine.wire[irq]) IN
  /\ Arrives /\ apic_on /\ irq # Cascade
  /\ ~line.masked /\ line.mode = "fixed"
  /\ \A v \in lapic_isr : v \div 16 < line.vect \div 16
  /\ lapic_isr' = lapic_isr \union {line.vect}
  /\ Pushed("apic", line.vect, irq)
  /\ UNCHANGED <<interruptRest, isr>>

Top == frames[Len(frames)]
Popped == SubSeq(frames, 1, Len(frames) - 1)
Due(irq) == {d \in Handler : bound[d] # None /\ bound[d].irq = irq}
Log(irq, ran, cut) == [irq |-> irq, ran |-> ran, due |-> Due(irq), cut |-> cut]
\* The handlers up to the timer's, when that one switches to another task: the
\* rest of them, and the acknowledgement, are passed over with the frame.
UpToTimer(hs) == SubSeq(hs, 1, SelectInSeq(hs, LAMBDA h : h = timer))
Tasking == at \in {"done", "failed", "broken"}
SwitchEoi ==
  IF apic_enabled THEN lapic_isr' = apic_eoi(lapic_isr) /\ UNCHANGED isr
  ELSE isr' = AfterMasterEoi(AfterSlaveEoi(isr)) /\ UNCHANGED lapic_isr
Run(hs) ==
  \/ /\ frames' = Append(Popped, [Top EXCEPT !.step = "eoi"]) /\ last' = Log(Top.irq, hs, FALSE)
     /\ UNCHANGED <<isr, lapic_isr, parked>>
  \/ /\ Tasking /\ timer \in Range(hs) /\ parked = <<>>
     /\ frames' = <<>> /\ parked' = Popped /\ SwitchEoi
     /\ last' = Log(Top.irq, UpToTimer(hs), TRUE)
handlerRest == <<initVars, idt_handlers, picVars, ioapicVars, lapicVars, opVars>>

Spurious(irq) == irq \in {HALF - 1, 2 * HALF - 1} /\ irq \notin isr
pic_handler_stub(irq) ==
  IF Spurious(irq)
  THEN /\ frames' = Popped
       /\ isr' = IF irq = 2 * HALF - 1 THEN pic_eoi_inline(isr, Cascade) ELSE isr
       /\ last' = None /\ UNCHANGED <<lapic_isr, parked>>
  ELSE Run(Called(pic_handlers, irq))
GsiHandlers(gsi) == FlattenSeq([i \in DOMAIN Called(ioapic_handlers, gsi) |-> ioapic_legacy_handler(gsi)])
ioapic_handler(gsi) == Run(GsiHandlers(gsi))
HandleTop ==
  /\ frames # <<>> /\ Top.step = "run"
  /\ IF idt_stub(Top.vector) = "pic_handler_stub" THEN pic_handler_stub(Top.vector - PIC_VECT_BASE)
     ELSE IF idt_stub(Top.vector) = "ioapic_handler" THEN ioapic_handler(Top.vector - IOAPIC_HANDLER_VECT_BASE)
     ELSE frames' = Popped /\ last' = None /\ UNCHANGED <<isr, lapic_isr, parked>>
  /\ UNCHANGED handlerRest
EndTop ==
  /\ frames # <<>> /\ Top.step = "eoi"
  /\ IF idt_stub(Top.vector) = "pic_handler_stub"
     THEN isr' = pic_eoi_inline(isr, Top.vector - PIC_VECT_BASE) /\ UNCHANGED lapic_isr
     ELSE lapic_isr' = apic_eoi(lapic_isr) /\ UNCHANGED isr
  /\ frames' = Popped /\ last' = None
  /\ UNCHANGED <<handlerRest, parked>>
\* task_yield_noirq(): the switch acknowledges whatever is in service; the task
\* that is switched to may be one an interrupt was taken from.
YieldTask ==
  /\ Tasking /\ frames = <<>> /\ reg = None /\ last' = None
  /\ frames' = parked /\ parked' = <<>> /\ SwitchEoi
  /\ UNCHANGED handlerRest

-----------------------------------------------------------------------------
(* apic_init(). Interrupts arrive between its steps, through whatever path *)
(* is open by then.                                                        *)

apicRest == <<serviceVars, opVars, machine>>
Begin(from) == at = from /\ frames = <<>>
GiveUp(end, kept) == at' = end /\ held' = kept /\ pos' = 1
tables == <<idt_handlers, picVars, ioapicVars, lapicVars>>
LastOf(S) == IF S = {} THEN 0 ELSE CHOOSE x \in S : \A y \in S : x >= y
\* One more than the last GSI; the tables of the MP specification give no bases.
max_gsis ==
  LastOf({ioapic_info[i].inputs + (IF machine.kind = "acpi" THEN ioapic_info[i].base ELSE 0) : i \in DOMAIN ioapic_info})

ApicStart ==
  /\ Begin("pic") /\ reg = None
  /\ IF machine.kind = "none" THEN GiveUp("failed", {}) ELSE at' = "lapic" /\ UNCHANGED <<pos, held>>
  /\ UNCHANGED <<tables, apicRest>>
Acquire(from, what, to) ==
  /\ Begin(from)
  /\ \/ held' = held \union {<<what, 0>>} /\ at' = to /\ pos' = 1
     \/ GiveUp("failed", {})
  /\ UNCHANGED <<tables, apicRest>>
MapLapic == Acquire("lapic", "lapic", "info")
AllocInfo == Acquire("info", "ioapic_info", "cpus")
AllocCpus == Acquire("cpus", "apic_cpu_info", "store")

Base(i) ==
  IF machine.kind = "acpi" THEN machine.ioapics[i].base
  ELSE IF i = 1 THEN 0 ELSE ioapic_info[i - 1].base + ioapic_info[i - 1].inputs
StoreIoapic ==
  /\ Begin("store") /\ pos <= Len(machine.ioapics)
  /\ \/ /\ ioapic_info' = Append(ioapic_info, [base |-> Base(pos), inputs |-> machine.ioapics[pos].inputs])
        /\ held' = held \union {<<"ioapic", pos>>} /\ pos' = pos + 1 /\ UNCHANGED at
     \/ GiveUp("failed", {}) /\ UNCHANGED ioapic_info
  /\ UNCHANGED <<idt_handlers, picVars, ioapic_irq_gsi, redtbl, ioapic_handlers, lapicVars, apicRest>>
\* The list of handlers is allocated twice: the first one is lost, and so is
\* everything when the second cannot be had.
AllocHandlers ==
  /\ Begin("store") /\ pos > Len(machine.ioapics)
  /\ \/ GiveUp("failed", {}) /\ UNCHANGED <<ioapic_handlers, lint0>>
     \/ /\ lint0' = "masked"
        /\ \/ /\ ioapic_handlers' = [g \in 1..max_gsis |-> Empty]
              /\ held' = held \union {<<"lost list", 0>>, <<"ioapic_handlers", 0>>} /\ at' = "redirect" /\ pos' = 1
           \/ GiveUp("broken", held \union {<<"lost list", 0>>}) /\ UNCHANGED ioapic_handlers
  /\ UNCHANGED <<idt_handlers, picVars, ioapic_irq_gsi, ioapic_info, redtbl, apic_on, apic_enabled, apicRest>>

VectOf(i, n) == IOAPIC_HANDLER_VECT_BASE + ioapic_info[i].base + n
OwnVectors == UNION {{VectOf(i, n) : n \in 0..ioapic_info[i].inputs - 1} : i \in DOMAIN ioapic_info}
RedirectLines ==
  /\ Begin("redirect")
  /\ redtbl' = [i \in DOMAIN ioapic_info |-> [n \in 0..ioapic_info[i].inputs - 1 |-> Line(VectOf(i, n), TRUE, "fixed")]]
  /\ idt_handlers' = intr_handle(idt_handlers, OwnVectors, "ioapic_handler")
  /\ at' = "entries" /\ pos' = 1
  /\ UNCHANGED <<held, picVars, ioapic_irq_gsi, ioapic_info, ioapic_handlers, lapicVars, apicRest>>

PutLine(i, n, line) == IF i \in DOMAIN redtbl /\ n \in DOMAIN redtbl[i] THEN redtbl' = [redtbl EXCEPT ![i][n] = line] ELSE UNCHANGED redtbl
PutGsi(gsi, line) ==
  LET i == Owner(gsi) IN IF i = 0 THEN UNCHANGED redtbl ELSE PutLine(i, gsi - ioapic_info[i].base, line)
Nmi == Line(NMI_VECT, FALSE, "nmi")
ExtInt == Line(LAPIC_SPURIOUS_VECT, FALSE, "extint")
SourceOverride(e) ==
  /\ ioapic_irq_gsi' = [ioapic_irq_gsi EXCEPT ![e.irq] = e.gsi]
  /\ PutGsi(e.gsi, Line(IOAPIC_HANDLER_VECT_BASE + e.gsi, TRUE, "fixed"))
  /\ UNCHANGED lint0
IoapicNmi(e) == PutGsi(e.gsi, Nmi) /\ UNCHANGED <<ioapic_irq_gsi, lint0>>
\* An entry of the MP table, for an IRQ of the ISA bus, or for a device of another:
\* irq is then its number and pin, which the table of IRQs is read with, and the
\* line gets the vector of that IRQ's GSI instead of its own.
IrqAssign(e) ==
  LET gsi == IF e.isa THEN ioapic_info[e.dest].base + e.intin ELSE ioapic_irq_gsi[e.irq] IN
  /\ ioapic_irq_gsi' = [ioapic_irq_gsi EXCEPT ![e.irq] = gsi]
  /\ PutLine(e.dest, e.intin, IF e.kind = "nmi" THEN Nmi ELSE IF e.kind = "extint" THEN ExtInt
                               ELSE Line(IOAPIC_HANDLER_VECT_BASE + gsi, TRUE, "fixed"))
  /\ UNCHANGED lint0
LocalInt(e) ==
  /\ lint0' = IF e.lint # 0 THEN lint0 ELSE e.kind
  /\ UNCHANGED <<ioapic_irq_gsi, redtbl>>
FirmwareEntry ==
  /\ Begin("entries") /\ pos <= Len(machine.entries)
  /\ LET e == machine.entries[pos] IN
     \/ e.type = "override" /\ SourceOverride(e)
     \/ e.type = "ioapic nmi" /\ IoapicNmi(e)
     \/ e.type = "irq" /\ IrqAssign(e)
     \/ e.type = "local" /\ LocalInt(e)
  /\ pos' = pos + 1
  /\ UNCHANGED <<at, held, idt_handlers, picVars, ioapic_info, ioapic_handlers, apic_on, apic_enabled, apicRest>>
\* The default configuration: the timer's line is the third, and gets its first vector.
DefaultLine(n) ==
  IF n = 0 THEN ExtInt
  ELSE Line(IOAPIC_HANDLER_VECT_BASE + (IF n = 2 THEN 0 ELSE n), TRUE, "fixed")
DefaultConfig ==
  /\ Begin("entries") /\ machine.kind = "default" /\ pos = Len(machine.entries) + 1
  /\ redtbl' = [redtbl EXCEPT ![1] = [n \in DOMAIN redtbl[1] |-> IF n \in Irqs THEN DefaultLine(n) ELSE redtbl[1][n]]]
  /\ lint0' = "extint" /\ pos' = pos + 1
  /\ UNCHANGED <<at, held, idt_handlers, picVars, ioapic_irq_gsi, ioapic_info, ioapic_handlers, apic_on, apic_enabled, apicRest>>
EntriesDone ==
  /\ Begin("entries") /\ pos = Len(machine.entries) + (IF machine.kind = "default" THEN 2 ELSE 1)
  /\ at' = "adapt" /\ pos' = 1
  /\ UNCHANGED <<held, tables, apicRest>>

\* The adapter for the IRQ of each entry of the PIC's table, once for an IRQ.
\* A slip: an adapter for every entry, though two entries be for one IRQ.
SeenNone(n) == {}
Seen(n) == {pic_handlers[k].irq : k \in {j \in 1..n - 1 : pic_handlers[j].handler # None}}
AdaptOne(e) ==
  LET gsi == ioapic_irq_gsi[e.irq] IN
  /\ ioapic_handlers' = ioapic_handle(ioapic_handlers, gsi, "ioapic_legacy_handler")
  /\ redtbl' = IF e.irq \in pic_get_mask THEN ioapic_mask(redtbl, gsi) ELSE ioapic_unmask(redtbl, gsi)
Adapt ==
  /\ Begin("adapt") /\ pos <= Len(pic_handlers)
  /\ LET e == pic_handlers[pos] IN
     IF e.handler # None /\ e.irq \notin Seen(pos) THEN AdaptOne(e) ELSE UNCHANGED <<ioapic_handlers, redtbl>>
  /\ pos' = pos + 1
  /\ UNCHANGED <<at, held, idt_handlers, picVars, ioapic_irq_gsi, ioapic_info, lapicVars, apicRest>>
Enable ==
  /\ Begin("adapt") /\ pos > Len(pic_handlers)
  /\ apic_on' = TRUE /\ idt_handlers' = intr_handle(idt_handlers, {LAPIC_SPURIOUS_VECT}, "apic_spurious_handler")
  /\ at' = "mask" /\ pos' = 1
  /\ UNCHANGED <<held, picVars, ioapicVars, lint0, apic_enabled, apicRest>>
MaskPic ==
  /\ Begin("mask") /\ pic_mask_bm(Irqs)
  /\ isr' = pic_eoi_inline(isr, 2 * HALF - 1) /\ lapic_isr' = apic_eoi(lapic_isr)
  /\ at' = "enable" /\ pos' = 1
  /\ UNCHANGED <<held, idt_handlers, pic_handlers, ioapic_irq_gsi, ioapic_info, ioapic_handlers, lapicVars, frames, parked, last, opVars, machine>>
\* A driver asks for its line after it has a handler there: a line nobody
\* handles is left as the I/O APIC had it.
Handled == {irq \in Irqs : pic_is_handled(irq)}
SwitchDone ==
  /\ Begin("enable") /\ apic_enabled' = TRUE /\ at' = "done" /\ pos' = 1
  /\ open' = open \intersect Handled
  /\ UNCHANGED <<held, idt_handlers, picVars, ioapicVars, lint0, apic_on, serviceVars, reg, ops, bound, machine>>

apic_init ==
  \/ ApicStart \/ MapLapic \/ AllocInfo \/ AllocCpus \/ StoreIoapic \/ AllocHandlers \/ RedirectLines
  \/ FirmwareEntry \/ DefaultConfig \/ EntriesDone \/ Adapt \/ Enable \/ MaskPic \/ SwitchDone
DriverCall ==
  \/ \E d \in Handler : pic_unhandle(d) \/ \E irq \in irqOf[d] : HandleIrq(d, irq)
  \/ HandleHandler \/ HandleAdapter
  \/ \E irq \in UNION {irqOf[d] : d \in Handler} : pic_mask(irq) \/ pic_unmask(irq)
  \/ MaskMany(Irqs) \/ \E d \in Handler : UnmaskMany(irqOf[d])
Interrupt ==
  \/ \E irq \in Irqs : RaisePic(irq) \/ RaiseSpurious(irq) \/ RaiseApic(irq)
  \/ HandleTop \/ EndTop \/ YieldTask
IntrNext == pic_init \/ apic_init \/ DriverCall \/ Interrupt
IntrSpec == IntrInit /\ [][IntrNext]_intrVars

-----------------------------------------------------------------------------
(* An interrupt runs the handlers pic_handle() registered for the line it  *)
(* came in on, each of them once, whichever of pic_handler_stub() and      *)
(* ioapic_legacy_handler() it came through and wherever the switch or a    *)
(* registration was at the time; only a timer handler that switches tasks  *)
(* keeps those after it from running.                                      *)
Once(s) == IsInjective(s)
HandlersRun ==
  last # None /\ last.irq # None =>
    /\ Once(last.ran)
    /\ Range(last.ran) \subseteq last.due \union (IF reg = None THEN {} ELSE {reg.driver})
    /\ ~last.cut => last.due \subseteq Range(last.ran)

(* The line a device's IRQ arrives at is open just when a driver has opened *)
(* it, before the switch to the I/O APICs and after (pic_mask(),           *)
(* pic_unmask(), and apic_init(), which carries the masks over), and the   *)
(* vector it raises is the one of its GSI. The timer of a machine without  *)
(* tables is left out: its mask is carried over to the line it is not at.  *)
Astray == IF machine.kind = "default" THEN {0} ELSE {}
LinesExact ==
  /\ at \in {"pic", "failed"} => imr \ {Cascade} = Irqs \ ({Cascade} \union open)
  /\ at = "done" => \A irq \in Irqs \ ({Cascade} \union Astray) :
       LET line == LineOf(machine.wire[irq]) IN
       line.mode = "fixed" =>
         /\ line.vect = IOAPIC_HANDLER_VECT_BASE + machine.wire[irq]
         /\ idt_stub(line.vect) = "ioapic_handler"
         /\ line.masked <=> irq \notin open

(* A line in service at a controller is there for a handler that has still *)
(* to end, whatever nested it, and whatever tasks were switched to: none   *)
(* is left shut off for good (pic_eoi(), apic_eoi() and the one of a task  *)
(* switch).                                                                *)
Underway(via) == {fs \in {frames[i] : i \in DOMAIN frames} \union {parked[i] : i \in DOMAIN parked} : fs.via = via}
ServiceEnds ==
  /\ isr \subseteq UNION {Serving(f.vector - PIC_VECT_BASE) : f \in Underway("pic")}
  /\ lapic_isr \subseteq {f.vector : f \in Underway("apic")}

(* An apic_init() that gives up, at whatever allocation, leaves nothing    *)
(* mapped or allocated (the second list of handlers is the exception).     *)
InitUndone == at = "failed" => held = {}

(* The lines are open as drivers left them, through the switch to the I/O  *)
(* APICs, and a switch that is given up leaves nothing behind (apic_init(),*)
(* pic_mask()).                                                            *)
SwitchExact == LinesExact /\ InitUndone
=============================================================================
