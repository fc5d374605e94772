------------------------------ MODULE MCDrivers ------------------------------
(***************************************************************************)
(* Instances, for TLC, of the modules about the devices: interrupts, what  *)
(* is shown, and the events of the keyboards. Each behaviour belongs to    *)
(* one of the parts, and leaves the variables of the others as they        *)
(* started.                                                                *)
(***************************************************************************)
EXTENDS Intr, MCConsole, Pixels, Serial, MCKeyboard

\* Machines, and drivers.
CONSTANTS pit, kbd, aux
Identity == [irq \in Irqs |-> irq]
TimerAt2 == [Identity EXCEPT ![0] = 2]
MCHandler == {pit, kbd, aux}
\* The timer, a line of the master that two drivers may share, and one of the slave.
MCIrqOf == [d \in MCHandler |-> CASE d = pit -> {0} [] d = kbd -> {1} [] OTHER -> {1, 7}]
One == <<[base |-> 0, inputs |-> 10]>>
Two == <<[base |-> 0, inputs |-> 5], [base |-> 5, inputs |-> 4]>>
Override == [type |-> "override", irq |-> 0, gsi |-> 2]
IoNmi == [type |-> "ioapic nmi", gsi |-> 9]
Local == [type |-> "local", lint |-> 0, kind |-> "extint"]
Assign(irq, intin) == [type |-> "irq", isa |-> TRUE, irq |-> irq, dest |-> 1, intin |-> intin, kind |-> "int"]
\* A device on the PCI bus, at an input of its own.
PciLine == [Assign(6, 9) EXCEPT !.isa = FALSE]
Tables(kind, ioapics, entries, wire, bios) == [kind |-> kind, ioapics |-> ioapics, entries |-> entries, wire |-> wire, bios |-> bios]
MCMachine ==
  {Tables("none", <<>>, <<>>, Identity, FALSE),
   Tables("acpi", One, <<Override, IoNmi>>, TimerAt2, TRUE),
   Tables("acpi", Two, <<Override, [type |-> "local", lint |-> 1, kind |-> "nmi"]>>, TimerAt2, FALSE),
   Tables("mp", One, <<PciLine, Assign(0, 2), Assign(1, 1), Local>>, TimerAt2, TRUE),
   Tables("default", One, <<>>, TimerAt2, FALSE)}

\* Every type of pixel, and runs on a small buffer that end within it, which is
\* where the font of a driver draws.
Levels == {0, 154, 255}
Types == [bits : {15, 16, 32}, order : {"RGB", "BGR"}, re : BOOLEAN] \union [bits : {24}, order : {"RGB", "BGR"}, re : {FALSE}]
OfColor(f, c) == [f |-> f, c |-> c, x |-> 0, y |-> 0, n |-> 1, gap |-> 0, fill |-> FALSE]
Colors == {OfColor(p[1], p[2]) : p \in Types \X (Levels \X Levels \X Levels)}
Shape(bits) == [bits |-> bits, order |-> "RGB", re |-> FALSE]
Sized == [f : {Shape(16), Shape(24), Shape(32)}, c : {<<0, 154, 255>>}, x : 0..WIDTH - 1, y : 0..HEIGHT - 1,
          n : 0..WIDTH * HEIGHT, gap : {0, 1, 2, 4}, fill : BOOLEAN]
Fits(d) == IF d.fill THEN d.x = 0 /\ d.y + d.n <= HEIGHT ELSE d.y * WIDTH + d.x + d.n <= WIDTH * HEIGHT
MCDrawing == Colors \union {d \in Sized : Fits(d)}

\* Where the cursor of the serial terminal is, what it is asked for and what is
\* typed: a digit, a letter that ends a report, and what an arrow key begins with.
MCPositions == {<<1, 1>>, <<0, 2>>, <<12, 3>>}
MCIndexes == {4, 12, 200}
MCKeys == {5, REPORT, ESC, BRACKET}

CONSTANTS Parts
VARIABLE part

screenVars == <<consoleVars, pixelVars, serialVars>>
\* What part p starts from, or only one way to start for the others.
Of(p, S) == IF part = p THEN S ELSE {CHOOSE x \in S : TRUE}
DriversInit ==
  /\ part \in Parts
  /\ IntrStart(Of("intr", Machine))
  /\ ConsoleStart(Of("console", FbMode), Of("console", BOOLEAN))
  /\ PixelsStart(Of("pixels", Drawing))
  /\ SerialStart(Of("serial", Positions))
  /\ Init /\ (part = "kbd" \/ kbd_events[KBD_MAXEVENTS] = NoEvent)
DriversNext ==
  \/ part = "intr" /\ IntrNext /\ UNCHANGED <<part, screenVars, vars>>
  \/ part = "console" /\ ConsoleNext /\ UNCHANGED <<part, intrVars, pixelVars, serialVars, vars>>
  \/ part = "pixels" /\ PixelsNext /\ UNCHANGED <<part, intrVars, consoleVars, serialVars, vars>>
  \/ part = "serial" /\ SerialNext /\ UNCHANGED <<part, intrVars, consoleVars, pixelVars, vars>>
  \/ part = "kbd" /\ EventNext /\ UNCHANGED <<part, intrVars, screenVars>>
DriversSpec == DriversInit /\ [][DriversNext]_<<part, intrVars, screenVars, vars>>

(* What the displays show and answer: the terminals alike, each pixel as   *)
(* its type is laid out, and the cursor of a serial terminal found where   *)
(* it is, unless an arrow key was typed into the answer (terminal.c,       *)
(* fbuf.c, term_serial.c).                                                 *)
ScreensExact == TwinScreens /\ PixelExact /\ SerialExact
==============================================================================
