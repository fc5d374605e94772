-------------------------------- MODULE Pci --------------------------------
(***************************************************************************)
(* The PCI bus: the configuration space, the scan that puts the functions  *)
(* in the device tree, and the routing of interrupt pins (drivers/pci.c,   *)
(* arch/x86/pci.c, hal/devtree.c, and the bus table of arch/x86/mptab.c).  *)
(*                                                                         *)
(* A byte is the set of its bits that are set, a double word the sequence  *)
(* of its bytes, the lowest first.                                         *)
(***************************************************************************)
EXTENDS Integers, Sequences, FiniteSets, FiniteSetsExt, SequencesExt

CONSTANTS
  Machine,        \* the functions a machine may have: address -> what they are
  DEVICES, FUNCS, \* devices of a bus, functions of a device
  Space,          \* configuration spaces written to: sequences of bytes
  MpTable         \* tables of the BIOS: sequences of bus and interrupt entries

VARIABLES
  machine,
  host,           \* host controller whose bus is scanned next
  stack,          \* calls of pci_scan_bus() under way: bus, device, function
  geo, ids,       \* children of "by-geo" and of "by-id", the first one first
  lost,           \* a node could not be allocated (history)
  cfg, was, wrote, \* space of a function, what it was, and what was written to it
  mp              \* MP configuration table
pciVars == <<machine, host, stack, geo, ids, lost, cfg, was, wrote, mp>>
scanVars == <<host, stack, geo, ids, lost>>

-----------------------------------------------------------------------------
(* Configuration space.                                                    *)

pci_cfg_read_dword_aligned(c, offset) == [i \in 1..4 |-> c[((offset + i - 1) % Len(c)) + 1]]
pci_cfg_write_dword_aligned(c, offset, d) ==
  [i \in 1..Len(c) |-> IF i \in offset + 1..offset + 4 THEN d[i - offset] ELSE c[i]]
Shr(d, n) == [i \in 1..4 |-> IF i + n <= 4 THEN d[i + n] ELSE {}]
Shl(d, n) == [i \in 1..4 |-> IF i > n THEN d[i - n] ELSE {}]
Or(d, e) == [i \in 1..4 |-> d[i] \union e[i]]
Keep(d, bytes) == [i \in 1..4 |-> IF i \in bytes THEN d[i] ELSE {}]
Wide(val) == [i \in 1..4 |-> IF i <= Len(val) THEN val[i] ELSE {}]

Low(offset) == offset % 4
Dword(c, offset) == pci_cfg_read_dword_aligned(c, offset - Low(offset))
NextDword(c, offset) == pci_cfg_read_dword_aligned(c, offset - Low(offset) + 4)
pci_cfg_read_dword(c, offset) ==
  IF Low(offset) = 0 THEN Dword(c, offset)
  ELSE Or(Shr(Dword(c, offset), Low(offset)), Shl(NextDword(c, offset), 4 - Low(offset)))
pci_cfg_read_byte(c, offset) == SubSeq(Shr(Dword(c, offset), Low(offset)), 1, 1)
pci_cfg_read_word(c, offset) ==
  IF Low(offset) = 3 THEN <<Dword(c, offset)[4], NextDword(c, offset)[1]>>
  ELSE SubSeq(Shr(Dword(c, offset), Low(offset)), 1, 2)

\* Writes val into the double word that offset is in.
PutHere(c, offset, val) ==
  pci_cfg_write_dword_aligned(c, offset - Low(offset),
                              Or(Keep(Dword(c, offset), 1..4 \ (Low(offset) + 1..Low(offset) + Len(val))),
                                 Shl(Wide(val), Low(offset))))
\* Writes to the double word after it: keeps the given bytes and sets d's.
PutNext(c, offset, kept, d) ==
  LET at == (offset - Low(offset) + 4) % Len(c)
  IN pci_cfg_write_dword_aligned(c, at, Or(Keep(pci_cfg_read_dword_aligned(c, at), kept), d))

pci_cfg_write_byte(c, offset, val) == PutHere(c, offset, val)
pci_cfg_write_word(c, offset, val) ==
  IF Low(offset) = 3 THEN PutNext(PutHere(c, offset, val), offset, 2..4, <<val[2], {}, {}, {}>>)
  ELSE PutHere(c, offset, val)
\* The second half is shifted the wrong way: its low byte is what is written.
pci_cfg_write_dword(c, offset, val) ==
  IF Low(offset) = 0 THEN pci_cfg_write_dword_aligned(c, offset, val)
  ELSE PutNext(PutHere(c, offset, val), offset, Low(offset) + 1..4, Shl(val, 4 - Low(offset)))

\* One write, on a machine that is not scanned: bounds, the space is a function's own.
Write(width, offset) ==
  /\ wrote = <<>> /\ host = 0
  /\ wrote' = [offset |-> offset, val |-> [i \in 1..width |-> {i}]]
  /\ was' = cfg
  /\ cfg' = CASE width = 1 -> pci_cfg_write_byte(cfg, offset, wrote'.val)
              [] width = 2 -> pci_cfg_write_word(cfg, offset, wrote'.val)
              [] width = 4 -> pci_cfg_write_dword(cfg, offset, wrote'.val)
  /\ UNCHANGED <<machine, mp, scanVars>>

-----------------------------------------------------------------------------
(* The scan.                                                               *)

Present(a) == a \in DOMAIN machine
Fn(a) == machine[a]
IsBridge(a) == Fn(a).class = <<6, 4>> \/ Fn(a).class = <<6, 9>>
\* The bit of a header type; that of no function reads as set.
Multifunction(a) == IF Present(a) THEN Fn(a).mf ELSE TRUE

Hosts == IF host = 0 THEN {} ELSE 0..host - 1
\* Several hosts when the bit is set; the loop then ends at the first of them that is there.
StartHost ==
  /\ stack = <<>> /\ wrote = <<>>
  /\ host = 0 \/ (Multifunction(<<0, 0, 0>>) /\ host < FUNCS)
  /\ ~(Multifunction(<<0, 0, 0>>) /\ Present(<<0, 0, host>>))
  /\ host' = host + 1
  /\ stack' = <<<<host, 0, 0>>>>
  /\ UNCHANGED <<machine, mp, geo, ids, lost, cfg, was, wrote>>

\* A slip: each function is asked for the bit, not the first one.
AfterAsked(a) ==
  IF Present(a) /\ a[3] < FUNCS - 1 /\ Multifunction(a) THEN <<<<a[1], a[2], a[3] + 1>>>>
  ELSE IF a[2] < DEVICES - 1 THEN <<<<a[1], a[2] + 1, 0>>>> ELSE <<>>

\* Where pci_scan_bus() is after function a.
AfterFunc(a) ==
  IF Present(<<a[1], a[2], 0>>) /\ a[3] < FUNCS - 1 /\ Multifunction(<<a[1], a[2], 0>>)
  THEN <<<<a[1], a[2], a[3] + 1>>>>
  ELSE IF a[2] < DEVICES - 1 THEN <<<<a[1], a[2] + 1, 0>>>> ELSE <<>>

devtree_add_child(children, child) == <<child>> \o children

\* At most one function's nodes fail to be allocated: a bound.
pci_scan_func(ok, ok2) ==
  /\ stack # <<>> /\ (lost => ok /\ ok2)
  /\ LET a == Head(stack)
     IN IF ~Present(a) THEN stack' = AfterFunc(a) \o Tail(stack) /\ UNCHANGED <<geo, ids, lost>>
        ELSE /\ geo' = IF ok THEN devtree_add_child(geo, a) ELSE geo
             /\ ids' = IF ok2 THEN devtree_add_child(ids, <<Fn(a).id, a>>) ELSE ids
             /\ lost' = (lost \/ ~ok \/ ~ok2)
             /\ stack' = (IF IsBridge(a) THEN <<<<Fn(a).sec, 0, 0>>>> ELSE <<>>) \o AfterFunc(a) \o Tail(stack)
  /\ UNCHANGED <<machine, mp, host, cfg, was, wrote>>

\* devtree_traverse_path(): the first child whose name starts with the element.
devtree_traverse(children, e) == SelectInSeq(children, LAMBDA c : IsPrefix(e, c))

-----------------------------------------------------------------------------
(* Routing of interrupts.                                                  *)

\* mp_init(): the table has an entry for each bus up to the largest third letter of a bus type.
BusEntries == {e \in Range(mp) : e.type = "bus"}
mp_busid_cnt == Max({-1} \union {e.letter : e \in BusEntries}) + 1
mp_busid(b) ==
  LET last == SelectLastInSeq(mp, LAMBDA e : e.type = "bus" /\ e.id = b)
  IN IF last = 0 THEN "none" ELSE mp[last].name
EntryOf(bus, dev, pin) ==
  SelectInSeq(mp, LAMBDA e : e.type = "irq" /\ mp_busid(e.bus) = "PCI" /\ e.bus = bus /\ e.dev = dev /\ e.pin = pin)

\* How interrupts are taken is [on |-> whether by I/O APICs, line |-> the input of
\* each ISA line (ioapic_irq_gsi[]), base |-> the first input of each I/O APIC].
\* Lines of the BIOS are offered when the pin asked for is the register's, counted from 1.
pci_arch_get_irq_routing(f, pin, apic) ==
  IF ~(((pin = -1 /\ f.pin \in 1..4) \/ f.pin = pin) /\ f.line <= 15) THEN -1
  ELSE IF apic.on THEN apic.line[f.line] ELSE f.line
pci_arch_route_irq(a, pin, apic) ==
  LET n == EntryOf(a[1], a[2], pin)
  IN IF apic.on /\ mp_busid_cnt > 0 /\ n # 0 /\ mp[n].dest \in DOMAIN apic.base
     THEN apic.base[mp[n].dest] + mp[n].intin ELSE -1
\* On a machine without ACPI, whose routing (drivers/pci.c:178-180) is left out.
pci_route_irq(a, pin, apic) ==
  LET line == pci_arch_get_irq_routing(Fn(a), pin, apic)
  IN IF line # -1 THEN line ELSE pci_arch_route_irq(a, pin, apic)

-----------------------------------------------------------------------------
PciStart(machines, tables, spaces) ==
  /\ machine \in machines /\ mp \in tables /\ cfg \in spaces
  /\ host = 0 /\ stack = <<>> /\ geo = <<>> /\ ids = <<>> /\ lost = FALSE
  /\ was = cfg /\ wrote = <<>>
PciInit == PciStart(Machine, MpTable, Space)
PciNext ==
  \/ \E width \in {1, 2, 4}, offset \in 0..Len(cfg) - 1 : offset + width <= Len(cfg) /\ Write(width, offset)
  \/ StartHost
  \/ \E ok, ok2 \in BOOLEAN : pci_scan_func(ok, ok2)
PciSpec == PciInit /\ [][PciNext]_pciVars

-----------------------------------------------------------------------------
(* Properties.                                                             *)

\* A function other than 0 is only there for a device that says it has several.
FindableOn(B) == {a \in DOMAIN machine : /\ a[1] \in B
                                         /\ a[3] > 0 => Present(<<a[1], a[2], 0>>) /\ Fn(<<a[1], a[2], 0>>).mf}
\* The buses that can be reached from those of the host controllers.
Reached == FoldLeft(LAMBDA B, i : B \union {Fn(a).sec : a \in {x \in FindableOn(B) : IsBridge(x)}},
                    Hosts, [i \in 1..Cardinality(DOMAIN machine) |-> i])
Findable == FindableOn(Reached)

\* When no bus is behind two bridges, the scan puts each function that can be
\* reached in the tree exactly once, under each of its names, and a look-up by
\* its place returns it: bridges are followed in the middle of the scan of
\* their own bus, which goes on where it was (drivers/pci.c pci_scan_func()).
ScanComplete ==
  /\ IsInjective(geo)
  /\ stack = <<>> /\ host > 0 /\ ~lost =>
       /\ {geo[i] : i \in DOMAIN geo} = Findable
       /\ {ids[i] : i \in DOMAIN ids} = {<<Fn(a).id, a>> : a \in Findable}
       /\ \A a \in Findable : geo[devtree_traverse(geo, a)] = a

\* A write changes the bytes it is for and no others, wherever it is aligned,
\* and reading them in any width returns what is there; double words written
\* across two of the bus are not (pci_cfg_write_*(), pci_cfg_read_*()).
CfgExact ==
  /\ wrote # <<>> /\ (Len(wrote.val) < 4 \/ wrote.offset % 4 = 0) =>
       cfg = [i \in DOMAIN was |-> IF i \in wrote.offset + 1..wrote.offset + Len(wrote.val)
                                   THEN wrote.val[i - wrote.offset] ELSE was[i]]
  /\ \A o \in 0..Len(cfg) - 1 :
       /\ pci_cfg_read_byte(cfg, o) = SubSeq(cfg, o + 1, o + 1)
       /\ o + 2 <= Len(cfg) => pci_cfg_read_word(cfg, o) = SubSeq(cfg, o + 1, o + 2)
       /\ o + 4 <= Len(cfg) => pci_cfg_read_dword(cfg, o) = SubSeq(cfg, o + 1, o + 4)

\* A line of the BIOS is the answer for the pin it is for, or for any, as the
\* input it has once the I/O APICs are in use. Every other pin is routed to the
\* input that the MP table connects it to, and a pin that the table does not
\* name, or that the PIC has, to none (pci_route_irq()).
RoutesExact ==
  \A on \in BOOLEAN, a \in DOMAIN machine, pin \in -1..3 :
    LET apic == [on |-> on, line |-> [i \in 0..15 |-> IF i = 11 THEN 20 ELSE i], base |-> [d \in {2} |-> 24]]
        to == {e \in Range(mp) : e.type = "irq" /\ e.bus = a[1] /\ e.dev = a[2] /\ e.pin = pin
                                 /\ mp_busid(e.bus) = "PCI"}
        got == pci_route_irq(a, pin, apic)
    IN IF Fn(a).line <= 15 /\ (pin = Fn(a).pin \/ (pin = -1 /\ Fn(a).pin # 0))
       THEN got = IF on THEN apic.line[Fn(a).line] ELSE Fn(a).line
       ELSE IF ~on \/ to = {} THEN got = -1
       ELSE got \in {IF e.dest = 2 THEN 24 + e.intin ELSE -1 : e \in to}
=============================================================================
