-------------------------------- MODULE MCPciMachines --------------------------------
(***************************************************************************)
(* Machines that are scanned, and tables that their BIOS has.              *)
(***************************************************************************)
EXTENDS Pci, TLC

Fun(id, class, mf, sec, line, pin) == [id |-> id, class |-> class, mf |-> mf, sec |-> sec, line |-> line, pin |-> pin]
Dev == Fun("nic", <<2, 0>>, FALSE, 0, 255, 1)
Bridge(sec) == Fun("brg", <<6, 4>>, FALSE, sec, 255, 0)
MCMachine ==
  {<<0, 0, 0>> :> [Dev EXCEPT !.mf = m0] @@ <<0, 1, 0>> :> [Bridge(1) EXCEPT !.mf = m, !.class = <<6, 9>>]
   @@ <<0, 1, 1>> :> [Dev EXCEPT !.line = 11] @@ <<0, 1, 2>> :> b @@ <<1, 1, 0>> :> Dev @@ <<2, 0, 0>> :> [Dev EXCEPT !.id = "hba", !.mf = TRUE]
   @@ <<2, 0, 2>> :> Dev : m, m0 \in BOOLEAN, b \in {Dev, Bridge(2)}}
  \union {<<0, 1, 0>> :> Dev @@ <<0, 0, 1>> :> Dev @@ <<1, 0, 0>> :> Dev}
MCSpace == {[i \in 1..8 |-> IF i % 2 = p THEN {} ELSE {5, i}] : p \in 0..2}
BusEntry(id, name, letter) == [type |-> "bus", id |-> id, name |-> name, letter |-> letter]
IrqEntry(bus, dev, pin, dest, intin) == [type |-> "irq", bus |-> bus, dev |-> dev, pin |-> pin, dest |-> dest, intin |-> intin]
MCMpTable ==
  {<<>>} \union {<<BusEntry(0, "PCI", 73), BusEntry(1, n, l), IrqEntry(0, 0, p, 2, 3), IrqEntry(0, 1, p, 2, 4), IrqEntry(1, 1, 0, d, 5)>> :
    n \in {"PCI"}, l \in {73}, p \in {0, 1}, d \in {2, 3}} \union
  {<<BusEntry(0, "PCI", 73), BusEntry(1, "ISA", 65), IrqEntry(1, 1, 0, 2, 5), IrqEntry(0, 1, 0, 2, 4)>>}
==============================================================================
