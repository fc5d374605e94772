------------------------------- MODULE MCFiles -------------------------------
(***************************************************************************)
(* Instances, for TLC, of the modules about what is read before the first  *)
(* program runs: the files, the bus, and what the library makes of them.   *)
(* Each behaviour belongs to one of the parts, and leaves the variables of *)
(* the others as they started.                                             *)
(***************************************************************************)
EXTENDS MCElfFiles, MCVfsFiles, MCPciMachines, MCLibCalls, MCPrintCalls

CONSTANTS Parts
VARIABLE part

\* What part p starts from, or only one way to start for the others.
Of(p, S) == IF part = p THEN S ELSE {CHOOSE x \in S : TRUE}
Init ==
  /\ part \in Parts
  /\ ElfStart(Of("elf", File), Of("elf", FrameCounts))
  /\ VfsStart(Of("vfs", Archive))
  /\ PciStart(Of("pci", Machine), Of("pci", MpTable), Of("pci", Space))
  /\ LibStart(Of("lib", Calls))
  /\ PrintStart(IF part = "print" THEN Format ELSE {<<>>}, Of("print", Stream))
Next ==
  \/ part = "elf" /\ ElfNext /\ UNCHANGED <<part, vfsVars, pciVars, libVars, printVars>>
  \/ part = "vfs" /\ VfsNext /\ UNCHANGED <<part, elfVars, pciVars, libVars, printVars>>
  \/ part = "pci" /\ PciNext /\ UNCHANGED <<part, elfVars, vfsVars, libVars, printVars>>
  \/ part = "lib" /\ LibNext /\ UNCHANGED <<part, elfVars, vfsVars, pciVars, printVars>>
  \/ part = "print" /\ PrintNext /\ UNCHANGED <<part, elfVars, vfsVars, pciVars, libVars>>
Spec == Init /\ [][Next]_<<part, elfVars, vfsVars, pciVars, libVars, printVars>>

\* Modules and programs are in memory as their files say, with every reference
\* that a module makes (exec/elf.c elf_load_kmod(), elf_load_prg()).
LoadedExact == ImageExact /\ RelocatedExact

\* A path names the file the archive has under it, or the device mounted there,
\* and every device is found under the number it was created with
\* (fs/tarfs.c, fs/devfs.c, fs/vfs.c).
NodesExact == PathsResolve /\ DevicesSound

\* Every function of the bus is found once, its registers read and write as
\* numbers of their width, and its pin leads to the interrupt that the
\* firmware's table gives (drivers/pci.c, arch/x86/pci.c).
PciExact == ScanComplete /\ CfgExact /\ RoutesExact

\* The library returns what its callers take it to return, and prints as C does
\* (lib/stdlib.c, lib/string.c, lib/mp-printf.c, kernel/cmdline.c).
LibraryExact == NumbersExact /\ LibExact /\ PrintExact
=============================================================================
