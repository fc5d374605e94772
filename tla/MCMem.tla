-------------------------------- MODULE MCMem --------------------------------
(***************************************************************************)
(* Instances of the memory modules for TLC.  Each behaviour belongs to one *)
(* of the parts, and leaves the variables of the others as they started.   *)
(***************************************************************************)
EXTENDS Ranges, Pmm, Kheap, Malloc

CONSTANTS Parts
VARIABLE part

MCFrame == 0..14
MCLow == {{2, 3}}
MCRangePages == 5..10
RangesIdle == want = <<>> /\ ops = 0
Init ==
  /\ part \in Parts
  /\ IF part = "ranges" THEN RangesInit ELSE VmemInitM /\ RangesIdle
  /\ VmemInitRest /\ PmmInit /\ KheapInit /\ MallocInit
  /\ (part # "pmm" => split = FALSE)
Next ==
  \/ part = "vmem" /\ VmemNext /\ UNCHANGED <<part, want, ops, pmmVars, kheapVars, mallocVars>>
  \/ part = "ranges" /\ RangesNext /\ UNCHANGED <<part, vmemRest, pmmVars, kheapVars, mallocVars>>
  \/ part = "pmm" /\ PmmNext /\ UNCHANGED <<part, vmemVars, want, ops, kheapVars, mallocVars>>
  \/ part = "kheap" /\ KheapNext /\ UNCHANGED <<part, vmemVars, want, ops, pmmVars, mallocVars>>
  \/ part = "malloc" /\ MallocNext /\ UNCHANGED <<part, vmemVars, want, ops, pmmVars, kheapVars>>
Spec == Init /\ [][Next]_<<part, vmemVars, want, ops, pmmVars, kheapVars, mallocVars>>

\* In the behaviours of Ranges, mapping, unmapping and moving ranges keeps to
\* what was asked, loses no page table, and takes the lowest room that there is
\* (vmm_map(), vmm_unmap(), vmm_pgmap_huge(), vmm_pgunmap_huge(),
\* vmm_first_free()).
MappingExact == part = "ranges" => Exact /\ NoTableLost /\ FirstFit
\* A frame serves one purpose, or is shared by processes that may only read it,
\* over forks, writes, exits and the frames that run out; and the kernel goes
\* wrong only when there are none (mm/vmm.c vmm_cow_duplicate(), vmm_cow_setup();
\* arch/x86cpu/vmm.c vmm_pgmap(), vmm_free()).
FramesSafe == FramesApart /\ FaultsWithoutFrames
=============================================================================
