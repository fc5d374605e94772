-------------------------------- MODULE Vmem --------------------------------
(***************************************************************************)
(* Address spaces over a run of the system: processes are created from the *)
(* kernel's space, loaded, forked, write to their pages, exit; the kernel  *)
(* heap grows.  Each action is a whole operation of the kernel on the      *)
(* memory value m of PageTables and Cow.                                   *)
(***************************************************************************)
EXTENDS Cow, TLC

CONSTANTS Value, Zero,       \* contents of a page
          UserPages,         \* pages where programs are loaded
          HeapPages,         \* pages the kernel heap grows over, in order
          Low,               \* what frame 0 may have as table entries
          MAX_SPACES,        \* bound on the spaces of a behaviour
          OneSharer,         \* nothing forks while a page is shared already
          SourceExits        \* a process may exit while others share its pages

VARIABLES m,
          spaces,            \* address spaces of processes that run
          segments,          \* of each, pages that elf_load_phdr() loaded
          heap,              \* pages of the kernel heap
          made,              \* spaces made so far
          view               \* what each process wrote last, or had when forked (history)
vmemRest == <<spaces, segments, heap, made, view>>
vmemVars == <<m, vmemRest>>

NoView == [p \in UserPages |-> Zero]
\* After boot: one table for the user half, where the windows go, and one for
\* the kernel's image.
VmemInitM ==
  LET dir == [d \in PDE |-> IF d = 0 THEN TableAt(1, {"P", "W"})
                            ELSE IF d = UPDES THEN TableAt(2, {"P", "W"}) ELSE Empty]
      image == [i \in PTE |-> IF i < kernel_end % PTES THEN PageAt(3, {"P", "W"}) ELSE Empty]
  IN m = [used |-> 0..3, cur |-> vmm_kernel, halt |-> "no",
          pd |-> [s \in {vmm_kernel} |-> dir],
          pt |-> [f \in {1, 2} |-> IF f = 2 THEN image ELSE BlankTable],
          traps |-> <<>>, base |-> 1, data |-> [f \in Frame |-> Zero], staged |-> {}]
VmemInitRest ==
  /\ spaces = {vmm_kernel} /\ segments = [s \in Frame |-> {}]
  /\ heap = {} /\ made = 0 /\ view = [s \in Frame |-> NoView]
VmemInit == VmemInitM /\ VmemInitRest

Run == m.halt = "no"

\* The kernel's shell makes a process and loads a program into it.
Load(x, s, p) ==
  LET f == FreeFrame(x) IN
  IF f = None THEN x
  ELSE [vmm_pgmap(Take(x, f), s, f, p, 0, {"P", "W", "U"}) EXCEPT !.data[f] = Zero]
Exec ==
  /\ Run /\ m.cur = vmm_kernel /\ made < MAX_SPACES /\ made' = made + 1
  /\ \E r \in {vmm_clone(m, FALSE, {})} :
       IF r.s = None THEN m' = r.m /\ UNCHANGED <<spaces, segments, view>>
       ELSE /\ m' = FoldSet(LAMBDA p, x : Load(x, r.s, p), r.m, UserPages)
            /\ spaces' = spaces \union {r.s}
            /\ segments' = [segments EXCEPT ![r.s] = UserPages]
            /\ view' = [view EXCEPT ![r.s] = NoView]
  /\ UNCHANGED heap

Fork(low) ==
  /\ Run /\ m.cur # vmm_kernel /\ m.cur \in spaces /\ made < MAX_SPACES
  /\ OneSharer => \A i \in DOMAIN m.traps : ~m.traps[i].on
  /\ made' = made + 1
  /\ \E r \in {vmm_clone(m, TRUE, low)} :
       /\ m' = r.m
       /\ IF r.s = None THEN UNCHANGED <<spaces, segments, view>>
          ELSE /\ spaces' = spaces \union {r.s}
               /\ segments' = [segments EXCEPT ![r.s] = {}]
               /\ view' = [view EXCEPT ![r.s] = view[m.cur]]
  /\ UNCHANGED heap

\* A write to a page that is not writable faults; vmm_handle_fault() makes it so.
vmm_handle_fault(x, p) == IF PgszOf(x, x.cur, p) = None THEN [m |-> x, ok |-> FALSE]
                          ELSE vmm_cow_duplicate(x, x.cur, p)
Faulted(p) == IF Writable(m, m.cur, p) THEN [m |-> m, ok |-> TRUE] ELSE vmm_handle_fault(m, p)
Writes(p) == Run /\ m.cur \in spaces /\ UserPage(m, m.cur, p)
Write(p, v) ==
  /\ Writes(p) /\ v # view[m.cur][p]
  /\ \E r \in {Faulted(p)} :
       /\ r.ok
       /\ m' = IF Writable(r.m, m.cur, p) THEN [r.m EXCEPT !.data[PaddrOf(r.m, m.cur, p)] = v] ELSE r.m
       /\ view' = [view EXCEPT ![m.cur][p] = v]
  /\ UNCHANGED <<spaces, segments, heap, made>>

\* proc_delete() in the process itself: its segments go, frames and all, and
\* its space is staged.
ReleaseSome(x, f) == IF f = 0 THEN x ELSE Release(x, f)
Unload(x, s, p) ==
  ReleaseSome(vmm_pgunmap(Probe(Touch(x, s, p), s, p), s, p, vmm_get_pgsz(x, s, p)),
              vmm_get_paddr(x, s, p))
proc_delete(x) == vmm_free(FoldSet(LAMBDA p, y : Unload(y, y.cur, p), x, segments[x.cur]), x.cur)
Shared(s) == \E i \in DOMAIN m.traps : m.traps[i].on /\ m.traps[i].s = s
                                       /\ m.traps[i].p \in segments[s]
Ends == (SourceExits \/ ~Shared(m.cur)) /\ spaces' = spaces \ {m.cur}
Exit ==
  /\ Run /\ m.cur \in spaces \ {vmm_kernel}
  /\ Ends /\ m' = proc_delete(m)
  /\ UNCHANGED <<segments, heap, made, view>>
\* A fault that nobody handles aborts the process.
exc_stub(p) ==
  /\ Writes(p)
  /\ \E r \in {Faulted(p)} :
       /\ ~r.ok
       /\ IF r.m.halt = "no" THEN Ends /\ m' = proc_delete(r.m) ELSE m' = r.m /\ UNCHANGED spaces
  /\ UNCHANGED <<segments, heap, made, view>>

\* The next task may be of any process; before it runs, staged spaces go.
Switch(s) ==
  /\ m.halt = "no" /\ s \in spaces \ {m.cur}
  /\ m' = vmm_do_cleanup(vmm_switch(m, s))
  /\ UNCHANGED <<spaces, segments, heap, made, view>>

\* kmorecore() of a page.
GrowHeap ==
  LET f == FreeFrame(m)
      p == Min(HeapPages \ heap)
  IN /\ Run /\ HeapPages # heap /\ f # None /\ m.cur \in spaces
     /\ m' = vmm_pgmap(Take(m, f), m.cur, f, p, 0, {"P", "W"})
     /\ heap' = heap \union {p}
     /\ UNCHANGED <<spaces, segments, made, view>>

VmemNext ==
  \/ Exec \/ Exit \/ GrowHeap
  \/ \E low \in Low : Fork(low)
  \/ \E p \in UserPages : exc_stub(p) \/ \E v \in Value : Write(p, v)
  \/ \E s \in spaces : Switch(s)
VmemSpec == VmemInit /\ [][VmemNext]_vmemVars

-----------------------------------------------------------------------------
Running == {s \in spaces : s # vmm_kernel}
Spaces == spaces \union m.staged

\* Copy-on-write is not seen: a process reads from its pages what it wrote last,
\* or what they held when it was forked, whatever the processes that share the
\* frames write, fork, unmap or exit in between (vmm_cow_setup(),
\* vmm_cow_duplicate(), vmm_unmap_resolve_cow(), vmm_trap_remove()).
Isolation ==
  m.halt = "no" =>
    \A s \in Running, p \in UserPages :
      UserPage(m, s, p) => m.data[PaddrOf(m, s, p)] = view[s][p]

\* The directory and the user tables of a space that runs, or is staged for
\* vmm_do_cleanup(), are allocated, and no other space uses the same ones, so
\* that vmm_free() of one leaves the others whole.
TablesOwned ==
  m.halt = "no" =>
    /\ \A s \in Spaces : UserTables(m, s) \union {s} \subseteq m.used
    /\ \A s \in Spaces, t \in Spaces : s # t => UserTables(m, s) \intersect UserTables(m, t) = {}

\* What the pages of processes map, and what those of the heap do.
UserMaps == {[s |-> x[1], f |-> PaddrOf(m, x[1], x[2]), p |-> x[2], writable |-> Writable(m, x[1], x[2])] :
             x \in {y \in Running \X UserPages : UserPage(m, y[1], y[2])}}
HeapFrames == {PaddrOf(m, x[1], x[2]) : x \in {y \in spaces \X heap : Present(m, y[1], y[2])}}
TableFrames == UNION {UserTables(m, t) \union {t} : t \in Spaces}

\* A frame of a process is not the heap's, and neither's is a table.
OneUse(own) ==
  /\ own \union HeapFrames \subseteq m.used \ TableFrames
  /\ own \intersect HeapFrames = {}
SharedUnwritten(maps) ==
  \A u \in maps, v \in maps : u # v /\ u.f = v.f => u.s # v.s /\ ~u.writable

\* Each frame that can be reached through a page of a process or of the heap is
\* allocated and serves as that alone: it is nobody's directory or table, no
\* process has it at two pages, no process has a page of the heap as its own,
\* and none of those that share it for copy-on-write may write to it. What is
\* allocated need not be reached: vmm_free() gives back no copied frame.
FramesApart ==
  m.halt = "no" =>
    /\ OneUse({u.f : u \in UserMaps})
    /\ SharedUnwritten(UserMaps)

\* Trap entries come in pairs that point at each other: what vmm_new_trap(),
\* vmm_cow_setup(), vmm_cow_duplicate() and vmm_trap_remove() do to one end
\* they do to the other.
TrapsPaired ==
  \A i \in DOMAIN m.traps : m.traps[i].on =>
    LET info == m.traps[i].info IN Live(m, info) /\ m.traps[info[2]].on
                                   /\ m.traps[info[2]].info[2] = i

\* A page table that the kernel adds to its half shows up in all spaces, as
\* vmm_pgmap_small() and vmm_pgmap_huge() say they do.
KernelShared ==
  m.halt = "no" => \A s \in spaces, p \in heap : Present(m, s, p)

\* The kernel uses an address that is not mapped (of a table it did not get, of
\* a page to be copied, of the other half of a trap that is gone) only when all
\* frames are in use (vmm_pgmap_small(), vmm_clone(), vmm_cow_duplicate()).
FaultsWithoutFrames == m.halt = "fault" => Frame \subseteq m.used
=============================================================================
