# SysX in TLA+

SysX is a preemptive kernel for one x86 CPU, written in C: tasks and processes,
paged address spaces with copy-on-write, an ELF loader, a small virtual file
system and a shell in the kernel task. This directory holds its formal models,
the TLC configurations that check them, and proofs checked by TLAPS. Paths and
line numbers refer to the repository.

## 1. The system

Everything runs on one CPU. A timer interrupt (`hal/timer.c`) calls
`task_yield()` every quantum, and a task gives the CPU away itself with `int
0x9F` (`task_yield_noirq()`). `idt_handler_stub` turns interrupts back on before
it calls a handler (`desctabs.asm:354`), so kernel code is preemptible nearly
everywhere. That, not parallelism, is where the hard behaviours come from.

| component | state | operations | talks to | hard behaviours | correct when |
|---|---|---|---|---|---|
| Task queue, `exec/task.c` 21-30, 114-120 | `next`/`prev` of each task structure | `task_insert`, unlinking | scheduler scan | an interrupt between two pointer writes | one cycle in both directions whenever nobody is in the middle |
| Scheduler, `exec/task.c`, `hal/timer.c`, `task_lowlevel.asm` | current task, `t_switch`, last yield tick, block counter | timer yield, task yield, switch, reap | processes, address spaces | stale choice after preemption, tick wrap, work inside the interrupt | the CPU is with a queued task in its own address space; ready tasks run; ended tasks go |
| Processes, `exec/process.c` | PID table, task list, descriptors, two mutexes | create, delete, abort, add and delete task, fork | VMM, file table, ELF | PID reuse, partial failure, mutexes that stay held | a task always belongs to a live process; PIDs are unique and bounded |
| Page directories, `mm/vmm.c` 367-410, `arch/x86cpu/vmm.c` 526-651 | directories, CR3, staging table | clone, free, stage, clean up | scheduler | freeing the one in CR3 | neither freed in use nor lost |
| Copy-on-write, `mm/vmm.c` 105-365 | trap table, page flags | set up, duplicate, remove | fork, page fault | paired traps, nested mutex, early returns | writers never see each other's writes |
| Mappings, `mm/vmm.c` 12-103, `arch/x86cpu/vmm.c` | page tables | map, unmap, find space | everything | page sizes, splitting | what is mapped is what was asked for |
| Frames, `mm/pmm.c`; heap growth, `mm/kheap.c` | frame bitmap, heap size | allocate, free | VMM, heap | read-modify-write of shared words, partial failure | a frame has one owner |
| File table, `fs/ftab.c`; descriptors, `process.c` 191-278 | entries with counts, exclusive holder | open, close, read, write | VFS, processes | check then use, moved tables, mutex left held | counts match the descriptors |
| VFS, devfs, tarfs, memfs | node tree | open, read, write, finddir, readdir | file table, ELF, shell | offsets and ends | reads return the file's bytes |
| Keyboard and terminal input, `hal/keyboard.c`, `hal/terminal.c` | ring of events, modifiers | key press (interrupt), event and character read | shell, console | producer in the interrupt, overflow | every character once, in order |
| Interrupt tables, `i8259.c`, `apic.c` | handler lists | handle, unhandle, dispatch | timer, keyboard | growth of the table | a registered handler is called |
| ELF loader, `exec/elf.c`; symbols, `exec/syms.c` | sections, segments, load list, symbol table | load a program, a module, the kernel's symbols; relocate; unload | VMM, VFS | every allocation may fail, in the middle; damaged headers | what is loaded is what the file says; a failed load leaves nothing |
| Terminal output, `hal/terminal.c`, `hal/term_fbuf.c`, `terminal_vgatext.c`, `hal/fbuf.c`, `hal/term_serial.c` | screen, cursor, back buffer, output guard | characters, strings, lines read with echo, commit | timer, keyboard, serial line | tasks that print at once; a commit in the interrupt; reports mixed with typing | a call's output is whole; each terminal shows the same; what was drawn is committed |
| PCI, `drivers/pci.c`, `arch/x86/pci.c`, `hal/devtree.c`, `mptab.c` | configuration space, device tree | read, write, scan, route a pin | I/O APIC | bridges, widths, a failure during the scan | every function found once, its pin leads to its line |
| Library, `lib/`, `helpers/`, `kernel/cmdline.c` | - | conversions, copies, comparisons, printing, command line | everything | ends, widths, overflow | the result the C library defines, where it defines one |
| Kernel heap allocator, `mm/malloc.c` (dlmalloc 2.7.2) | chunks with boundary tags, lists, top | `malloc`, `realloc`, `memalign`, `free`, consolidate, grow, trim | `kmorecore()` | `prev_size` that is only valid beside a free chunk, a failed `kmorecore()`, memory that is not adjacent | chunks tile the heap, each in one place, and the tags tell so |
| Boot and platform; ACPI | hardware, vendored code | - | - | - | not modelled |

`PROJECT.json` lists each of them with its sources and every hazard with its
line.

## 2. Modules

| module | models |
|---|---|
| `TaskQueue` | the linked list: each operation as the pointer writes an interrupt can separate |
| `Process` | PID table, process structures, life of page directories; operators used by the scheduler's actions |
| `Sched` | the scheduler composed with both: one action per step that an interrupt can precede; properties |
| `TaskLife` | abstract specification: what tasks and processes are promised, without queue, timer, memory or mutex |
| `SchedLife` | the refinement mapping from `Sched` to `TaskLife` |
| `SchedWait` | `Sched` with history variables that measure waiting |
| `SchedInv` | the inductive invariant |
| `SchedProofs` | the theorems about the scheduler |
| `Keyboard` | the event ring, between the keyboard interrupt and the tasks that read it |
| `FileTab` | the file table and the descriptor tables of processes |
| `FileTabProofs`, `FileLockProofs` | its theorems: counts, modes and exclusive holds; mutexes, and what forks keep open |
| `PageTables` | page directories, page tables and the windows on them, as operators on a memory value; `vmm_map()`, `vmm_first_free()` |
| `Cow` | traps, duplication, clone, unmapping and freeing of spaces, as operators on the same value |
| `Vmem` | processes over both: start, fork, write, exit, the kernel heap growing |
| `Ranges` | the promise of mapping, a function from pages to frames, and the page tables beside it |
| `Pmm`, `Kheap` | the frame bitmap under preemption; `kmorecore()` |
| `Malloc` | the allocator of the kernel heap: tags, lists, top, growing and trimming |
| `PmmProofs`, `KheapProofs`, `MallocProofs` | inductive invariants and theorems of these three |
| `Elf` | the loader, step by step, with every failure |
| `Vfs` | the archive and its nodes, mount points, paths, device nodes |
| `Pci` | configuration space, bus scan, device tree, pin routing |
| `Lib`, `Printf` | conversions, copies, comparisons, command line; formatted output |
| `Intr` | handler tables, PIC, I/O APIC, the switch between them, dispatch and acknowledgement |
| `IntrProofs` | inductive invariants and theorems of `Intr` |
| `Console` | the terminal's front end with the text and the framebuffer terminal behind it, and the commit |
| `ConsoleProofs` | inductive invariants and theorems of `Console` |
| `Pixels`, `Serial` | packing and filling of pixels; the serial terminal |
| `MCSched`, `MCSchedWait`, `MCKeyboard`, `MCFileTab` | instances for TLC |
| `MCMem` | instance of `Ranges`, `Vmem`, `Pmm`, `Kheap`, `Malloc` |
| `MCFiles`, from `MCElfFiles`, `MCVfsFiles`, `MCPciMachines`, `MCLibCalls`, `MCPrintCalls` | instance of `Elf`, `Vfs`, `Pci`, `Lib`, `Printf` |
| `MCDrivers`, with `MCConsole` and `MCKeyboard` | instance of `Intr`, `Console`, `Pixels`, `Serial`, `Keyboard` |

The modules that interact are composed: `Sched` with `TaskQueue` and `Process`,
`Vmem` with `Cow` and `PageTables`, `FileTab` with the processes that own
descriptors, `Console` with the timer. `MCMem`, `MCFiles` and `MCDrivers` only
put modules side by side: `part` says which of them a behaviour belongs to, and
the others stay as they started.

State and code in `Sched`: `task_current`, `task_yield_tick`,
`task_yield_block_cnt`, `timer_tick`, `type`, `ready`, `pid`, `t_switch`,
`next`, `prev`, `proc_pidtab`, `proc_pidtab_len`, `vmm_current`, `vmm_frstage`
and `vmm_frstage_mutex` are the C variables and fields of those names. `pc[t]`
is where task t stands in the kernel code it executes, `task_selected[t]`,
`new_proc` and `new_task` are local variables that survive a preemption.
`procs`, `vmms` and `type[t] = "FREE"` say which structures are allocated.
`proc_mutex` is held exactly while `pc[task_kernel] = "pid_alloc"`. `mu_tasks`
is the set of processes whose mutex `proc_delete()` took and never gave back.

A step of a task is enabled only while that task has the CPU; a timer interrupt
(`Timer`) whenever the hardware may deliver it. A yield made by the timer is one
step, since the timer is acknowledged only at the switch. A yield made by a task
is three: taking the cleanup mutex, cleaning up and scanning, switching. `fault`
records the three places where the code would do what a kernel does not survive:
switching to a freed structure, spinning on a mutex inside the interrupt,
deleting a structure twice. The state then stays as it is and the safety
properties keep being checked up to that point.

Abstractions in `Sched`. Memory is which structures exist; allocation fails
whenever the code handles it, except in `vmm_stage_free()`, whose table is taken
to have room. The test and the acquisition of the mutex in `vmm_do_cleanup()`
are one step, and so is `Exit` (`proc_abort()` up to its endless loop). User
programs are their system calls: they run, yield and exit. Types KERNEL and USER
are kept; USER_SYS only arises from fork. The kernel task runs `kmain()`, which
starts programs; `ThreadCreate` and `ThreadDelete` stand for code that uses
`task_create()` and `proc_delete_task()` on `proc_kernel`, as the header offers.

In `Keyboard`, `kbd_list`, `kbd_events`, `kbd_events_rdidx`, `kbd_events_wridx`
and `mutex_in` are the C variables; `rdidx` and `rdidx2` are the readers'
locals; `published`, `delivered`, `presses` and `overflowed` are history. The
interrupt writes the event (`KeypressWrite`) and then the write index
(`KeypressPublish`): the timer's interrupt has the higher priority and a task
can run in between. A reader's step reads or writes shared state at most where
the code does so without a chance to be interrupted that matters: the scan, the
invalidation, the new read index and the fetch of the character are separate.
`TermSpec` is what the tree does, with all readers behind the terminal's mutex;
`EventSpec` is the reading of events that `keyboard.h` offers to a driver or
module. Modifiers, keymaps and scan codes are left out: a key press carries a
character or it does not. The slot after the last is part of the model, since
the overflow arithmetic can reach it; it holds what the compiler put there.

In `FileTab`, `ftab` and `ftab_mutex` are the C variables and `ftab_base` tells
one allocation of the table from the next, so that a pointer is an allocation
and an index. `fds` are the descriptor tables; `for` is history, the file a
descriptor was opened for. `local[t]` holds the parameters and locals of the
call that thread t is in. `ftab_open()` is a step per entry scanned, per mutex
taken and around each call of the VFS, `ftab_close()` likewise; `mu_fds` is held
only inside one step, the choice of a slot, and is no variable. The boot thread
begins in the middle of `proc_init()`. A process exits where `Exit` says, with
its structure reused later, as `kfree()` and `kcalloc()` do. Mutexes know no
owner: `mutex_release()` opens whatever it is given, and that is one of the
things found. Where the code would follow a pointer into freed memory, or NULL,
the thread stops (`Valid`). Offsets, append mode and contents are left out.

In `PageTables` a memory value `m` stands for the frames, the bitmap and CR3:
`m.used` the marked frames, `m.pd` and `m.pt` the frames read as directories and
tables, `m.cur` is `vmm_current`, and `m.halt` says that the kernel used an
address that is not mapped, or waits for itself. The operators carry the names
of the functions and return the next memory value, so that a caller composes
them in the order of the code. A space that is not current is reached through
windows, mapped at the lowest free addresses of the current one, as
`arch/x86cpu/vmm.c` does; a window that an error path leaves open stays in `m`.
`PutPage` puts flags where the code puts them: the trapped bit of a small page
goes to the entry with the directory's index (`arch/x86cpu/vmm.c:750`). `Cow`
adds `m.traps` (`vmm_traps`), `m.base` (which allocation that table is in, since
`krealloc()` moves it), `m.data` (contents of frames) and `m.staged`
(`vmm_frstage`). `Vmem` has one action for each thing a process makes the kernel
do; each is one step, because `proc_fork()` and the page fault handler run in a
task of that process and share no structure with another task's, except those
that `Pmm` interleaves. A fault that `vmm_handle_fault()` does not resolve ends
the process (`exc_stub`, which does what `Exit` does to the memory). Left out:
caching bits, the TLB, and the dirty bits except for the back buffer's, which
`Console` has without the windows they are reached through.

`Pmm` has a step for each access to the bitmap: `marked`, `mutex`
(`pmm_alloc_mutex`) and, per thread, `frame`, `off`, `sz` and the `word` that
was loaded. Whether a bit is set in one instruction or by a load and a store
(`split`) is the compiler's choice, and so a nondeterministic one. `Kheap` is
`kmorecore()`, which takes one page after the other while somebody else takes
frames too.

`Malloc` is `mm/malloc.c` as the kernel configures and calls it. Addresses and
sizes are in bytes from the start of the heap. A chunk is an address in the
domain of `chunksize`; `prevInUse` holds the chunks whose `PREV_INUSE` bit is
set and `prev_size` is only defined for the others, as in the C structure, where
that word belongs to the chunk before while it is in use. `fastbins`, `unsorted`
and `bins` are sets: which of several equal chunks is taken, and the order of a
walk, are left open. `anychunks` and `fastchunks` are the bits of `max_fast`.
`run` is the running call: where it is, for whom (`kmalloc()`, or `malloc()`
inside `realloc()` or `memalign()`), and its locals; a step is a piece of one
call between two places where the tags agree with each other, and a call ends
before the next begins, since the allocator has no lock (hazards, below).
`used` is history: the chunks that callers hold, with the size they asked for.
`kmorecore()` may refuse, and may fail after it moved the end of the heap.

`Elf` counts memory in cells of four bytes; `pc`, `at` and `sub` are the
function the loader is in and its loop counters, `bufs` the heap buffers it
holds, `load` is `prgload_result`, `syms` is `kernel_syms`. Each step allocates,
reads or frees once; each `kmalloc()` may fail, and frames run out at a number
chosen at the start. `wild` records the freeing of what is not allocated. `Vfs`
parses an archive sector by sector into `node` and `hierarchy`, mounts `memfs`
and `devfs` and creates device nodes; afterwards every path is looked up by a
pure operator (`vfs_traverse_path`), links and mount points included. `Pci` has
the bytes of the configuration space as sets of bits, so that a write with the
wrong shift shows. `Lib` and `Printf` are functions on small words; a digit is
its value, a character a member of a small set, and what `Printf` leaves in its
stream is compared with a definition of what the C standard says of the same
directive.

In `Intr` the hardware is external and modelled from how the code programs it:
`imr`, `isr`, `redtbl`, `lint0` and `lapic_isr` are registers, `pic_handlers`,
`ioapic_handlers`, `idt_handlers` and `ioapic_irq_gsi` the code's tables. `at`
and `pos` say where `apic_init()` is: an interrupt can arrive between any two of
its steps, an allocation can fail in each. `frames` are the handlers on the
stack; one that switches tasks moves its frames to `parked`. `Console` gives
each call to both screen terminals, so that the one can be compared with the
other; `mutex_out` and the interrupt flag make the output guard, and a task is
preempted wherever its flag is on. `Serial` has the terminal at the other end of
the line as part of the model (external): it answers the reports it is asked
for, and its user types. `typed` is history: the keys typed.

## 3. Properties and runs

| run | property | question |
|---|---|---|
| `MCSched` | `TypeOK` `QueueOK` `TasksOwned` `CurrentOK` `VmmOK` `PidOK` `ImplementsLife` | do queue, ownership, CR3, page directories and PIDs stay consistent in every interleaving; does the scheduler implement `TaskLife`? |
| `MCSchedLive` | `IInv` `ReadyRuns` `PendingReaped` | does every ready task run again, is an ended task deleted, and is the invariant of the proofs true? |
| `MCSchedWait` | `BoundedOvertaking` | after at most how many switches does a ready task run? (five, for three tasks) |
| `MCSchedStale` | `NoStaleSwitch` fails | a yield acts on a choice made before it was preempted |
| `MCKbd` | `CharsInOrder` `CharsDelivered` | do two terminal readers get every character once and in order, until the ring overflows, and does every one reach a reader? |
| `MCFtab` | `RefsCover` `FilesStayOpen` `ExclKept` `MutexesReleased` `NoDeadlock` | two tasks, two files, full tables: does what is open stay open, in its mode; do exclusive holds keep others out of an entry; is every mutex given back, and can nobody lock the others out? |
| `MCFtabFork` | `FilesKept` | what is open stays open, with processes that fork, start others and exit, and open hooks that fail |
| `MCMem` | `Isolation` `TablesOwned` `FramesSafe` `TrapsPaired` | does each process read what it wrote or inherited; has each space tables of its own; does a frame that can be reached serve one purpose, read-only while it is shared; do the traps of two spaces point at each other? |
| | `MappingExact` | are small and huge ranges, mapped over each other in two spaces, what a function from pages to frames says? |
| | `FramesGivenOnce` | does the bitmap give a frame to one caller? |
| | `HeapMapped` | is what the heap was given mapped, to frames of its own? |
| | `ChunksExact` | do the chunks of the heap tile it, each in one place and with true tags, after any calls and failures? |
| `MCMemExit` | `Isolation` fails | a forked process that exits before its child frees the frames that both map |
| `MCFiles` | `LoadedExact` `LoadBalanced` `SymbolsResolve` | is a loaded file in memory as it says, relocated; does a failed or an undone load give everything back; does a name lead to its address? |
| | `NodesExact` | does a path name the file the archive has, through links and mount points? |
| | `PciExact` | is each function found once, do registers hold what was written, does a pin lead to its line? |
| | `LibraryExact` | do conversions, copies, comparisons, command lines and printing return what they define? |
| `MCDrivers` | `HandlersRun` `SwitchExact` `ServiceEnds` | does an interrupt reach every handler of its line and none of another, before, during and after the switch to the I/O APIC; does a failed switch leave what there was; is each acknowledged at the controller that raised it? |
| | `ScreensExact` `CommitShows` `OutputWhole` | do the terminals show the same, pixels and the serial terminal's what was asked; does what was drawn reach the framebuffer; is a string never cut into? |
| | `EventsOnceInOrder` | does a reader of key events get each once, and in order per keyboard? |
| `MCFbCommit` | `CommitShows` fails | a back buffer committed page by page loses the first page that was written |

Several of these are conjunctions of named parts, which stand in the module of
their subject: `MappingExact` is `Exact`, `NoTableLost` and `FirstFit`;
`FramesSafe` is `FramesApart` and `FaultsWithoutFrames`; `FramesGivenOnce` is
`FrameOnce` and `BitmapExact`; `HeapMapped` is `FramesOwn` and `GivenMapped`;
`ChunksExact` is `NoOverlap`, `OnePlace`, `TagsAgree` and `Kept`; `FilesKept` is
`RefsCover` and `FilesStayOpen`;
`LoadedExact` is `ImageExact` and `RelocatedExact`; `NodesExact` is
`PathsResolve` and `DevicesSound`; `PciExact` is `ScanComplete`, `CfgExact` and
`RoutesExact`; `LibraryExact` is `NumbersExact`, `LibExact` and `PrintExact`;
`ScreensExact` is `TwinScreens`, `PixelExact` and `SerialExact`; `SwitchExact`
is `LinesExact` and `InitUndone`.

The runs whose property fails are the three disagreements between the code and
its own comments that `PROJECT.json` lists as findings. Three more formulas are
kept in the modules and in no run, because the code does not keep them either:
`NoIrqDeadlock` and `DeletedProcGoes` in `Sched`, `SkipsOnlyInvalid` in
`Keyboard` (the list of differences below says why).

Bounds of the scheduler. Three task structures (the kernel's and two) are enough
for every pattern of the code: insertion next to a neighbour, removal of a task
with distinct neighbours, a switch to a third task while a second is suspended
in the middle of a yield, reuse of a freed structure. Three processes and three
page directories let one be created while another is staged and a third runs,
with PIDs for two of the three, so that the table fills and creation fails at
the limit (`PROC_PIDMAX` 1). Structures of one kind are interchangeable
(`MCSymmetry`); `ImplementsLife` is a safety property, and so may be checked
with symmetry. `TICKS` is the width of `timer_tick_t`, 3 or 4 where timing only
decides who runs, 6 for the runs about waiting. `MCSchedLive` has the kernel's
task and one other; `MCSchedWait` has three kernel tasks. `BLOCK_LAG` bounds how
many ticks fall inside one blocked section: there the timer does nothing but
count.

`ReadyRuns` needs `TICKS = 6`: with four ticks a task can wait for exactly one
wrap of the counter, its delta is 0 and the scan passes over it, for ever if the
others keep that rhythm. In the kernel a wrap takes 2^32 microseconds, over an
hour, so no ready task waits that long; the property is about waits shorter than
a wrap, and the run shows that the code keeps them so.

Bounds of the keyboard. A ring of 4 slots instead of 64 and `MAX_PRESSES` of 4
or 5, as many as the ring holds and more, so that the indices wrap and the ring
fills; two readers where the mutex is asked about (`MCKbd`), two keyboards where
keyboards are told apart (`MCDrivers`, with a ring of 2 and three presses).

Bounds of the file table. Two nodes, the console and another, are what it takes
to have a wrong one; two entries and two descriptors, allocated together, so
that tables fill up and, `OutOfMemory`, fail to grow; one descriptor opened by
`proc_create()` instead of three, so that number 1 is the first that a fork
counts. `MAX_REFS` stops opening when an entry has so many references: leaks
would make the state space infinite. `CloseAlone` keeps closes from overlapping
opens in `MCFtab`, because what happens otherwise is known (the list below): the
run says what holds apart from that flaw. No system call closes a file today, so
only kernel code could, and `MCFtabFork` closes none. `Openable` says whether
open hooks succeed: always in `MCFtab`, either way in `MCFtabFork`.
`CHECK_DEADLOCK` is off since opening stops at the bound; `NoDeadlock` asks the
question instead.

Bounds of memory. Frames are 15, enough for the kernel's directory and those of
two more processes with their tables and pages, so that the last frame is given
out and every allocation fails somewhere. A table has 5 entries instead of 1024,
a huge page spans 5 pages. At most three spaces: one that forks, its child, and
a third that gets the frames they free. Two values tell a write from what was
there. `Ranges` maps, unmaps and moves ranges of 1, 5 and 6 pages, that is less
than a huge page, one, and more; three operations build every pair of overlaps
with a third looking at the result. `OneSharer`, `SourceExits` and `Moves`
confine `MCMem` to what the code handles: one child that still shares per
process, a parent that does not exit while it shares, a trap table that
`krealloc()` does not move. Lifting each breaks a property (see below;
`MCMemExit` is one of them). `FramesSafe` asks whether what can be reached is
marked and serves as nothing else, not whether what is marked is reached: it is
not, since `vmm_free()` gives back the directory and the tables of a space and
no page, so that the copies a forked child was given stay marked when it exits.
Its second half says that the kernel uses an unmapped address only when all
frames are taken, which the run does reach. The bitmap has 5 frames in words of 3, so that a
run crosses a word and the last word is partial; two threads; `Preempted =
FALSE` keeps an interrupt out of the load and the store of one word, in a build
that splits them. The heap has frames of 3 bytes and at most 10 bytes, so that a
request ends within a page, at its end and past the limit. The allocator's heap
is three pages of 32 bytes with chunks of 16 and 24 bytes (a fast and a bin
size) and up to three held at a time: room for a free chunk between two used
ones, for a split and a merge on either side, for memory that is not adjacent
with its fenceposts, for trimming, and for running out.

Bounds of files. Modules have two loaded sections, two symbol tables and every
relocation type with every kind of symbol; one header or section field is wrong
in the damaged ones. Programs have two segments of every alignment to a page of
4 cells, with 0, 1, 2 or 4 free frames. Archives have files of several sizes,
nested directories, both kinds of link, device entries, prefixes, entries before
their directory, and mount points that are there or not. PCI machines have
bridges, single and many functions, missing ones, and several MP tables, and are
asked for each pin's line with the PIC and with the I/O APICs in use, where a
line of the BIOS is translated into the input it has. Words
are 8 or 6 bits (`UMAX64`, `UMAX32`), so that overflow of both is exercised.
Formats are single directives with all flags, widths, precisions and lengths,
and pairs; the buffer of a number is 8 characters instead of 32.

Bounds of the devices. A PIC has 4 lines, three handler slots, two nested
interrupts, four calls of drivers. Five machines: one without an APIC, ACPI
tables with one and with two I/O APICs and the timer's line overridden, an MP
table, and the default MP configuration; the local APIC is already on, or not.
The MP table has a device of another bus (`PciLine`) at an input of its own.
The screen is 5 by 2, which wraps and scrolls within a call; three calls, three
keys, two ticks of the timer, two tasks. All pixel types with three levels per
colour; runs of pixels in a 3 by 2 buffer with a gap after each line. The serial
terminal is 12 by 4: two digits in a report; its user types a digit, ESC, "["
and the letter a report ends with, two keys in all. `SerialExact` leaves out the
answers after an ESC and a later "[" are typed, see the differences below.

These runs allow deadlock (`CHECK_DEADLOCK FALSE`): their calls, keys, pages or
directives are used up, or the model stops where the kernel would halt.

Fairness of the scheduler (`FairSpec`). The timer interrupts again and again:
the hardware does, and the kernel never leaves interrupts off. It is strong
fairness only because `BLOCK_LAG` disables the model's timer inside long blocked
sections; the sections themselves end by weak fairness of `InsertEnd` and
`DeleteEnd`, since nothing can take the CPU from a task there. `kinit()` ends
(`BootDone`). Nothing else is fair: no task needs to yield, no program to exit,
no creation to finish.

Fairness of the keyboard (`TermFairSpec`). An interrupt that has begun ends. The
task that holds the terminal keeps being scheduled (`ReadyRuns`) and its loop
does not block. The free terminal is taken by some task: `kmain()` reads in an
endless loop. Nothing says which task, and no key needs to be pressed.

Other differences between code and intention met while modelling, without a run
of their own:

Scheduler, processes and files:

- `task.c:67`: a failed `task_create()` leaves the freed structure in the
  process's list of tasks.
- `task.c:181`: `t_switch` is written when a task is switched in, although
  `task.h:32` says out; the choice is not always the task that has waited
  longest (line 160). `BoundedOvertaking` shows that waiting stays bounded all
  the same.
- `process.c:127`: an ended process is reaped inside the timer's interrupt,
  which spins for ever when the task it interrupted holds a mutex the reaping
  needs.
- `kernel.c:214`: `proc_delete()` of a process without tasks deletes nothing.
- `process.c:104`, `298`: a deleted process stays counted; a fork counts from
  descriptor 3 on, whatever the first three are.
- `process.c:215`: a descriptor is chosen under `mu_fds` and filled without it.
- `ftab.c:94`, `96`: a last close that overlaps an open of the same file closes
  it under the new descriptor, although the entry counts its openers and has a
  mutex for operations on it (`ftab.h:22`, `24`).
- `ftab.c:103`, `113`: `ftab_read()` and `ftab_write()` use the node of the
  table's first entry.
- `ftab.c:18`: a file can have two entries, which gets around an exclusive hold.
- `ftab.c:30`: `krealloc()` moves the table under the descriptors.
- `ftab.c:40`: a failed first open keeps both mutexes.
- `kernel.c`: the message "Binary %s not found" has no argument.

Keyboard:

- `keyboard.c:68`: the overflow masks with 64 where a modulus is meant, and
  drops up to the whole ring.
- `keyboard.c:142`: a key pressed between the scan and the new read index is
  skipped with the invalid events.
- `keyboard.c:161` and `173`: `kbd_char_read()` of one keyboard drops characters
  of others, and returns again what was read as an event.

Memory:

- `pmm.c`: setting a bit is not atomic in a build that loads and stores; with an
  interrupt between them two callers get one frame, although `pmm.h` says the
  function is thread-safe. After a failed run `pmm_first_free()` skips a frame,
  and it may read and mark past the bitmap's end.
- `mm/vmm.c`: with a second child of one parent the traps of the first are lost;
  when `krealloc()` moves the trap table the pointers from trap to trap are
  stale; `vmm_cow_setup()` advances twice (181); `vmm_trap_remove()` deletes
  the pair of a second sharer of a page and asks `vmm_cow_setup()` for another,
  which does nothing, since the page is mapped (167): the removal gives up (297),
  `vmm_free()` keeps the directory and the tables, and the sharer's page stays
  read-only without a trap, so that its next write ends it;
  `vmm_cow_duplicate()` leaves two scratch mappings behind;
  `vmm_map()` takes no account of the offset when it chooses a page size (26);
  `vmm_first_free()` divides `align` by the page size on each round (74).
- `arch/x86cpu/vmm.c`: the trap flag is stored in the entry at the directory's
  index instead of the table's (750), so that unmapping a page of the source does
  not see its trap (the model's halt "deadlock", for the endless repetition of a
  copy that fails, is not reached); `vmm_get_pgsz()` leaves the window on the directory open;
  a clone reads frame 0 as a page table (582-586), and copies window entries;
  flags of another space's huge page are written through a read-only window; a
  table that the kernel heap adds is entered into the current space and the
  kernel's, and no other.
- `task_do_delete()` frees stack frames that a fork may share.
- `malloc.c:3169` with `kheap.c:38`: when `kmorecore()` fails midway, the
  allocator takes what `MORECORE(0)` reports for its own, and top covers pages
  that are not mapped.
- `kheap.c:38`: after running out of memory the next call believes the missing
  page mapped.

Loader and files:

- `elf.c:275`: the rollback of `elf_load_rel()`, the error paths of `do_reloc()`
  and of `load_phdr()` leave buffers or pages behind; unloading an unaligned
  segment misses its last page; two segments in one page end in an endless loop
  (1008); a module of type NONE is loaded unrelocated; the check of `e_type`
  rejects nothing; when the second symbol table fails, the entries of the first
  stay; a failed `sym_add_entry()` is ignored.
- `syms.c`: names longer than 47 characters never resolve; `sym_addr2sym()`
  takes the table to be sorted.
- `tarfs.c`: the prefix is joined without a slash, an entry without its parent
  is passed over, a failed `krealloc()` loses the table; `devfs.c`: the test in
  `devfs_remove()` is inverted, `memset()` in `devfs_zero_read()` has its
  arguments swapped; `vfs.c`: a path element may be longer than its buffer, two
  links to each other never end.
- `drivers/pci.c:26`: an unaligned double word is written with a wrong shift;
  with several hosts the scan stops at function 0 (170); pins are 1 to 4 where
  the header says 0 to 3. `mptab.c:118`: "CBUS" is matched before "CBUSII"; the
  number of buses is computed from the third letter of the type (75).
- `stdlib.c`: a sign or prefix is looked for before the blanks; `strtol()` drops
  the sign; `strtoll()` returns the maximum on underflow (87); `endptr` is not
  stored on overflow. `cmdline.c` drops words of one character. `kcalloc()` does
  not check its product.
- `mp-printf.c`, against the C standard: precision zeros are missing in
  left-aligned numbers; `#` without a precision may drop a digit and `%#.3o`
  adds a zero too many; a number longer than 32 characters is cut; a negative
  `*` precision is taken as 0; floats have nine exact decimals and then zeros; a
  NUL from `%c` is counted and not written; "%" at the end of a format reads
  past it.

Devices:

- `i8259.c:132-141`, `apic.c:230-239`: a full handler table is grown, and the
  new pointer dropped; a second handler added after the switch adds a second
  adapter (145).
- `apic.c:255`, `266`, `277`: a line one past the last of an I/O APIC is taken
  as its own; with the default MP configuration the timer is wired to line 2 and
  its mask is sought at line 0, so the timer stays masked.
- `apic.c:503`, `523`: the first allocation of `ioapic_handlers` is lost.
- `apic.c:588`: an entry of another bus than ISA gives its line not the vector of
  its own GSI but that of the ISA line with the same number as its source, and a
  device number above 3 reads past `ioapic_irq_gsi` (the model has numbers within
  it only).
- Handlers behind one that switches tasks run only when the task comes back; two
  registrations at once are unguarded; I/O APIC vectors can reach 0x80 and 0x9F.
- `fbuf.c:104`: the mask of RGB888_RE has a digit too many; at 24 bits red and
  blue change places; without a back buffer a scroll copies from NULL; the fill
  of the last line is not limited.
- `term_serial.c:74-95`: while a report is awaited, the first ESC and the next
  "[" are taken for its beginning: with an arrow key typed before it, everything
  up to the report's semicolon is read as digits of the row, which is wrong.
- `terminal.c`, `term_serial.c`: a backspace at the start of a line is echoed;
  output guards end at the terminal that is current then; a report of the cursor
  swallows typed characters; the dimensions are one too many;
  `serterm_available()` asks whether the port can write.

## 4. Proofs

Every theorem holds for every value of the constants that satisfies the
assumptions named with it; the runs above show the same property on a small
instance that meets them.

| module | theorems | for every |
|---|---|---|
| `SchedProofs` | `Invariance` and with it `TypeOK` `QueueOK` `TasksOwned` `CurrentOK` `VmmOK` `PidOK`; `ImplementsLife` | finite set of tasks, set of processes and directories, PID limit, quantum, tick width |
| `PmmProofs` | `FramesGivenOnce` | number of frames and threads, word size, sizes of runs |
| `KheapProofs` | `HeapMapped` | frame size, set of frames, heap limit, increments |
| `MallocProofs` | `ChunksExact` | requests, alignments, page size, heap limit and thresholds |
| `FileTabProofs` | `RefsCover` `FilesStayOpen` `ExclKept` | finite set of processes, threads and files, size of both tables |
| `FileLockProofs` | `MutexesReleased` `NoDeadlock` `FilesKept` | the same |
| `IntrProofs` | `ServiceEnds` `SwitchExact` | number of lines, set of handlers, machines and their tables, depth of nesting |
| `ConsoleProofs` | `OutputWhole` `CommitShows` `TwinScreens` | size of the screen and of the font, palette, sets of tasks, keys, calls and framebuffers, numbers of calls, keys and ticks |

### Scheduler

Assumptions: `TaskAssumption`, `ProcAssumption` and `SchedAssumption`, stated
where the constants are declared: the distinguished structures exist, `NULL` is
not one, and the PID table, growing by `PROC_PIDTAB_ALLOCSZ`, meets `PROC_PIDMAX
+ 1` exactly, as 4 and 65535 do.

Why a stronger invariant is needed, and the argument:

- `QueueOK` says nothing while the links are half written. `InvLinks` and
  `InvCycle` speak of `WholeNext`, the links as they will be when the insertion
  ends or were before the removal began, so each single pointer write preserves
  them. That the links form one cycle is stated by closed sets: a set that
  contains `task_kernel` and is closed under the links is the whole queue. In
  this form insertion and removal need no induction along the list.
- `InvControl` ties the block counter to the kernel task's position: it is 1
  exactly in the middle of the two operations, and then the kernel task has the
  CPU. So a reaping in the interrupt never meets half-written links.
- `InvTasks` says that a structure is queued, free or about to be inserted, and
  that only the running task can have ended.
- `InvOwned` and `InvPids`: the process that a queued task names by its PID
  stays the same until the task is gone (`OwnerKept`), because a PID is freed
  only with its last task.
- `InvVmms` pins CR3 to the process of the running task; with it a directory
  that is freed is never the one in use.
- The refinement maps the first pointer write of an insertion to the abstract
  `Start` and the last of a removal to `Kill`; `MembersStep` shows that no other
  step moves a task from one process to another.

### Frames and heap

`Pmm`, under `PmmAssumption` and the hypothesis `WholeUpdates`: no interrupt
falls into a load and its store in a build that splits them, which is the flaw
listed above. `FramesGivenOnce` speaks of the frames threads hold; `PmmInv` adds
those a call is busy with (`Busy`: marked and not yet returned, or given back
and not yet cleared) and those it found free and has still to mark (`Found`).
All three are disjoint between threads because the mutex is held from the search
to the last mark (`InvLock`); frees run without it and only clear their own bit.
`InvWord` says that a word loaded is still what the bitmap holds when it is
stored.

`Kheap`, under `KheapAssumption`: pages below the size rounded up are mapped, in
the middle of a call those up to the loop's position, and each frame is taken
once. The lemmas are about rounding up to pages.

`Malloc`, under `MallocAssumption` (sizes are natural numbers, a page and
`trim_threshold` are no smaller than a chunk, alignments neither). The proof has
two levels. A heap is defined apart from the program's variables (`Heap`: type,
tiling, places, tags); each change of tags the allocator makes is a lemma that
takes a heap to a heap: a listed chunk is taken, a used one given back, one is
split, two are joined, top is cut, moved, grown, or followed by another behind
two fenceposts. Each action is a sequence of two or three of these. What is
needed beyond `ChunksExact` is `InvRun`, which carries the locals of a call from
one step to the next: the chunk to be freed, copied or aligned is in use and
large enough, `sys` is only reached with a top too small, and after growing
there is a top to take from. That a free chunk never borders on top, and that a
fencepost is always in use as the one behind it says (`FenceNext`), is what
keeps a merge from reading a `prev_size` that is not there.

### Files

`FileTabProofs` is about `FileSpec`: opening, using, closing, starting processes
and exiting, without forks. It assumes `FileTabAssumption` (finite sets of
processes and threads, each thread has a process) and the hypothesis
`CloseAlone`: no close runs along with an open. No system call closes a file
today; what happens otherwise is listed above. Open hooks may fail, tables may
fail to grow.

- An entry's users are the descriptors that point at it and the threads between
  choosing it and filling a descriptor. `EntryInv` says that the count is at
  least their number and 0 exactly when the entry is free, and that its modes
  and node cover what each of them asked for. Both sides of the count change in
  different steps, by different threads: an opening thread counts itself
  before it has a descriptor, a closing one drops its reference before it clears
  the descriptor.
- `InvLock`: one thread at most is inside the table; `InvScan`: while it is, the
  entry it came to is still as it saw it. `InvHolder`: a descriptor in use is
  locked by one thread, which has its pointer.
- `InvPointers`: no pointer is into a table still to be allocated, so that a
  `krealloc()` that moves the table makes all of them stale and none valid by
  accident.
- `InvProcs` says for which process an open runs, so that the exit of one
  process takes no open of another with it.

`FileLockProofs` adds the hypotheses `HooksSucceed` (`Openable` has only
success; a hook that fails keeps both mutexes, a flaw listed above) and
`OneThread` (a thread that ends leaves no other of its process inside).
`LockInv` says who holds each mutex that is taken: of the table, of each entry,
of each descriptor. Then nobody waits for ever: if everyone inside were waiting,
nobody would hold an entry, since whoever does is not waiting; so nobody waits
for one, so the table's holder goes on and nobody holds it; so nobody waits for
the table, and likewise for descriptors.

`FilesKept` is about `ForkSpec`: opening, using, starting, forking and exiting,
without closes, which no system call makes. It has three hypotheses.
`OneThread`, as above: system calls come from tasks that a start or a fork made,
one in each process. `RoomForStd`: memory for the first entries and descriptors.
`ConsoleOpens`: an open of the console does not fail, since it has no open hook
(`devfs_create()` gets `NULL`, `fs/devfs_std.c:72`); hooks of other nodes may
fail, and leave their mutexes taken. The last two are needed: `proc_fork()`
copies the first `STDFDS` descriptors and counts none of them, which is right
only where parent and child have the console there. With two standard
descriptors and a console that fails to be opened for the second, TLC finds a
parent whose second descriptor is of another file, and a child of it that uses
that file uncounted. `ForkInv` is the invariant:

- Nothing is closed, so an entry that was opened stays what it is
  (`TableGrows`), and a pointer to it, even one into a table that has moved
  since, still names the same index (`Points`). The entry, node and modes that
  an open has reached are kept from step to step (`WalksAt`, `OpenedAt`).
- The console's entry is the first, from the boot on (`Booting`,
  `InvConsole`), and whoever creates a process finds it there at once; so the
  standard descriptors are all of entry 1 (`Standard`, `CreatesAt`).
- Only pointers into the table as it is count. A fork replaces descriptors of
  the child, which were counted, by the parent's, which are not: the count is
  right since those of the child are at least as new as the parent's
  (`ForksAt`), and every one that counts after the copy counted before it
  (`CopyCounts`).
- Each descriptor after those is counted when the copy comes to it
  (`OneMoreCounted`), and an exit only takes users away.

### Interrupts

`IntrProofs` proves `ServiceEnds` under `IntrAssumption` (a PIC has more lines
than the cascade's number, the vectors of both PICs lie below those of the I/O
APICs, an I/O APIC has a first GSI and a number of lines) and the hypothesis
`FewLines`: the vectors of the lines end before 255, the local APIC's own, whose
gate is written over whatever was there. `OtherBuses` is a second hypothesis: the
vector that an entry of another bus gives its line (`apic.c:588`, listed above)
is one of some line. The number of lines, handlers, nested
interrupts and calls, the tables of the firmware and the wires are arbitrary.

- An acknowledgement names no line: a controller ends the one of the highest
  priority that is in service. `IntrInv` therefore looks at the handlers under
  way as a stack, the parked task's below the running one's (`Stack`), and at
  what each of them has put into service at each of the three controllers
  (`MasterClaims`, `SlaveClaims`, `LocalClaims`).
- `Sound` says of a controller that whatever is in service is claimed by a
  handler on the stack, and that anything of a higher priority than a claim in
  service is claimed by a newer handler. An interrupt is only taken above all in
  service, so this is kept when a handler is pushed; the newest handler's claim
  is the highest, so that its acknowledgement ends that one (`SoundPop`); the
  acknowledgements in excess, of a task switch and of `apic_init()`, only take
  away (`SoundFewer`). A spurious interrupt claims the cascade alone, or nothing
  (`SoundDrop`).
- `InvPlace` and `Fits` follow the switch: no handler of the I/O APICs is under
  way before the lines are written, none of the PIC once it is masked, because
  the step that masks it runs with no handler under way. So a task switch may
  acknowledge at one controller only.
- `InvGates` and `LinesOf`: whatever the firmware's entries make of a line, one
  that is delivered as fixed has the vector of a line, its own or, for another
  bus, another's, and the gate there leads to `ioapic_handler()`; the gates of the PIC are kept. So `EndTop`
  acknowledges where the interrupt came from.
- That the search for the I/O APIC of a GSI finds one (`FirstIn`) is the
  well-foundedness of the natural numbers, from the library.

`SwitchExact` follows under `LineAssumption` as well (drivers ask for IRQs that
exist, and a machine's entries are a sequence), and under one more hypothesis,
`Wired`, which says that the firmware tells the truth and that a slip of the
code does not bite: after the switch has read the tables, each line is at an
input that exists; for a line that a driver asks for the I/O APIC that
`ioapic_set_mask()` finds is the one that has the input (it takes a GSI one
past the last for the APIC before); the last entry that names the IRQ, or the
identity if none does, gives the GSI the device is at and no other device's; the
line of an entry of another bus is at no IRQ's input (`Apart`); and in the
default configuration, whose timer is at input 2, no other device is there.
Every one of the five machines of `MCDrivers` meets all three hypotheses. The
invariant is `LinesInv`, in four parts:

- `InvOpen`: until the switch writes the lines, `imr` is what drivers have left
  masked. After a switch that failed nothing is held.
- `InvTable`: an entry of `pic_handlers` with a handler is for an IRQ that a
  driver asks for, also halfway through a registration, so that opening the lines
  of the table opens none that nobody asked for.
- `InvGsis`: `ioapic_irq_gsi` is the identity until the entries are gone
  through, then what the entries so far have said (`Said`: the last that names
  the IRQ), and at the end, with `Wired`, the GSI of the device.
- `InvLines`: a line that is delivered as fixed has the vector of its GSI and is
  open just when `Shown` says so. `Shown` follows the switch: nothing is open
  while the entries are read; then a line is open once the loop has come to a
  handler for it (`AdaptedTo`); then if it has a handler at all; and, when drivers
  run again, if it is in `open`. A line that was opened and that nobody handles is
  not carried over: `SwitchDone` takes it out of `open`, which is what drivers
  have to reckon with.

### Terminal output

`ConsoleProofs` works under `ConsoleAssumption` (a screen has a place, colours
are indexes, and whoever moves the cursor keeps it on the screen) and
`ScreenAssumption` (the pixels left over at the right are fewer than a
character's, the width fits into a `size_t`, the first sixteen colours differ).
The size of the screen, the tasks, the calls, what they print, the keys and the
bounds are arbitrary. `OutputWhole` has one hypothesis more, `PlainKeys`: nobody
types a tab or a carriage return, whose echo is not one character wide. Its
first part, `CallsWhole`, is proved without it.

- Calls: whoever is in the terminal has its mutex (`Guarded`), so nobody else has
  a call that is begun; what the caller's flag was is in the flag itself or in
  what its call remembers (`FlagsKept`), whichever of the two guards is in use.
- The line that is read: `Stands` says that a sequence is what stands before the
  cursor, as far as it is still on the screen. `Due` relates what has been read
  to what stands there through each part of the echo: a character that is read
  and not yet printed, one that is taken back and stands there until its `"\b \b"`
  is done, a blank over it. `DueStep` is one character of the echo.
- `CharEchoed` and `BackEchoed` are about the text terminal: a character stands
  behind the others, also when the row or the screen ends there and everything
  moves up by a row (`NewRow`); a backspace goes back to the row above, and at
  the first place, where it stays, nothing of the line is on the screen any more.
- That a tab ends on its row (`TabEnds`) is the well-foundedness of the natural
  numbers, and that rows follow each other (`Rowwise`) is arithmetic.

`TwinScreens` assumes `SharedColors`: a foreground is one of sixteen and a
background one of eight, which is what the text terminal takes; the framebuffer
takes any. `CommitShows` assumes `Unpaged`: a driver with a back buffer draws
directly or flips; `MCFbCommit` shows what happens otherwise.

- `Twin` relates the two terminals: the same cursor, colours that map to each
  other, and every place `Alike`. The drawing surface of the one is its back
  buffer, of the other driver its front one (`Source`), and `DrawIs` says that
  what is drawn is the next surface, whichever buffers it went to.
- The two find the end of a row in different ways. The text terminal compares
  its column; the other has an unsigned number of pixels left, which is less
  than a character's exactly at the last column (`RoomLeft`), and divides to go
  back to the row above (`ColumnsFit`).
- A tab is a fill up to the next stop on the one, and a blank followed by up to
  three more on the other. `TwinTabOn` takes both one blank further; that three
  are enough is `TabNear`: of four columns that follow each other one is a stop.
- The order of colours of the text terminal is its own inverse (`IdxTwice`), and
  a colour is found again in the palette under its own index (`IndexFound`).
- `Shown` is kept by every call, since a drawing either goes to both buffers or
  takes the mark of the commit away, and by every commit that flips
  (`CommitIs`). The surface is not changed by any commit, so that `Twin` holds
  for drivers that commit page by page, too.

### Only model-checked

- `ReadyRuns`, `PendingReaped`, `CharsDelivered`: liveness, which the prover
  does not reach. `BoundedOvertaking`: a number that depends on how many tasks
  there are.
- `Elf`, `Vfs`, `Pci`, `Lib`, `Printf`: recursion over data.
- `Vmem`, `Cow`, `PageTables`, `Ranges`: operators built on folds and `CHOOSE`
  over memory values.
- `Keyboard`: what a reader gets is defined by `SelectSeq` of what was typed,
  whose properties need induction over sequences.
- `HandlersRun`: what runs is picked by `SelectSeq` and `FlattenSeq` from two
  tables, and needs induction over sequences.
- `Pixels`, `Serial`, which are the other two parts of `ScreensExact`: folds over
  the pixels of a run and the bits of a value, and the digits of a report.
- The violations.

## 5. Not modelled

- Of the allocator: `mmap` (not built in), contents of chunks, sizes near the
  width of `size_t`, statistics, and the entry points nobody in the kernel
  calls. Calls do not interleave in the model, and nothing in the code keeps
  them apart: `mm/malloc.c` is built without a lock, and two tasks in it at once
  are a hazard without a property. Outside `Malloc` an allocation is one step
  that succeeds or fails.
- Boot order, GDT, memory map, RTC, BIOS calls (`int32.asm`), APIC timer, UART
  programming, `ioapic_set_trigger()`: written once, sequentially, to hardware.
- ACPI: glue to the LAI library, whose tree is not here; with it the routing of
  PCI pins by ACPI (`drivers/pci.c:178-180`), which comes before the MP table's.
- A `krealloc()` that fails inside `vmm_trap_remove()`.
- 64-bit ELF files (the other build), `task_fork_stub()` and the frames of
  stacks, handler and staging tables that outgrow their first allocation.
- Key maps and modifiers, scrolling down and driver loading of the framebuffer,
  notation with an exponent (`_etoa()`), `rand()`, `devfs_remove()`, thin
  wrappers around hooks in `vfs.c`, and the search and checksum of the MP table.

## 6. Plan

The components that carry logic are modelled. What remains is proof, in modules
that reach no recursive operator:

1. `Vmem`: `TrapsPaired`, if the folds over a directory can be replaced by sets.
2. Composition of `FileTab` with the memory of a fork, where exit returns both.
