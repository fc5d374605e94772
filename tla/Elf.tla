-------------------------------- MODULE Elf --------------------------------
(***************************************************************************)
(* Loading of programs, kernel modules and kernel symbols (exec/elf.c) and *)
(* the symbol table (exec/syms.c), for the 32-bit x86 build.               *)
(*                                                                         *)
(* The loader runs step by step; every kmalloc() may fail and frames may   *)
(* run out.  Memory is counted in cells: a cell is what a 32-bit field     *)
(* holds, a page has PGSZ of them, and cell k of the file holds k + 1.     *)
(***************************************************************************)
EXTENDS Integers, Sequences, FiniteSets, FiniteSetsExt, SequencesExt

CONSTANTS
  File,           \* files that are loaded: kind, header, sections or segments
  PGSZ,           \* cells in a page
  LoadPages,      \* the pages from ELF_LOAD_ADDR_START on
  FrameCounts,    \* how many frames may be free, as numbers from 1 on
  WORD32, WORD16, WORD8,      \* what fields of relocations count to
  SYM_ALLOC_MIN,
  KernelSyms,     \* sequence of the kernel's own symbols
  Cut(_),         \* a name as far as SYM_NAME_MAXLEN lets it be stored
  ELF_KMOD_INIT_FUNC

VARIABLES
  file, pc,
  at, sub,        \* entry of a header table, and position in it
  bufs,           \* heap buffers that are allocated
  wild,           \* something was freed that was not allocated
  load,           \* prgload_result
  map,            \* frame of each page of the space the file is loaded into
  rw,             \* pages of it that are writable
  free,           \* free frames
  ram,            \* what the frames hold
  window,         \* copy_dst is mapped
  symtab, strtab, \* section the buffer of that name was read from, 0 for none
  syms,           \* kernel_syms: entries and max_count
  missed,         \* an entry could not be added (history)
  entry, result
fileVars == <<file, bufs, wild, result>>
memVars == <<map, rw, free, ram, window>>
symVars == <<syms, missed, entry>>
elfVars == <<fileVars, pc, at, sub, load, memVars, symtab, strtab, symVars>>

Garbage == 7
FileCell(k) == k + 1
Sec(i) == file.sec[i + 1]
NumSec == Len(file.sec)
Pages(n) == (n + PGSZ - 1) \div PGSZ
Tables == {"hdr", "shdr", "shstrtab"}
SHN_UNDEF == 0
SHN_ABS == 65521

-----------------------------------------------------------------------------
(* The header. *)

\* A 32-bit file passes the test of e_type whatever its type is.
BadType(h) == /\ h.type \notin 0..4 /\ h.type < 65280
              /\ h.class = 64 /\ ~(h.type \in 65024..65279)
Checks(h) == <<<<"ERR_MAGIC", h.magic>>, <<"ERR_CLASS", h.class = 32>>, <<"ERR_ENDIAN", h.data = "LSB">>,
               <<"ERR_VERSION", h.version = 1>>, <<"ERR_TYPE", ~BadType(h)>>,
               <<"ERR_MACHINE", h.machine \in {"NONE", "386"}>>>>
elf_check_header(h) == SelectSeq(Append(Checks(h), <<"OK_ELF32", FALSE>>), LAMBDA c : ~c[2])[1][1]

Fail(r, gone) ==
  /\ pc' = "failed" /\ result' = r /\ bufs' = bufs \ gone
  /\ wild' = (wild \/ ~(gone \subseteq bufs))
Alloc(new, next) ==
  /\ pc' = next /\ bufs' = bufs \union new /\ UNCHANGED <<wild, result>>
Wanted == IF file.kind = "kmod" THEN 1 ELSE 2
HeaderResult(ok) ==
  CASE ~ok -> "ERR_ALLOC"
    [] elf_check_header(file.hdr) # "OK_ELF32" -> "ERR_CHECK"
    [] file.hdr.type # Wanted -> "ERR_UNSUPPORTED_TYPE"
    [] OTHER -> "LOAD_OK"
elf_read_header(ok) ==
  /\ pc = "header"
  /\ IF HeaderResult(ok) = "LOAD_OK"
     THEN Alloc({"hdr"}, IF file.kind = "exec" THEN "phdr" ELSE "shdr")
     ELSE Fail(HeaderResult(ok), {})
  /\ UNCHANGED <<file, at, sub, load, memVars, symtab, strtab, symVars>>

\* kmalloc() of the section headers and of their string table.
elf_read_shdr(ok, ok2) ==
  /\ pc = "shdr"
  /\ CASE ~ok -> Fail("ERR_ALLOC", {"hdr"})
       [] ok /\ Sec(file.hdr.shstrndx).type # "STRTAB" -> Fail("ERR_INVALID_DATA", {"hdr"})
       [] ok /\ Sec(file.hdr.shstrndx).type = "STRTAB" ->
            IF ok2 THEN Alloc({"shdr", "shstrtab"}, IF file.kind = "kmod" THEN "load" ELSE "syms")
                   ELSE Fail("ERR_ALLOC", {"hdr"})
  /\ UNCHANGED <<file, at, sub, load, memVars, symtab, strtab, symVars>>

-----------------------------------------------------------------------------
(* Relocatable files: sections that are loaded, and their relocations. *)

NextSection(next) ==
  IF at + 1 < NumSec THEN at' = at + 1 /\ pc' = pc ELSE at' = 0 /\ pc' = next
Loads(s) == s.alloc /\ s.size > 0 /\ s.type \in {"PROGBITS", "NOBITS"}
Room(n) == {p \in LoadPages : p..p + n - 1 \subseteq LoadPages \ DOMAIN map}
Lowest(n) == SubSeq(SetToSortSeq(free, <), 1, n)
MapPages(p, frames) == [q \in DOMAIN map \union p..p + Len(frames) - 1 |->
                          IF q \in DOMAIN map THEN map[q] ELSE frames[q - p + 1]]
SectionCell(s, k) == IF k >= s.size THEN Garbage ELSE IF s.type = "NOBITS" THEN 0 ELSE FileCell(s.off + k)
SectionRam(s, frames) ==
  [f \in DOMAIN ram |-> IF f \in ToSet(frames)
     THEN [o \in 0..PGSZ - 1 |-> SectionCell(s, (SelectInSeq(frames, LAMBDA g : g = f) - 1) * PGSZ + o)]
     ELSE ram[f]]

SkipSection ==
  /\ pc = "load" /\ ~Loads(Sec(at)) /\ NextSection("reloc")
  /\ UNCHANGED <<fileVars, sub, load, memVars, symtab, strtab, symVars>>
\* Sections that are loaded already stay in memory, and what lists them stays allocated.
NoRoom ==
  /\ pc = "load" /\ Loads(Sec(at)) /\ Room(Pages(Sec(at).size)) = {}
  /\ Fail("ERR_ALLOC", Tables)
  /\ UNCHANGED <<file, at, sub, load, memVars, symtab, strtab, symVars>>
\* The frames run out: the first frame that was taken is freed, as often as
\* frames were taken, and the pages are unmapped.
OutOfFrames ==
  /\ pc = "load" /\ Loads(Sec(at)) /\ Room(Pages(Sec(at).size)) # {}
  /\ Cardinality(free) < Pages(Sec(at).size)
  /\ free' = IF free = {} THEN {} ELSE {Min(free)}
  /\ Fail("ERR_ALLOC", Tables)
  /\ UNCHANGED <<file, at, sub, load, map, rw, ram, window, symtab, strtab, symVars>>
PlaceSection(p, frames) ==
  /\ map' = MapPages(p, frames) /\ rw' = rw \union DOMAIN map' /\ free' = free \ ToSet(frames)
  /\ ram' = SectionRam(Sec(at), frames)
  /\ load' = Append(load, [idx |-> at, vaddr |-> p * PGSZ, size |-> Sec(at).size])
LoadSection(ok) ==
  /\ pc = "load" /\ Loads(Sec(at)) /\ Room(Pages(Sec(at).size)) # {}
  /\ Cardinality(free) >= Pages(Sec(at).size)
  /\ IF ok
     THEN /\ PlaceSection(Min(Room(Pages(Sec(at).size))), Lowest(Pages(Sec(at).size)))
          /\ bufs' = bufs \union {"prgload"} /\ NextSection("reloc") /\ UNCHANGED <<wild, result>>
     ELSE /\ Fail("ERR_ALLOC", Tables \union (IF load = <<>> THEN {} ELSE {"prgload"}))
          /\ UNCHANGED <<at, load, map, rw, free, ram>>
  /\ UNCHANGED <<file, sub, window, symtab, strtab, symVars>>

LoadedAt(i) == {k \in 1..Len(load) : load[k].idx = i}
Relocates(s) == s.type \in {"REL", "RELA"} /\ LoadedAt(s.info) # {}
SkipReloc ==
  /\ pc = "reloc" /\ ~Relocates(Sec(at)) /\ NextSection("relocated")
  /\ UNCHANGED <<fileVars, sub, load, memVars, symtab, strtab, symVars>>

\* The string table that belongs to symbol table i.
StrtabOf(i) == Sec(i).link

\* The symbol table and its string table are read unless they are those of the
\* section before; then the relocations themselves.  What a failure leaves
\* allocated depends on where it is.
OldSymtab == IF symtab = 0 THEN {} ELSE {"symtab"}
OldStrtab == IF strtab = 0 THEN {} ELSE {"strtab"}
NewSymtab == Sec(at).link # symtab
NewStrtab == StrtabOf(Sec(at).link) # strtab
BadSymtab == NewSymtab /\ Sec(Sec(at).link).type # "SYMTAB"
BadStrtab == NewStrtab /\ Sec(StrtabOf(Sec(at).link)).type # "STRTAB"
After(r, gone, kept) ==
  /\ pc' = "failed" /\ result' = r
  /\ bufs' = (bufs \ (Tables \union {"prgload"} \union gone)) \union kept
  /\ wild' = (wild \/ ~(Tables \union {"prgload"} \union gone \subseteq bufs))
OpenReloc(ok, ok2, ok3) ==
  /\ pc = "reloc" /\ Relocates(Sec(at))
  /\ CASE BadSymtab -> After("ERR_INVALID_DATA", OldSymtab, {})
       [] ~BadSymtab /\ NewSymtab /\ ~ok -> After("ERR_ALLOC", OldSymtab, {})
       [] ~BadSymtab /\ (ok \/ ~NewSymtab) ->
          CASE BadStrtab -> After("ERR_INVALID_DATA", OldSymtab \union OldStrtab, {})
            [] ~BadStrtab /\ NewStrtab /\ ~ok2 -> After("ERR_INVALID_DATA", OldStrtab, {"symtab"})
            [] ~BadStrtab /\ (ok2 \/ ~NewStrtab) ->
               IF ok3 THEN Alloc({"symtab", "strtab", "rel"}, "entry") ELSE After("ERR_ALLOC", {}, {"symtab", "strtab"})
  /\ symtab' = IF pc' = "entry" THEN Sec(at).link ELSE symtab
  /\ strtab' = IF pc' = "entry" THEN StrtabOf(Sec(at).link) ELSE strtab
  /\ sub' = 0
  /\ UNCHANGED <<file, at, load, memVars, symVars>>

\* sym_resolve() compares one character more than it takes of a long name.
Matches(t, n) == {k \in 1..Len(t.ent) : t.ent[k].name = n /\ Cut(n) = n}
Resolve(t, n, default) == IF Matches(t, n) = {} THEN default ELSE t.ent[Min(Matches(t, n))].addr
Base(i) == IF LoadedAt(i) = {} THEN 0 ELSE load[Min(LoadedAt(i))].vaddr
NameOf(sym, str) == Sec(str).ent[sym.name]
SymValue(sym) ==
  CASE sym.shndx = SHN_ABS -> sym.value
    [] sym.shndx = SHN_UNDEF -> Resolve(syms, NameOf(sym, strtab), sym.value)
    [] OTHER -> sym.value + Base(sym.shndx)

Width(type) == CASE type \in {"16", "PC16"} -> WORD16 [] type \in {"8", "PC8"} -> WORD8 [] OTHER -> WORD32

Field(type, s, a, old, p) ==
  CASE type \in {"32", "16", "8"} -> s + old + a
    [] type \in {"PC32", "PC16", "PC8"} -> s + old - p + a
    [] type \in {"COPY", "JMP_SLOT"} -> s + a
    [] OTHER -> old
\* A narrow field leaves the rest of the cell as it is.
Relocated(type, s, a, cell, p) ==
  (cell \div Width(type)) * Width(type) + (Field(type, s, a, cell % Width(type), p) % Width(type))
CellAt(v) == ram[map[v \div PGSZ]][v % PGSZ]
Put(v, x) == ram' = [ram EXCEPT ![map[v \div PGSZ]][v % PGSZ] = x]
Addend(e) == IF Sec(at).type = "RELA" THEN e.addend ELSE 0
\* Nothing is relocated in a file for no machine.
Relocate(e, v) ==
  IF file.hdr.machine = "386"
  THEN Put(v, Relocated(e.type, SymValue(Sec(symtab).ent[e.sym]), Addend(e), CellAt(v), v))
  ELSE UNCHANGED ram
RelocEntry ==
  /\ pc = "entry" /\ sub < Len(Sec(at).ent)
  /\ Relocate(Sec(at).ent[sub + 1], Base(Sec(at).info) + Sec(at).ent[sub + 1].offset)
  /\ sub' = sub + 1
  /\ UNCHANGED <<fileVars, pc, at, load, map, rw, free, window, symtab, strtab, symVars>>
CloseReloc ==
  /\ pc = "entry" /\ sub = Len(Sec(at).ent)
  /\ IF at + 1 < NumSec THEN at' = at + 1 /\ pc' = "reloc" ELSE at' = 0 /\ pc' = "relocated"
  /\ bufs' = bufs \ {"rel"} /\ sub' = 0
  /\ UNCHANGED <<file, wild, result, load, memVars, symtab, strtab, symVars>>
EndReloc ==
  /\ pc = "relocated" /\ pc' = "syms"
  /\ bufs' = bufs \ (OldSymtab \union OldStrtab)
  /\ wild' = (wild \/ ~(OldSymtab \union OldStrtab \subseteq bufs))
  /\ symtab' = 0 /\ strtab' = 0
  /\ UNCHANGED <<file, result, at, sub, load, memVars, symVars>>

-----------------------------------------------------------------------------
(* Symbols. *)

SkipTable ==
  /\ pc = "syms" /\ Sec(at).type # "SYMTAB" /\ NextSection("saved")
  /\ UNCHANGED <<fileVars, sub, load, memVars, symtab, strtab, symVars>>
SymsFail(r) == IF file.kind = "kmod" THEN Fail(r, Tables \union ({"prgload"} \intersect bufs))
                                    ELSE Fail(r, Tables)
OpenTable(ok, ok2) ==
  /\ pc = "syms" /\ Sec(at).type = "SYMTAB"
  /\ CASE Sec(Sec(at).link).type # "STRTAB" -> SymsFail("ERR_INVALID_DATA")
       [] Sec(Sec(at).link).type = "STRTAB" /\ ~(ok /\ ok2) -> SymsFail("ERR_ALLOC")
       [] Sec(Sec(at).link).type = "STRTAB" /\ ok /\ ok2 -> Alloc({"symtab", "strtab"}, "sym")
  /\ sub' = 0
  /\ UNCHANGED <<file, at, load, memVars, symtab, strtab, symVars>>

\* A slip: an entry that exists keeps the address it has.
AddKept(t, n, a) ==
  IF Matches(t, n) # {} THEN t
  ELSE [t EXCEPT !.ent = Append(@, [name |-> Cut(n), addr |-> a]),
                 !.max = IF Len(t.ent) = t.max THEN @ + SYM_ALLOC_MIN ELSE @]

\* sym_add_entry() with memory for more entries: an entry that exists gets the new address.
Added(t, n, a) ==
  IF Matches(t, n) # {} THEN [t EXCEPT !.ent[Min(Matches(t, n))].addr = a]
  ELSE [t EXCEPT !.ent = Append(@, [name |-> Cut(n), addr |-> a]),
                 !.max = IF Len(t.ent) = t.max THEN @ + SYM_ALLOC_MIN ELSE @]
Full(t, n) == Matches(t, n) = {} /\ Len(t.ent) = t.max
sym_add_entry(n, a, ok) ==
  IF Full(syms, n) /\ ~ok THEN missed' = TRUE /\ UNCHANGED syms
  ELSE syms' = Added(syms, n, a) /\ UNCHANGED missed

Defines(s) == ~s.hidden /\ s.shndx \notin {SHN_ABS, SHN_UNDEF} /\ s.kind \notin {"FILE", "SECTION"}
\* Symbols of a module that has nothing loaded keep their values.
Address(s) == s.value + (IF file.kind = "kmod" THEN Base(s.shndx) ELSE 0)
IsEntry(n) == file.kind = "kmod" /\ entry = 0 /\ n = ELF_KMOD_INIT_FUNC
TakeSymbol(s, n, ok) ==
  IF ~Defines(s) THEN UNCHANGED symVars
  ELSE IF IsEntry(n) THEN entry' = Address(s) /\ UNCHANGED <<syms, missed>>
  ELSE IF s.bind \in {"GLOBAL", "WEAK"} THEN sym_add_entry(n, Address(s), ok) /\ UNCHANGED entry
  ELSE UNCHANGED symVars
LoadSymbol(ok) ==
  /\ pc = "sym" /\ sub < Len(Sec(at).ent)
  /\ TakeSymbol(Sec(at).ent[sub + 1], NameOf(Sec(at).ent[sub + 1], Sec(at).link), ok)
  /\ sub' = sub + 1
  /\ UNCHANGED <<fileVars, pc, at, load, memVars, symtab, strtab>>
CloseTable ==
  /\ pc = "sym" /\ sub = Len(Sec(at).ent)
  /\ IF at + 1 < NumSec THEN at' = at + 1 /\ pc' = "syms" ELSE at' = 0 /\ pc' = "saved"
  /\ bufs' = bufs \ {"symtab", "strtab"} /\ sub' = 0
  /\ UNCHANGED <<file, wild, result, load, memVars, symtab, strtab, symVars>>
Saved ==
  /\ pc = "saved" /\ pc' = "loaded" /\ result' = "LOAD_OK"
  /\ bufs' = bufs \ Tables /\ wild' = (wild \/ ~(Tables \subseteq bufs))
  /\ UNCHANGED <<file, at, sub, load, memVars, symtab, strtab, symVars>>

-----------------------------------------------------------------------------
(* Executables: segments, page by page through a window. *)

Seg == file.seg[at]
PageOf(v) == v \div PGSZ
SegPages(s) == Pages(s.memsz + (s.vaddr % PGSZ))

ReadPhdr(ok) ==
  /\ pc = "phdr" /\ at' = 1
  /\ IF ok THEN Alloc({"phdr"}, "seg") ELSE Fail("ERR_ALLOC", {"hdr"})
  /\ UNCHANGED <<file, sub, load, memVars, symtab, strtab, symVars>>
\* What is loaded so far is unloaded; the program headers and the window stay.
Undo == pc' = "unload" /\ result' = "ERR_ALLOC" /\ at' = 1 /\ sub' = 0 /\ UNCHANGED <<bufs, wild>>
OpenSegment(ok) ==
  /\ pc = "seg" /\ at <= Len(file.seg)
  /\ CASE Seg.type # "LOAD" -> at' = at + 1 /\ UNCHANGED <<pc, sub, bufs, wild, result, window>>
       [] Seg.type = "LOAD" /\ ~window /\ ~ok -> Undo /\ UNCHANGED window
       [] Seg.type = "LOAD" /\ (window \/ ok) ->
            pc' = "page" /\ sub' = 0 /\ window' = TRUE /\ UNCHANGED <<at, bufs, wild, result>>
  /\ UNCHANGED <<file, load, map, rw, free, ram, symtab, strtab, symVars>>

\* A page that an earlier segment mapped becomes writable if this one is.
SetFlags(p) == rw' = IF Seg.w THEN rw \union {p} ELSE rw
MapPage ==
  /\ pc = "page" /\ sub < SegPages(Seg)
  /\ LET p == PageOf(Seg.vaddr) + sub IN
     IF p \notin DOMAIN map /\ free = {} THEN Undo /\ UNCHANGED <<map, rw, free>>
     ELSE /\ SetFlags(p) /\ sub' = sub + 1 /\ UNCHANGED <<pc, at, bufs, wild, result>>
          /\ IF p \in DOMAIN map THEN UNCHANGED <<map, free>>
             ELSE map' = MapPages(p, <<Min(free)>>) /\ free' = free \ {Min(free)}
  /\ UNCHANGED <<file, load, ram, window, symtab, strtab, symVars>>
StartCopy ==
  /\ pc = "page" /\ sub = SegPages(Seg) /\ pc' = "copy" /\ sub' = 0
  /\ UNCHANGED <<fileVars, at, load, memVars, symtab, strtab, symVars>>

\* A slip: a part that the file ends in is read whole.
ReadSizeWhole(offset, sz) == IF offset >= Seg.filesz THEN 0 ELSE sz

\* How much of the part comes from the file; the rest is cleared.
ReadSize(offset, sz) ==
  IF offset >= Seg.filesz THEN 0 ELSE IF offset + sz <= Seg.filesz THEN sz ELSE Seg.filesz - offset
PartSize(offset) == Min({PGSZ - ((Seg.vaddr + offset) % PGSZ), Seg.memsz - offset})
Part(f, start, sz, rd) ==
  ram' = [ram EXCEPT ![f] = [o \in 0..PGSZ - 1 |->
            CASE o \in start..start + rd - 1 -> FileCell(Seg.off + sub + o - start)
              [] o \in start + rd..start + sz - 1 -> 0
              [] OTHER -> ram[f][o]]]
CopyPart ==
  /\ pc = "copy" /\ sub < Seg.memsz
  /\ Part(map[PageOf(Seg.vaddr + sub)], (Seg.vaddr + sub) % PGSZ, PartSize(sub), ReadSize(sub, PartSize(sub)))
  /\ sub' = sub + PartSize(sub)
  /\ UNCHANGED <<fileVars, pc, at, load, map, rw, free, window, symtab, strtab, symVars>>
EndSegment(ok) ==
  /\ pc = "copy" /\ sub >= Seg.memsz
  /\ IF ok
     THEN /\ load' = Append(load, [idx |-> at - 1, vaddr |-> Seg.vaddr, size |-> Seg.memsz])
          /\ bufs' = bufs \union {"prgload"} /\ at' = at + 1 /\ pc' = "seg" /\ sub' = 0
          /\ UNCHANGED <<wild, result>>
     ELSE Undo /\ UNCHANGED load
  /\ UNCHANGED <<file, memVars, symtab, strtab, symVars>>
EndSegments ==
  /\ pc = "seg" /\ at > Len(file.seg)
  /\ window' = FALSE /\ pc' = "loaded" /\ result' = "LOAD_OK"
  /\ bufs' = bufs \ {"phdr", "hdr"} /\ wild' = (wild \/ ~({"phdr", "hdr"} \subseteq bufs))
  /\ UNCHANGED <<file, at, sub, load, map, rw, free, ram, symtab, strtab, symVars>>

-----------------------------------------------------------------------------
(* elf_unload_prg(), for a program that exits, a module whose kmod_init()  *)
(* fails, and a load that is given up.                                     *)

StartUnload ==
  /\ pc = "loaded" /\ file.kind # "ksym" /\ pc' = "unload" /\ at' = 1 /\ sub' = 0
  /\ UNCHANGED <<fileVars, load, memVars, symtab, strtab, symVars>>

\* A slip: the page is unmapped and its frame kept.
UnmapOnly(p) == map' = [q \in DOMAIN map \ {p} |-> map[q]] /\ UNCHANGED free

UnmapPage(p) == map' = [q \in DOMAIN map \ {p} |-> map[q]] /\ free' = free \union {map[p]}
\* A page that is not mapped has no page size: the loop stays where it is.
UnloadPage ==
  /\ pc = "unload" /\ at <= Len(load) /\ sub < load[at].size
  /\ LET p == PageOf(load[at].vaddr + sub) IN
     IF p \in DOMAIN map THEN UnmapPage(p) /\ rw' = rw \ {p} /\ sub' = sub + PGSZ /\ UNCHANGED pc
     ELSE pc' = "spins" /\ UNCHANGED <<map, free, rw, sub>>
  /\ UNCHANGED <<fileVars, at, load, ram, window, symtab, strtab, symVars>>
UnloadNext ==
  /\ pc = "unload" /\ at <= Len(load) /\ sub >= load[at].size
  /\ at' = at + 1 /\ sub' = 0
  /\ UNCHANGED <<fileVars, pc, load, memVars, symtab, strtab, symVars>>
UnloadEnd ==
  /\ pc = "unload" /\ at > Len(load) /\ sub' = 0
  /\ pc' = IF result = "LOAD_OK" THEN "gone" ELSE "failed"
  /\ bufs' = bufs \ ({"prgload"} \union (IF result = "LOAD_OK" THEN {} ELSE {"hdr"}))
  /\ wild' = (wild \/ (load # <<>> /\ "prgload" \notin bufs))
  /\ load' = <<>>
  /\ UNCHANGED <<file, at, result, memVars, symtab, strtab, symVars>>

-----------------------------------------------------------------------------
ElfStart(files, counts) ==
  /\ file \in files /\ pc = "header" /\ at = 0 /\ sub = 0
  /\ bufs = {} /\ wild = FALSE /\ load = <<>> /\ map = <<>> /\ rw = {}
  /\ \E n \in counts : free = 1..n
  /\ ram = [f \in free |-> [o \in 0..PGSZ - 1 |-> Garbage]]
  /\ window = FALSE /\ symtab = 0 /\ strtab = 0
  /\ syms = [ent |-> KernelSyms, max |-> Len(KernelSyms)] /\ missed = FALSE
  /\ entry = 0 /\ result = "none"
ElfInit == ElfStart(File, FrameCounts)
ElfNext ==
  \/ \E ok, ok2, ok3 \in BOOLEAN :
       elf_read_header(ok) \/ elf_read_shdr(ok, ok2) \/ LoadSection(ok) \/ OpenReloc(ok, ok2, ok3)
       \/ OpenTable(ok, ok2) \/ LoadSymbol(ok) \/ ReadPhdr(ok) \/ OpenSegment(ok) \/ EndSegment(ok)
  \/ SkipSection \/ NoRoom \/ OutOfFrames \/ SkipReloc \/ RelocEntry \/ CloseReloc \/ EndReloc
  \/ SkipTable \/ CloseTable \/ Saved
  \/ MapPage \/ StartCopy \/ CopyPart \/ EndSegments
  \/ StartUnload \/ UnloadPage \/ UnloadNext \/ UnloadEnd
ElfSpec == ElfInit /\ [][ElfNext]_elfVars

-----------------------------------------------------------------------------
\* elf_load_phdr() builds the image that the program headers describe, with
\* segments of any alignment and several of them on a page: each cell of a
\* segment is the file's or zero, and a page is writable iff a segment on it is.
On(s) == s.vaddr..s.vaddr + s.memsz - 1
Touches(s, p) == s.memsz > 0 /\ p \in PageOf(s.vaddr)..PageOf(s.vaddr + s.memsz - 1)
LoadSegs == {i \in 1..Len(file.seg) : file.seg[i].type = "LOAD"}
ImageExact ==
  pc = "loaded" /\ file.kind = "exec" =>
    /\ \A i \in LoadSegs : \A v \in On(file.seg[i]) :
         (\A j \in LoadSegs : j > i => v \notin On(file.seg[j])) =>
           CellAt(v) = LET s == file.seg[i] IN
                       IF v - s.vaddr < s.filesz THEN FileCell(s.off + v - s.vaddr) ELSE 0
    /\ DOMAIN map = {p \in DOMAIN map : \E i \in LoadSegs : Touches(file.seg[i], p)}
    /\ \A p \in DOMAIN map : p \in rw <=> \E i \in LoadSegs : file.seg[i].w /\ Touches(file.seg[i], p)

\* After elf_load_rel() and elf_do_reloc() each field of a loaded section that
\* one relocation names holds S + A, S + A - P or S as the type says, with the
\* symbol and the name taken from the tables that the relocation section itself
\* is linked to, whatever tables were read before; all other cells are the file's.
Targets(i, o) == {<<q, j>> \in (0..NumSec - 1) \X (1..3) :
                    /\ Sec(q).type \in {"REL", "RELA"} /\ Sec(q).info = i
                    /\ j <= Len(Sec(q).ent) /\ Sec(q).ent[j].offset = o}
TrueSymbol(sym, str) ==
  CASE sym.shndx = SHN_ABS -> sym.value
    [] sym.shndx = SHN_UNDEF -> Resolve([ent |-> KernelSyms], Sec(str).ent[sym.name], sym.value)
    [] OTHER -> sym.value + Base(sym.shndx)
Expected(q, e, old, p) ==
  LET s == TrueSymbol(Sec(Sec(q).link).ent[e.sym], Sec(Sec(q).link).link)
      a == IF Sec(q).type = "RELA" THEN e.addend ELSE 0
      w == Width(e.type)
      adds == IF e.type \in {"COPY", "JMP_SLOT"} THEN 0 ELSE old % w
      less == IF e.type \in {"PC32", "PC16", "PC8"} THEN p ELSE 0
  IN (old \div w) * w + ((s + a + adds - less) % w)
RelocatedExact ==
  pc = "syms" /\ file.kind = "kmod" /\ file.hdr.machine = "386" =>
    \A k \in 1..Len(load) : \A o \in 0..load[k].size - 1 :
      LET rel == Targets(load[k].idx, o)
          old == SectionCell(Sec(load[k].idx), o)
          v == load[k].vaddr + o
      IN /\ rel = {} => CellAt(v) = old
         /\ Cardinality(rel) = 1 =>
              \A r \in rel : Sec(r[1]).ent[r[2]].type # "NONE" =>
                CellAt(v) = Expected(r[1], Sec(r[1]).ent[r[2]], old, v)

\* Whatever fails on the way, no buffer is freed twice and no page maps a
\* free frame; a load that succeeds keeps the list of what it loaded and nothing
\* else, and elf_unload_prg() gives back every frame of a program whose
\* segments start on pages of their own.
Aligned == \A i \in 1..Len(file.seg) : file.seg[i].vaddr % PGSZ = 0
OwnPages == \A i, j \in LoadSegs : i # j => \A p \in 0..40 :
              ~(Touches(file.seg[i], p) /\ Touches(file.seg[j], p))
LoadBalanced ==
  /\ ~wild
  /\ \A p, q \in DOMAIN map : map[p] \notin free /\ (map[p] = map[q] => p = q)
  /\ pc = "loaded" => bufs \subseteq {"prgload"} /\ ~window
  /\ pc = "gone" => bufs = {} /\ (Aligned /\ OwnPages => free = DOMAIN ram)
  /\ pc = "spins" => ~OwnPages

\* Once a module or the kernel's symbol file is loaded, each name it exports is
\* resolved to the address of the last definition of it, names before are kept,
\* and no entry lies past the memory of the table, however it had to grow.
Exports(n) == {<<q, j>> \in (0..NumSec - 1) \X (1..4) :
                 /\ Sec(q).type = "SYMTAB" /\ j <= Len(Sec(q).ent)
                 /\ LET s == Sec(q).ent[j] IN
                    /\ Defines(s) /\ s.bind # "LOCAL" /\ NameOf(s, Sec(q).link) = n}
Later(a, b) == a[1] > b[1] \/ (a[1] = b[1] /\ a[2] > b[2])
Names == {k.name : k \in ToSet(KernelSyms)}
         \union UNION {ToSet(Sec(q).ent) : q \in {i \in 0..NumSec - 1 : Sec(i).type = "STRTAB"}}
SymbolsResolve ==
  /\ Len(syms.ent) <= syms.max
  /\ pc = "loaded" /\ file.kind # "exec" /\ ~missed =>
       \A n \in {m \in Names : Cut(m) = m /\ m # ELF_KMOD_INIT_FUNC} :
         IF Exports(n) = {} THEN Resolve(syms, n, -1) = Resolve([ent |-> KernelSyms], n, -1)
         ELSE LET d == CHOOSE x \in Exports(n) : \A y \in Exports(n) : x = y \/ Later(x, y)
              IN Resolve(syms, n, -1) = Address(Sec(d[1]).ent[d[2]])
=============================================================================
