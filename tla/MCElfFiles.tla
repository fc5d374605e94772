----------------------------- MODULE MCElfFiles -----------------------------
(***************************************************************************)
(* The files that the loader is given.                                     *)
(***************************************************************************)
EXTENDS Elf, TLC

Header(t) == [magic |-> TRUE, class |-> 32, data |-> "LSB", version |-> 1, type |-> t,
              machine |-> "386", shstrndx |-> 4]
None == [type |-> "NULL", alloc |-> FALSE, size |-> 0, off |-> 0, link |-> 0, info |-> 0, ent |-> <<>>]
Prog(size, off) == [None EXCEPT !.type = "PROGBITS", !.alloc = TRUE, !.size = size, !.off = off]
Bss(size) == [None EXCEPT !.type = "NOBITS", !.alloc = TRUE, !.size = size]
Symtab(str, ent) == [None EXCEPT !.type = "SYMTAB", !.link = str, !.ent = ent]
Strtab(names) == [None EXCEPT !.type = "STRTAB", !.ent = names]
Rel(type, sym, of, ent) == [None EXCEPT !.type = type, !.link = sym, !.info = of, !.ent = ent]
Sym(name, value, shndx) == [name |-> name, value |-> value, shndx |-> shndx, hidden |-> FALSE,
                            kind |-> "FUNC", bind |-> "GLOBAL"]
Entry(offset, sym, type, addend) == [offset |-> offset, sym |-> sym, type |-> type, addend |-> addend]

\* A module with two loaded sections, one that is not, and two symbol tables
\* with string tables of their own.
Module(t1, t2, sym, shndx, named) ==
  [kind |-> "kmod", hdr |-> Header(1), seg |-> <<>>,
   sec |-> <<None, Prog(3, 8), Bss(3), Symtab(4, <<sym, Sym(2, 1, shndx)>>), Strtab(<<"puts", "kmod_init">>),
             Rel("REL", 3, 1, <<Entry(0, 1, t1, 5), Entry(2, 2, t2, 5)>>),
             Rel("RELA", 7, 2, <<Entry(1, 1, t2, 5), Entry(2, 2, t1, 2)>>),
             Symtab(8, <<Sym(1, 9, SHN_UNDEF), Sym(2, 2, 2)>>), Strtab(<<"getc", named>>),
             Rel("REL", 7, 10, <<Entry(0, 1, t1, 0)>>), [Prog(2, 4) EXCEPT !.alloc = FALSE],
             Rel("REL", 3, 1, <<Entry(1, 2, t1, 0)>>)>>]
Symbols == {Sym(1, 6, SHN_UNDEF), Sym(1, 6, SHN_ABS), [Sym(1, 1, 1) EXCEPT !.bind = "LOCAL"], [Sym(1, 1, 1) EXCEPT !.bind = "WEAK"],
            [Sym(1, 1, 1) EXCEPT !.hidden = TRUE], [Sym(1, 1, 1) EXCEPT !.kind = "FILE"]}
Types == {"NONE", "32", "PC32", "COPY", "16", "PC16", "8", "PC8"}
Modules == {Module(t, "PC32", Sym(1, 6, SHN_UNDEF), 1, "new") : t \in Types}
           \union {Module("32", "PC16", s, 10, n) : s \in Symbols, n \in {"puts", "verylongname"}}
Good == Module("32", "PC32", Sym(1, 6, SHN_UNDEF), 1, "new")
Damaged == {[Good EXCEPT !.sec[4].type = "PROGBITS"], [Good EXCEPT !.sec[5].type = "PROGBITS"],
            [Good EXCEPT !.sec[9].type = "PROGBITS"], [Good EXCEPT !.sec[2].size = 30],
            [Good EXCEPT !.hdr.machine = "NONE"], [Good EXCEPT !.hdr.machine = "ARM"],
            [Good EXCEPT !.hdr.type = 2], [Good EXCEPT !.hdr.type = 70], [Good EXCEPT !.hdr.magic = FALSE],
            [Good EXCEPT !.hdr.data = "MSB"], [Good EXCEPT !.hdr.version = 0], [Good EXCEPT !.hdr.class = 64]}
KernelFile == [kind |-> "ksym", hdr |-> Header(2), seg |-> <<>>,
               sec |-> <<None, Prog(3, 8), None, Symtab(4, <<Sym(1, 3, 1), Sym(2, 5, 1), Sym(3, 7, 1)>>),
                         Strtab(<<"memcpy", "puts", "getc">>)>>]

Segment(vaddr, memsz, filesz, w) ==
  [type |-> "LOAD", vaddr |-> vaddr, memsz |-> memsz, filesz |-> filesz, off |-> vaddr, w |-> w]
Program(segs) == [kind |-> "exec", hdr |-> Header(2), sec |-> <<None>>, seg |-> segs]
Programs ==
  {Program(<<Segment(8, 3, 3, FALSE), [Segment(0, 2, 2, TRUE) EXCEPT !.type = "NOTE"], Segment(v, m, f, w)>>) :
     v \in {11, 12, 14, 15}, m \in {1, 4, 7}, f \in {0, 1, 4, 6}, w \in BOOLEAN}
MCFile == Modules \union Damaged \union {KernelFile}
          \union {p \in Programs : p.seg[3].filesz <= p.seg[3].memsz}

MCKernelSyms == <<[name |-> "puts", addr |-> 50], [name |-> "getc", addr |-> 60]>>
MCCut(n) == IF n = "verylongname" THEN "verylong" ELSE n
MCLoadPages == 4..8
=============================================================================
