------------------------------- MODULE Loader -------------------------------
(* From a file to a program in memory: the initial ramdisk finds it by name,  *)
(* load_elf maps and fills its pages, the module registry keeps what was       *)
(* loaded by name, and ld.so applies the relocations of a dynamic program.     *)
(* Physical memory is one array of bytes, so that a copy that is too long for  *)
(* its page lands in the frame behind it.  Page tables below the top level     *)
(* take no frame here.                                                        *)
EXTENDS Integers, Sequences, FiniteSets, FiniteSetsExt, SequencesExt, TLC

CONSTANTS
    ModuleNames,    \* the names modules are loaded under
    Elfs,           \* the files: [header, ph, data, rela, needed]
    PageBytes,      \* bytes of a page
    FrameCount,     \* frames of physical memory, 0..FrameCount-1
    StackPage, StackPages,  \* where the stack is mapped
    MAX_MODULES,
    ForeignFrames,  \* the sets of frames that other programs may hold at the start
    Ramdisks,       \* the initial ramdisks: sequences of [name, elf, inside]
    MAX_NEEDED      \* how many libraries ld.so keeps

VARIABLES
    ld_mem,         \* physical memory: address -> byte
    ld_used,        \* the frames that are taken
    registry,       \* name -> the module: its table, pages, entry and file
    programs,       \* the programs started from the ramdisk, in order
    foreign,        \* the frames of others
    ramdisk,
    ld_space        \* ld.so: what it wrote at which address, and what it runs

loader_vars == <<ld_mem, ld_used, registry, programs, foreign, ramdisk, ld_space>>

Junk == 9           \* what unused memory and the frames of others hold
Addresses == 0..(FrameCount * PageBytes - 1)
LoaderInit ==
    /\ ld_mem = [a \in Addresses |-> Junk]
    /\ foreign \in ForeignFrames /\ ld_used = foreign /\ ramdisk \in Ramdisks
    /\ registry = <<>> /\ programs = <<>> /\ ld_space = <<>>

(* -------------------------------------------------------------- load_elf *)
parse_header(elf) == elf.header
Loads(elf) == SelectSeq(elf.ph, LAMBDA ph : ph.type = "LOAD")
StartPage(ph) == ph.vaddr \div PageBytes
EndPage(ph) == (ph.vaddr + ph.memsz + PageBytes - 1) \div PageBytes
SegmentOverlap(elf) ==
    LET ranges == SelectSeq(Loads(elf), LAMBDA ph : EndPage(ph) > StartPage(ph)) IN
    \E i, j \in DOMAIN ranges : i < j /\ StartPage(ranges[j]) < EndPage(ranges[i])
                                     /\ EndPage(ranges[j]) > StartPage(ranges[i])

\* alloc_frame: the lowest free frame.
FreeFrames(s) == {f \in 0..(FrameCount - 1) : f \notin s.used}
Zeroed(mem, f) == [a \in Addresses |-> IF a \div PageBytes = f THEN 0 ELSE mem[a]]
\* copy_nonoverlapping knows no page: it writes Len(src) bytes from address at on.
Copied(mem, at, src) ==
    [a \in Addresses |-> IF a \in at..(at + Len(src) - 1) THEN src[a - at + 1] ELSE mem[a]]
Smaller(a, b) == IF a < b THEN a ELSE b
\* The bytes of the file that load_elf copies for one page: none when they would
\* run past the end of the file.
PageBytesOf(elf, ph, page) ==
    LET from == IF page * PageBytes < ph.vaddr THEN 0 ELSE page * PageBytes - ph.vaddr
        to == Smaller(from + PageBytes, ph.filesz)
    IN IF from >= ph.filesz \/ ph.offset + to > Len(elf.data) THEN <<>>
       ELSE SubSeq(elf.data, ph.offset + from + 1, ph.offset + to)
\* One page: a frame is taken, zeroed, filled and mapped.  Fault: it is not zeroed.
LoadPage_NotZeroed(elf, ph, s, page) ==
    IF s.failed \/ FreeFrames(s) = {} THEN [s EXCEPT !.failed = TRUE]
    ELSE LET f == Min(FreeFrames(s))
             at == f * PageBytes + (IF page = StartPage(ph) THEN ph.vaddr % PageBytes ELSE 0)
         IN [s EXCEPT !.used = @ \cup {f}, !.pages = (page :> f) @@ @,
                      !.mem = Copied(s.mem, at, PageBytesOf(elf, ph, page))]
LoadPage(elf, ph, s, page) ==
    IF s.failed \/ FreeFrames(s) = {} THEN [s EXCEPT !.failed = TRUE]
    ELSE LET f == Min(FreeFrames(s))
             at == f * PageBytes + (IF page = StartPage(ph) THEN ph.vaddr % PageBytes ELSE 0)
         IN [s EXCEPT !.used = @ \cup {f}, !.pages = (page :> f) @@ @,
                      !.mem = Copied(Zeroed(s.mem, f), at, PageBytesOf(elf, ph, page))]
LoadSegment(elf, s, ph) ==
    FoldLeft(LAMBDA t, page : LoadPage(elf, ph, t, page), s,
             [i \in 1..(EndPage(ph) - StartPage(ph)) |-> StartPage(ph) + i - 1])
NoFile == [vaddr |-> 0, memsz |-> 0, filesz |-> 0, offset |-> 0]
\* R_X86_64_RELATIVE stores the addend through the new page table, other kinds
\* are reported and passed over; the program is loaded at the addresses it names.
RelocateStep(s, r) ==
    IF r.kind # "RELATIVE" \/ r.at \div PageBytes \notin DOMAIN s.pages THEN s
    ELSE [s EXCEPT !.mem[s.pages[r.at \div PageBytes] * PageBytes + (r.at % PageBytes)] = r.addend]
load_elf(elf, s) ==
    IF SegmentOverlap(elf) THEN [s EXCEPT !.failed = TRUE]
    ELSE LET segments == FoldLeft(LAMBDA t, ph : LoadSegment(elf, t, ph), s, Loads(elf))
             whole == FoldLeft(LAMBDA t, i : LoadPage(elf, NoFile, t, StackPage + i - 1), segments,
                               [i \in 1..StackPages |-> i])
         IN IF whole.failed THEN whole ELSE FoldLeft(RelocateStep, whole, elf.rela)

\* create_user_page_table takes a frame for the table; nothing gives it back when
\* the load fails later.
Table(s) == Min(FreeFrames(s))
State == [mem |-> ld_mem, used |-> ld_used, pages |-> <<>>, failed |-> FALSE]
WithTable == [State EXCEPT !.used = @ \cup {Table(State)}]
Image(elf, s) == [table |-> Table(State), pages |-> s.pages, elf |-> elf]

(* ------------------------------------------------------------ the modules *)
Full == Cardinality(DOMAIN registry) >= MAX_MODULES
\* The registry is asked only after the load: frames of a refused module are lost.
module_load(name, elf) ==
    /\ parse_header(elf) /\ FreeFrames(State) # {}
    /\ LET s == load_elf(elf, WithTable)
       IN /\ ld_mem' = s.mem /\ ld_used' = s.used
          /\ registry' = IF s.failed \/ Full \/ name \in DOMAIN registry THEN registry
                         ELSE (name :> Image(elf, s)) @@ registry
    /\ UNCHANGED <<programs, foreign, ramdisk, ld_space>>
\* Nothing of the module's memory is given back.
module_unload(name) ==
    /\ name \in DOMAIN registry
    /\ registry' = [n \in DOMAIN registry \ {name} |-> registry[n]]
    /\ UNCHANGED <<ld_mem, ld_used, programs, foreign, ramdisk, ld_space>>

(* ------------------------------------------------------------ the ramdisk *)
\* The first entry of that name whose bytes are inside the disk; an entry that
\* cannot be read is passed over.
find_file(name) == SelectInSeq(ramdisk, LAMBDA e : e.inside /\ e.name = name)
launch_from_initrd(name) ==
    /\ find_file(name) # 0 /\ FreeFrames(State) # {}
    /\ LET elf == ramdisk[find_file(name)].elf
           s == load_elf(elf, WithTable)
       IN /\ parse_header(elf)
          /\ ld_mem' = s.mem /\ ld_used' = s.used
          /\ programs' = IF s.failed THEN programs ELSE Append(programs, Image(elf, s))
    /\ UNCHANGED <<registry, foreign, ramdisk, ld_space>>

(* ------------------------------------------------------------------ ld.so *)
\* The least address of a loadable segment, and what each relocation stores.
LoadBase(elf) == IF Loads(elf) = <<>> THEN 0 ELSE Min({Loads(elf)[i].vaddr : i \in DOMAIN Loads(elf)})
Stored(elf, r) == IF r.kind = "RELATIVE" THEN LoadBase(elf) + r.addend ELSE r.addend
Linked(elf) == SelectSeq(elf.rela, LAMBDA r : r.kind \in {"RELATIVE", "GLOB_DAT", "JUMP_SLOT"})
ld_start(elf) ==
    /\ ld_space = <<>> /\ parse_header(elf)
    /\ ld_space' = [words |-> FoldLeft(LAMBDA w, r : (r.at :> Stored(elf, r)) @@ w, <<>>,
                                       IF elf.dynamic THEN Linked(elf) ELSE <<>>),
                    needed |-> SubSeq(elf.needed, 1, Smaller(Len(elf.needed), MAX_NEEDED)),
                    elf |-> elf]
    /\ UNCHANGED <<ld_mem, ld_used, registry, programs, foreign, ramdisk>>

LoaderNext ==
    \/ \E name \in ModuleNames, elf \in Elfs : module_load(name, elf)
    \/ \E name \in ModuleNames : module_unload(name) \/ launch_from_initrd(name)
    \/ \E elf \in Elfs : ld_start(elf)

(* ------------------------------------------------------------ properties *)
ByteAt(image, v) == ld_mem[image.pages[v \div PageBytes] * PageBytes + (v % PageBytes)]
Relocated(elf, v) == \E i \in DOMAIN elf.rela : elf.rela[i].kind = "RELATIVE" /\ elf.rela[i].at = v
Inside(elf, ph) == ph.offset + ph.filesz <= Len(elf.data)
\* Every program and module that is loaded holds its file at the addresses the
\* file names and zeroes behind it, also after later loads that failed half way;
\* no frame serves two of them; and the registry keeps within its bound.
LoadedAsLinked ==
    LET images == {registry[n] : n \in DOMAIN registry} \cup {programs[i] : i \in DOMAIN programs}
        Frames(m) == {m.table} \cup {m.pages[p] : p \in DOMAIN m.pages}
    IN /\ Cardinality(DOMAIN registry) <= MAX_MODULES
       /\ \A m \in images : \A k \in DOMAIN Loads(m.elf) :
            LET ph == Loads(m.elf)[k] IN
            Inside(m.elf, ph) => \A v \in ph.vaddr..(ph.vaddr + ph.memsz - 1) :
                ~Relocated(m.elf, v) =>
                    ByteAt(m, v) = IF v - ph.vaddr < ph.filesz THEN m.elf.data[ph.offset + v - ph.vaddr + 1] ELSE 0
       /\ \A m, n \in images : m # n => Frames(m) \cap Frames(n) = {}
       /\ \A m \in images : Frames(m) \cap foreign = {}

\* Filling a page writes into the frame that was taken for it and no other: "page_
\* internal_offset + copy_len does not exceed 4096" (elf.rs:445).
CopyStaysInFrame == \A a \in Addresses : a \div PageBytes \in foreign => ld_mem[a] = Junk
=============================================================================
