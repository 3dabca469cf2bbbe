---------------------------- MODULE MCPrograms ------------------------------
(* The programs outside the kernel and what it offers them: the call interface, *)
(* calls on a task's attributes and vectors, the ext2 driver, the loader, the   *)
(* shell, the drivers and the tools, side by side: a behaviour is of one of     *)
(* them.                                                                        *)
EXTENDS Ext2, Abi, TaskCalls, Loader, Shell, Drivers, NetTools, Tools
VARIABLE program_part

(* ------------------------------------------------------------------ Ext2 *)
(* A small disk.  Directories and links, and files whose words take two or   *)
(* three blocks each; nothing is claimed of a disk that is no longer clean.  *)
Tree == [dirs |-> TRUE, texts |-> {2}, longs |-> {40}, offsets |-> {}, faults |-> 1, calls |-> 5]
Data == [dirs |-> FALSE, texts |-> {}, longs |-> {}, offsets |-> {1, 6, 14}, faults |-> 1, calls |-> 5]
MCExt2Uses == {Tree, Data}
MCFreeCounts == <<2, 3>>
MCSizeOf == "." :> 1 @@ ".." :> 1 @@ "a" :> 1 @@ "b" :> 2
Clean == clean

(* ------------------------------------------------------------- TaskCalls *)
IoVec(a, n) == [addr |-> a, len |-> n]
MCIoVecs == {<<IoVec("ok", 1), IoVec("ok", 2)>>, <<IoVec("ok", 2), IoVec("bad", 1)>>, <<IoVec("bad", 1)>>,
             <<IoVec("ok", 0), IoVec("ok", 1), IoVec("bad", 2)>>, <<IoVec("ok", 3), IoVec("ok", 1)>>}
MCFileData == <<11, 12, 13, 14, 15>>

(* ---------------------------------------------------------------- Loader *)
Seg(vaddr, off, filesz, memsz) ==
    [type |-> "LOAD", vaddr |-> vaddr, offset |-> off, filesz |-> filesz, memsz |-> memsz]
Rel(kind, at, addend) == [kind |-> kind, at |-> at, addend |-> addend]
ElfFile(ph, rela) ==
    [header |-> TRUE, ph |-> ph, data |-> <<1, 2, 3, 4>>, rela |-> rela, dynamic |-> rela # <<>>,
     needed |-> IF rela = <<>> THEN <<>> ELSE <<"libc", "libm">>]
TextOnly == ElfFile(<<Seg(0, 0, 2, 3)>>, <<>>)
Unaligned == ElfFile(<<Seg(0, 0, 1, 1), [Seg(0, 0, 0, 0) EXCEPT !.type = "DYNAMIC"], Seg(3, 1, 3, 4)>>,
                     <<Rel("RELATIVE", 6, 7), Rel("GLOB_DAT", 5, 8), Rel("NONE", 4, 8)>>)
Overlapping == ElfFile(<<Seg(0, 0, 2, 2), Seg(1, 2, 2, 2)>>, <<>>)
ShortFile == ElfFile(<<Seg(2, 2, 3, 3)>>, <<>>)
MCElfs == {TextOnly, Unaligned, Overlapping, ShortFile, [TextOnly EXCEPT !.header = FALSE]}
RamEntry(elf, inside) == [name |-> "m", elf |-> elf, inside |-> inside]
MCRamdisks == {<<RamEntry(ShortFile, FALSE), RamEntry(Unaligned, TRUE), RamEntry(TextOnly, TRUE)>>}

(* ----------------------------------------------------------------- Shell *)
MCShLines == {<<<<"cd", "d">>>>, <<<<"cd", "-">>>>, <<<<"cd">>>>, <<<<"export", "X", "d">>>>, <<<<"cd", "$X">>>>,
    <<<<"unset", "X">>>>, <<<<"prog", "2>", "g", ">", "f", "2>&1">>>>,
    <<<<"prog", ">", "f">>, <<"prog">>, <<"echo", "w">>>>, <<<<"echo", "w", "2>", "g">>>>,
    <<<<"alias", "up", "cd", "-">>>>, <<<<"up">>>>, <<<<"unalias", "up">>>>, <<<<"source", "s">>>>,
    <<<<"cp", "f", "h">>>>, <<<<"rm", "f">>>>, <<<<"run", "prog">>>>}
MCScripts == [s |-> <<<<<<"touch", "f">>>>, <<<<"cd", "d">>>>, <<<<"mkdir", "e">>>>, <<<<"rmdir", "e">>>>,
                      <<<<"stat", "f">>>>, <<<<"ls">>>>, <<<<"true">>>>, <<<<"false">>>>>>]

(* --------------------------------------------------------------- Drivers *)
PciDevice(id, bar) == [id |-> id, bar |-> bar, irq |-> 11]
PciSlot(multi, fs) == [multi |-> multi, functions |-> fs]
MCBuses ==
    LET net(b) == PciSlot(FALSE, <<PciDevice("net", b), Absent>>)
        blk == PciSlot(FALSE, <<PciDevice("blk", "b0"), Absent>>)
        none == PciSlot(FALSE, <<Absent, Absent>>)
        both == PciSlot(TRUE, <<PciDevice("blk", "b1"), PciDevice("net", "b2")>>)
    IN {<<none, blk, net("b3"), net("b4")>>, <<blk, blk, blk, net("b3")>>, <<both, net("b3")>>,
        <<none>>, <<net("b5"), blk>>}

(* ----------------------------------------------------- NetTools and Tools *)
MCNcTyped == <<1, 2, 3>>
MCSent == <<4, -1, 5>>
MCPackNames == {<<1>>, <<1, 2>>, <<1, 2, 3>>}
MCOldFile == [i \in 1..11 |-> 9]
Contents == {<<>>, <<5>>, <<5, 0>>, <<5, 6, 7>>, <<5, 6, 7, 8>>}
MCPackLists == UNION {[1..n -> MCPackNames \X Contents] : n \in 0..2}
MCTokenLists == UNION {[1..n -> {"a", "b", "c"}] : n \in 0..6}
MCLineLists == UNION {[1..n -> {11, 12, 21}] : n \in 0..3}
MCTextInputs == UNION {[1..n -> {0, 77, 127}] : n \in 0..4}

program_vars == <<program_part, ext2_vars, abi_vars, tc_vars, loader_vars, shell_vars, drv_vars, nt_vars, tl_vars>>
ProgramParts == {"ext2", "abi", "calls", "loader", "shell", "drivers", "net", "tools"}
Of(part, all, one) == IF program_part = part THEN all ELSE {one}
InitOf(parts) ==
    /\ program_part \in parts
    /\ ext2_use \in Of("ext2", Ext2Uses, Data)
    /\ tc_use \in Of("calls", {"attributes", "sockets", "vector"}, "attributes")
    /\ foreign \in Of("loader", ForeignFrames, {})
    /\ sh_use \in Of("shell", {"edit", "lines"}, "edit")
    /\ drv_use \in Of("drivers", {"manager", "send", "receive", "msi"}, "send")
    /\ nt_use \in Of("net", DOMAIN Steps, "client")
    /\ tl_use \in Of("tools", {"tar", "tsort", "filter"}, "filter")
    /\ Ext2Init /\ AbiInit /\ TcInit /\ LoaderInit /\ ShellInit /\ DrvInit /\ NtInit /\ TlInit
Next ==
    /\ UNCHANGED program_part
    /\ \/ program_part = "ext2" /\ Ext2Next
          /\ UNCHANGED <<abi_vars, tc_vars, loader_vars, shell_vars, drv_vars, nt_vars, tl_vars>>
       \/ program_part = "abi" /\ AbiNext
          /\ UNCHANGED <<ext2_vars, tc_vars, loader_vars, shell_vars, drv_vars, nt_vars, tl_vars>>
       \/ program_part = "calls" /\ TcNext
          /\ UNCHANGED <<ext2_vars, abi_vars, loader_vars, shell_vars, drv_vars, nt_vars, tl_vars>>
       \/ program_part = "loader" /\ LoaderNext
          /\ UNCHANGED <<ext2_vars, abi_vars, tc_vars, shell_vars, drv_vars, nt_vars, tl_vars>>
       \/ program_part = "shell" /\ ShellNext
          /\ UNCHANGED <<ext2_vars, abi_vars, tc_vars, loader_vars, drv_vars, nt_vars, tl_vars>>
       \/ program_part = "drivers" /\ DrvNext
          /\ UNCHANGED <<ext2_vars, abi_vars, tc_vars, loader_vars, shell_vars, nt_vars, tl_vars>>
       \/ program_part = "net" /\ NtStep
          /\ UNCHANGED <<ext2_vars, abi_vars, tc_vars, loader_vars, shell_vars, drv_vars, tl_vars>>
       \/ program_part = "tools" /\ TlNext
          /\ UNCHANGED <<ext2_vars, abi_vars, tc_vars, loader_vars, shell_vars, drv_vars, nt_vars>>
\* A network program runs on as long as it is scheduled.
Spec == InitOf(ProgramParts) /\ [][Next]_program_vars
        /\ WF_program_vars(program_part = "net" /\ Next)
AbiSpec == InitOf({"abi"}) /\ [][Next]_program_vars
LoaderSpec == InitOf({"loader"}) /\ [][Next]_program_vars
=============================================================================
