-------------------------------- MODULE Ext2 --------------------------------
(***************************************************************************)
(* The ext2 filesystem mounted at /disk (fs/ext2.rs).                      *)
(*                                                                         *)
(* A call runs under the system call that made it, but it is many writes:  *)
(* bitmaps, the inode table, pointer blocks and directory blocks.  A call  *)
(* is modelled as the sequence of disks its writes go through; the device  *)
(* may fail any of them, which ends the call on the disk reached so far.   *)
(*                                                                         *)
(* A data or pointer block is a sequence of PER words, a directory block a *)
(* sequence of entries whose rec fields count UNITS.  The group            *)
(* descriptors are read when the disk is mounted and never written, so     *)
(* their free counts are a constant; bitmaps are padded with ones past the *)
(* end of a group, as mkfs leaves them.                                    *)
(***************************************************************************)
EXTENDS Integers, Sequences, SequencesExt, FiniteSetsExt

CONSTANTS
    BPG, FreeCounts,     \* blocks per group; FreeCounts[g]: free_blocks_count of group g
    INODES, FIRST_INO,   \* inodes_count, superblock.first_ino
    PER,                 \* words in a block (entries_per_block)
    UNITS,               \* size of a block in directory units
    Ext2Names, SizeOf,       \* SizeOf[n]: units of an entry with that name
    Words,               \* words written to files
    Ext2Uses                 \* what programs do: make directories or not (dirs), link to
                         \*   targets that fit the inode or need a block (texts,
                         \*   longs: their first words), write at offsets; and the
                         \*   bounds on writes the device fails and on calls
                         \*   that change the disk (faults, calls)

ASSUME Ext2Assumption ==
    /\ BPG \in Nat \ {0} /\ INODES \in Nat /\ FIRST_INO \in 3 .. INODES
    /\ PER \in Nat \ {0, 1} /\ UNITS \in Nat \ {0, 1, 2}
    /\ \A n \in Ext2Names : SizeOf[n] \in 1 .. UNITS
    /\ Words \cap (0 .. BPG * Len(FreeCounts)) = {}
    /\ \A u \in Ext2Uses : u.dirs \in BOOLEAN /\ u.faults \in Nat /\ u.calls \in Nat

ROOT_INODE == 2
DIRECT_BLOCKS == 1                       \* 12 in the code
Groups == 1 .. Len(FreeCounts)
Blocks == 1 .. BPG * Len(FreeCounts)
Inodes == 1 .. INODES
JUNK == -1                               \* a word of a directory block read as data
Pointers == 0 .. DIRECT_BLOCKS + 2

NoBlocks == [p \in Pointers |-> 0]
Cells(w) == [kind |-> "words", words |-> w, ents |-> <<>>]
Dir(e)   == [kind |-> "dir", words |-> [i \in 1 .. PER |-> JUNK], ents |-> e]
ZeroBlock == Cells([i \in 1 .. PER |-> 0])
Entry(ino, n, rec) == [ino |-> ino, name |-> n, rec |-> rec]
Inode(mode, nlink, size, blocks, block) ==
    [mode |-> mode, nlink |-> nlink, size |-> size, blocks |-> blocks, block |-> block]
DotEntries(ino, parent) == <<Entry(ino, ".", 1), Entry(parent, "..", UNITS - 1)>>

VARIABLES
    ext2_use,    \* one of Ext2Uses
    disk,        \* [blk, used, inodes, itab]: blocks, the two bitmaps, the inode table
    open_files,  \* inode numbers descriptors hold
    faults,      \* writes the device failed
    calls,       \* calls that reached the disk
    clean,       \* history: no call so far that breaks the disk by itself
    want         \* history: want[ino][w]: what word w may read as, {} when never written

ext2_vars == <<ext2_use, disk, open_files, faults, calls, clean, want>>

MaxWord == Max(UNION {u.offsets : u \in Ext2Uses} \cup {0}) + 2
Unwritten == [w \in 0 .. MaxWord |-> {}]

(* An image from mkfs: a root directory and nothing else.                   *)
Ext2Init ==
    /\ ext2_use \in Ext2Uses
    /\ disk = [blk |-> [b \in Blocks |-> IF b = 1 THEN Dir(DotEntries(ROOT_INODE, ROOT_INODE)) ELSE ZeroBlock],
               used |-> {1}, inodes |-> {ROOT_INODE},
               itab |-> [i \in Inodes |-> IF i = ROOT_INODE THEN Inode("dir", 2, PER, PER, [NoBlocks EXCEPT ![0] = 1])
                                          ELSE Inode("none", 0, 0, 0, NoBlocks)]]
    /\ open_files = {}
    /\ faults = 0
    /\ calls = 0
    /\ clean = TRUE
    /\ want = [i \in Inodes |-> Unwritten]

-----------------------------------------------------------------------------
(* A call in progress: the disk, the disks after each write, the inode it  *)
(* edits in memory, and the last block allocated.  `ok' is its `?'.        *)
Begin(ino) == [d |-> disk, log |-> <<>>, ok |-> TRUE, in |-> disk.itab[ino], got |-> 0]
Fail(r) == [r EXCEPT !.ok = FALSE]
Put(r, d) == IF r.ok THEN [r EXCEPT !.d = d, !.log = Append(@, [d |-> d, torn |-> FALSE])] ELSE r
Editing(r, i) == [r EXCEPT !.in = i]

write_block(r, b, c)   == Put(r, [r.d EXCEPT !.blk[b] = c])
write_inode(r, ino, i) == Put(r, [r.d EXCEPT !.itab[ino] = i])

(* The first clear bit of the first group that had a free block when the   *)
(* disk was mounted.                                                       *)
alloc_block(r) ==
    LET FreeIn(g) == {b \in Blocks \ r.d.used : (b - 1) \div BPG = g - 1}
        groups    == {g \in Groups : FreeCounts[g] > 0 /\ FreeIn(g) # {}}
        b         == Min(FreeIn(Min(groups)))
    IN  IF ~r.ok \/ groups = {} THEN Fail(r)
        ELSE [Put(r, [r.d EXCEPT !.used = @ \cup {b}]) EXCEPT !.got = b]

free_block(r, b) ==
    IF b = 0 THEN r
    ELSE IF b \notin Blocks THEN Fail(r)
    ELSE Put(r, [r.d EXCEPT !.used = @ \ {b}])

alloc_inode(r) ==
    LET free == {i \in Inodes \ r.d.inodes : i >= FIRST_INO}
    IN  IF free = {} THEN Fail(r)
        ELSE [Put(r, [r.d EXCEPT !.inodes = @ \cup {Min(free)}]) EXCEPT !.got = Min(free)]

free_inode(r, ino) == Put(r, [r.d EXCEPT !.inodes = @ \ {ino}])

-----------------------------------------------------------------------------
(* Pointer blocks                                                          *)
(* A number that is no block of the disk cannot be read.                   *)
read_indirect(d, t, i) == IF t = 0 THEN 0 ELSE IF t \in Blocks THEN d.blk[t].words[i + 1] ELSE JUNK
read_double_indirect(d, t, i) ==
    IF t = 0 THEN 0 ELSE read_indirect(d, read_indirect(d, t, i \div PER), i % PER)
read_triple_indirect(d, t, i) ==
    IF t = 0 THEN 0
    ELSE read_double_indirect(d, read_indirect(d, t, i \div (PER * PER)), i % (PER * PER))

Single == DIRECT_BLOCKS
Double == DIRECT_BLOCKS + PER
Triple == DIRECT_BLOCKS + PER + PER * PER

resolve_block(d, in, n) ==
    CASE n < Single                 -> in.block[n]
      [] n >= Single /\ n < Double  -> read_indirect(d, in.block[DIRECT_BLOCKS], n - Single)
      [] n >= Double /\ n < Triple  -> read_double_indirect(d, in.block[DIRECT_BLOCKS + 1], n - Double)
      [] n >= Triple                -> read_triple_indirect(d, in.block[DIRECT_BLOCKS + 2], n - Triple)

write_indirect_entry(r, t, i, v) ==
    IF ~r.ok \/ t \notin Blocks THEN Fail(r) ELSE write_block(r, t, Cells([r.d.blk[t].words EXCEPT ![i + 1] = v]))

(* A new pointer block under table t: it is linked before it is zeroed, so *)
(* a failure in between leaves a table with its old content (torn).        *)
NewTable(r, t, i) ==
    LET Zeroed(l) == write_block([l EXCEPT !.log[Len(l.log)].torn = TRUE], l.got, ZeroBlock)
        Linked(a) == IF ~a.ok THEN a ELSE Zeroed(write_indirect_entry(a, t, i, a.got))
    IN  Linked(alloc_block(r))

set_double_indirect_entry(r, t, i, v) ==
    IF ~r.ok THEN r
    ELSE LET next   == read_indirect(r.d, t, i \div PER)
             New(n) == write_indirect_entry(n, n.got, i % PER, v)
         IN  IF next # 0 THEN write_indirect_entry(r, next, i % PER, v)
             ELSE New(NewTable(r, t, i \div PER))

set_triple_indirect_entry(r, t, i, v) ==
    IF ~r.ok THEN r
    ELSE LET next   == read_indirect(r.d, t, i \div (PER * PER))
             New(n) == set_double_indirect_entry(n, n.got, i % (PER * PER), v)
         IN  IF next # 0 THEN set_double_indirect_entry(r, next, i % (PER * PER), v)
             ELSE New(NewTable(r, t, i \div (PER * PER)))

(* The pointer block the inode itself names, made and zeroed when missing. *)
EnsureTable(r, p) ==
    IF r.in.block[p] # 0 THEN r
    ELSE LET a == alloc_block(r)
         IN  IF ~a.ok THEN a ELSE write_block([a EXCEPT !.in.block[p] = a.got], a.got, ZeroBlock)

SetUnder(r, p, i, b) ==
    CASE p = DIRECT_BLOCKS     -> write_indirect_entry(r, r.in.block[p], i, b)
      [] p = DIRECT_BLOCKS + 1 -> set_double_indirect_entry(r, r.in.block[p], i, b)
      [] p = DIRECT_BLOCKS + 2 -> set_triple_indirect_entry(r, r.in.block[p], i, b)

set_block_pointer(r, n, b) ==
    LET level == IF n < Double THEN 0 ELSE IF n < Triple THEN 1 ELSE 2
        first == <<Single, Double, Triple>>[level + 1]
    IN  IF ~r.ok THEN r
        ELSE IF n < Single THEN [r EXCEPT !.in.block[n] = b]
        ELSE SetUnder(EnsureTable(r, DIRECT_BLOCKS + level), DIRECT_BLOCKS + level, n - first, b)

(* Everything an inode's pointers lead to, in the order it is freed.       *)
Table1(d, t) == IF t = 0 THEN <<>> ELSE SelectSeq(d.blk[t].words, LAMBDA b : b # 0) \o <<t>>
Table2(d, t) == IF t = 0 THEN <<>> ELSE FlattenSeq([i \in 1 .. PER |-> Table1(d, d.blk[t].words[i])]) \o <<t>>
Table3(d, t) == IF t = 0 THEN <<>> ELSE FlattenSeq([i \in 1 .. PER |-> Table2(d, d.blk[t].words[i])]) \o <<t>>
OwnBlocks(d, in) ==
    SelectSeq([i \in 1 .. DIRECT_BLOCKS |-> in.block[i - 1]], LAMBDA b : b # 0)
      \o Table1(d, in.block[DIRECT_BLOCKS]) \o Table2(d, in.block[DIRECT_BLOCKS + 1])
      \o Table3(d, in.block[DIRECT_BLOCKS + 2])

free_inode_blocks(r, in) == FoldLeft(free_block, r, OwnBlocks(r.d, in))

-----------------------------------------------------------------------------
(* File data: words off+1 .. off+Len(data) of a file                       *)
read_inode_data(d, in, w) ==
    LET b == resolve_block(d, in, w \div PER)
    IN  IF b \in Blocks THEN d.blk[b].words[(w % PER) + 1] ELSE b

(* The words of a write that fall in logical block n, into block s.got:    *)
(* read unless it is wholly replaced, and written.                         *)
Overwrite(s, n, off, data) ==
    LET In(i)  == n * PER + i - 1 \in off .. off + Len(data) - 1
        whole  == \A i \in 1 .. PER : In(i)
        old(i) == IF whole THEN 0 ELSE s.d.blk[s.got].words[i]
    IN  IF ~s.ok THEN s
        ELSE write_block(s, s.got, Cells([i \in 1 .. PER |-> IF In(i) THEN data[n * PER + i - off] ELSE old(i)]))

(* The part of a write in logical block n: the block is found or made.     *)
WriteBlock(r, n, off, data) ==
    LET p == resolve_block(r.d, r.in, n)
        a == alloc_block(r)
    IN  IF ~r.ok \/ p \notin Blocks \cup {0} THEN Fail(r)
        ELSE Overwrite(IF p # 0 THEN [r EXCEPT !.got = p] ELSE [set_block_pointer(a, n, a.got) EXCEPT !.got = a.got],
                       n, off, data)

(* The inode with its new size, unless the call failed before. *)
Resize(r, ino, size) ==
    IF ~r.ok THEN r ELSE write_inode(r, ino, [r.in EXCEPT !.size = size, !.blocks = size])

write_inode_data(r, ino, off, data) ==
    LET ns == [k \in 1 .. (off + Len(data) - 1) \div PER - off \div PER + 1 |-> off \div PER + k - 1]
    IN  Resize(FoldLeft(LAMBDA x, n : WriteBlock(x, n, off, data), r, ns), ino, Max({r.in.size, off + Len(data)}))

-----------------------------------------------------------------------------
(* Directories                                                             *)
DirBlocks(d, in) == [n \in 1 .. in.size \div PER |-> resolve_block(d, in, n - 1)]
EntsOf(d, b) == IF b = 0 THEN <<>> ELSE d.blk[b].ents

read_dir_entries(d, in) ==
    SelectSeq(FlattenSeq([n \in 1 .. in.size \div PER |-> EntsOf(d, DirBlocks(d, in)[n])]), LAMBDA e : e.ino # 0)

find_entry(d, in, name) ==
    LET found == SelectSeq(read_dir_entries(d, in), LAMBDA e : e.name = name)
    IN  IF in.mode # "dir" \/ found = <<>> THEN 0 ELSE found[1].ino

(* The first of a set of places <<block index, entry index>>. *)
FirstPlace(S) == CHOOSE x \in S : \A y \in S : x[1] < y[1] \/ (x[1] = y[1] /\ x[2] <= y[2])
Places(d, in, Fits(_)) ==
    {<<n, k>> \in (1 .. in.size \div PER) \X (1 .. UNITS) :
        k <= Len(EntsOf(d, DirBlocks(d, in)[n])) /\ Fits(EntsOf(d, DirBlocks(d, in)[n])[k])}

(* Fault: an entry is as large as its record, so there is never slack to keep. *)
Insert_KeepsRecord(ents, k, ino, name) ==
    LET e == ents[k]
    IN  IF e.ino = 0 THEN [ents EXCEPT ![k] = Entry(ino, name, e.rec)]
        ELSE SubSeq(ents, 1, k - 1) \o <<Entry(ino, name, e.rec)>> \o SubSeq(ents, k + 1, Len(ents))

(* An unused record is taken whole; a used one is cut to its size and the  *)
(* new entry gets the rest.                                                *)
Insert(ents, k, ino, name) ==
    LET e == ents[k]
    IN  IF e.ino = 0 THEN [ents EXCEPT ![k] = Entry(ino, name, e.rec)]
        ELSE SubSeq(ents, 1, k - 1)
               \o <<Entry(e.ino, e.name, SizeOf[e.name]), Entry(ino, name, e.rec - SizeOf[e.name])>>
               \o SubSeq(ents, k + 1, Len(ents))

add_dir_entry(r, dir, ino, name) ==
    LET need  == SizeOf[name]
        spots == Places(r.d, r.in, LAMBDA e : IF e.ino # 0 THEN SizeOf[e.name] + need <= e.rec ELSE e.rec >= need)
        spot  == FirstPlace(spots)
        b     == DirBlocks(r.d, r.in)[spot[1]]
        a     == alloc_block(r)
        w     == write_block(a, a.got, Dir(<<Entry(ino, name, UNITS)>>))
    IN  CASE ~r.ok -> r
          [] r.ok /\ spots # {} -> write_block(r, b, Dir(Insert(r.d.blk[b].ents, spot[2], ino, name)))
          [] r.ok /\ spots = {} /\ ~a.ok -> a
          [] r.ok /\ spots = {} /\ a.ok ->
               Resize(set_block_pointer(w, r.in.size \div PER, a.got), dir, r.in.size + PER)

(* The entry's inode field is zeroed; its record joins the one before it   *)
(* when that one is unused.                                                *)
Erase(ents, k) ==
    IF k > 1 /\ ents[k - 1].ino = 0
    THEN SubSeq(ents, 1, k - 2) \o <<[ents[k - 1] EXCEPT !.rec = @ + ents[k].rec]>> \o SubSeq(ents, k + 1, Len(ents))
    ELSE [ents EXCEPT ![k].ino = 0]

remove_dir_entry_from_disk(r, in, name) ==
    LET spots == Places(r.d, in, LAMBDA e : e.ino # 0 /\ e.name = name)
        spot  == FirstPlace(spots)
        b     == DirBlocks(r.d, in)[spot[1]]
    IN  IF spots = {} THEN r ELSE write_block(r, b, Dir(Erase(r.d.blk[b].ents, spot[2])))

resolve_path(path) ==
    FoldLeft(LAMBDA i, n : IF i = 0 THEN 0 ELSE find_entry(disk, disk.itab[i], n), ROOT_INODE, path)

-----------------------------------------------------------------------------
(* A finished or failed call: the disk after some of its writes.  The      *)
(* device fails at most use.faults writes.                                  *)
Ends(r, k) ==
    /\ calls < ext2_use.calls /\ calls' = calls + 1
    /\ k = Len(r.log) \/ faults < ext2_use.faults
    /\ faults' = IF k < Len(r.log) THEN faults + 1 ELSE faults
    /\ disk' = IF k = 0 THEN disk ELSE r.log[k].d

Torn(r, k) == k \in 1 .. Len(r.log) - 1 /\ r.log[k].torn

(* The call comes to its end, or the device fails one of its writes.       *)
Completes(r) == \E k \in 0 .. Len(r.log) : Ends(r, k) /\ clean' = (clean /\ ~Torn(r, k))

(* The inodes with a name, and the directories among them: a call opens    *)
(* its parent directory by path just before.                               *)
Below(S) == UNION {{e.ino : e \in ToSet(read_dir_entries(disk, disk.itab[i]))} : i \in {j \in S : disk.itab[j].mode = "dir"}}
Live == LET One == Below({ROOT_INODE}) IN One \cup Below(One \ {ROOT_INODE}) \cup Below(Below(One \ {ROOT_INODE}) \ {ROOT_INODE})
Dirs == {i \in Live : disk.itab[i].mode = "dir"}

(* What makes a name: the inode first, its content, then the entry.        *)
NewName(parent, name) == find_entry(disk, disk.itab[parent], name) = 0

ext2_create(parent, name) ==
    LET a == alloc_inode(Begin(parent))
        r == add_dir_entry(write_inode(a, a.got, Inode("reg", 1, 0, 0, NoBlocks)), parent, a.got, name)
    IN  /\ NewName(parent, name)
        /\ IF a.ok THEN Completes(r) /\ want' = [want EXCEPT ![a.got] = Unwritten]
           ELSE UNCHANGED <<disk, faults, calls, want, clean>>
        /\ UNCHANGED open_files

(* A short target is the inode's pointer words; a long one is written like *)
(* file data.                                                              *)
symlink(parent, name, word, fast) ==
    LET a    == alloc_inode(Begin(parent))
        dir  == a.in
        in   == IF fast THEN Inode("link", 1, 1, 0, [NoBlocks EXCEPT ![0] = word])
                ELSE Inode("link", 1, 0, 0, NoBlocks)
        w    == write_inode(a, a.got, in)
        data == IF fast THEN w ELSE write_inode_data(Editing(w, in), a.got, 0, <<word>>)
        r    == add_dir_entry(Editing(data, dir), parent, a.got, name)
    IN  /\ NewName(parent, name)
        /\ IF a.ok THEN Completes(r) /\ want' = [want EXCEPT ![a.got] = [Unwritten EXCEPT ![0] = {word}]]
           ELSE UNCHANGED <<disk, faults, calls, want, clean>>
        /\ UNCHANGED open_files

mkdir(parent, name) ==
    LET a  == alloc_inode(Begin(parent))
        b  == alloc_block(a)
        n  == write_inode(b, a.got, Inode("dir", 2, PER, PER, [NoBlocks EXCEPT ![0] = b.got]))
        w  == write_block(n, b.got, Dir(DotEntries(a.got, parent)))
        up == [a.in EXCEPT !.nlink = @ + 1]
        r  == IF b.ok THEN add_dir_entry(Editing(write_inode(w, parent, up), up), parent, a.got, name) ELSE b
    IN  /\ NewName(parent, name)
        /\ IF a.ok THEN Completes(r) ELSE UNCHANGED <<disk, faults, calls, clean>>
        /\ UNCHANGED <<open_files, want>>

(* Fault: the blocks and the inode are freed before the entry goes.        *)
RemoveName_FreesFirst(r, parent, name, target) ==
    LET Named(f) == IF f.ok THEN remove_dir_entry_from_disk(f, f.d.itab[parent], name) ELSE f
    IN  Named(free_inode(free_inode_blocks(r, r.d.itab[target]), target))

(* The entry goes first, then the blocks, then the inode.                  *)
RemoveName(r, parent, name, target) ==
    LET Emptied(e) == free_inode_blocks(e, e.d.itab[target])
        Freed(f)   == IF f.ok THEN free_inode(f, target) ELSE f
    IN  Freed(Emptied(remove_dir_entry_from_disk(r, r.in, name)))

(* unlink looks neither at the kind of the target nor at its link count: a *)
(* short link's text is freed as if it were block numbers.                 *)
unlink(parent, name) ==
    LET target == find_entry(disk, disk.itab[parent], name)
        r      == RemoveName(Begin(parent), parent, name, target)
        in     == disk.itab[target]
    IN  /\ target # 0
        /\ \E k \in 0 .. Len(r.log) : Ends(r, k)
        /\ clean' = (clean /\ ~(in.mode = "link" /\ in.blocks = 0 /\ in.block[0] \in Blocks))
        /\ UNCHANGED <<open_files, want>>

rmdir(parent, name) ==
    LET target == find_entry(disk, disk.itab[parent], name)
        in     == disk.itab[target]
        Up(f)  == IF f.ok THEN write_inode(f, parent, [f.d.itab[parent] EXCEPT !.nlink = IF @ = 0 THEN 0 ELSE @ - 1]) ELSE f
        r      == Up(RemoveName(Begin(parent), parent, name, target))
    IN  /\ target # 0 /\ in.mode = "dir"
        /\ \A k \in 1 .. Len(read_dir_entries(disk, in)) : read_dir_entries(disk, in)[k].name \in {".", ".."}
        /\ \E k \in 0 .. Len(r.log) : Ends(r, k)
        /\ UNCHANGED <<open_files, clean, want>>

open(path) ==
    /\ resolve_path(path) # 0
    /\ open_files' = open_files \cup {resolve_path(path)}
    /\ UNCHANGED <<disk, faults, calls, clean, want>>

close(ino) ==
    /\ open_files' = open_files \ {ino}
    /\ UNCHANGED <<disk, faults, calls, clean, want>>

(* A descriptor keeps the inode number: writing to an unlinked file writes *)
(* into blocks that may be somebody else's by now.                         *)
Written(r, ino, off, data) ==
    LET In(w) == w \in off .. off + Len(data) - 1
    IN  \E k \in 0 .. Len(r.log) :
              /\ Ends(r, k)
              /\ want' = [want EXCEPT ![ino] = [w \in DOMAIN @ |->
                             CASE ~In(w) -> @[w]
                               [] In(w) /\ r.ok /\ k = Len(r.log) -> {data[w - off + 1]}
                               [] In(w) /\ ~(r.ok /\ k = Len(r.log)) -> IF @[w] = {} THEN {} ELSE @[w] \cup {data[w - off + 1]}]]
              /\ clean' = (clean /\ ~Torn(r, k) /\ ino \in Live)

write(ino, off, data) ==
    /\ ino \in open_files /\ disk.itab[ino].mode = "reg"
    /\ Written(write_inode_data(Begin(ino), ino, off, data), ino, off, data)
    /\ UNCHANGED open_files

(* The mode's permission bits are abstracted: the inode is written back.   *)
chmod(ino) ==
    LET r == write_inode(Begin(ino), ino, disk.itab[ino])
    IN  /\ ino \in Inodes
        /\ \E k \in 0 .. Len(r.log) : Ends(r, k)
        /\ UNCHANGED <<open_files, clean, want>>

Paths == {<<n>> : n \in Ext2Names} \cup {<<n, m>> : n \in Ext2Names, m \in Ext2Names}

Ext2Next ==
    /\ \/ \E p \in Dirs, n \in Ext2Names : ext2_create(p, n) \/ unlink(p, n)
       \/ ext2_use.dirs /\ \E p \in Dirs, n \in Ext2Names : mkdir(p, n) \/ rmdir(p, n)
       \/ \E p \in Dirs, n \in Ext2Names, t \in ext2_use.texts : symlink(p, n, t, TRUE)
       \/ \E p \in Dirs, n \in Ext2Names, t \in ext2_use.longs : symlink(p, n, t, FALSE)
       \/ ext2_use.offsets # {} /\ \E path \in Paths : open(path)
       \/ \E i \in open_files : close(i) \/ chmod(i)
       \/ \E i \in open_files, o \in ext2_use.offsets, v \in Words : write(i, o, <<v>>) \/ write(i, o, <<v, v>>)
    /\ UNCHANGED ext2_use

Ext2Spec == Ext2Init /\ [][Ext2Next]_ext2_vars

-----------------------------------------------------------------------------
OwnedBy(i) == LET in == disk.itab[i] IN IF in.mode = "link" /\ in.blocks = 0 THEN <<>> ELSE OwnBlocks(disk, in)
WellFormed(ents) == /\ FoldLeft(LAMBDA n, e : n + e.rec, 0, ents) = UNITS
                    /\ \A k \in 1 .. Len(ents) : ents[k].ino # 0 => SizeOf[ents[k].name] <= ents[k].rec

(* Whatever write of whatever call the device fails, the tree under the    *)
(* root stays usable: every name leads to an allocated inode, every block  *)
(* such an inode reaches is marked used and reached once, by one inode,    *)
(* and the records of a directory block fill it.  Not so after three       *)
(* things the code allows: unlink of a short link whose text reads as a    *)
(* block number, a write to an unlinked file, and a failure between the    *)
(* linking and the zeroing of a pointer block (fs/ext2.rs, unlink, write,  *)
(* set_double_indirect_entry).                                             *)
DiskSound ==
    clean =>
      /\ Live \subseteq disk.inodes
      /\ \A i \in Live :
            /\ ToSet(OwnedBy(i)) \subseteq disk.used /\ IsInjective(OwnedBy(i))
            /\ disk.itab[i].mode = "dir" => \A b \in ToSet(DirBlocks(disk, disk.itab[i])) :
                                              b \in Blocks /\ WellFormed(disk.blk[b].ents)
            /\ \A j \in Live \ {i} : ToSet(OwnedBy(i)) \cap ToSet(OwnedBy(j)) = {}

(* A word of a named file or link reads as it was last written, whatever   *)
(* else was created, removed or written in between, through however many   *)
(* pointer blocks it is found; a write the device failed half way leaves   *)
(* the old word or the new one (read_inode_data, readlink).                *)
ReadsBack ==
    clean =>
      \A i \in Live : \A w \in 0 .. MaxWord :
         LET in == disk.itab[i]
         IN  in.mode \in {"reg", "link"} /\ want[i][w] # {} =>
               /\ w < in.size
               /\ (IF in.mode = "link" /\ in.blocks = 0 THEN in.block[0] ELSE read_inode_data(disk, in, w)) \in want[i][w]

(* The disk at any time: its structures hold and files keep their words.   *)
Ext2Sound == DiskSound /\ ReadsBack

Found(d, i, n) == find_entry(d, d.itab[i], n)

(* One call changes what at most one name of the surviving directories     *)
(* leads to, and never what another entry of the same block leads to       *)
(* (add_dir_entry, remove_dir_entry_from_disk).                            *)
OneNameChanges ==
    [][clean' /\ disk' # disk =>
         Cardinality({x \in (Dirs \cap Dirs') \X Ext2Names : Found(disk, x[1], x[2]) # Found(disk', x[1], x[2])}) <= 1]_ext2_vars
=============================================================================
