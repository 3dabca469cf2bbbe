---------------------------- MODULE AddressSpace ----------------------------
(***************************************************************************)
(* Physical frames, page tables and the calls that change them:            *)
(* frame_alloc.rs, memory/ (pagetable, vma, allocator, dma), task/user.rs  *)
(* and the memory and process_start calls of syscall/mod.rs.               *)
(*                                                                         *)
(* The four levels of the x86-64 tables are two here, a P4 and a leaf      *)
(* table: the code treats the levels below the P4 alike.  A virtual page   *)
(* is a number; page v is entry v % Slots of the leaf table that P4 entry  *)
(* v \div Slots leads to.  The last P4 entry is the kernel's, filled by    *)
(* the boot loader from memory the frame allocator does not manage.        *)
(*                                                                         *)
(* One processor; a call runs to its end with CR3 as it found it, except   *)
(* that process_start leaves the new task's table in CR3: the value it     *)
(* "restores" is read after the switch.                                    *)
(***************************************************************************)
EXTENDS Integers, Sequences, FiniteSets, SequencesExt, FiniteSetsExt

CONSTANTS
    Procs, first,     \* processes; the one main.rs launches
    NumFrames,        \* frames of the bitmap
    Slots,            \* entries of a leaf table
    UserRoots,        \* P4 entries of the lower half: 0 .. UserRoots - 1
    Image, Big,       \* virtual pages the program of a process needs; of a larger program
    MaxPages,         \* bound: pages in a call
    MAX_HEAP,         \* pages the kernel heap may grow to
    AsUses              \* sets of calls programs make together

ASSUME AddressSpaceAssumption ==
    /\ first \in Procs /\ NumFrames \in Nat \ {0} /\ Slots \in Nat \ {0} /\ UserRoots \in Nat \ {0}
    /\ Image \subseteq 0 .. Slots * UserRoots - 1 /\ Big \subseteq 0 .. Slots * UserRoots - 1
    /\ MaxPages \in Nat \ {0} /\ MAX_HEAP \in 0 .. Slots

Frames == 1 .. NumFrames
KernelTable == NumFrames + 1        \* a leaf table outside the bitmap
Device == NumFrames + 2             \* a frame of a device
Pages == 0 .. Slots * UserRoots - 1
KernelRoot == UserRoots
Nowhere == 0
Absent == [to |-> Nowhere, write |-> FALSE]
NoTable == [s \in 0 .. Slots - 1 |-> Absent]
BootP4 == [r \in 0 .. UserRoots |-> IF r = KernelRoot THEN KernelTable ELSE Nowhere]

VARIABLES
    as_use,          \* one of Uses
    ram,          \* [bitmap, p4, leaf]: frames in use, and what P4s and leaf tables hold
    cr3,          \* the P4 in use
    cur,          \* the current task
    page_table,   \* page_table[p]: its P4 or None
    state,        \* state[p]: "new", "ready" or "gone"
    vma_list,     \* vma_list[p]: sequence of regions
    brk,          \* brk[p]: a page number, None before the first call
    heap,         \* pages the kernel heap has grown by
    dma,          \* DMA buffers: [at, n]
    panicked,
    loose,        \* history: pages a call mapped and made no region for
    ragged        \* history: a range was unmapped that is not one region

as_vars == <<as_use, ram, cr3, cur, page_table, state, vma_list, brk, heap, dma, panicked, loose, ragged>>
history == <<loose, ragged>>

-----------------------------------------------------------------------------
(* A computation on ram: `ok' is its `?', `panic' a failed expect.         *)
AsCompute(m) == [ram |-> m, ok |-> TRUE, panic |-> FALSE, got |-> Nowhere]
Fails(c) == [c EXCEPT !.ok = FALSE]

alloc_frame(c) ==
    LET free == Frames \ c.ram.bitmap
    IN  IF ~c.ok \/ free = {} THEN Fails(c)
        ELSE [c EXCEPT !.ram.bitmap = @ \cup {Min(free)}, !.got = Min(free)]

(* Addresses outside the region are ignored; a clear bit is an assertion.  *)
free_frame(c, f) ==
    IF f \notin Frames THEN c
    ELSE [c EXCEPT !.ram.bitmap = @ \ {f}, !.panic = @ \/ f \notin c.ram.bitmap]

LeafOf(m, root, v) == IF root = Nowhere THEN Nowhere ELSE m.p4[root][v \div Slots]
EntryOf(m, root, v) == IF LeafOf(m, root, v) = Nowhere THEN Absent ELSE m.leaf[LeafOf(m, root, v)][v % Slots]
translate(m, root, v) == EntryOf(m, root, v).to # Nowhere

SetEntry(c, root, v, e) == [c EXCEPT !.ram.leaf[LeafOf(c.ram, root, v)][v % Slots] = e]

(* A missing leaf table is allocated, cleared and linked. *)
WithLeaf(c, root, v) ==
    LET a == alloc_frame(c)
    IN  IF LeafOf(c.ram, root, v) # Nowhere \/ ~a.ok THEN (IF LeafOf(c.ram, root, v) # Nowhere THEN c ELSE a)
        ELSE [a EXCEPT !.ram.leaf[a.got] = NoTable, !.ram.p4[root][v \div Slots] = a.got]

(* task/user.rs: out of frames is a panic, and what was mapped is replaced.*)
map_page_user(c, root, v, e) ==
    LET w == WithLeaf(c, root, v)
    IN  IF ~c.ok THEN c ELSE IF ~w.ok THEN [w EXCEPT !.panic = TRUE] ELSE SetEntry(w, root, v, e)

(* memory/pagetable.rs: both are errors. *)
map_page(c, root, v, e) ==
    LET w == WithLeaf(c, root, v)
    IN  IF ~c.ok \/ ~w.ok \/ translate(w.ram, root, v) THEN Fails(w) ELSE SetEntry(w, root, v, e)

(* Fault: the last page of the range is not looked at. *)
find_free_range_OneShort(m, root, hint, n) ==
    LET runs == {v \in hint .. Max(Pages) : v + n - 1 \in Pages /\ \A k \in v .. v + n - 2 : ~translate(m, root, k)}
    IN  IF runs = {} THEN -1 ELSE Min(runs)

find_free_range(m, root, hint, n) ==
    LET runs == {v \in hint .. Max(Pages) : v + n - 1 \in Pages /\ \A k \in v .. v + n - 1 : ~translate(m, root, k)}
    IN  IF runs = {} THEN -1 ELSE Min(runs)

(* From the top of user space down; one table's worth of pages a step.     *)
find_free_virt_range(m, n) ==
    LET runs == {v \in Pages : /\ v > 0 /\ (Slots * UserRoots - n - v) % Slots = 0 /\ v + n - 1 \in Pages
                               /\ \A k \in v .. v + n - 1 : ~translate(m, cr3, k)}
    IN  IF runs = {} THEN -1 ELSE Max(runs)

-----------------------------------------------------------------------------
(* create_user_page_table: every entry of the P4 in use is copied.         *)
create_user_page_table(c) ==
    LET a == alloc_frame(c)
    IN  IF a.ok THEN [a EXCEPT !.ram.p4[a.got] = c.ram.p4[cr3]] ELSE a

(* What the loops of the calls below do with one page.                     *)

(* load_elf and sys_mmap: a frame for the page.  Frames running out leave  *)
(* what was mapped so far.                                                 *)
LoadPage(c, root, v, w) ==
    LET a == alloc_frame(c)
    IN  IF a.ok THEN map_page_user(a, root, v, [to |-> a.got, write |-> w]) ELSE a

(* protect_page_user: a page that is not present is skipped. *)
protect_page_user(c, root, v, w) ==
    IF translate(c.ram, root, v)
    THEN SetEntry(c, root, v, [EntryOf(c.ram, root, v) EXCEPT !.write = w]) ELSE c

(* sys_mmio_unmap: so is one without a table. *)
ClearPage(c, root, v) ==
    IF LeafOf(c.ram, root, v) = Nowhere THEN c ELSE SetEntry(c, root, v, Absent)

(* try_grow_locked: the frame goes back if the page cannot be mapped. *)
GrowPage(c, root, v) ==
    LET a == alloc_frame(c)
        m == map_page(a, root, v, [to |-> a.got, write |-> TRUE])
    IN  IF ~a.ok THEN a ELSE IF m.ok THEN m ELSE Fails(free_frame([m EXCEPT !.ok = TRUE], a.got))

(* A loop over the n pages (frames, for "free") from `from' on.            *)
Turn(do, root, w, c, v) ==
    CASE do = "map"     -> LoadPage(c, root, v, w)
      [] do = "unmap"   -> map_page_user(c, root, v, Absent)
      [] do = "device"  -> map_page_user(c, root, v, [to |-> Device, write |-> TRUE])
      [] do = "protect" -> protect_page_user(c, root, v, w)
      [] do = "clear"   -> ClearPage(c, root, v)
      [] do = "grow"    -> GrowPage(c, root, v)
      [] do = "take"    -> alloc_frame(c)
      [] do = "free"    -> free_frame(c, v)
Turns(do, root, w, only, c, from, n) ==
    LET turn[k \in 0 .. n] ==
            IF k = 0 THEN c
            ELSE IF from + k - 1 \in only THEN Turn(do, root, w, turn[k - 1], from + k - 1) ELSE turn[k - 1]
    IN  turn
Each(do, root, w, c, from, n) == Turns(do, root, w, from .. from + n - 1, c, from, n)[n]

(* load_elf: the pages of the program, mapped through CR3. *)
load_elf(c, root, pages) == Turns("map", root, TRUE, pages, c, 0, Slots * UserRoots)[Slots * UserRoots]

BootRam == [bitmap |-> {1}, p4 |-> [f \in Frames |-> BootP4],
            leaf |-> [f \in Frames \cup {KernelTable} |-> NoTable]]

(* launch_from_initrd: frame 1 is the first process's P4.                  *)
AsInit ==
    /\ as_use \in AsUses
    /\ ram = load_elf(AsCompute(BootRam), 1, Image).ram
    /\ cr3 = 1 /\ cur = first
    /\ page_table = [p \in Procs |-> IF p = first THEN 1 ELSE Nowhere]
    /\ state = [p \in Procs |-> IF p = first THEN "ready" ELSE "new"]
    /\ vma_list = [p \in Procs |-> <<>>]
    /\ brk = [p \in Procs |-> Nowhere]
    /\ heap = 0 /\ dma = {} /\ panicked = FALSE
    /\ loose = {} /\ ragged = FALSE

Running == state[cur] = "ready" /\ ~panicked
Ends(c) == ram' = c.ram /\ panicked' = c.panic

(* The task keeps its state when the program does not fit: it has a page   *)
(* table and no context.                                                   *)
as_process_start(p, pages) ==
    LET t == create_user_page_table(AsCompute(ram))
        c == load_elf(t, t.got, pages)
    IN  /\ Running /\ state[p] = "new"
        /\ IF t.ok THEN /\ Ends(c)
                        /\ cr3' = t.got
                        /\ page_table' = [page_table EXCEPT ![p] = t.got]
                        /\ state' = [state EXCEPT ![p] = IF c.ok THEN "ready" ELSE @]
           ELSE UNCHANGED <<ram, panicked, cr3, page_table, state>>
        /\ UNCHANGED <<cur, vma_list, brk, heap, dma, history>>

(* The context switch loads the next task's P4. *)
Switch(p) ==
    /\ ~panicked /\ state[p] = "ready"
    /\ cur' = p /\ cr3' = page_table[p]
    /\ UNCHANGED <<ram, page_table, state, vma_list, brk, heap, dma, panicked, history>>

-----------------------------------------------------------------------------
Region(start, n, kind, w) == [start |-> start, size |-> n, kind |-> kind, write |-> w]
Overlaps(r, s) == r.start < s.start + s.size /\ s.start < r.start + r.size

(* VmaList::add: an overlap is an error, which the callers ignore.         *)
add(list, r) == IF \E k \in 1 .. Len(list) : Overlaps(r, list[k]) THEN list ELSE Append(list, r)
remove(list, v) == LET at == {k \in 1 .. Len(list) : list[k].start = v}
                   IN  IF at = {} THEN list ELSE RemoveAt(list, Min(at))
find(list, v) == \E k \in 1 .. Len(list) : v \in list[k].start .. list[k].start + list[k].size - 1

(* A break below the heap's start changes nothing.                         *)
extend_heap(list, end) ==
    [k \in 1 .. Len(list) |->
        IF /\ list[k].kind = "heap" /\ \A j \in 1 .. k - 1 : list[j].kind # "heap"
           /\ end >= list[k].start
        THEN [list[k] EXCEPT !.size = end - list[k].start] ELSE list[k]]

(* The break moves whatever becomes of the heap's region; the first call   *)
(* makes a region of one page and puts the break behind it.  No page is    *)
(* mapped.                                                                 *)
sys_brk(v) ==
    LET old  == brk[cur]
        list == vma_list[cur]
    IN  /\ Running /\ v # Nowhere
        /\ brk' = [brk EXCEPT ![cur] = IF old = Nowhere /\ ~find(list, old) THEN v + 1 ELSE v]
        /\ vma_list' = [vma_list EXCEPT ![cur] =
              IF find(list, old) THEN extend_heap(list, v)
              ELSE IF old = Nowhere THEN add(list, Region(v, 1, "heap", TRUE)) ELSE list]
        /\ UNCHANGED <<ram, cr3, cur, page_table, state, heap, dma, panicked, history>>

(* The range is looked for in the task's table and mapped through CR3.     *)
(* When frames run out there is no region.                                 *)
sys_mmap(hint, n, w) ==
    LET at == find_free_range(ram, page_table[cur], hint, n)
        c  == Each("map", cr3, w, AsCompute(ram), at, n)
    IN  /\ Running /\ at # -1
        /\ Ends(c)
        /\ vma_list' = IF c.ok THEN [vma_list EXCEPT ![cur] = add(@, Region(at, n, "mmap", w))] ELSE vma_list
        /\ loose' = IF vma_list' # vma_list THEN loose \ (at .. at + n - 1) ELSE loose \cup (at .. at + n - 1)
        /\ UNCHANGED <<cr3, cur, page_table, state, brk, heap, dma, ragged>>

(* The region goes if it starts there; the frames are not freed, and a     *)
(* page that had no table gets one.                                        *)
sys_munmap(v, n) ==
    LET c == Each("unmap", cr3, FALSE, AsCompute(ram), v, n)
    IN  /\ Running /\ v + n - 1 \in Pages
        /\ Ends(c)
        /\ vma_list' = [vma_list EXCEPT ![cur] = remove(@, v)]
        /\ ragged' = (ragged \/ \A k \in 1 .. Len(vma_list[cur]) :
                                    vma_list' = [vma_list EXCEPT ![cur] = RemoveAt(@, k)] =>
                                       vma_list[cur][k].kind # "mmap" \/ vma_list[cur][k].size # n)
        /\ UNCHANGED <<cr3, cur, page_table, state, brk, heap, dma, loose>>

(* The protection of every page of the range, in the active table. *)
sys_mprotect(v, n, w) ==
    LET c == Each("protect", cr3, w, AsCompute(ram), v, n)
    IN  /\ Running /\ v + n - 1 \in Pages
        /\ Ends(c)
        /\ UNCHANGED <<cr3, cur, page_table, state, vma_list, brk, heap, dma, history>>

(* The task's own table is put in CR3 and stays there. *)
sys_mmio_map(n) ==
    LET at == find_free_virt_range(ram, n)
        c  == Each("device", page_table[cur], TRUE, AsCompute(ram), at, n)
    IN  /\ Running /\ at # -1
        /\ Ends(c) /\ cr3' = page_table[cur]
        /\ UNCHANGED <<cur, page_table, state, vma_list, brk, heap, dma, history>>

sys_mmio_unmap(v, n) ==
    LET c == Each("clear", page_table[cur], FALSE, AsCompute(ram), v, n)
    IN  /\ Running /\ v + n - 1 \in Pages
        /\ Ends(c) /\ cr3' = page_table[cur]
        /\ UNCHANGED <<cur, page_table, state, vma_list, brk, heap, dma, history>>

(* The frames of a leaf table, then the table. *)
FreeTable(c, t) ==
    LET leaves[s \in 0 .. Slots] == IF s = 0 THEN c ELSE free_frame(leaves[s - 1], c.ram.leaf[t][s - 1].to)
    IN  free_frame(leaves[Slots], t)
(* The tables that the P4 entries `own' lead to, one by one. *)
FreeTables(c, root, own) ==
    LET tables[r \in 0 .. UserRoots] ==
            IF r = 0 THEN c
            ELSE IF r - 1 \in own THEN FreeTable(tables[r - 1], c.ram.p4[root][r - 1]) ELSE tables[r - 1]
    IN  tables

(* Fault: nothing is compared, every table is freed. *)
free_user_page_table_All(c, root) ==
    LET own == {r \in 0 .. UserRoots - 1 : c.ram.p4[root][r] # Nowhere}
    IN  free_frame(FreeTables(c, root, own)[UserRoots], root)

(* Tables that the P4 in CR3 has too are taken for the kernel's.           *)
free_user_page_table(c, root) ==
    LET own == {r \in 0 .. UserRoots - 1 : c.ram.p4[root][r] # Nowhere /\ c.ram.p4[root][r] # c.ram.p4[cr3][r]}
    IN  free_frame(FreeTables(c, root, own)[UserRoots], root)

as_process_exit ==
    /\ Running
    /\ Ends(free_user_page_table(AsCompute(ram), page_table[cur]))
    /\ page_table' = [page_table EXCEPT ![cur] = Nowhere]
    /\ state' = [state EXCEPT ![cur] = "gone"]
    /\ UNCHANGED <<cr3, cur, vma_list, brk, heap, dma, history>>

-----------------------------------------------------------------------------
(* try_grow_locked: as many pages as there are frames, through CR3.        *)
try_grow_locked(n) ==
    LET left  == MAX_HEAP - heap
        pages == IF n < left THEN n ELSE left
        c     == Each("grow", cr3, TRUE, AsCompute(ram), KernelRoot * Slots + heap, pages)
    IN  /\ Running /\ pages > 0
        /\ Ends(c)
        /\ heap' = Cardinality({k \in 0 .. Slots - 1 : c.ram.leaf[KernelTable][k].to # Nowhere})
        /\ UNCHANGED <<cr3, cur, page_table, state, vma_list, brk, dma, history>>

(* Frames must come one after the other; the ones taken go back otherwise. *)
alloc_dma(n) ==
    LET c    == Each("take", Nowhere, TRUE, AsCompute(ram), 1, n)
        took == c.ram.bitmap \ ram.bitmap
    IN  /\ Running
        /\ c.ok /\ Max(took) - Min(took) = n - 1
        /\ Ends(c)
        /\ dma' = dma \cup {[at |-> Min(took), n |-> n]}
        /\ UNCHANGED <<cr3, cur, page_table, state, vma_list, brk, heap, history>>

free_dma(b) ==
    /\ Running
    /\ Ends(Each("free", Nowhere, FALSE, AsCompute(ram), b.at, b.n))
    /\ dma' = dma \ {b}
    /\ UNCHANGED <<cr3, cur, page_table, state, vma_list, brk, heap, history>>

AsNext ==
    /\ \/ "start" \in as_use /\ \E p \in Procs : as_process_start(p, Image) \/ as_process_start(p, Big)
       \/ "start" \in as_use /\ (as_process_exit \/ \E p \in Procs : Switch(p))
       \/ "brk" \in as_use /\ \E v \in Pages : sys_brk(v)
       \/ "mmap" \in as_use /\ \E v \in Pages, n \in 1 .. MaxPages : sys_mmap(v, n, TRUE) \/ sys_munmap(v, n)
       \/ "protect" \in as_use /\ \E v \in Pages, n \in 1 .. MaxPages, w \in BOOLEAN : sys_mprotect(v, n, w)
       \/ "mmio" \in as_use /\ \E n \in 1 .. MaxPages : sys_mmio_map(n)
       \/ "mmio" \in as_use /\ \E v \in Pages, n \in 1 .. MaxPages : sys_mmio_unmap(v, n)
       \/ "kernel" \in as_use /\ \E n \in 1 .. MaxPages : try_grow_locked(n) \/ alloc_dma(n)
       \/ "kernel" \in as_use /\ \E b \in dma : free_dma(b)
    /\ UNCHANGED as_use

AsSpec == AsInit /\ [][AsNext]_as_vars

-----------------------------------------------------------------------------
Live == {p \in Procs : state[p] = "ready"}
TablesOf(root) == {ram.p4[root][r] : r \in 0 .. UserRoots - 1} \ {Nowhere}
LeavesOf(t) == {ram.leaf[t][s].to : s \in 0 .. Slots - 1} \cap Frames
DmaFrames == UNION {b.at .. b.at + b.n - 1 : b \in dma}

(* A frame has one use: what a running task or the kernel reaches through  *)
(* its tables is marked in the bitmap, and no frame is at once a table, a  *)
(* page, a page of the kernel's heap or part of a DMA buffer, nor two      *)
(* pages (frame_alloc.rs, task/user.rs, memory/allocator.rs,               *)
(* memory/dma.rs).                                                         *)
OneUsePerFrame ==
    LET roots  == {page_table[p] : p \in Live}
        tables == UNION {TablesOf(r) : r \in roots}
        pages  == UNION {LeavesOf(t) : t \in tables}
        kernel == LeavesOf(KernelTable)
        all    == <<roots, tables, pages, kernel, DmaFrames>>
    IN  /\ UNION {all[k] : k \in 1 .. 5} \subseteq ram.bitmap
        /\ \A j, k \in 1 .. 5 : j # k => all[j] \cap all[k] = {}
        /\ \A t, u \in tables : \A r, s \in 0 .. Slots - 1 :
              ram.leaf[t][r].to = ram.leaf[u][s].to /\ ram.leaf[t][r].to \in Frames => t = u /\ r = s
        /\ heap = Cardinality(kernel)

(* While a task runs on its own table, a page it has before and after a    *)
(* step has the same frame: no call puts another in its place              *)
(* (find_free_range, find_free_virt_range, map_page_user).                 *)
MappedPagesStay ==
    [][ram' # ram /\ cr3 = page_table[cur] /\ cr3' = cr3 /\ page_table' = page_table =>
         \A v \in Pages : translate(ram, cr3, v) /\ translate(ram', cr3, v)
                            => EntryOf(ram, cr3, v).to = EntryOf(ram', cr3, v).to]_as_vars

(* With one task that unmaps what it mapped, regions and pages agree: the  *)
(* pages of a region are mapped, and a mapped page belongs to the program, *)
(* to a region, or to a call that ran out of frames or landed in the       *)
(* heap's region, whose pages no region names (sys_mmap, VmaList::add).    *)
RegionsMatchPages ==
    "start" \notin as_use /\ "mmio" \notin as_use /\ ~ragged =>
      LET mapped  == {v \in Pages : translate(ram, cr3, v)}
          regions == {vma_list[cur][k] : k \in {j \in 1 .. Len(vma_list[cur]) : vma_list[cur][j].kind = "mmap"}}
          named   == UNION {r.start .. r.start + r.size - 1 : r \in regions}
      IN  named \subseteq mapped /\ mapped \subseteq named \cup Image \cup loose

(* Memory at any time: each frame with one use, and the regions a task is  *)
(* told of are the pages it has.                                           *)
MemorySound == OneUsePerFrame /\ RegionsMatchPages

(* "The child process gets its own page table (kernel entries shared, user *)
(* entries fresh)" (INTERFACE.md:587): no user table is reached from two   *)
(* processes.                                                              *)
UserEntriesFresh ==
    \A p, q \in Live : p # q => TablesOf(page_table[p]) \cap TablesOf(page_table[q]) = {}
=============================================================================
