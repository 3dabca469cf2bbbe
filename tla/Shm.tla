-------------------------------- MODULE Shm --------------------------------
(***************************************************************************)
(* Shared memory segments (ipc/shm.rs) over the frame allocator's bitmap   *)
(* (frame_alloc.rs), with the page tables of the tasks that attach them.   *)
(* A page table is a window of pages from 0x7000_0000 on, each mapping a   *)
(* frame or nothing; frames that hold page tables themselves, and the rest *)
(* of a task's memory, are left out.  Every call runs under the table's    *)
(* lock, with interrupts masked: one step.                                 *)
(***************************************************************************)
EXTENDS Integers, Sequences, FiniteSets, SequencesExt

CONSTANTS
    ShmTasks,
    ShmNumFrames,   \* frames the bitmap manages
    NumPages,    \* bound: pages in a task's window
    ShmKeys,        \* keys of shmget; 0 is IPC_PRIVATE
    MaxSize,     \* bound: pages of a segment (MAX_SHM_SIZE in the code)
    MaxId        \* bound: segments created in one behaviour

ASSUME ShmAssumption ==
    /\ ShmNumFrames \in Nat /\ NumPages \in Nat /\ MaxSize \in Nat \ {0} /\ MaxId \in Nat
    /\ ShmKeys \subseteq Nat

ShmFrames == 1 .. ShmNumFrames
ShmPages == 1 .. NumPages
ShmNone == 0     \* a page that is not mapped

VARIABLES
    bitmap,    \* the frames whose bit is set
    table,     \* SHM_TABLE: a function from segment ids to segments
    nextId,    \* NEXT_ID
    map,       \* map[t][p]: the frame page p of task t maps
    att,       \* att[t]: shm_attachments of t
    shm_alive,     \* tasks that have not terminated
    shm_panicked   \* the double-free assertion of free_frame has failed

shm_vars == <<bitmap, table, nextId, map, att, shm_alive, shm_panicked>>

Segment == [key : ShmKeys, refcount : Nat, pages : Seq(ShmFrames), marked : BOOLEAN]

ShmInit ==
    /\ bitmap = {} /\ table = [i \in {} |-> 0] /\ nextId = 1
    /\ map = [t \in ShmTasks |-> [p \in ShmPages |-> ShmNone]]
    /\ att = [t \in ShmTasks |-> <<>>]
    /\ shm_alive = ShmTasks /\ shm_panicked = FALSE

-----------------------------------------------------------------------------
Free == ShmFrames \ bitmap

(* alloc_frame scans from the lowest bit: the k-th of n calls gives the    *)
(* free frame with k - 1 free ones below it.                               *)
alloc_frame(k) == CHOOSE f \in Free : Cardinality({g \in Free : g < f}) = k - 1
Allocated(n) == [k \in 1 .. n |-> alloc_frame(k)]

(* Fault: a marked segment goes away while tasks are attached. *)
Released_Early(tab, i) == tab[i].marked

(* A segment goes away when it is marked for removal and nobody is         *)
(* attached.                                                               *)
Released(tab, i) == tab[i].marked /\ tab[i].refcount = 0

Without(tab, i) == [j \in DOMAIN tab \ {i} |-> tab[j]]

(* free_frame on every frame of a sequence: the assertion fails on a bit   *)
(* that is already clear, the second occurrence of a frame included.       *)
FreesAll(fs) ==
    /\ bitmap' = bitmap \ ToSet(fs)
    /\ shm_panicked' = (shm_panicked \/ ~(ToSet(fs) \subseteq bitmap) \/ Cardinality(ToSet(fs)) < Len(fs))

(* The table after segment i may have become free. *)
Settles(tab, i) ==
    IF Released(tab, i)
    THEN table' = Without(tab, i) /\ FreesAll(tab[i].pages)
    ELSE table' = tab /\ UNCHANGED <<bitmap, shm_panicked>>


(* The segment an existing key names. *)
Existing(key) == {i \in DOMAIN table : key # 0 /\ table[i].key = key /\ ~table[i].marked}

(* A key that exists is answered from the table (its id, or AlreadyExists  *)
(* under IPC_EXCL) and changes nothing.  Running out of frames half way    *)
(* returns OutOfMemory, and the frames that were taken keep their bits.    *)
shmget(t, key, size, create) ==
    /\ t \in shm_alive /\ nextId <= MaxId
    /\ Existing(key) = {} /\ (key = 0 \/ create)
    /\ IF Cardinality(Free) < size
       THEN bitmap' = ShmFrames /\ UNCHANGED <<table, nextId>>
       ELSE /\ bitmap' = bitmap \cup ToSet(Allocated(size))
            /\ table' = [i \in DOMAIN table \cup {nextId} |->
                            IF i = nextId
                            THEN [key |-> key, refcount |-> 0, pages |-> Allocated(size), marked |-> FALSE]
                            ELSE table[i]]
            /\ nextId' = nextId + 1
    /\ UNCHANGED <<map, att, shm_alive, shm_panicked>>

(* find_free_range: the first run of n unmapped pages. *)
shm_find_free_range(t, n) ==
    {p \in ShmPages : /\ p + n - 1 <= NumPages
                   /\ \A k \in p .. p + n - 1 : map[t][k] = ShmNone}

shmat(t, i) ==
    LET pages == table[i].pages
        room  == shm_find_free_range(t, Len(pages))
        at    == CHOOSE p \in room : \A q \in room : p <= q
    IN  /\ t \in shm_alive /\ ~table[i].marked /\ room # {}
        /\ map' = [map EXCEPT ![t] = [p \in ShmPages |->
                     IF p \in at .. at + Len(pages) - 1 THEN pages[p - at + 1] ELSE @[p]]]
        /\ table' = [table EXCEPT ![i].refcount = @ + 1]
        /\ att' = [att EXCEPT ![t] = Append(@, [id |-> i, at |-> at, size |-> Len(pages)])]
        /\ UNCHANGED <<bitmap, nextId, shm_alive, shm_panicked>>

Unmapped(t, a) ==
    [map EXCEPT ![t] = [p \in ShmPages |-> IF p \in a.at .. a.at + a.size - 1 THEN ShmNone ELSE @[p]]]

(* The attachment is named by its address; its pages are unmapped, and the *)
(* last one out frees a segment that is marked for removal.                *)
shmdt(t, k) ==
    LET a == att[t][k] IN
    /\ t \in shm_alive
    /\ att' = [att EXCEPT ![t] = RemoveAt(@, k)]
    /\ map' = Unmapped(t, a)
    /\ IF a.id \in DOMAIN table
       THEN Settles([table EXCEPT ![a.id].refcount = IF @ = 0 THEN 0 ELSE @ - 1], a.id)
       ELSE UNCHANGED <<table, bitmap, shm_panicked>>
    /\ UNCHANGED <<nextId, shm_alive>>

shm_mark_removal(i) ==
    /\ Settles([table EXCEPT ![i].marked = TRUE], i)
    /\ UNCHANGED <<nextId, map, att, shm_alive>>

(* terminate_current: free_user_page_table frees every frame the task      *)
(* maps, and the attachments are dropped with the task.                    *)
terminate_current(t) ==
    LET mapped == SelectSeq([p \in ShmPages |-> map[t][p]], LAMBDA f : f # ShmNone) IN
    /\ t \in shm_alive
    /\ shm_alive' = shm_alive \ {t}
    /\ FreesAll(mapped)
    /\ map' = [map EXCEPT ![t] = [p \in ShmPages |-> ShmNone]]
    /\ att' = [att EXCEPT ![t] = <<>>]
    /\ UNCHANGED <<table, nextId>>

ShmNext ==
    /\ ~shm_panicked
    /\ \/ \E t \in ShmTasks :
             \/ \E key \in ShmKeys, size \in 1 .. MaxSize, create \in BOOLEAN :
                   shmget(t, key, size, create)
             \/ \E i \in DOMAIN table : shmat(t, i)
             \/ \E k \in 1 .. Len(att[t]) : shmdt(t, k)
             \/ terminate_current(t)
       \/ \E i \in DOMAIN table : shm_mark_removal(i)

ShmSpec == ShmInit /\ [][ShmNext]_shm_vars
-----------------------------------------------------------------------------
Attachments(i) ==
    UNION {{<<t, k>> : k \in {m \in 1 .. Len(att[t]) : att[t][m].id = i}} : t \in ShmTasks}

(* Types of the bitmap, the segment table and the tasks. *)
ShmTypeOK ==
    /\ bitmap \subseteq ShmFrames /\ nextId \in 1 .. MaxId + 1
    /\ DOMAIN table \subseteq 1 .. nextId - 1 /\ \A i \in DOMAIN table : table[i] \in Segment
    /\ map \in [ShmTasks -> [ShmPages -> ShmFrames \cup {ShmNone}]]
    /\ shm_alive \subseteq ShmTasks /\ shm_panicked \in BOOLEAN

(* refcount counts the attachments of all tasks across attach, detach and  *)
(* removal.  Termination forgets to count down, so from then on the count  *)
(* can only be too high: shmdt and removal never free a segment that is    *)
(* still attached.                                                         *)
RefcountCovers ==
    \A i \in DOMAIN table :
        /\ table[i].refcount >= Cardinality(Attachments(i))
        /\ shm_alive = ShmTasks => table[i].refcount = Cardinality(Attachments(i))

(* As long as no task has terminated, no segment uses a frame of another   *)
(* one or a frame that is free, and what a task maps is exactly the frames *)
(* of the segments it has attached: a segment is never taken away under a  *)
(* task, and detaching leaves no page behind.                              *)
NoUseAfterFree ==
    shm_alive = ShmTasks =>
    /\ \A i \in DOMAIN table :
          /\ ToSet(table[i].pages) \subseteq bitmap
          /\ \A j \in DOMAIN table \ {i} : ToSet(table[i].pages) \cap ToSet(table[j].pages) = {}
    /\ \A t \in ShmTasks : \A p \in ShmPages : map[t][p] # ShmNone <=>
          \E k \in 1 .. Len(att[t]) : LET a == att[t][k] IN
             /\ p \in a.at .. a.at + a.size - 1
             /\ a.id \in DOMAIN table /\ table[a.id].pages[p - a.at + 1] = map[t][p]

(* Segments at any time: counted, and never taken away under a task.       *)
ShmSound == ShmTypeOK /\ RefcountCovers /\ NoUseAfterFree

(* free_frame: addr "has not already been freed (no double-free)". *)
NoDoubleFree == ~shm_panicked
=============================================================================
