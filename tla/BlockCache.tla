----------------------------- MODULE BlockCache -----------------------------
(***************************************************************************)
(* The write-back sector cache in front of the block devices               *)
(* (fs/block_cache.rs).  Each call holds the cache's lock from start to    *)
(* end and is one step.  A sector stands for a (device_idx, lba) pair, a   *)
(* value for its 512 bytes.  A device may fail any read or write; a device *)
(* that is not registered fails them all.                                  *)
(***************************************************************************)
EXTENDS Integers, FiniteSets

CONSTANTS
    Sectors, Values,
    CACHE_SIZE,
    MaxCounter,     \* bound: accesses; the code's counter is a u64
    NoAnswer

ASSUME CacheAssumption ==
    /\ Sectors # {} /\ Values # {}
    /\ CACHE_SIZE \in Nat \ {0} /\ MaxCounter \in Nat
    /\ NoAnswer \notin Sectors \X Values

Slots == 1 .. CACHE_SIZE
CacheEntry == [sector : Sectors, data : Values, dirty : BOOLEAN, valid : BOOLEAN,
               access_counter : 0 .. MaxCounter]

VARIABLES
    entries,
    counter,
    device,      \* disk[s]: the sector on its device
    cache_answer     \* the last result of read_cached: <<sector, value>> or NoAnswer

cache_vars == <<entries, counter, device, cache_answer>>

(* CacheEntry::empty *)
empty == [sector |-> CHOOSE s \in Sectors : TRUE, data |-> CHOOSE v \in Values : TRUE,
          dirty |-> FALSE, valid |-> FALSE, access_counter |-> 0]

CacheInit ==
    /\ entries = [i \in Slots |-> empty]
    /\ counter = 0
    /\ device \in [Sectors -> Values]
    /\ cache_answer = NoAnswer

-----------------------------------------------------------------------------
(* The slots of a set that come first in the array: one or none. *)
First(S) == {i \in S : \A j \in S : i <= j}

find(s) == First({i \in Slots : entries[i].valid /\ entries[i].sector = s})

(* Fault: dirty entries are chosen like any other. *)
find_lru_victim_Dirty ==
    LET invalid == {i \in Slots : ~entries[i].valid}
    IN  IF invalid # {} THEN First(invalid)
        ELSE First({i \in Slots : \A j \in Slots :
                       entries[i].access_counter <= entries[j].access_counter})

(* An empty slot if there is one, else the clean entry used least recently.*)
find_lru_victim ==
    LET invalid == {i \in Slots : ~entries[i].valid}
        clean   == {i \in Slots : ~entries[i].dirty}
    IN  IF invalid # {} THEN First(invalid)
        ELSE First({i \in clean : \A j \in clean :
                       entries[i].access_counter <= entries[j].access_counter})

(* The device after slot i is emptied: a dirty victim is written first, and*)
(* a failure to write it is ignored.                                       *)
Evicted(i, ok) ==
    IF entries[i].valid /\ entries[i].dirty /\ ok
    THEN [device EXCEPT ![entries[i].sector] = entries[i].data] ELSE device

Filled(i, s, v, dirt) ==
    [entries EXCEPT ![i] = [sector |-> s, data |-> v, dirty |-> dirt, valid |-> TRUE,
                            access_counter |-> counter + 1]]

Touched(i) ==
    [entries EXCEPT ![i] = [sector |-> entries[i].sector, data |-> entries[i].data,
                            dirty |-> entries[i].dirty, valid |-> entries[i].valid,
                            access_counter |-> counter + 1]]

-----------------------------------------------------------------------------

read_hit(s) ==
    \E i \in find(s) :
        /\ entries' = Touched(i)
        /\ counter' = counter + 1
        /\ cache_answer' = <<s, entries[i].data>>
        /\ UNCHANGED device

(* The sector is read, then a slot is looked for. *)
read_miss(s, ok) ==
    /\ find(s) = {}
    /\ \E i \in find_lru_victim :
        /\ entries' = Filled(i, s, device[s], FALSE)
        /\ device' = Evicted(i, ok)
    /\ counter' = counter + 1
    /\ cache_answer' = <<s, device[s]>>

(* No data: the device failed, or no slot could be had. *)
read_none(s, failed) ==
    /\ find(s) = {}
    /\ failed \/ find_lru_victim = {}
    /\ cache_answer' = NoAnswer
    /\ UNCHANGED <<entries, counter, device>>

(* read_cached *)
read_cached(s) ==
    \/ counter < MaxCounter /\ read_hit(s)
    \/ counter < MaxCounter /\ \E ok \in BOOLEAN : read_miss(s, ok)
    \/ \E failed \in BOOLEAN : read_none(s, failed)

Updated(i, s, v) == Filled(i, s, v, TRUE)

(* write_cached; with nowhere to put the data it answers Err and changes   *)
(* nothing.                                                                *)
write_cached(s, v) ==
    /\ counter < MaxCounter
    /\ \/ \E i \in find(s) : entries' = Updated(i, s, v) /\ device' = device
       \/ /\ find(s) = {}
          /\ \E i \in find_lru_victim, ok \in BOOLEAN :
                entries' = Updated(i, s, v) /\ device' = Evicted(i, ok)
    /\ counter' = counter + 1
    /\ UNCHANGED cache_answer

Dirty == {i \in Slots : entries[i].valid /\ entries[i].dirty}

Cleaned(done) ==
    [i \in Slots |-> [sector |-> entries[i].sector, data |-> entries[i].data,
                      dirty |-> entries[i].dirty /\ i \notin done,
                      valid |-> entries[i].valid,
                      access_counter |-> entries[i].access_counter]]

(* flush_all: the dirty entries in `done' are written, the others fail.    *)
flush_all(done) ==
    /\ device' = [s \in Sectors |->
                   IF \E i \in done : entries[i].sector = s
                   THEN entries[CHOOSE i \in done : entries[i].sector = s].data ELSE device[s]]
    /\ entries' = Cleaned(done)
    /\ UNCHANGED <<counter, cache_answer>>

(* The machine restarts: BlockCache::new. *)
restart ==
    /\ entries' = [i \in Slots |-> empty]
    /\ counter' = 0
    /\ cache_answer' = NoAnswer
    /\ UNCHANGED device

CacheNext ==
    \/ \E s \in Sectors : read_cached(s)
    \/ \E s \in Sectors, v \in Values : write_cached(s, v)
    \/ \E done \in SUBSET Dirty : flush_all(done)
    \/ restart

CacheSpec == CacheInit /\ [][CacheNext]_cache_vars

-----------------------------------------------------------------------------
(* Types; and the counter is ahead of every entry, so that the order of    *)
(* access_counter is the order of use.                                     *)
CacheTypeOK ==
    /\ entries \in [Slots -> CacheEntry]
    /\ counter \in 0 .. MaxCounter
    /\ \A i \in Slots : entries[i].access_counter <= counter
    /\ device \in [Sectors -> Values]
    /\ cache_answer \in (Sectors \X Values) \cup {NoAnswer}

(* No sector is cached twice: there is one place where its last write is.  *)
OneEntryPerSector ==
    \A i, j \in Slots :
        entries[i].valid /\ entries[j].valid /\ entries[i].sector = entries[j].sector => i = j

(* A clean entry agrees with its device, so evicting it loses nothing.     *)
CleanIsDurable ==
    \A i \in Slots : entries[i].valid /\ ~entries[i].dirty
                     => entries[i].data = device[entries[i].sector]

(* The cache's own invariant: what eviction and flushing rely on.          *)
CacheSound == OneEntryPerSector /\ CleanIsDurable

(* The last write to a sector: cached if it is cached, else on the device. *)
Latest ==
    [s \in Sectors |-> IF \E i \in Slots : entries[i].valid /\ entries[i].sector = s
                       THEN entries[CHOOSE i \in Slots : entries[i].valid /\ entries[i].sector = s].data
                       ELSE device[s]]

Store == INSTANCE BlockStore WITH latest <- Latest, durable <- device, answer <- cache_answer

(* Whatever is evicted, flushed in part or lost at a restart, the cache is *)
(* a store in which reads see the last write.                              *)
ImplementsStore == Store!Spec
=============================================================================
