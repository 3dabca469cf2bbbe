--------------------------- MODULE StorageProofs ----------------------------
(***************************************************************************)
(* First part: the sector cache implements the store of sectors of module  *)
(* BlockStore, for every set of sectors and values, every cache size and   *)
(* every bound on the access counter.  Second part: the virtqueues.        *)
(*                                                                         *)
(* The argument rests on two facts the code keeps without saying so.  A    *)
(* sector is in one slot at most, because both paths that fill a slot      *)
(* looked for the sector first; and a clean entry holds what its device    *)
(* holds, so a victim, which is empty or clean, is given up without loss.  *)
(***************************************************************************)
EXTENDS BlockCache, Virtio, ProofLemmas, SequenceTheorems, TLAPS

(* The inductive invariant. *)
CacheInv == CacheTypeOK /\ CacheSound

(* The two parts of CacheSound and the last writes, of any array and       *)
(* device, so that they can be applied to the new state as to the old one. *)
Unique(e) ==
    \A i, j \in Slots : e[i].valid /\ e[j].valid /\ e[i].sector = e[j].sector => i = j
Durable(e, d) ==
    \A i \in Slots : e[i].valid /\ ~e[i].dirty => e[i].data = d[e[i].sector]
LatestIn(e, d) ==
    [s \in Sectors |-> IF \E i \in Slots : e[i].valid /\ e[i].sector = s
                       THEN e[CHOOSE i \in Slots : e[i].valid /\ e[i].sector = s].data
                       ELSE d[s]]

-----------------------------------------------------------------------------
(* The slot that find or find_lru_victim returns.                          *)

(* First picks from the set it is given. *)
LEMMA FirstIsMember == ASSUME NEW S, NEW i \in First(S) PROVE i \in S
  BY DEF First

(* find answers a slot that holds the sector. *)
LEMMA FoundHolds ==
    ASSUME NEW s, NEW i \in find(s)
    PROVE  i \in Slots /\ entries[i].valid /\ entries[i].sector = s
  BY FirstIsMember DEF find

(* First answers nothing only for a set of slots that is empty. *)
LEMMA FirstOfSlots ==
    ASSUME NEW S \in SUBSET Slots, First(S) = {}
    PROVE  S = {}
  <1>1. S \subseteq Nat
    BY CacheAssumption DEF Slots
  <1> QED
    BY <1>1, LeastMember DEF First

(* find answers nothing only when no slot holds the sector. *)
LEMMA NotFound ==
    ASSUME NEW s, find(s) = {}
    PROVE  \A i \in Slots : ~(entries[i].valid /\ entries[i].sector = s)
  BY FirstOfSlots DEF find

(* A victim is empty or clean: giving it up leaves the device alone. *)
LEMMA VictimIsClean ==
    ASSUME CacheTypeOK, NEW i \in find_lru_victim
    PROVE  /\ i \in Slots
           /\ ~entries[i].valid \/ ~entries[i].dirty
           /\ \A ok \in BOOLEAN : Evicted(i, ok) = device
  <1>1. i \in Slots /\ (~entries[i].valid \/ ~entries[i].dirty)
    BY FirstIsMember DEF find_lru_victim
  <1> QED
    BY <1>1 DEF Evicted

-----------------------------------------------------------------------------
(* What the last write to a sector is, in any state that is sound.         *)

(* A cached sector has the value of its slot. *)
LEMMA LatestHit ==
    ASSUME NEW e, NEW d, Unique(e), NEW i \in Slots, e[i].valid, e[i].sector \in Sectors
    PROVE  LatestIn(e, d)[e[i].sector] = e[i].data
  <1> DEFINE s == e[i].sector
             j == CHOOSE k \in Slots : e[k].valid /\ e[k].sector = s
  <1>1. j \in Slots /\ e[j].valid /\ e[j].sector = s
    OBVIOUS
  <1>2. j = i
    BY <1>1 DEF Unique
  <1>3. LatestIn(e, d)[s] = e[j].data
    BY DEF LatestIn
  <1> QED
    BY <1>2, <1>3

(* A sector in no slot has the value on its device. *)
LEMMA LatestMiss ==
    ASSUME NEW e, NEW d, NEW s \in Sectors, \A i \in Slots : ~(e[i].valid /\ e[i].sector = s)
    PROVE  LatestIn(e, d)[s] = d[s]
  BY DEF LatestIn

(* Two states whose slots and devices give every sector the same value     *)
(* have the same last writes.                                              *)
LEMMA LatestEqual ==
    ASSUME NEW e, NEW d, NEW f, \A s \in Sectors : LatestIn(e, d)[s] = f[s]
    PROVE  LatestIn(e, d) = [s \in Sectors |-> f[s]]
  <1>1. LatestIn(e, d) = [s \in Sectors |-> LatestIn(e, d)[s]]
    BY DEF LatestIn
  <1> QED
    BY <1>1

(* The last writes stay when the slots keep their sectors and values and   *)
(* the device keeps what is in no slot.                                    *)
LEMMA LatestKept ==
    ASSUME NEW e, NEW d, NEW e2, NEW d2, Unique(e),
           \A k \in Slots : /\ e[k].sector \in Sectors
                            /\ e2[k].sector = e[k].sector
                            /\ e2[k].data = e[k].data
                            /\ e2[k].valid = e[k].valid,
           \A s \in Sectors : (\A k \in Slots : ~(e[k].valid /\ e[k].sector = s)) => d2[s] = d[s]
    PROVE  LatestIn(e2, d2) = LatestIn(e, d)
  <1>1. Unique(e2)
    BY DEF Unique
  <1>2. ASSUME NEW s \in Sectors PROVE LatestIn(e2, d2)[s] = LatestIn(e, d)[s]
    <2>1. CASE \E k \in Slots : e[k].valid /\ e[k].sector = s
      <3> PICK k \in Slots : e[k].valid /\ e[k].sector = s
        BY <2>1
      <3>1. LatestIn(e, d)[s] = e[k].data
        BY LatestHit
      <3>2. LatestIn(e2, d2)[s] = e2[k].data
        BY <1>1, LatestHit
      <3> QED
        BY <3>1, <3>2
    <2>2. CASE \A k \in Slots : ~(e[k].valid /\ e[k].sector = s)
      BY <2>2, LatestMiss
    <2> QED
      BY <2>1, <2>2
  <1>3. LatestIn(e2, d2) = [s \in Sectors |-> LatestIn(e, d)[s]]
    BY <1>2, LatestEqual
  <1>4. LatestIn(e, d) = [s \in Sectors |-> LatestIn(e, d)[s]]
    BY DEF LatestIn
  <1> QED
    BY <1>3, <1>4

(* In an empty cache the device has the last writes. *)
LEMMA LatestOfEmpty ==
    ASSUME device \in [Sectors -> Values]
    PROVE  LatestIn([i \in Slots |-> empty], device) = device
  BY DEF LatestIn, empty

(* The counter stays within its bound. *)
LEMMA CounterStep ==
    ASSUME counter \in 0 .. MaxCounter, counter < MaxCounter
    PROVE  counter + 1 \in 0 .. MaxCounter
  BY CacheAssumption

(* Filling a slot that held nothing, or a clean entry, with a value of a   *)
(* sector that is in no other slot changes the last write of that sector   *)
(* only.                                                                   *)
LEMMA FilledSlot ==
    ASSUME CacheInv, NEW i \in Slots, NEW s \in Sectors, NEW v \in Values,
           NEW dirt \in BOOLEAN, counter < MaxCounter,
           ~dirt => v = device[s],
           \A k \in Slots \ {i} : ~(entries[k].valid /\ entries[k].sector = s),
           ~entries[i].valid \/ ~entries[i].dirty \/ entries[i].sector = s,
           entries' = Filled(i, s, v, dirt), device' = device,
           counter' = counter + 1
    PROVE  /\ entries' \in [Slots -> CacheEntry]
           /\ \A k \in Slots : entries'[k].access_counter <= counter'
           /\ CacheSound'
           /\ Latest' = [Latest EXCEPT ![s] = v]
  <1> DEFINE fresh == [sector |-> s, data |-> v, dirty |-> dirt, valid |-> TRUE,
                     access_counter |-> counter + 1]
  <1>1. entries' = [entries EXCEPT ![i] = fresh]
    BY DEF Filled
  <1>2. /\ entries \in [Slots -> CacheEntry] /\ device \in [Sectors -> Values]
        /\ counter \in 0 .. MaxCounter /\ \A k \in Slots : entries[k].access_counter <= counter
        /\ Unique(entries) /\ Durable(entries, device)
    BY DEF CacheInv, CacheTypeOK, CacheSound, OneEntryPerSector, CleanIsDurable, Unique, Durable
  <1>3. fresh \in CacheEntry
    BY <1>2, CacheAssumption DEF CacheEntry
  <1>4. entries'[i] = fresh /\ \A k \in Slots \ {i} : entries'[k] = entries[k]
    BY <1>1, <1>2
  <1>5. entries' \in [Slots -> CacheEntry]
    BY <1>1, <1>2, <1>3
  <1>6. \A k \in Slots : entries'[k].access_counter <= counter'
    <2> SUFFICES ASSUME NEW k \in Slots PROVE entries'[k].access_counter <= counter'
      OBVIOUS
    <2>1. CASE k = i
      BY <1>2, <1>4, <2>1
    <2>2. CASE k # i
      <3>1. entries[k].access_counter \in Int
        BY <1>2 DEF CacheEntry
      <3> QED
        BY <1>2, <1>4, <2>2, <3>1
    <2> QED
      BY <2>1, <2>2
  <1>7. Unique(entries')
    BY <1>2, <1>4 DEF Unique
  <1>8. Durable(entries', device')
    BY <1>2, <1>4 DEF Durable
  <1>9. Latest' = [Latest EXCEPT ![s] = v]
    <2> DEFINE f == [Latest EXCEPT ![s] = v]
    <2>1. Latest = LatestIn(entries, device) /\ Latest' = LatestIn(entries', device')
      BY DEF Latest, LatestIn
    <2>2. \A k \in Slots : entries[k].sector \in Sectors /\ entries'[k].sector \in Sectors
      BY <1>2, <1>5 DEF CacheEntry
    <2>3. f = [t \in Sectors |-> IF t = s THEN v ELSE LatestIn(entries, device)[t]]
      BY <2>1 DEF LatestIn
    <2>4. ASSUME NEW t \in Sectors PROVE LatestIn(entries', device')[t] = f[t]
      <3>1. CASE t = s
        BY <1>4, <1>7, <2>2, <2>3, <3>1, LatestHit
      <3>2. CASE t # s
        <4>1. CASE \E k \in Slots : entries'[k].valid /\ entries'[k].sector = t
          <5> PICK k \in Slots : entries'[k].valid /\ entries'[k].sector = t
            BY <4>1
          <5>1. k # i
            BY <1>4, <3>2
          <5> QED
            BY <1>2, <1>4, <1>7, <2>2, <2>3, <3>2, <5>1, LatestHit
        <4>2. CASE \A k \in Slots : ~(entries'[k].valid /\ entries'[k].sector = t)
          <5>1. LatestIn(entries', device')[t] = device[t]
            BY <4>2, LatestMiss
          <5>2. CASE entries[i].valid /\ entries[i].sector = t
            BY <1>2, <2>2, <2>3, <3>2, <5>1, <5>2, LatestHit DEF Durable
          <5>3. CASE ~(entries[i].valid /\ entries[i].sector = t)
            BY <1>4, <2>3, <3>2, <4>2, <5>1, <5>3, LatestMiss
          <5> QED
            BY <5>2, <5>3
        <4> QED
          BY <4>1, <4>2
      <3> QED
        BY <3>1, <3>2
    <2>5. LatestIn(entries', device') = [t \in Sectors |-> f[t]]
      BY <2>4, LatestEqual
    <2> QED
      BY <2>1, <2>3, <2>5
  <1> QED
    BY <1>5, <1>6, <1>7, <1>8, <1>9
       DEF CacheSound, OneEntryPerSector, CleanIsDurable, Unique, Durable

(* Changing the access counter of a slot changes nothing else. *)
LEMMA TouchedSlot ==
    ASSUME CacheInv, NEW i \in Slots, counter < MaxCounter,
           entries' = Touched(i), device' = device, counter' = counter + 1
    PROVE  /\ entries' \in [Slots -> CacheEntry]
           /\ \A k \in Slots : entries'[k].access_counter <= counter'
           /\ CacheSound'
           /\ Latest' = Latest
  <1>1. /\ entries \in [Slots -> CacheEntry] /\ counter \in 0 .. MaxCounter
        /\ \A k \in Slots : entries[k].access_counter <= counter
        /\ Unique(entries) /\ Durable(entries, device)
    BY DEF CacheInv, CacheTypeOK, CacheSound, OneEntryPerSector, CleanIsDurable, Unique, Durable
  <1>2. \A k \in Slots : /\ entries'[k].sector = entries[k].sector
                         /\ entries'[k].data = entries[k].data
                         /\ entries'[k].dirty = entries[k].dirty
                         /\ entries'[k].valid = entries[k].valid
                         /\ entries'[k].access_counter = IF k = i THEN counter + 1
                                                        ELSE entries[k].access_counter
    BY <1>1 DEF Touched
  <1>3. entries' \in [Slots -> CacheEntry]
    BY <1>1, CacheAssumption DEF Touched, CacheEntry
  <1>4. \A k \in Slots : entries'[k].access_counter <= counter'
    <2> SUFFICES ASSUME NEW k \in Slots PROVE entries'[k].access_counter <= counter'
      OBVIOUS
    <2>1. entries[k].access_counter \in Int
      BY <1>1 DEF CacheEntry
    <2> QED
      BY <1>1, <1>2, <2>1
  <1>5. CacheSound'
    BY <1>1, <1>2 DEF CacheSound, OneEntryPerSector, CleanIsDurable, Unique, Durable
  <1>6. Latest' = Latest
    <2>1. \A k \in Slots : entries[k].sector \in Sectors
      BY <1>1 DEF CacheEntry
    <2>2. LatestIn(entries', device') = LatestIn(entries, device)
      BY <1>1, <1>2, <2>1, LatestKept
    <2> QED
      BY <2>2 DEF Latest, LatestIn
  <1> QED
    BY <1>3, <1>4, <1>5, <1>6

-----------------------------------------------------------------------------
(* One lemma per operation: it keeps the invariant and is a step of the    *)
(* store.                                                                  *)

(* A hit answers the slot's value, the last one written. *)
LEMMA ReadHit ==
    ASSUME CacheInv, NEW s \in Sectors, counter < MaxCounter, read_hit(s)
    PROVE  CacheInv' /\ Store!Read(s)
  <1>1. PICK i \in find(s) : /\ entries' = Touched(i) /\ counter' = counter + 1
                             /\ cache_answer' = <<s, entries[i].data>> /\ device' = device
    BY DEF read_hit
  <1>2. i \in Slots /\ entries[i].valid /\ entries[i].sector = s
    BY <1>1, FoundHolds
  <1>3. /\ entries' \in [Slots -> CacheEntry]
        /\ \A k \in Slots : entries'[k].access_counter <= counter'
        /\ CacheSound' /\ Latest' = Latest
    BY <1>1, <1>2, TouchedSlot
  <1>4. entries[i].data \in Values
    BY <1>2 DEF CacheInv, CacheTypeOK, CacheEntry
  <1>5. CacheTypeOK'
    <2>1. counter' \in 0 .. MaxCounter
      BY <1>1, CounterStep DEF CacheInv, CacheTypeOK
    <2>2. device' \in [Sectors -> Values]
      BY <1>1 DEF CacheInv, CacheTypeOK
    <2>3. cache_answer' \in (Sectors \X Values) \cup {NoAnswer}
      BY <1>1, <1>4
    <2> QED
      BY <1>3, <2>1, <2>2, <2>3 DEF CacheTypeOK
  <1>6. Latest[s] = entries[i].data
    BY <1>2, LatestHit
       DEF CacheInv, CacheSound, OneEntryPerSector, Unique, Latest, LatestIn
  <1> QED
    BY <1>1, <1>3, <1>5, <1>6 DEF CacheInv, Store!Read

(* A miss answers the device's value, the last one written, and the slot   *)
(* it takes gives nothing up.                                              *)
LEMMA ReadMiss ==
    ASSUME CacheInv, NEW s \in Sectors, NEW ok \in BOOLEAN, counter < MaxCounter, read_miss(s, ok)
    PROVE  CacheInv' /\ Store!Read(s)
  <1>1. PICK i \in find_lru_victim : /\ entries' = Filled(i, s, device[s], FALSE)
                                     /\ device' = Evicted(i, ok)
    BY DEF read_miss
  <1>2. i \in Slots /\ (~entries[i].valid \/ ~entries[i].dirty) /\ device' = device
    BY <1>1, VictimIsClean DEF CacheInv
  <1>3. \A k \in Slots : ~(entries[k].valid /\ entries[k].sector = s)
    BY NotFound DEF read_miss
  <1>4. device[s] \in Values /\ device \in [Sectors -> Values] /\ counter \in 0 .. MaxCounter
    BY DEF CacheInv, CacheTypeOK
  <1>5. /\ counter' = counter + 1 /\ cache_answer' = <<s, device[s]>>
    BY DEF read_miss
  <1>6. /\ entries' \in [Slots -> CacheEntry]
        /\ \A k \in Slots : entries'[k].access_counter <= counter'
        /\ CacheSound' /\ Latest' = [Latest EXCEPT ![s] = device[s]]
    BY <1>1, <1>2, <1>3, <1>4, <1>5, FilledSlot
  <1>7. Latest[s] = device[s] /\ Latest = [t \in Sectors |-> Latest[t]]
    BY <1>3 DEF Latest
  <1>8. Latest' = Latest
    BY <1>6, <1>7
  <1>9. CacheTypeOK'
    BY <1>2, <1>4, <1>5, <1>6, CacheAssumption DEF CacheTypeOK
  <1> QED
    BY <1>2, <1>5, <1>6, <1>7, <1>8, <1>9 DEF CacheInv, Store!Read

(* A read that fails changes nothing but its answer. *)
LEMMA ReadNone ==
    ASSUME CacheInv, NEW s \in Sectors, NEW failed \in BOOLEAN, read_none(s, failed)
    PROVE  CacheInv' /\ Store!Read(s)
  <1>1. cache_answer' = NoAnswer /\ UNCHANGED <<entries, counter, device>>
    BY DEF read_none
  <1>2. CacheInv'
    BY <1>1 DEF CacheInv, CacheTypeOK, CacheSound, OneEntryPerSector, CleanIsDurable
  <1>3. Latest' = Latest
    BY <1>1 DEF Latest
  <1> QED
    BY <1>1, <1>2, <1>3 DEF Store!Read

(* A write is seen by the next read, and by nobody else's. *)
LEMMA WriteStep ==
    ASSUME CacheInv, NEW s \in Sectors, NEW v \in Values, write_cached(s, v)
    PROVE  CacheInv' /\ Store!Write(s, v)
  <1>1. /\ counter < MaxCounter /\ counter' = counter + 1 /\ cache_answer' = cache_answer
    BY DEF write_cached
  <1>2. PICK i \in Slots : /\ entries' = Filled(i, s, v, TRUE) /\ device' = device
                           /\ \A k \in Slots \ {i} : ~(entries[k].valid /\ entries[k].sector = s)
                           /\ ~entries[i].valid \/ ~entries[i].dirty \/ entries[i].sector = s
    <2>1. ASSUME NEW i \in find(s), entries' = Updated(i, s, v), device' = device
          PROVE  /\ i \in Slots /\ entries' = Filled(i, s, v, TRUE) /\ device' = device
                 /\ \A k \in Slots \ {i} : ~(entries[k].valid /\ entries[k].sector = s)
                 /\ ~entries[i].valid \/ ~entries[i].dirty \/ entries[i].sector = s
      BY <2>1, FoundHolds DEF Updated, CacheInv, CacheSound, OneEntryPerSector
    <2>2. ASSUME NEW i \in find_lru_victim, NEW ok \in BOOLEAN, find(s) = {},
                 entries' = Updated(i, s, v), device' = Evicted(i, ok)
          PROVE  /\ i \in Slots /\ entries' = Filled(i, s, v, TRUE) /\ device' = device
                 /\ \A k \in Slots \ {i} : ~(entries[k].valid /\ entries[k].sector = s)
                 /\ ~entries[i].valid \/ ~entries[i].dirty \/ entries[i].sector = s
      BY <2>2, VictimIsClean, NotFound DEF Updated, CacheInv
    <2> QED
      BY <2>1, <2>2 DEF write_cached
  <1>3. /\ entries' \in [Slots -> CacheEntry]
        /\ \A k \in Slots : entries'[k].access_counter <= counter'
        /\ CacheSound' /\ Latest' = [Latest EXCEPT ![s] = v]
    BY <1>1, <1>2, FilledSlot, ZenonT(30)
  <1>4. CacheTypeOK'
    <2>1. counter' \in 0 .. MaxCounter
      BY <1>1, CounterStep DEF CacheInv, CacheTypeOK
    <2>2. device' \in [Sectors -> Values] /\ cache_answer' \in (Sectors \X Values) \cup {NoAnswer}
      BY <1>1, <1>2 DEF CacheInv, CacheTypeOK
    <2> QED
      BY <1>3, <2>1, <2>2 DEF CacheTypeOK
  <1> QED
    BY <1>1, <1>2, <1>3, <1>4 DEF CacheInv, Store!Write

(* flush_all writes back the sectors of the entries that did not fail, and *)
(* the ones that failed stay dirty.                                        *)
LEMMA FlushStep ==
    ASSUME CacheInv, NEW done \in SUBSET Dirty, flush_all(done)
    PROVE  CacheInv' /\ Store!WriteBack({entries[i].sector : i \in done})
  <1> DEFINE S == {entries[i].sector : i \in done}
  <1>1. /\ entries \in [Slots -> CacheEntry] /\ device \in [Sectors -> Values]
        /\ \A k \in Slots : entries[k].sector \in Sectors /\ entries[k].data \in Values
        /\ Unique(entries) /\ Durable(entries, device)
    BY DEF CacheInv, CacheTypeOK, CacheEntry, CacheSound, OneEntryPerSector, CleanIsDurable,
           Unique, Durable
  <1>2. done \subseteq Slots /\ \A i \in done : entries[i].valid /\ entries[i].dirty
    BY DEF Dirty
  <1>3. \A k \in Slots : /\ entries'[k].sector = entries[k].sector
                         /\ entries'[k].data = entries[k].data
                         /\ entries'[k].dirty = (entries[k].dirty /\ k \notin done)
                         /\ entries'[k].valid = entries[k].valid
                         /\ entries'[k].access_counter = entries[k].access_counter
    BY DEF flush_all, Cleaned
  <1>4. entries' \in [Slots -> CacheEntry]
    BY <1>1 DEF flush_all, Cleaned, CacheEntry
  <1>5. \A i \in done : device'[entries[i].sector] = entries[i].data
    <2> SUFFICES ASSUME NEW i \in done PROVE device'[entries[i].sector] = entries[i].data
      OBVIOUS
    <2> DEFINE s == entries[i].sector
               j == CHOOSE k \in done : entries[k].sector = s
    <2>1. j \in done /\ entries[j].sector = s
      OBVIOUS
    <2>2. j = i
      BY <1>1, <1>2, <2>1 DEF Unique
    <2>3. device'[s] = entries[j].data
      BY <1>1, <1>2, <2>1 DEF flush_all
    <2> QED
      BY <2>2, <2>3
  <1>6. \A s \in Sectors : s \notin S => device'[s] = device[s]
    BY DEF flush_all
  <1>7. device' \in [Sectors -> Values]
    <2>1. \A s \in Sectors : device'[s] \in Values
      BY <1>1, <1>2, <1>5, <1>6
    <2> QED
      BY <2>1 DEF flush_all
  <1>8. Unique(entries')
    BY <1>1, <1>3 DEF Unique
  <1>9. Durable(entries', device')
    <2> SUFFICES ASSUME NEW k \in Slots, entries'[k].valid, ~entries'[k].dirty
                 PROVE  entries'[k].data = device'[entries'[k].sector]
      BY DEF Durable
    <2>1. CASE k \in done
      BY <1>3, <1>5, <2>1
    <2>2. CASE k \notin done
      <3>1. entries[k].sector \notin S
        BY <1>1, <1>2, <1>3, <2>2 DEF Unique
      <3>2. entries[k].valid /\ ~entries[k].dirty
        BY <1>3, <2>2
      <3> QED
        BY <1>1, <1>3, <1>6, <3>1, <3>2 DEF Durable
    <2> QED
      BY <2>1, <2>2
  <1>10. CacheInv'
    <2>1. \A k \in Slots : entries'[k].access_counter <= counter'
      BY <1>3 DEF flush_all, CacheInv, CacheTypeOK
    <2>2. counter' \in 0 .. MaxCounter /\ cache_answer' \in (Sectors \X Values) \cup {NoAnswer}
      BY DEF flush_all, CacheInv, CacheTypeOK
    <2> QED
      BY <1>4, <1>7, <1>8, <1>9, <2>1, <2>2
         DEF CacheInv, CacheTypeOK, CacheSound, OneEntryPerSector, CleanIsDurable, Unique, Durable
  <1>11. Latest' = Latest
    <2>1. Latest = LatestIn(entries, device) /\ Latest' = LatestIn(entries', device')
      BY DEF Latest, LatestIn
    <2>2. \A s \in Sectors : (\A k \in Slots : ~(entries[k].valid /\ entries[k].sector = s))
             => device'[s] = device[s]
      BY <1>2, <1>6
    <2>3. LatestIn(entries', device') = LatestIn(entries, device)
      BY <1>1, <1>3, <2>2, LatestKept
    <2> QED
      BY <2>1, <2>3
  <1>12. device' = [s \in Sectors |-> IF s \in S THEN Latest[s] ELSE device[s]]
    <2>1. ASSUME NEW s \in Sectors PROVE device'[s] = IF s \in S THEN Latest[s] ELSE device[s]
      <3>1. CASE s \in S
        <4> PICK i \in done : entries[i].sector = s
          BY <3>1
        <4>1. LatestIn(entries, device)[s] = entries[i].data
          BY <1>1, <1>2, LatestHit
        <4>2. Latest = LatestIn(entries, device)
          BY DEF Latest, LatestIn
        <4> QED
          BY <1>5, <3>1, <4>1, <4>2
      <3> QED
        BY <1>6, <3>1
    <2>2. device' = [s \in Sectors |-> device'[s]]
      BY <1>7
    <2> QED
      BY <2>1, <2>2
  <1> QED
    BY <1>10, <1>11, <1>12 DEF flush_all, Store!WriteBack

(* A cache with nothing in it. *)
LEMMA EmptyCache ==
    /\ [i \in Slots |-> empty] \in [Slots -> CacheEntry]
    /\ ~empty.valid /\ empty.access_counter = 0
  BY CacheAssumption DEF empty, CacheEntry

(* A restart forgets what was not written back. *)
LEMMA RestartStep ==
    ASSUME CacheInv, restart
    PROVE  CacheInv' /\ Store!Restart
  <1>1. /\ entries' = [i \in Slots |-> empty] /\ counter' = 0
        /\ cache_answer' = NoAnswer /\ device' = device
    BY DEF restart
  <1>2. device \in [Sectors -> Values]
    BY DEF CacheInv, CacheTypeOK
  <1>3. CacheInv'
    BY <1>1, <1>2, EmptyCache, CacheAssumption
       DEF CacheInv, CacheTypeOK, CacheSound, OneEntryPerSector, CleanIsDurable
  <1>4. Latest' = LatestIn([i \in Slots |-> empty], device)
    BY <1>1 DEF Latest, LatestIn
  <1> QED
    BY <1>1, <1>2, <1>3, <1>4, LatestOfEmpty DEF Store!Restart

-----------------------------------------------------------------------------
(* Every step keeps the invariant and is a step of the store. *)
LEMMA CacheStep ==
    ASSUME CacheInv, [CacheNext]_cache_vars
    PROVE  CacheInv' /\ [Store!Next]_<<Latest, device, cache_answer>>
  <1>1. ASSUME NEW s \in Sectors, read_cached(s)
        PROVE  CacheInv' /\ Store!Next
    BY <1>1, ReadHit, ReadMiss, ReadNone DEF read_cached, Store!Next
  <1>2. ASSUME NEW s \in Sectors, NEW v \in Values, write_cached(s, v)
        PROVE  CacheInv' /\ Store!Next
    BY <1>2, WriteStep DEF Store!Next
  <1>3. ASSUME NEW done \in SUBSET Dirty, flush_all(done)
        PROVE  CacheInv' /\ Store!Next
    <2>1. {entries[i].sector : i \in done} \in SUBSET Sectors
      BY DEF Dirty, CacheInv, CacheTypeOK, CacheEntry
    <2> QED
      BY <1>3, <2>1, FlushStep DEF Store!Next
  <1>4. CASE restart
    BY <1>4, RestartStep DEF Store!Next
  <1>5. CASE UNCHANGED cache_vars
    <2>1. CacheInv'
      BY <1>5 DEF cache_vars, CacheInv, CacheTypeOK, CacheSound, OneEntryPerSector, CleanIsDurable
    <2>2. UNCHANGED <<Latest, device, cache_answer>>
      BY <1>5 DEF cache_vars, Latest
    <2> QED
      BY <2>1, <2>2
  <1> QED
    BY <1>1, <1>2, <1>3, <1>4, <1>5 DEF CacheNext

(* The initial states. *)
LEMMA CacheStart == ASSUME CacheInit PROVE CacheInv /\ Store!Init
  <1>1. /\ entries = [i \in Slots |-> empty] /\ counter = 0
        /\ device \in [Sectors -> Values] /\ cache_answer = NoAnswer
    BY DEF CacheInit
  <1>2. CacheInv
    BY <1>1, EmptyCache, CacheAssumption
       DEF CacheInv, CacheTypeOK, CacheSound, OneEntryPerSector, CleanIsDurable
  <1>3. Latest = LatestIn([i \in Slots |-> empty], device)
    BY <1>1 DEF Latest, LatestIn
  <1> QED
    BY <1>1, <1>2, <1>3, LatestOfEmpty DEF Store!Init

(* In every reachable state of the cache the types hold, no sector is in   *)
(* two slots, and every clean entry agrees with its device, so that        *)
(* find_lru_victim never gives up the only copy of a write.                *)
THEOREM CacheIsSound == CacheSpec => [](CacheTypeOK /\ CacheSound)
  <1>1. CacheInv /\ [CacheNext]_cache_vars => CacheInv'
    BY CacheStep
  <1>2. CacheInit => CacheInv
    BY CacheStart
  <1> QED
    BY <1>1, <1>2, PTL DEF CacheSpec, CacheInv

(* The sector cache implements the store: through hits, misses, evictions, *)
(* devices that fail, partial flushes and restarts, read_cached answers    *)
(* the last write_cached or nothing, and only a restart loses a write.     *)
THEOREM CacheRefinesStore == CacheSpec => ImplementsStore
  <1>1. CacheInv /\ [CacheNext]_cache_vars => CacheInv'
    BY CacheStep
  <1>2. CacheInit => CacheInv /\ Store!Init
    BY CacheStart
  <1>3. CacheInv /\ [CacheNext]_cache_vars => [Store!Next]_<<Latest, device, cache_answer>>
    BY CacheStep
  <1>4. [Store!Next]_<<Latest, device, cache_answer>> => [Store!Next]_(Store!vars)
    BY DEF Store!vars
  <1> QED
    BY <1>1, <1>2, <1>3, <1>4, PTL DEF CacheSpec, ImplementsStore, Store!Spec

-----------------------------------------------------------------------------
(***************************************************************************)
(* Virtqueues.  The inductive invariant VqInv says of each queue, as sets, *)
(* what OneOwner says of its places as sequences, and counts them, so that *)
(* no ring is ever asked to hold more than VQ_SIZE.  While a disk request  *)
(* is under way the block queue has three descriptors out of its free      *)
(* list, linked from the one that is in a ring; a finished request has the *)
(* sector and the buffer agree.  The rings' indices wrap at IdxSpan, which *)
(* VQ_SIZE divides, so the slot of an index is not disturbed by the wrap.  *)
(***************************************************************************)

(* ------------------------------------------------------ ring arithmetic *)
LEMMA ModRange == ASSUME NEW n \in Nat \ {0}, NEW a \in Int PROVE a % n \in 0 .. n - 1
OBVIOUS

LEMMA ModSmall == ASSUME NEW n \in Nat \ {0}, NEW a \in 0 .. n - 1 PROVE a % n = a
OBVIOUS

LEMMA ModIs == ASSUME NEW n \in Nat \ {0}, NEW q \in Int, NEW r \in 0 .. n - 1 PROVE (n * q + r) % n = r
OBVIOUS

LEMMA ModTimes ==
    ASSUME NEW n \in Nat \ {0}, NEW a \in Int, NEW q \in Int
    PROVE  (a + n * q) % n = a % n
<1>1. PICK p \in Int, r \in 0 .. n - 1 : a = n * p + r /\ r = a % n
  <2>1. a = n * (a \div n) + (a % n) /\ a \div n \in Int /\ a % n \in 0 .. n - 1
    OBVIOUS
  <2>2. QED BY <2>1
<1>2. a + n * q = n * (p + q) + r
  BY <1>1
<1>3. p + q \in Int
  OBVIOUS
<1>4. (n * (p + q) + r) % n = r
  BY <1>3, ModIs
<1>5. QED BY <1>1, <1>2, <1>4

LEMMA ModApart ==
    ASSUME NEW n \in Nat \ {0}, NEW a \in Int, NEW d \in 1 .. n - 1
    PROVE  (a + d) % n # a % n
<1>1. SUFFICES ASSUME (a + d) % n = a % n PROVE FALSE
  OBVIOUS
<1>2. PICK p \in Int : a = n * p + (a % n)
  <2>1. a = n * (a \div n) + (a % n) /\ a \div n \in Int
    OBVIOUS
  <2>2. QED BY <2>1
<1>3. PICK q \in Int : a + d = n * q + ((a + d) % n)
  <2>1. a + d = n * ((a + d) \div n) + ((a + d) % n) /\ (a + d) \div n \in Int
    OBVIOUS
  <2>2. QED BY <2>1
<1>4. a % n \in Int
  BY ModRange
<1>5. d = n * q - n * p
  BY <1>1, <1>2, <1>3, <1>4
<1>6. d = n * (q - p)
  BY <1>5
<1>7. q - p >= 1 \/ q - p <= 0
  OBVIOUS
<1>8. \A k \in Int : k >= 1 => n * k >= n
  OBVIOUS
<1>9. \A k \in Int : k <= 0 => n * k <= 0
  OBVIOUS
<1>10. q - p \in Int
  OBVIOUS
<1>11. QED BY <1>6, <1>7, <1>8, <1>9, <1>10

Index == 0 .. IdxSpan - 1

LEMMA Sizes == /\ VQ_SIZE \in Nat \ {0} /\ VQ_SIZE >= 3 /\ IdxSpan \in Nat \ {0} /\ IdxSpan > VQ_SIZE
               /\ \E c \in Int : IdxSpan = VQ_SIZE * c
<1>1. /\ VQ_SIZE \in Nat \ {0} /\ VQ_SIZE >= 3 /\ IdxSpan \in Nat \ {0} /\ IdxSpan > VQ_SIZE /\ IdxSpan % VQ_SIZE = 0
  BY VirtioAssumption
<1>2. IdxSpan = VQ_SIZE * (IdxSpan \div VQ_SIZE) + (IdxSpan % VQ_SIZE) /\ IdxSpan \div VQ_SIZE \in Int
  BY <1>1
<1>3. VQ_SIZE * (IdxSpan \div VQ_SIZE) \in Int
  BY <1>1, <1>2
<1>4. IdxSpan = VQ_SIZE * (IdxSpan \div VQ_SIZE)
  BY <1>1, <1>2, <1>3
<1>5. QED BY <1>1, <1>2, <1>4

LEMMA Period == ASSUME NEW a \in Int PROVE (a + IdxSpan) % VQ_SIZE = a % VQ_SIZE
BY Sizes, ModTimes

LEMMA Next1 == ASSUME NEW a \in Index
               PROVE  /\ (a + 1) % IdxSpan \in Index
                      /\ (a + 1) % IdxSpan = IF a = IdxSpan - 1 THEN 0 ELSE a + 1
<1>1. IdxSpan \in Nat \ {0}
  BY Sizes
<1>2. CASE a = IdxSpan - 1
  <2>1. a + 1 = IdxSpan * 1 + 0
    BY <1>1, <1>2
  <2>2. (IdxSpan * 1 + 0) % IdxSpan = 0
    BY <1>1, ModIs
  <2>3. QED BY <1>1, <1>2, <2>1, <2>2 DEF Index
<1>3. CASE a # IdxSpan - 1
  <2>1. a + 1 \in 0 .. IdxSpan - 1
    BY <1>1, <1>3 DEF Index
  <2>2. QED BY <1>1, <1>3, <2>1, ModSmall DEF Index
<1>4. QED BY <1>2, <1>3

LEMMA SpanIs == ASSUME NEW f \in Index, NEW t \in Index
                PROVE  /\ Span(f, t) = IF t >= f THEN t - f ELSE (t - f) + IdxSpan
                       /\ Span(f, t) \in Index
<1>1. IdxSpan \in Nat \ {0} /\ f \in Int /\ t \in Int
  BY Sizes DEF Index
<1>2. CASE t >= f
  <2>1. t - f \in 0 .. IdxSpan - 1
    BY <1>1, <1>2 DEF Index
  <2>2. QED BY <1>1, <1>2, <2>1, ModSmall DEF Span, Index
<1>3. CASE ~(t >= f)
  <2>1. (t - f) + IdxSpan \in 0 .. IdxSpan - 1
    BY <1>1, <1>3 DEF Index
  <2>2. t - f = ((t - f) + IdxSpan) + IdxSpan * (-1) /\ -1 \in Int /\ (t - f) + IdxSpan \in Int
    BY <1>1
  <2>3. (((t - f) + IdxSpan) + IdxSpan * (-1)) % IdxSpan = ((t - f) + IdxSpan) % IdxSpan
    BY <1>1, <2>2, ModTimes
  <2>4. ((t - f) + IdxSpan) % IdxSpan = (t - f) + IdxSpan
    BY <1>1, <2>1, ModSmall
  <2>5. QED BY <1>3, <2>1, <2>2, <2>3, <2>4 DEF Span, Index
<1>4. QED BY <1>2, <1>3

(* The distance of two indices of a ring. *)
LEMMA Spans ==
    ASSUME NEW f \in Index, NEW t \in Index
    PROVE  /\ Span(f, t) \in Nat
           /\ Span(f, t) = 0 <=> f = t
           /\ Span(f, t) < IdxSpan - 1 => Span(f, (t + 1) % IdxSpan) = Span(f, t) + 1
           /\ f # t => Span((f + 1) % IdxSpan, t) = Span(f, t) - 1
<1>1. IdxSpan \in Nat \ {0} /\ f \in Int /\ t \in Int /\ 0 <= f /\ 0 <= t /\ f < IdxSpan /\ t < IdxSpan
  BY Sizes DEF Index
<1>2. /\ Span(f, t) = IF t >= f THEN t - f ELSE (t - f) + IdxSpan
      /\ Span(f, t) \in Index
  BY SpanIs
<1> DEFINE u == (t + 1) % IdxSpan
           g == (f + 1) % IdxSpan
<1>3. u \in Index /\ u = (IF t = IdxSpan - 1 THEN 0 ELSE t + 1) /\ g \in Index /\ g = IF f = IdxSpan - 1 THEN 0 ELSE f + 1
  BY Next1
<1> HIDE DEF u, g
<1>4. /\ Span(f, u) = IF u >= f THEN u - f ELSE (u - f) + IdxSpan
      /\ Span(g, t) = IF t >= g THEN t - g ELSE (t - g) + IdxSpan
  BY <1>3, SpanIs
<1>5. Span(f, t) \in Nat /\ (Span(f, t) = 0 <=> f = t)
  BY <1>1, <1>2 DEF Index
<1>6. ASSUME Span(f, t) < IdxSpan - 1 PROVE Span(f, u) = Span(f, t) + 1
  BY <1>1, <1>2, <1>3, <1>4, <1>6
<1>7. ASSUME f # t PROVE Span(g, t) = Span(f, t) - 1
  BY <1>1, <1>2, <1>3, <1>4, <1>7
<1>8. QED BY <1>5, <1>6, <1>7 DEF u, g

(* The slots of a ring: the k-th from index f. *)
Slot(f, k) == (f + k - 1) % VQ_SIZE

LEMMA SlotIs ==
    ASSUME NEW f \in Index, NEW k \in Nat
    PROVE  /\ Slot(f, k) \in Desc
           /\ Slot((f + 1) % IdxSpan, k) = Slot(f, k + 1)
           /\ Slot(f, 1) = f % VQ_SIZE
<1>1. IdxSpan \in Nat \ {0} /\ VQ_SIZE \in Nat \ {0} /\ f \in Int
  BY Sizes DEF Index
<1>2. Slot(f, k) \in Desc
  BY <1>1, ModRange DEF Slot, Desc
<1>3. Slot(f, 1) = f % VQ_SIZE
  <2>1. f + 1 - 1 = f
    BY <1>1
  <2>2. QED BY <2>1 DEF Slot
<1>4. Slot((f + 1) % IdxSpan, k) = Slot(f, k + 1)
  <2> DEFINE g == (f + 1) % IdxSpan
  <2>1. g = IF f = IdxSpan - 1 THEN 0 ELSE f + 1
    BY Next1
  <2> HIDE DEF g
  <2>2. CASE f = IdxSpan - 1
    <3>1. f + (k + 1) - 1 = (g + k - 1) + IdxSpan /\ g + k - 1 \in Int
      BY <1>1, <2>1, <2>2
    <3>2. QED BY <3>1, Period DEF Slot, g
  <2>3. CASE f # IdxSpan - 1
    <3>1. g + k - 1 = f + (k + 1) - 1
      BY <1>1, <2>1, <2>3
    <3>2. QED BY <3>1 DEF Slot, g
  <2>4. QED BY <2>2, <2>3
<1>5. QED BY <1>2, <1>3, <1>4

LEMMA SlotsApart ==
    ASSUME NEW f \in Index, NEW j \in 1 .. VQ_SIZE, NEW k \in 1 .. VQ_SIZE, j # k
    PROVE  Slot(f, j) # Slot(f, k)
<1>1. VQ_SIZE \in Nat \ {0} /\ f \in Int
  BY Sizes DEF Index
<1>2. CASE j < k
  <2>1. k - j \in 1 .. VQ_SIZE - 1 /\ f + j - 1 \in Int /\ (f + j - 1) + (k - j) = f + k - 1
    BY <1>1, <1>2
  <2>2. ((f + j - 1) + (k - j)) % VQ_SIZE # (f + j - 1) % VQ_SIZE
    BY <1>1, <2>1, ModApart
  <2>3. QED BY <2>1, <2>2 DEF Slot
<1>3. CASE k < j
  <2>1. j - k \in 1 .. VQ_SIZE - 1 /\ f + k - 1 \in Int /\ (f + k - 1) + (j - k) = f + j - 1
    BY <1>1, <1>3
  <2>2. ((f + k - 1) + (j - k)) % VQ_SIZE # (f + k - 1) % VQ_SIZE
    BY <1>1, <2>1, ModApart
  <2>3. QED BY <2>1, <2>2 DEF Slot
<1>4. j < k \/ k < j
  BY <1>1
<1>5. QED BY <1>2, <1>3, <1>4

(* The index t itself is the slot behind the last one. *)
LEMMA EndSlot ==
    ASSUME NEW f \in Index, NEW t \in Index
    PROVE  /\ t % VQ_SIZE = Slot(f, Span(f, t) + 1)
           /\ (((t + 1) % IdxSpan) - 1) % VQ_SIZE = t % VQ_SIZE
<1>1. IdxSpan \in Nat \ {0} /\ VQ_SIZE \in Nat \ {0} /\ f \in Int /\ t \in Int
  BY Sizes DEF Index
<1>2. Span(f, t) = (IF t >= f THEN t - f ELSE (t - f) + IdxSpan) /\ Span(f, t) \in Nat
  BY SpanIs, Spans
<1>3. t % VQ_SIZE = Slot(f, Span(f, t) + 1)
  <2>1. CASE t >= f
    <3>1. f + (Span(f, t) + 1) - 1 = t
      BY <1>1, <1>2, <2>1
    <3>2. QED BY <3>1 DEF Slot
  <2>2. CASE ~(t >= f)
    <3>1. f + (Span(f, t) + 1) - 1 = t + IdxSpan
      BY <1>1, <1>2, <2>2
    <3>2. QED BY <1>1, <3>1, Period DEF Slot
  <2>3. QED BY <2>1, <2>2
<1>4. (((t + 1) % IdxSpan) - 1) % VQ_SIZE = t % VQ_SIZE
  <2>1. CASE t = IdxSpan - 1
    <3>1. (t + 1) % IdxSpan = 0
      BY <2>1, Next1
    <3>2. (0 - 1) + IdxSpan = t /\ 0 - 1 \in Int
      BY <1>1, <2>1
    <3>3. ((0 - 1) + IdxSpan) % VQ_SIZE = (0 - 1) % VQ_SIZE
      BY <3>2, Period
    <3>4. QED BY <3>1, <3>2, <3>3
  <2>2. CASE t # IdxSpan - 1
    <3>1. (t + 1) % IdxSpan = t + 1
      BY <2>2, Next1
    <3>2. (t + 1) - 1 = t
      BY <1>1
    <3>3. QED BY <3>1, <3>2
  <2>3. QED BY <2>1, <2>2
<1>5. QED BY <1>3, <1>4

(* --------------------------------------------------- places as sequences *)
(* One element leaves a sequence of distinct ones. *)
Drop(D, n, f, i, g) ==
    /\ n \in Nat /\ f \in [1 .. n -> D] /\ i \in 1 .. n /\ g \in [1 .. n - 1 -> D] /\ IsInjective(f)
    /\ \A k \in 1 .. n - 1 : g[k] = IF k < i THEN f[k] ELSE f[k + 1]

LEMMA Dropped ==
    ASSUME NEW D, NEW n, NEW f, NEW i, NEW g, Drop(D, n, f, i, g)
    PROVE  IsInjective(g) /\ ToSet(g) = ToSet(f) \ {f[i]} /\ f[i] \in ToSet(f)
<1>0. PICK m \in Int : m = n - 1
  BY DEF Drop
<1> SUFFICES ASSUME n \in Nat, n = m + 1, f \in [1 .. n -> D], i \in 1 .. n, g \in [1 .. m -> D], IsInjective(f),
                    \A k \in 1 .. m : g[k] = IF k < i THEN f[k] ELSE f[k + 1]
             PROVE  IsInjective(g) /\ ToSet(g) = ToSet(f) \ {f[i]} /\ f[i] \in ToSet(f)
  BY <1>0 DEF Drop
<1>1. \A j, k \in 1 .. n : f[j] = f[k] => j = k
  BY DEF IsInjective
<1>2. IsInjective(g)
  <2>1. SUFFICES ASSUME NEW j \in 1 .. m, NEW k \in 1 .. m, g[j] = g[k] PROVE j = k
    BY DEF IsInjective
  <2>2. j \in 1 .. n /\ j + 1 \in 1 .. n /\ k \in 1 .. n /\ k + 1 \in 1 .. n
    OBVIOUS
  <2>3. (IF j < i THEN j ELSE j + 1) = IF k < i THEN k ELSE k + 1
    BY <1>1, <2>1, <2>2
  <2>4. QED BY <2>3
<1>3. ASSUME NEW x PROVE x \in ToSet(g) <=> x \in ToSet(f) /\ x # f[i]
  <2>1. ASSUME x \in ToSet(g) PROVE x \in ToSet(f) /\ x # f[i]
    <3>1. PICK k \in 1 .. m : x = g[k]
      BY <2>1 DEF ToSet
    <3>2. k \in 1 .. n /\ k + 1 \in 1 .. n
      OBVIOUS
    <3>3. CASE k < i
      <4>1. x = f[k] /\ k # i
        BY <3>1, <3>3
      <4>2. QED BY <1>1, <3>2, <4>1 DEF ToSet
    <3>4. CASE ~(k < i)
      <4>1. x = f[k + 1] /\ k + 1 # i
        BY <3>1, <3>4
      <4>2. QED BY <1>1, <3>2, <4>1 DEF ToSet
    <3>5. QED BY <3>3, <3>4
  <2>2. ASSUME x \in ToSet(f), x # f[i] PROVE x \in ToSet(g)
    <3>1. PICK k \in 1 .. n : x = f[k] /\ k # i
      BY <2>2 DEF ToSet
    <3>2. CASE k < i
      <4>1. k \in 1 .. m /\ g[k] = x
        BY <3>1, <3>2
      <4>2. QED BY <4>1 DEF ToSet
    <3>3. CASE ~(k < i)
      <4>1. k - 1 \in 1 .. m /\ ~(k - 1 < i) /\ (k - 1) + 1 = k
        BY <3>1, <3>3
      <4>2. g[k - 1] = x
        BY <3>1, <4>1
      <4>3. QED BY <4>1, <4>2 DEF ToSet
    <3>4. QED BY <3>2, <3>3
  <2>3. QED BY <2>1, <2>2
<1>4. f[i] \in ToSet(f)
  BY DEF ToSet
<1>5. QED BY <1>2, <1>3, <1>4

(* One element joins it at the end. *)
Add(D, n, f, x, g) ==
    /\ n \in Nat /\ f \in [1 .. n -> D] /\ IsInjective(f) /\ x \in D
    /\ g \in [1 .. n + 1 -> D] /\ g[n + 1] = x /\ \A k \in 1 .. n : g[k] = f[k]

LEMMA Added ==
    ASSUME NEW D, NEW n, NEW f, NEW x, NEW g, Add(D, n, f, x, g), x \notin ToSet(f)
    PROVE  IsInjective(g) /\ ToSet(g) = ToSet(f) \cup {x}
<1> USE DEF Add
<1>1. \A j, k \in 1 .. n : f[j] = f[k] => j = k
  BY DEF IsInjective
<1>2. \A k \in 1 .. n : f[k] # x
  BY DEF ToSet
<1>3. \A k \in 1 .. n + 1 : k = n + 1 \/ k \in 1 .. n
  OBVIOUS
<1>4. IsInjective(g)
  <2>1. SUFFICES ASSUME NEW j \in 1 .. n + 1, NEW k \in 1 .. n + 1, g[j] = g[k] PROVE j = k
    BY DEF IsInjective
  <2>2. QED BY <1>1, <1>2, <1>3, <2>1
<1>5. ASSUME NEW y PROVE y \in ToSet(g) <=> y \in ToSet(f) \/ y = x
  <2>1. 1 .. n \subseteq 1 .. n + 1 /\ n + 1 \in 1 .. n + 1
    OBVIOUS
  <2>2. y \in ToSet(g) <=> \E k \in 1 .. n + 1 : y = g[k]
    BY DEF ToSet
  <2>3. y \in ToSet(f) <=> \E k \in 1 .. n : y = f[k]
    BY DEF ToSet
  <2>4. QED BY <1>3, <2>1, <2>2, <2>3
<1>6. QED BY <1>4, <1>5

(* Or at the front. *)
LEMMA AddedFirst ==
    ASSUME NEW D, NEW n \in Nat, NEW f \in [1 .. n -> D], IsInjective(f), NEW x \in D, x \notin ToSet(f),
           NEW g \in [1 .. n + 1 -> D], g[1] = x, \A k \in 1 .. n : g[k + 1] = f[k]
    PROVE  IsInjective(g) /\ ToSet(g) = ToSet(f) \cup {x}
<1>1. \A j, k \in 1 .. n : f[j] = f[k] => j = k
  BY DEF IsInjective
<1>2. \A k \in 1 .. n : f[k] # x
  BY DEF ToSet
<1>3. \A k \in 1 .. n + 1 : k = 1 \/ (k - 1 \in 1 .. n /\ g[k] = f[k - 1])
  <2>1. \A k \in 1 .. n + 1 : k = 1 \/ (k - 1 \in 1 .. n /\ (k - 1) + 1 = k)
    OBVIOUS
  <2>2. QED BY <2>1
<1>4. IsInjective(g)
  <2>1. SUFFICES ASSUME NEW j \in 1 .. n + 1, NEW k \in 1 .. n + 1, g[j] = g[k] PROVE j = k
    BY DEF IsInjective
  <2>2. CASE j = 1
    BY <1>2, <1>3, <2>1, <2>2
  <2>3. CASE j # 1
    <3>1. k # 1
      BY <1>2, <1>3, <2>1, <2>3
    <3>2. j - 1 = k - 1
      BY <1>1, <1>3, <2>1, <2>3, <3>1
    <3>3. QED BY <3>2
  <2>4. QED BY <2>2, <2>3
<1>5. ASSUME NEW y PROVE y \in ToSet(g) <=> y \in ToSet(f) \/ y = x
  <2>1. 1 \in 1 .. n + 1 /\ \A k \in 1 .. n : k + 1 \in 1 .. n + 1
    OBVIOUS
  <2>2. y \in ToSet(g) <=> \E k \in 1 .. n + 1 : y = g[k]
    BY DEF ToSet
  <2>3. y \in ToSet(f) <=> \E k \in 1 .. n : y = f[k]
    BY DEF ToSet
  <2>4. QED BY <1>3, <2>1, <2>2, <2>3
<1>6. QED BY <1>4, <1>5

(* Five places that share the descriptors. *)
Parted(T, a, b, c, d, e) ==
    /\ a \cup b \cup c \cup d \cup e = Desc \ T
    /\ a \cap b = {} /\ a \cap c = {} /\ a \cap d = {} /\ a \cap e = {} /\ b \cap c = {}
    /\ b \cap d = {} /\ b \cap e = {} /\ c \cap d = {} /\ c \cap e = {} /\ d \cap e = {}

LEMMA Moves ==
    ASSUME NEW T, NEW a, NEW b, NEW c, NEW d, NEW e, Parted(T, a, b, c, d, e)
    PROVE  /\ \A x \in a : Parted(T, a \ {x}, b \cup {x}, c, d, e) /\ x \notin b
           /\ \A x \in e : Parted(T, a, b \cup {x}, c, d, e \ {x}) /\ x \notin b
           /\ \A x \in b : Parted(T, a, b \ {x}, c \cup {x}, d, e) /\ x \notin c
           /\ \A x \in c : Parted(T, a, b, c \ {x}, d \cup {x}, e) /\ x \notin d
           /\ \A x \in d : Parted(T, a, b, c, d \ {x}, e \cup {x}) /\ x \notin e
<1>1. \A x \in a : Parted(T, a \ {x}, b \cup {x}, c, d, e) /\ x \notin b
  BY DEF Parted
<1>2. \A x \in e : Parted(T, a, b \cup {x}, c, d, e \ {x}) /\ x \notin b
  BY DEF Parted
<1>3. \A x \in b : Parted(T, a, b \ {x}, c \cup {x}, d, e) /\ x \notin c
  BY DEF Parted
<1>4. \A x \in c : Parted(T, a, b, c \ {x}, d \cup {x}, e) /\ x \notin d
  BY DEF Parted
<1>5. \A x \in d : Parted(T, a, b, c, d \ {x}, e \cup {x}) /\ x \notin e
  BY DEF Parted
<1>6. QED BY <1>1, <1>2, <1>3, <1>4, <1>5

(* ------------------------------------------------------ one virtqueue *)
Elem == [id : Desc, len : {"full", "short"}]
VQ == [next : [Desc -> Desc \cup {END}], free_head : Desc \cup {END}, num_free : 0 .. VQ_SIZE,
       ring : [Desc -> Desc], avail : Index,
       used : [Desc -> Elem], idx : Index, next_used : Index]

LEMMA Fields ==
    ASSUME NEW v \in VQ
    PROVE  /\ v = [next |-> v.next, free_head |-> v.free_head, num_free |-> v.num_free, ring |-> v.ring,
                   avail |-> v.avail, used |-> v.used, idx |-> v.idx, next_used |-> v.next_used]
           /\ v.next \in [Desc -> Desc \cup {END}] /\ v.free_head \in Desc \cup {END} /\ v.num_free \in 0 .. VQ_SIZE
           /\ v.ring \in [Desc -> Desc] /\ v.avail \in Index
           /\ v.used \in [Desc -> Elem] /\ v.idx \in Index /\ v.next_used \in Index
BY DEF VQ

(* The free list: a chain through next. *)
IsChain(v, l) ==
    /\ l \in [1 .. v.num_free -> Desc]
    /\ v.num_free > 0 => l[1] = v.free_head
    /\ \A k \in 1 .. v.num_free - 1 : l[k + 1] = v.next[l[k]]

LEMMA ChainIsFreeList ==
    ASSUME NEW v, NEW l, v.num_free \in Nat, IsChain(v, l)
    PROVE  FreeList(v) = l
<1> DEFINE n == v.num_free
           Is(w) == w = [k \in 1 .. n |-> IF k = 1 THEN v.free_head
                                          ELSE IF w[k - 1] = END THEN END ELSE v.next[w[k - 1]]]
           g == FreeList(v)
<1>1. l \in [1 .. n -> Desc] /\ (n > 0 => l[1] = v.free_head) /\ \A k \in 1 .. n - 1 : l[k + 1] = v.next[l[k]]
  BY DEF IsChain
<1>2. \A d \in Desc : d # END
  BY Sizes DEF Desc, END
<1>3. ASSUME NEW k \in 1 .. n
      PROVE  l[k] = IF k = 1 THEN v.free_head ELSE IF l[k - 1] = END THEN END ELSE v.next[l[k - 1]]
  <2>1. CASE k = 1
    BY <1>1, <2>1
  <2>2. CASE k # 1
    <3>1. k - 1 \in 1 .. n - 1 /\ (k - 1) + 1 = k /\ k - 1 \in 1 .. n
      BY <2>2
    <3>2. l[k] = v.next[l[k - 1]] /\ l[k - 1] \in Desc
      BY <1>1, <3>1
    <3>3. QED BY <1>2, <2>2, <3>2
  <2>3. QED BY <2>1, <2>2
<1>4. Is(l)
  BY <1>1, <1>3
<1>5. g = CHOOSE w : Is(w)
  BY DEF FreeList
<1>6. Is(g)
  <2> HIDE DEF Is, g
  <2>1. QED BY <1>4, <1>5
<1>7. g = [k \in 1 .. n |-> g[k]]
  <2> HIDE DEF g
  <2>1. QED BY <1>6
<1>8. \A k \in 1 .. n : g[k] = IF k = 1 THEN v.free_head ELSE IF g[k - 1] = END THEN END ELSE v.next[g[k - 1]]
  <2> HIDE DEF g
  <2>1. QED BY <1>6
<1> HIDE DEF g, Is
<1>9. \A k \in 1 .. n : g[k] = l[k]
  <2> DEFINE Bad == {k \in 1 .. n : g[k] # l[k]}
  <2>1. SUFFICES ASSUME Bad # {} PROVE FALSE
    OBVIOUS
  <2>2. Bad \in SUBSET Nat
    OBVIOUS
  <2>3. PICK k \in Bad : \A j \in Bad : k <= j
    BY <2>1, <2>2, LeastMember
  <2>4. k # 1
    BY <1>3, <1>8, <2>3
  <2>5. k - 1 \in 1 .. n /\ ~(k <= k - 1)
    BY <2>3, <2>4
  <2>6. g[k - 1] = l[k - 1]
    BY <2>3, <2>5
  <2>7. QED BY <1>3, <1>8, <2>3, <2>4, <2>6
<1>10. l = [k \in 1 .. n |-> l[k]]
  BY <1>1
<1>11. QED BY <1>7, <1>9, <1>10 DEF g

(* What the methods leave of a queue. *)
LEMMA AllocIs ==
    ASSUME NEW v \in VQ, v.num_free > 0, v.free_head \in Desc
    PROVE  LET w == alloc_desc(v) IN
           /\ w \in VQ /\ w.next = [v.next EXCEPT ![v.free_head] = END] /\ w.free_head = v.next[v.free_head]
           /\ w.num_free = v.num_free - 1
           /\ w.ring = v.ring /\ w.avail = v.avail /\ w.used = v.used /\ w.idx = v.idx /\ w.next_used = v.next_used
<1>1. alloc_desc(v) = [next |-> [v.next EXCEPT ![v.free_head] = END], free_head |-> v.next[v.free_head],
                       num_free |-> v.num_free - 1, ring |-> v.ring, avail |-> v.avail, used |-> v.used,
                       idx |-> v.idx, next_used |-> v.next_used]
  <2> DEFINE nx == [v.next EXCEPT ![v.free_head] = END]
             fh == v.next[v.free_head]
             nf == v.num_free - 1
  <2>1. alloc_desc(v) = [v EXCEPT !.free_head = fh, !.num_free = nf, !.next = nx]
    BY Fields DEF alloc_desc
  <2> HIDE DEF nx, fh, nf
  <2>2. alloc_desc(v) = [next |-> nx, free_head |-> fh, num_free |-> nf,
                         ring |-> v.ring, avail |-> v.avail, used |-> v.used,
                         idx |-> v.idx, next_used |-> v.next_used]
    <3>1. PICK a, b, c, r, e, u, i, j : v = [next |-> a, free_head |-> b, num_free |-> c, ring |-> r,
                                             avail |-> e, used |-> u, idx |-> i, next_used |-> j]
      BY Fields
    <3>2. v.ring = r /\ v.avail = e /\ v.used = u /\ v.idx = i /\ v.next_used = j
      BY <3>1
    <3>3. alloc_desc(v) = [next |-> nx, free_head |-> fh, num_free |-> nf, ring |-> r,
                           avail |-> e, used |-> u, idx |-> i, next_used |-> j]
      BY ONLY <2>1, <3>1
    <3>4. QED BY <3>2, <3>3
  <2>3. QED BY <2>2 DEF nx, fh, nf
<1>2. [v.next EXCEPT ![v.free_head] = END] \in [Desc -> Desc \cup {END}]
  BY Fields
<1>3. v.num_free - 1 \in 0 .. VQ_SIZE /\ v.next[v.free_head] \in Desc \cup {END}
  BY Fields, Sizes
<1>4. alloc_desc(v) \in VQ
  BY <1>1, <1>2, <1>3, Fields DEF VQ
<1>5. QED BY <1>1, <1>4

LEMMA FreeIs ==
    ASSUME NEW v \in VQ, v.num_free < VQ_SIZE, NEW d \in Desc
    PROVE  LET w == free_desc(v, d) IN
           /\ w \in VQ /\ w.next = [v.next EXCEPT ![d] = v.free_head] /\ w.free_head = d /\ w.num_free = v.num_free + 1
           /\ w.ring = v.ring /\ w.avail = v.avail /\ w.used = v.used /\ w.idx = v.idx /\ w.next_used = v.next_used
<1>1. free_desc(v, d) = [next |-> [v.next EXCEPT ![d] = v.free_head], free_head |-> d,
                         num_free |-> v.num_free + 1, ring |-> v.ring, avail |-> v.avail, used |-> v.used,
                         idx |-> v.idx, next_used |-> v.next_used]
  <2> DEFINE nx == [v.next EXCEPT ![d] = v.free_head]
  <2>1. free_desc(v, d) = [v EXCEPT !.next = nx, !.free_head = d, !.num_free = v.num_free + 1]
    BY Fields DEF free_desc
  <2> HIDE DEF nx
  <2>2. free_desc(v, d) = [next |-> nx, free_head |-> d,
                           num_free |-> v.num_free + 1, ring |-> v.ring, avail |-> v.avail, used |-> v.used,
                           idx |-> v.idx, next_used |-> v.next_used]
    <3>1. PICK n, f, m, r, a, u, i, x : v = [next |-> n, free_head |-> f, num_free |-> m, ring |-> r,
                                             avail |-> a, used |-> u, idx |-> i, next_used |-> x]
      BY Fields
    <3>2. PICK k : k = v.num_free + 1
      OBVIOUS
    <3>3. free_desc(v, d) = [v EXCEPT !.next = nx, !.free_head = d, !.num_free = k]
      BY <2>1, <3>2
    <3>4. free_desc(v, d) = [next |-> nx, free_head |-> d, num_free |-> k, ring |-> r, avail |-> a,
                             used |-> u, idx |-> i, next_used |-> x]
      BY ONLY <3>1, <3>3
    <3>5. v.ring = r /\ v.avail = a /\ v.used = u /\ v.idx = i /\ v.next_used = x
      BY ONLY <3>1
    <3>6. QED BY ONLY <3>2, <3>4, <3>5
  <2>3. QED BY <2>2 DEF nx
<1>2. [v.next EXCEPT ![d] = v.free_head] \in [Desc -> Desc \cup {END}]
  BY Fields
<1>3. v.num_free + 1 \in 0 .. VQ_SIZE
  BY Fields, Sizes
<1>4. free_desc(v, d) \in VQ
  BY <1>1, <1>2, <1>3, Fields DEF VQ
<1>5. QED BY <1>1, <1>4

LEMMA OfferedIs ==
    ASSUME NEW v \in VQ, NEW d \in Desc
    PROVE  LET w == Offered(v, d) IN
           /\ w \in VQ /\ w.ring = [v.ring EXCEPT ![v.avail % VQ_SIZE] = d]
           /\ w.next = v.next /\ w.free_head = v.free_head /\ w.num_free = v.num_free
           /\ w.avail = v.avail /\ w.used = v.used /\ w.idx = v.idx /\ w.next_used = v.next_used
<1>1. Offered(v, d) = [next |-> v.next, free_head |-> v.free_head, num_free |-> v.num_free,
                       ring |-> [v.ring EXCEPT ![v.avail % VQ_SIZE] = d], avail |-> v.avail, used |-> v.used,
                       idx |-> v.idx, next_used |-> v.next_used]
  BY Fields DEF Offered
<1>2. [v.ring EXCEPT ![v.avail % VQ_SIZE] = d] \in [Desc -> Desc]
  BY Fields
<1>3. Offered(v, d) \in VQ
  BY <1>1, <1>2, Fields DEF VQ
<1>4. QED BY <1>1, <1>3

LEMMA PublishedIs ==
    ASSUME NEW v \in VQ
    PROVE  LET w == Published(v) IN
           /\ w \in VQ /\ w.avail = (v.avail + 1) % IdxSpan
           /\ w.next = v.next /\ w.free_head = v.free_head /\ w.num_free = v.num_free
           /\ w.ring = v.ring /\ w.used = v.used /\ w.idx = v.idx /\ w.next_used = v.next_used
<1>1. Published(v) = [next |-> v.next, free_head |-> v.free_head, num_free |-> v.num_free,
                      ring |-> v.ring, avail |-> (v.avail + 1) % IdxSpan, used |-> v.used,
                      idx |-> v.idx, next_used |-> v.next_used]
  BY Fields DEF Published
<1>2. (v.avail + 1) % IdxSpan \in Index
  BY Fields, Next1
<1>3. Published(v) \in VQ
  BY <1>1, <1>2, Fields DEF VQ
<1>4. QED BY <1>1, <1>3

LEMMA PolledIs ==
    ASSUME NEW v \in VQ
    PROVE  LET w == Polled(v) IN
           /\ w \in VQ /\ w.next_used = (v.next_used + 1) % IdxSpan
           /\ w.next = v.next /\ w.free_head = v.free_head /\ w.num_free = v.num_free
           /\ w.ring = v.ring /\ w.used = v.used /\ w.idx = v.idx /\ w.avail = v.avail
<1>1. Polled(v) = [next |-> v.next, free_head |-> v.free_head, num_free |-> v.num_free,
                   ring |-> v.ring, avail |-> v.avail, used |-> v.used,
                   idx |-> v.idx, next_used |-> (v.next_used + 1) % IdxSpan]
  BY Fields DEF Polled
<1>2. (v.next_used + 1) % IdxSpan \in Index
  BY Fields, Next1
<1>3. Polled(v) \in VQ
  BY <1>1, <1>2, Fields DEF VQ
<1>4. QED BY <1>1, <1>3

(* The device completes a descriptor. *)
Used(v, e) == [v EXCEPT !.used[v.idx % VQ_SIZE] = e, !.idx = (@ + 1) % IdxSpan]

LEMMA FilledIs ==
    ASSUME NEW v \in VQ, NEW e \in Elem
    PROVE  LET w == Used(v, e) IN
           /\ w \in VQ /\ w.used = [v.used EXCEPT ![v.idx % VQ_SIZE] = e] /\ w.idx = (v.idx + 1) % IdxSpan
           /\ w.next = v.next /\ w.free_head = v.free_head /\ w.num_free = v.num_free
           /\ w.ring = v.ring /\ w.next_used = v.next_used /\ w.avail = v.avail
<1>1. Used(v, e) = [next |-> v.next, free_head |-> v.free_head, num_free |-> v.num_free,
                      ring |-> v.ring, avail |-> v.avail, used |-> [v.used EXCEPT ![v.idx % VQ_SIZE] = e],
                      idx |-> (v.idx + 1) % IdxSpan, next_used |-> v.next_used]
  <2> DEFINE us == [v.used EXCEPT ![v.idx % VQ_SIZE] = e]
  <2>1. Used(v, e) = [v EXCEPT !.used = us, !.idx = (v.idx + 1) % IdxSpan]
    BY Fields DEF Used
  <2> HIDE DEF us
  <2>2. Used(v, e) = [next |-> v.next, free_head |-> v.free_head, num_free |-> v.num_free,
                        ring |-> v.ring, avail |-> v.avail, used |-> us,
                        idx |-> (v.idx + 1) % IdxSpan, next_used |-> v.next_used]
    <3>1. PICK n, f, m, r, a, u, i, x : v = [next |-> n, free_head |-> f, num_free |-> m, ring |-> r,
                                             avail |-> a, used |-> u, idx |-> i, next_used |-> x]
      BY Fields
    <3>2. QED BY ONLY <2>1, <3>1
  <2>3. QED BY <2>2 DEF us
<1>2. (v.idx + 1) % IdxSpan \in Index /\ [v.used EXCEPT ![v.idx % VQ_SIZE] = e] \in [Desc -> Elem]
  BY Fields, Next1
<1>3. Used(v, e) \in VQ
  BY <1>1, <1>2, Fields DEF VQ
<1>4. QED BY <1>1, <1>3

(* The rings as sequences, of a queue v whose device has come to sn. *)
AvailOf(v, sn) == [k \in 1 .. Span(sn, v.avail) |-> v.ring[Slot(sn, k)]]
Offers(v, sn) == Span(sn, v.avail)
Dones(v) == Span(v.next_used, v.idx)

LEMMA RingsTyped ==
    ASSUME NEW v \in VQ, NEW sn \in Index
    PROVE  /\ Offers(v, sn) \in Nat /\ AvailOf(v, sn) \in [1 .. Offers(v, sn) -> Desc]
           /\ Dones(v) \in Nat /\ Finished(v) \in [1 .. Dones(v) -> Elem]
           /\ FinishedIds(v) \in [1 .. Dones(v) -> Desc]
           /\ \A k \in 1 .. Dones(v) : /\ Finished(v)[k] = v.used[Slot(v.next_used, k)]
                                       /\ FinishedIds(v)[k] = Finished(v)[k].id
<1>1. Offers(v, sn) \in Nat /\ Dones(v) \in Nat
  BY Fields, Spans DEF Offers, Dones
<1>2. \A f \in Index, k \in Nat : Slot(f, k) \in Desc
  BY SlotIs
<1>3. AvailOf(v, sn) \in [1 .. Offers(v, sn) -> Desc]
  BY <1>1, <1>2, Fields DEF AvailOf, Offers
<1>4. Finished(v) = [k \in 1 .. Dones(v) |-> v.used[Slot(v.next_used, k)]]
  BY DEF Finished, Dones, Slot
<1>5. \A k \in 1 .. Dones(v) : v.used[Slot(v.next_used, k)] \in Elem
  BY <1>1, <1>2, Fields
<1>6. Finished(v) \in [1 .. Dones(v) -> Elem]
  BY <1>4, <1>5
<1>7. FinishedIds(v) = [k \in 1 .. Dones(v) |-> Finished(v)[k].id]
  BY <1>6 DEF FinishedIds
<1>8. \A e \in Elem : e.id \in Desc
  BY DEF Elem
<1>9. FinishedIds(v) \in [1 .. Dones(v) -> Desc]
  BY <1>6, <1>7, <1>8
<1>10. QED BY <1>1, <1>3, <1>4, <1>6, <1>7, <1>9

(* The slot that is written is behind the ones that are offered. *)
LEMMA OfferKeeps ==
    ASSUME NEW v \in VQ, NEW sn \in Index, NEW d \in Desc, Offers(v, sn) < VQ_SIZE
    PROVE  /\ AvailOf(Offered(v, d), sn) = AvailOf(v, sn) /\ Offers(Offered(v, d), sn) = Offers(v, sn)
           /\ Offered(v, d).ring[Offered(v, d).avail % VQ_SIZE] = d
<1> DEFINE w == Offered(v, d)
           n == Offers(v, sn)
<1>1. w.ring = [v.ring EXCEPT ![v.avail % VQ_SIZE] = d] /\ w.avail = v.avail
  BY OfferedIs
<1>2. v.avail \in Index /\ v.ring \in [Desc -> Desc] /\ n \in Nat /\ VQ_SIZE \in Nat
  BY Fields, RingsTyped, Sizes
<1>3. v.avail % VQ_SIZE = Slot(sn, n + 1)
  BY <1>2, EndSlot DEF Offers
<1>4. \A k \in 1 .. n : Slot(sn, k) # Slot(sn, n + 1)
  <2>1. \A k \in 1 .. n : k \in 1 .. VQ_SIZE /\ n + 1 \in 1 .. VQ_SIZE /\ k # n + 1
    BY <1>2
  <2>2. QED BY <2>1, SlotsApart
<1>5. \A k \in 1 .. n + 1 : Slot(sn, k) \in Desc
  BY <1>2, SlotIs
<1> HIDE DEF w
<1>6. \A k \in 1 .. n : w.ring[Slot(sn, k)] = v.ring[Slot(sn, k)]
  BY <1>1, <1>2, <1>3, <1>4, <1>5
<1>7. w.ring[w.avail % VQ_SIZE] = d
  BY <1>1, <1>2, <1>3, <1>5
<1>8. Offers(w, sn) = n
  BY <1>1 DEF Offers
<1>9. AvailOf(w, sn) = AvailOf(v, sn)
  BY <1>6, <1>8 DEF AvailOf, Offers
<1>10. QED BY <1>7, <1>8, <1>9 DEF w

(* Moving the index adds what was written; the device takes the first. *)
LEMMA PublishAdds ==
    ASSUME NEW v \in VQ, NEW sn \in Index, Offers(v, sn) < VQ_SIZE
    PROVE  /\ Offers(Published(v), sn) = Offers(v, sn) + 1
           /\ AvailOf(Published(v), sn)[Offers(v, sn) + 1] = v.ring[v.avail % VQ_SIZE]
           /\ \A k \in 1 .. Offers(v, sn) : AvailOf(Published(v), sn)[k] = AvailOf(v, sn)[k]
<1> DEFINE w == Published(v)
           n == Offers(v, sn)
<1>1. w.avail = (v.avail + 1) % IdxSpan /\ w.ring = v.ring
  BY PublishedIs
<1>2. v.avail \in Index /\ n \in Nat /\ VQ_SIZE \in Nat /\ IdxSpan \in Nat /\ IdxSpan > VQ_SIZE
  BY Fields, RingsTyped, Sizes
<1> HIDE DEF w
<1>3. Offers(w, sn) = n + 1
  <2>1. Span(sn, v.avail) < IdxSpan - 1
    BY <1>2 DEF Offers
  <2>2. QED BY <1>1, <1>2, <2>1, Spans DEF Offers
<1>4. v.avail % VQ_SIZE = Slot(sn, n + 1)
  BY <1>2, EndSlot DEF Offers
<1>5. AvailOf(w, sn) = [k \in 1 .. n + 1 |-> v.ring[Slot(sn, k)]]
  BY <1>1, <1>3 DEF AvailOf, Offers
<1>6. AvailOf(v, sn) = [k \in 1 .. n |-> v.ring[Slot(sn, k)]]
  BY DEF AvailOf, Offers
<1> HIDE DEF n
<1>7. n + 1 \in 1 .. n + 1 /\ \A k \in 1 .. n : k \in 1 .. n + 1
  BY <1>2
<1>8. QED BY <1>3, <1>4, <1>5, <1>6, <1>7 DEF w, n

LEMMA TakeDrops ==
    ASSUME NEW v \in VQ, NEW sn \in Index, sn # v.avail
    PROVE  /\ Offers(v, (sn + 1) % IdxSpan) = Offers(v, sn) - 1 /\ Offers(v, sn) > 0
           /\ AvailOf(v, sn)[1] = v.ring[sn % VQ_SIZE]
           /\ \A k \in 1 .. Offers(v, sn) - 1 : AvailOf(v, (sn + 1) % IdxSpan)[k] = AvailOf(v, sn)[k + 1]
<1> DEFINE u == (sn + 1) % IdxSpan
           n == Offers(v, sn)
<1>1. v.avail \in Index /\ n \in Nat
  BY Fields, RingsTyped
<1>2. Offers(v, u) = n - 1 /\ n # 0
  BY <1>1, Spans DEF Offers
<1>3. \A k \in Nat : Slot(u, k) = Slot(sn, k + 1)
  BY SlotIs
<1>4. Slot(sn, 1) = sn % VQ_SIZE
  BY SlotIs
<1>5. AvailOf(v, sn) = [k \in 1 .. n |-> v.ring[Slot(sn, k)]]
  BY DEF AvailOf, Offers
<1>6. AvailOf(v, u) = [k \in 1 .. n - 1 |-> v.ring[Slot(u, k)]]
  BY <1>2 DEF AvailOf, Offers
<1> HIDE DEF n, u
<1>7. 1 \in 1 .. n /\ \A k \in 1 .. n - 1 : k + 1 \in 1 .. n /\ k \in Nat
  BY <1>1, <1>2
<1>8. AvailOf(v, sn)[1] = v.ring[sn % VQ_SIZE]
  BY <1>4, <1>5, <1>7
<1>9. ASSUME NEW k \in 1 .. n - 1 PROVE AvailOf(v, u)[k] = AvailOf(v, sn)[k + 1]
  BY <1>3, <1>5, <1>6, <1>7
<1>10. n > 0
  BY <1>1, <1>2
<1>11. QED BY <1>2, <1>8, <1>9, <1>10 DEF n, u

(* The same for the used ring. *)
LEMMA PollDrops ==
    ASSUME NEW v \in VQ, HasUsed(v)
    PROVE  /\ Dones(Polled(v)) = Dones(v) - 1 /\ Dones(v) > 0
           /\ Finished(v)[1] = UsedElem(v)
           /\ \A k \in 1 .. Dones(v) - 1 : Finished(Polled(v))[k] = Finished(v)[k + 1]
<1> DEFINE w == Polled(v)
           n == Dones(v)
           f == v.next_used
           u == (f + 1) % IdxSpan
<1>1. w \in VQ /\ w.next_used = u /\ w.used = v.used /\ w.idx = v.idx
  BY PolledIs
<1>2. v.idx \in Index /\ f \in Index /\ n \in Nat /\ f # v.idx
  BY Fields, RingsTyped, Spans DEF HasUsed, Dones
<1> HIDE DEF w
<1>3. Dones(w) = n - 1 /\ n # 0
  <2> HIDE DEF f
  <2>1. Span(u, v.idx) = Span(f, v.idx) - 1 /\ Span(f, v.idx) # 0
    BY <1>2, Spans
  <2>2. QED BY <1>1, <2>1 DEF Dones, f
<1>4. \A k \in Nat : Slot(u, k) = Slot(f, k + 1)
  BY <1>2, SlotIs
<1>5. Slot(f, 1) = f % VQ_SIZE
  BY <1>2, SlotIs
<1>6. \A k \in 1 .. n : Finished(v)[k] = v.used[Slot(f, k)]
  BY <1>2, RingsTyped
<1>7. \A k \in 1 .. n - 1 : Finished(w)[k] = v.used[Slot(u, k)]
  BY <1>1, <1>2, <1>3, RingsTyped
<1>8. Finished(v)[1] = UsedElem(v)
  BY <1>2, <1>3, <1>5, <1>6 DEF UsedElem
<1> HIDE DEF n, u, f
<1>9. \A k \in 1 .. n - 1 : k + 1 \in 1 .. n /\ k \in Nat
  BY <1>2, <1>3
<1>10. QED BY <1>2, <1>3, <1>4, <1>6, <1>7, <1>8, <1>9 DEF n, u, f, w

LEMMA FillAdds ==
    ASSUME NEW v \in VQ, NEW e \in Elem, Dones(v) < VQ_SIZE
    PROVE  /\ Dones(Used(v, e)) = Dones(v) + 1
           /\ Finished(Used(v, e))[Dones(v) + 1] = e
           /\ \A k \in 1 .. Dones(v) : Finished(Used(v, e))[k] = Finished(v)[k]
<1> DEFINE w == Used(v, e)
           n == Dones(v)
           f == v.next_used
<1>1. /\ w \in VQ /\ w.next_used = f /\ w.used = [v.used EXCEPT ![v.idx % VQ_SIZE] = e]
      /\ w.idx = (v.idx + 1) % IdxSpan
  BY FilledIs
<1>2. v.idx \in Index /\ f \in Index /\ v.used \in [Desc -> Elem] /\ n \in Nat
  BY Fields, RingsTyped, Spans DEF Dones
<1>3. VQ_SIZE \in Nat /\ IdxSpan \in Nat /\ IdxSpan > VQ_SIZE
  BY Sizes
<1> HIDE DEF w
<1>4. Dones(w) = n + 1 /\ v.idx % VQ_SIZE = Slot(f, n + 1)
  <2> HIDE DEF f
  <2>1. Span(f, v.idx) < IdxSpan - 1
    BY <1>2, <1>3 DEF Dones, f
  <2>2. Span(f, (v.idx + 1) % IdxSpan) = Span(f, v.idx) + 1
    BY <1>2, <2>1, Spans
  <2>3. v.idx % VQ_SIZE = Slot(f, Span(f, v.idx) + 1)
    BY <1>2, EndSlot
  <2>4. QED BY <1>1, <2>2, <2>3 DEF Dones, f
<1>5. \A k \in 1 .. n : Slot(f, k) # Slot(f, n + 1)
  <2>1. \A k \in 1 .. n : k \in 1 .. VQ_SIZE /\ n + 1 \in 1 .. VQ_SIZE /\ k # n + 1
    BY <1>2, <1>3
  <2>2. QED BY <1>2, <2>1, SlotsApart
<1>6. \A k \in 1 .. n + 1 : Slot(f, k) \in Desc
  BY <1>2, SlotIs
<1>7. \A k \in 1 .. n + 1 : Finished(w)[k] = w.used[Slot(f, k)]
  <2>1. \A k \in 1 .. Dones(w) : Finished(w)[k] = w.used[Slot(w.next_used, k)]
    BY <1>1, <1>2, RingsTyped
  <2>2. QED BY <1>1, <1>4, <2>1
<1>8. \A k \in 1 .. n : Finished(v)[k] = v.used[Slot(f, k)]
  BY <1>2, RingsTyped
<1> HIDE DEF n, f
<1>9. n + 1 \in 1 .. n + 1 /\ \A k \in 1 .. n : k \in 1 .. n + 1
  BY <1>2
<1>10. Finished(w)[n + 1] = e
  BY <1>1, <1>2, <1>4, <1>6, <1>7, <1>9
<1>11. \A k \in 1 .. n : Finished(w)[k] = Finished(v)[k]
  BY <1>1, <1>2, <1>4, <1>5, <1>6, <1>7, <1>8, <1>9
<1>12. QED BY <1>4, <1>10, <1>11 DEF n, w

(* Parts of a queue that a method leaves alone. *)
LEMMA SameRings ==
    ASSUME NEW v, NEW w
    PROVE  /\ w.used = v.used /\ w.idx = v.idx /\ w.next_used = v.next_used =>
                 Finished(w) = Finished(v) /\ FinishedIds(w) = FinishedIds(v) /\ Dones(w) = Dones(v)
           /\ w.ring = v.ring /\ w.avail = v.avail =>
                 \A sn : AvailOf(w, sn) = AvailOf(v, sn) /\ Offers(w, sn) = Offers(v, sn)
           /\ w.next = v.next /\ w.free_head = v.free_head /\ w.num_free = v.num_free =>
                 FreeList(w) = FreeList(v) /\ \A l : IsChain(v, l) => IsChain(w, l)
<1>1. ASSUME w.used = v.used, w.idx = v.idx, w.next_used = v.next_used
      PROVE  Finished(w) = Finished(v) /\ FinishedIds(w) = FinishedIds(v) /\ Dones(w) = Dones(v)
  <2>1. Finished(w) = Finished(v)
    BY <1>1 DEF Finished
  <2>2. QED BY <1>1, <2>1 DEF FinishedIds, Dones
<1>2. ASSUME w.ring = v.ring, w.avail = v.avail, NEW sn
      PROVE  AvailOf(w, sn) = AvailOf(v, sn) /\ Offers(w, sn) = Offers(v, sn)
  BY <1>2 DEF AvailOf, Offers
<1>3. ASSUME w.next = v.next, w.free_head = v.free_head, w.num_free = v.num_free
      PROVE  FreeList(w) = FreeList(v) /\ \A l : IsChain(v, l) => IsChain(w, l)
  BY <1>3 DEF FreeList, IsChain
<1>4. QED BY <1>1, <1>2, <1>3

(* alloc_desc takes the first of the free list, free_desc puts one in front. *)
LEMMA AllocDrops ==
    ASSUME NEW v \in VQ, NEW l, IsChain(v, l), IsInjective(l), v.num_free > 0
    PROVE  LET w == alloc_desc(v) IN
           /\ v.free_head \in Desc /\ v.free_head = l[1] /\ w \in VQ
           /\ IsChain(w, FreeList(w)) /\ IsInjective(FreeList(w))
           /\ ToSet(FreeList(w)) = ToSet(l) \ {v.free_head} /\ v.free_head \in ToSet(l)
           /\ w.num_free > 0 => w.free_head = v.next[v.free_head]
<1> DEFINE n == v.num_free
           w == alloc_desc(v)
           g == [k \in 1 .. n - 1 |-> l[k + 1]]
<1>1. /\ n \in Nat /\ n > 0 /\ l \in [1 .. n -> Desc] /\ l[1] = v.free_head
      /\ \A k \in 1 .. n - 1 : l[k + 1] = v.next[l[k]]
  BY Fields DEF IsChain
<1>2. v.free_head \in Desc
  BY <1>1
<1>3. w \in VQ /\ w.next = [v.next EXCEPT ![v.free_head] = END] /\ w.free_head = v.next[v.free_head] /\ w.num_free = n - 1
  BY <1>2, AllocIs
<1>4. v.next \in [Desc -> Desc \cup {END}]
  BY Fields
<1> HIDE DEF w
<1>5. g \in [1 .. n - 1 -> Desc]
  BY <1>1
<1>6. \A k \in 1 .. n - 1 : l[k + 1] # v.free_head /\ l[k + 1] \in Desc
  <2>1. \A k \in 1 .. n - 1 : k + 1 \in 1 .. n /\ 1 \in 1 .. n /\ k + 1 # 1
    BY <1>1
  <2>2. QED BY <1>1, <2>1 DEF IsInjective
<1>7. IsChain(w, g)
  <2>1. n - 1 > 0 => g[1] = w.free_head
    <3>1. ASSUME n - 1 > 0 PROVE g[1] = w.free_head
      <4>1. 1 \in 1 .. n - 1 /\ 1 + 1 \in 1 .. n
        BY <1>1, <3>1
      <4>2. g[1] = v.next[l[1]]
        BY <1>1, <4>1
      <4>3. QED BY <1>1, <1>3, <4>2
    <3>2. QED BY <3>1
  <2>2. ASSUME NEW k \in 1 .. (n - 1) - 1 PROVE g[k + 1] = w.next[g[k]]
    <3>1. k \in 1 .. n - 1 /\ k + 1 \in 1 .. n - 1
      BY <1>1
    <3>2. g[k + 1] = l[(k + 1) + 1] /\ g[k] = l[k + 1]
      BY <3>1
    <3>3. l[(k + 1) + 1] = v.next[l[k + 1]]
      BY <1>1, <3>1
    <3>4. w.next[l[k + 1]] = v.next[l[k + 1]]
      BY <1>3, <1>4, <1>6, <3>1
    <3>5. QED BY <3>2, <3>3, <3>4
  <2> HIDE DEF g
  <2>3. QED BY <1>3, <1>5, <2>1, <2>2 DEF IsChain
<1>8. IsInjective(g) /\ ToSet(g) = ToSet(l) \ {l[1]} /\ l[1] \in ToSet(l)
  <2>1. Drop(Desc, n, l, 1, g)
    BY <1>1, <1>5 DEF Drop
  <2> HIDE DEF g, n
  <2>2. QED BY <2>1, Dropped
<1>9. FreeList(w) = g
  <2>1. w.num_free \in Nat
    BY <1>1, <1>3
  <2> HIDE DEF g
  <2>2. QED BY <1>7, <2>1, ChainIsFreeList
<1> HIDE DEF g
<1>10. QED BY <1>1, <1>2, <1>3, <1>7, <1>8, <1>9 DEF w

LEMMA FreeAdds ==
    ASSUME NEW v \in VQ, NEW l, IsChain(v, l), IsInjective(l), v.num_free < VQ_SIZE,
           NEW d \in Desc, d \notin ToSet(l)
    PROVE  LET w == free_desc(v, d) IN
           /\ w \in VQ /\ IsChain(w, FreeList(w)) /\ IsInjective(FreeList(w))
           /\ ToSet(FreeList(w)) = ToSet(l) \cup {d}
<1> DEFINE n == v.num_free
           w == free_desc(v, d)
           g == [k \in 1 .. n + 1 |-> IF k = 1 THEN d ELSE l[k - 1]]
<1>1. /\ n \in Nat /\ l \in [1 .. n -> Desc] /\ (n > 0 => l[1] = v.free_head)
      /\ \A k \in 1 .. n - 1 : l[k + 1] = v.next[l[k]]
  BY Fields DEF IsChain
<1>2. w \in VQ /\ w.next = [v.next EXCEPT ![d] = v.free_head] /\ w.free_head = d /\ w.num_free = n + 1
  BY FreeIs
<1>3. v.next \in [Desc -> Desc \cup {END}]
  BY Fields
<1> HIDE DEF w
<1>4. \A k \in 1 .. n + 1 : k # 1 => k - 1 \in 1 .. n
  BY <1>1
<1>5. g \in [1 .. n + 1 -> Desc]
  BY <1>1, <1>4
<1>6. g[1] = d /\ \A k \in 1 .. n : g[k + 1] = l[k]
  <2>1. 1 \in 1 .. n + 1 /\ \A k \in 1 .. n : k + 1 \in 1 .. n + 1 /\ k + 1 # 1 /\ (k + 1) - 1 = k
    BY <1>1
  <2>2. QED BY <2>1
<1> HIDE DEF g
<1>7. \A k \in 1 .. n : l[k] # d /\ l[k] \in Desc
  BY <1>1 DEF ToSet
<1>8. ASSUME NEW k \in 1 .. (n + 1) - 1 PROVE g[k + 1] = w.next[g[k]]
  <2>1. k \in 1 .. n
    BY <1>1
  <2>2. CASE k = 1
    <3>1. g[k + 1] = l[1] /\ l[1] = v.free_head
      BY <1>1, <1>6, <2>1, <2>2
    <3>2. QED BY <1>2, <1>3, <1>6, <2>2, <3>1
  <2>3. CASE k # 1
    <3>1. k - 1 \in 1 .. n - 1 /\ k - 1 \in 1 .. n /\ (k - 1) + 1 = k
      BY <1>1, <2>1, <2>3
    <3>2. g[k + 1] = l[k] /\ g[k] = l[k - 1] /\ l[k] = v.next[l[k - 1]]
      BY <1>1, <1>6, <2>1, <3>1
    <3>3. w.next[l[k - 1]] = v.next[l[k - 1]]
      BY <1>2, <1>3, <1>7, <3>1
    <3>4. QED BY <3>2, <3>3
  <2>4. QED BY <2>2, <2>3
<1>9. IsChain(w, g)
  BY <1>2, <1>5, <1>6, <1>8 DEF IsChain
<1>10. IsInjective(g) /\ ToSet(g) = ToSet(l) \cup {d}
  <2> HIDE DEF n
  <2>1. QED BY ONLY <1>1, <1>5, <1>6, IsInjective(l), d \in Desc, d \notin ToSet(l), AddedFirst
<1>11. FreeList(w) = g
  <2>1. w.num_free \in Nat
    BY <1>1, <1>2
  <2>2. QED BY <1>9, <2>1, ChainIsFreeList
<1>12. QED BY <1>2, <1>9, <1>10, <1>11 DEF w

LEMMA Removed ==
    ASSUME NEW s \in Seq(Desc), NEW i \in 1 .. Len(s), IsInjective(s)
    PROVE  /\ RemoveAt(s, i) \in Seq(Desc) /\ Len(RemoveAt(s, i)) = Len(s) - 1 /\ s[i] \in Desc
           /\ IsInjective(RemoveAt(s, i)) /\ ToSet(RemoveAt(s, i)) = ToSet(s) \ {s[i]} /\ s[i] \in ToSet(s)
<1> DEFINE n == Len(s)
           a == SubSeq(s, 1, i - 1)
           b == SubSeq(s, i + 1, n)
           r == RemoveAt(s, i)
<1>1. n \in Nat /\ n >= 1 /\ s \in [1 .. n -> Desc]
  OBVIOUS
<1>2. a \in Seq(Desc) /\ Len(a) = i - 1 /\ \A k \in 1 .. i - 1 : a[k] = s[k]
  BY <1>1
<1>3. b \in Seq(Desc) /\ Len(b) = n - i /\ \A k \in 1 .. n - i : b[k] = s[k + i]
  <2>1. i + 1 \in Int /\ n \in Int /\ \A k \in i + 1 .. n : s[k] \in Desc
    BY <1>1
  <2>2. /\ b \in Seq(Desc) /\ Len(b) = (IF i + 1 <= n THEN n - (i + 1) + 1 ELSE 0)
        /\ \A k \in 1 .. n - (i + 1) + 1 : b[k] = s[(i + 1) + k - 1]
    BY <2>1, SubSeqProperties
  <2> HIDE DEF b
  <2>3. n - (i + 1) + 1 = n - i /\ \A k \in 1 .. n - i : (i + 1) + k - 1 = k + i
    BY <1>1
  <2>4. Len(b) = n - i
    <3>1. i \in Int /\ i <= n
      BY <1>1
    <3>2. CASE i + 1 <= n
      <4>1. Len(b) = n - (i + 1) + 1
        BY <2>2, <3>2
      <4>2. QED BY <2>3, <4>1
    <3>3. CASE ~(i + 1 <= n)
      <4>1. Len(b) = 0
        BY <2>2, <3>3
      <4>2. n - i = 0
        BY ONLY n \in Int, i \in Int, i <= n, ~(i + 1 <= n)
      <4>3. QED BY <4>1, <4>2
    <3>4. QED BY <3>2, <3>3
  <2>5. ASSUME NEW k \in 1 .. n - i PROVE b[k] = s[k + i]
    <3>1. k \in 1 .. n - (i + 1) + 1
      BY <2>3
    <3>2. b[k] = s[(i + 1) + k - 1]
      BY <2>2, <3>1
    <3>3. QED BY <2>3, <3>2
  <2>6. QED BY <2>2, <2>4, <2>5
<1>4. r = a \o b
  BY DEF RemoveAt
<1> HIDE DEF a, b, r
<1>5. r \in Seq(Desc) /\ Len(r) = n - 1
  <2>1. r \in Seq(Desc) /\ Len(r) = Len(a) + Len(b)
    BY <1>2, <1>3, <1>4, ConcatProperties
  <2>2. QED BY <1>1, <1>2, <1>3, <2>1
<1>6. ASSUME NEW k \in 1 .. n - 1 PROVE r[k] = IF k < i THEN s[k] ELSE s[k + 1]
  <2>1. CASE k < i
    <3>1. k \in 1 .. Len(a)
      BY <1>1, <1>2, <2>1
    <3>2. r[k] = a[k]
      BY <1>2, <1>3, <1>4, <3>1
    <3>3. QED BY <1>2, <2>1, <3>1, <3>2
  <2>2. CASE ~(k < i)
    <3>1. k - (i - 1) \in 1 .. n - i /\ (k - (i - 1)) + i = k + 1 /\ k \in Len(a) + 1 .. Len(a) + Len(b) /\ k - Len(a) = k - (i - 1)
      BY <1>1, <1>2, <1>3, <2>2
    <3>2. r[k] = b[k - Len(a)]
      BY <1>2, <1>3, <1>4, <3>1
    <3>3. QED BY <1>3, <2>2, <3>1, <3>2
  <2>3. QED BY <2>1, <2>2
<1>7. Drop(Desc, n, s, i, r)
  <2>1. r \in [1 .. n - 1 -> Desc]
    BY <1>5
  <2>2. QED BY <1>1, <1>6, <2>1 DEF Drop
<1>8. IsInjective(r) /\ ToSet(r) = ToSet(s) \ {s[i]} /\ s[i] \in ToSet(s)
  BY <1>7, Dropped
<1>9. QED BY <1>1, <1>5, <1>8 DEF r

LEMMA Appended ==
    ASSUME NEW s \in Seq(Desc), NEW x \in Desc, IsInjective(s), x \notin ToSet(s)
    PROVE  /\ Append(s, x) \in Seq(Desc) /\ Len(Append(s, x)) = Len(s) + 1
           /\ IsInjective(Append(s, x)) /\ ToSet(Append(s, x)) = ToSet(s) \cup {x}
<1> DEFINE g == Append(s, x)
           n == Len(s)
<1>1. n \in Nat /\ s \in [1 .. n -> Desc]
  OBVIOUS
<1>2. g \in Seq(Desc) /\ Len(g) = n + 1 /\ g[n + 1] = x /\ \A k \in 1 .. n : g[k] = s[k]
  OBVIOUS
<1> HIDE DEF g
<1>3. g \in [1 .. n + 1 -> Desc]
  <2>1. g \in [1 .. Len(g) -> Desc]
    BY <1>2
  <2>2. QED BY <1>2, <2>1
<1>4. Add(Desc, n, s, x, g)
  BY <1>1, <1>2, <1>3 DEF Add
<1>5. QED BY <1>2, <1>4, Added DEF g

(* The network queues.  Every descriptor is in one place: the free list, the *)
(* slot to be published, the available ring, the device, or the used ring.  *)
PendSet(v, p) == IF p THEN {v.ring[v.avail % VQ_SIZE]} ELSE {}
One(p) == IF p THEN 1 ELSE 0

Listed(v, sn, tk) ==
    /\ v \in VQ /\ sn \in Index /\ tk \in Seq(Desc)
    /\ IsChain(v, FreeList(v)) /\ IsInjective(FreeList(v))
    /\ IsInjective(AvailOf(v, sn)) /\ IsInjective(tk) /\ IsInjective(FinishedIds(v))

Placed(T, x, v, p, sn, tk) ==
    /\ Listed(v, sn, tk)
    /\ Parted(T, ToSet(FreeList(v)), PendSet(v, p), ToSet(AvailOf(v, sn)), ToSet(tk), ToSet(FinishedIds(v)))
    /\ x \in Nat /\ v.num_free + One(p) + Offers(v, sn) + Len(tk) + Dones(v) + x = VQ_SIZE

Sum(a, b, c, d, e, x) == a + b + c + d + e + x

LEMMA Shift ==
    ASSUME NEW a \in Int, NEW b \in Int, NEW c \in Int, NEW d \in Int, NEW e \in Int, NEW x \in Int, NEW n \in Int,
           Sum(a, b, c, d, e, x) = n
    PROVE  /\ b = 1 => Sum(a, 0, c + 1, d, e, x) = n
           /\ Sum(a, b, c - 1, d + 1, e, x) = n
           /\ Sum(a, b, c, d - 1, e + 1, x) = n
BY DEF Sum

(* send_frame: the first free descriptor is written to the ring. *)
LEMMA SendPlaces ==
    ASSUME NEW T, NEW x, NEW v, NEW sn, NEW tk, Placed(T, x, v, FALSE, sn, tk), v.num_free > 0
    PROVE  /\ Placed(T, x, Offered(alloc_desc(v), v.free_head), TRUE, sn, tk)
           /\ v.free_head \in ToSet(FreeList(v)) /\ v.free_head \in Desc
<1> DEFINE d == v.free_head
           a == alloc_desc(v)
           w == Offered(a, d)
<1>1. /\ Listed(v, sn, tk)
      /\ v \in VQ /\ sn \in Index /\ tk \in Seq(Desc) /\ IsChain(v, FreeList(v)) /\ IsInjective(FreeList(v))
      /\ IsInjective(AvailOf(v, sn)) /\ IsInjective(tk) /\ IsInjective(FinishedIds(v))
      /\ Parted(T, ToSet(FreeList(v)), {}, ToSet(AvailOf(v, sn)), ToSet(tk), ToSet(FinishedIds(v)))
      /\ x \in Nat /\ v.num_free + 0 + Offers(v, sn) + Len(tk) + Dones(v) + x = VQ_SIZE
  BY DEF Placed, Listed, PendSet, One
<1>2. /\ d \in Desc /\ a \in VQ /\ IsChain(a, FreeList(a)) /\ IsInjective(FreeList(a))
      /\ ToSet(FreeList(a)) = ToSet(FreeList(v)) \ {d} /\ d \in ToSet(FreeList(v))
  BY <1>1, AllocDrops
<1>3. /\ a.ring = v.ring /\ a.avail = v.avail /\ a.used = v.used /\ a.idx = v.idx /\ a.next_used = v.next_used
      /\ a.num_free = v.num_free - 1
  BY <1>1, <1>2, AllocIs
<1>4. /\ v.num_free \in Nat /\ Offers(v, sn) \in Nat /\ Len(tk) \in Nat /\ Dones(v) \in Nat /\ VQ_SIZE \in Nat
  BY <1>1, RingsTyped, Fields, Sizes
<1> HIDE DEF a, d
<1>5. Offers(a, sn) = Offers(v, sn) /\ AvailOf(a, sn) = AvailOf(v, sn) /\ FinishedIds(a) = FinishedIds(v) /\ Dones(a) = Dones(v)
  BY <1>3, SameRings
<1>6. Offers(a, sn) < VQ_SIZE
  BY <1>1, <1>4, <1>5
<1>7. /\ w \in VQ /\ w.next = a.next /\ w.free_head = a.free_head /\ w.num_free = a.num_free
      /\ w.used = a.used /\ w.idx = a.idx /\ w.next_used = a.next_used
  BY <1>2, OfferedIs
<1>8. AvailOf(w, sn) = AvailOf(a, sn) /\ Offers(w, sn) = Offers(a, sn) /\ w.ring[w.avail % VQ_SIZE] = d
  BY <1>1, <1>2, <1>6, OfferKeeps
<1> HIDE DEF w
<1>9. FinishedIds(w) = FinishedIds(a) /\ Dones(w) = Dones(a) /\ FreeList(w) = FreeList(a) /\ IsChain(w, FreeList(a))
  BY <1>2, <1>7, SameRings
<1>10. Listed(w, sn, tk)
  BY <1>1, <1>2, <1>5, <1>7, <1>8, <1>9 DEF Listed
<1>11. Parted(T, ToSet(FreeList(v)) \ {d}, {} \cup {d}, ToSet(AvailOf(v, sn)), ToSet(tk), ToSet(FinishedIds(v)))
  BY <1>1, <1>2, Moves
<1>12. PendSet(w, TRUE) = {} \cup {d}
  BY <1>8 DEF PendSet
<1>13. w.num_free + 1 + Offers(w, sn) + Len(tk) + Dones(w) + x = VQ_SIZE
  BY <1>1, <1>3, <1>4, <1>5, <1>7, <1>8, <1>9
<1>14. Placed(T, x, w, TRUE, sn, tk)
  BY <1>2, <1>5, <1>8, <1>9, <1>10, <1>11, <1>12, <1>13 DEF Placed, One
<1>15. QED BY <1>2, <1>14 DEF w, a, d

(* receive_frame: the first used descriptor is written to the ring again. *)
LEMMA ReceivePlaces ==
    ASSUME NEW T, NEW x, NEW v, NEW sn, NEW tk, Placed(T, x, v, FALSE, sn, tk), HasUsed(v)
    PROVE  Placed(T, x, Offered(Polled(v), UsedElem(v).id), TRUE, sn, tk)
<1> DEFINE d == UsedElem(v).id
           a == Polled(v)
           w == Offered(a, d)
           n == Dones(v)
<1>1. /\ v \in VQ /\ sn \in Index /\ tk \in Seq(Desc) /\ IsChain(v, FreeList(v)) /\ IsInjective(FreeList(v))
      /\ IsInjective(AvailOf(v, sn)) /\ IsInjective(tk) /\ IsInjective(FinishedIds(v))
      /\ Parted(T, ToSet(FreeList(v)), {}, ToSet(AvailOf(v, sn)), ToSet(tk), ToSet(FinishedIds(v)))
      /\ x \in Nat /\ v.num_free + 0 + Offers(v, sn) + Len(tk) + Dones(v) + x = VQ_SIZE
  BY DEF Placed, Listed, PendSet, One
<1>2. /\ a \in VQ /\ a.ring = v.ring /\ a.avail = v.avail
      /\ a.next = v.next /\ a.free_head = v.free_head /\ a.num_free = v.num_free
  BY <1>1, PolledIs
<1>3. v.num_free \in Nat /\ Offers(v, sn) \in Nat /\ Len(tk) \in Nat /\ n \in Nat /\ VQ_SIZE \in Nat
  BY <1>1, RingsTyped, Fields, Sizes
<1>4. /\ Dones(a) = n - 1 /\ n > 0 /\ Finished(v)[1] = UsedElem(v)
      /\ \A k \in 1 .. n - 1 : Finished(a)[k] = Finished(v)[k + 1]
  BY <1>1, PollDrops
<1>5. /\ FinishedIds(v) \in [1 .. n -> Desc] /\ \A k \in 1 .. n : FinishedIds(v)[k] = Finished(v)[k].id
  BY <1>1, RingsTyped
<1> HIDE DEF a
<1>6. FinishedIds(a) \in [1 .. n - 1 -> Desc] /\ \A k \in 1 .. n - 1 : FinishedIds(a)[k] = Finished(a)[k].id
  <2>1. /\ FinishedIds(a) \in [1 .. Dones(a) -> Desc]
        /\ \A k \in 1 .. Dones(a) : FinishedIds(a)[k] = Finished(a)[k].id
    BY <1>1, <1>2, RingsTyped
  <2>2. QED BY <1>4, <2>1
<1>7. 1 \in 1 .. n /\ \A k \in 1 .. n - 1 : k + 1 \in 1 .. n /\ ~(k < 1)
  BY <1>3, <1>4
<1>8. d = FinishedIds(v)[1] /\ d \in Desc
  BY <1>4, <1>5, <1>7
<1>9. Drop(Desc, n, FinishedIds(v), 1, FinishedIds(a))
  <2>1. \A k \in 1 .. n - 1 : FinishedIds(a)[k] = FinishedIds(v)[k + 1]
    BY <1>4, <1>5, <1>6, <1>7
  <2>2. \A k \in 1 .. n - 1 : FinishedIds(a)[k] = IF k < 1 THEN FinishedIds(v)[k] ELSE FinishedIds(v)[k + 1]
    BY <1>7, <2>1
  <2>3. QED BY <1>1, <1>3, <1>5, <1>6, <1>7, <2>2 DEF Drop
<1> HIDE DEF d
<1>10. IsInjective(FinishedIds(a)) /\ ToSet(FinishedIds(a)) = ToSet(FinishedIds(v)) \ {d} /\ d \in ToSet(FinishedIds(v))
  BY <1>8, <1>9, Dropped
<1>11. Offers(a, sn) = Offers(v, sn) /\ AvailOf(a, sn) = AvailOf(v, sn) /\ FreeList(a) = FreeList(v) /\ IsChain(a, FreeList(v))
  BY <1>1, <1>2, SameRings
<1>12. Offers(a, sn) < VQ_SIZE
  BY <1>1, <1>3, <1>4, <1>11
<1>13. /\ w \in VQ /\ w.next = a.next /\ w.free_head = a.free_head /\ w.num_free = a.num_free
       /\ w.used = a.used /\ w.idx = a.idx /\ w.next_used = a.next_used
  BY <1>2, <1>8, OfferedIs
<1>14. AvailOf(w, sn) = AvailOf(a, sn) /\ Offers(w, sn) = Offers(a, sn) /\ w.ring[w.avail % VQ_SIZE] = d
  BY <1>1, <1>2, <1>8, <1>12, OfferKeeps
<1> HIDE DEF w
<1>15. FinishedIds(w) = FinishedIds(a) /\ Dones(w) = Dones(a) /\ FreeList(w) = FreeList(a) /\ IsChain(w, FreeList(v))
  BY <1>11, <1>13, SameRings
<1>16. Listed(w, sn, tk)
  BY <1>1, <1>10, <1>11, <1>13, <1>14, <1>15 DEF Listed
<1>17. Parted(T, ToSet(FreeList(v)), {} \cup {d}, ToSet(AvailOf(v, sn)), ToSet(tk), ToSet(FinishedIds(v)) \ {d})
  BY <1>1, <1>10, Moves
<1>18. PendSet(w, TRUE) = {} \cup {d}
  BY <1>14 DEF PendSet
<1>19. w.num_free + 1 + Offers(w, sn) + Len(tk) + Dones(w) + x = VQ_SIZE
  BY <1>1, <1>2, <1>3, <1>4, <1>11, <1>13, <1>14, <1>15
<1>20. Placed(T, x, w, TRUE, sn, tk)
  BY <1>10, <1>11, <1>14, <1>15, <1>16, <1>17, <1>18, <1>19 DEF Placed, One
<1>21. QED BY <1>20 DEF w, a, d

(* submit_and_notify: the index is moved past it. *)
LEMMA SubmitPlaces ==
    ASSUME NEW T, NEW x, NEW v, NEW sn, NEW tk, Placed(T, x, v, TRUE, sn, tk)
    PROVE  Placed(T, x, Published(v), FALSE, sn, tk)
<1> DEFINE d == v.ring[v.avail % VQ_SIZE]
           w == Published(v)
           n == Offers(v, sn)
<1>1. /\ v \in VQ /\ sn \in Index /\ tk \in Seq(Desc) /\ IsChain(v, FreeList(v)) /\ IsInjective(FreeList(v))
      /\ IsInjective(AvailOf(v, sn)) /\ IsInjective(tk) /\ IsInjective(FinishedIds(v))
      /\ Parted(T, ToSet(FreeList(v)), {d}, ToSet(AvailOf(v, sn)), ToSet(tk), ToSet(FinishedIds(v)))
      /\ x \in Nat /\ v.num_free + 1 + Offers(v, sn) + Len(tk) + Dones(v) + x = VQ_SIZE
  BY DEF Placed, Listed, PendSet, One
<1>2. v.num_free \in Nat /\ n \in Nat /\ Len(tk) \in Nat /\ Dones(v) \in Nat /\ VQ_SIZE \in Nat
  BY <1>1, RingsTyped, Fields, Sizes
<1>3. n < VQ_SIZE
  BY <1>1, <1>2
<1>4. /\ w \in VQ /\ w.next = v.next /\ w.free_head = v.free_head /\ w.num_free = v.num_free
      /\ w.used = v.used /\ w.idx = v.idx /\ w.next_used = v.next_used
  BY <1>1, PublishedIs
<1>5. Offers(w, sn) = n + 1 /\ AvailOf(w, sn)[n + 1] = d /\ \A k \in 1 .. n : AvailOf(w, sn)[k] = AvailOf(v, sn)[k]
  BY <1>1, <1>3, PublishAdds
<1>6. d \in Desc
  <2>1. d \in {d}
    OBVIOUS
  <2> HIDE DEF d
  <2>2. QED BY <1>1, <2>1 DEF Parted
<1> HIDE DEF w, d
<1>7. FinishedIds(w) = FinishedIds(v) /\ Dones(w) = Dones(v) /\ FreeList(w) = FreeList(v) /\ IsChain(w, FreeList(v))
  BY <1>1, <1>4, SameRings
<1>8. AvailOf(w, sn) \in [1 .. n + 1 -> Desc] /\ AvailOf(v, sn) \in [1 .. n -> Desc]
  <2>1. AvailOf(w, sn) \in [1 .. Offers(w, sn) -> Desc]
    BY <1>1, <1>4, RingsTyped
  <2>2. QED BY <1>1, <1>5, <2>1, RingsTyped
<1>9. Parted(T, ToSet(FreeList(v)), {d} \ {d}, ToSet(AvailOf(v, sn)) \cup {d}, ToSet(tk), ToSet(FinishedIds(v)))
      /\ d \notin ToSet(AvailOf(v, sn))
  <2>1. PICK B : B = {d} /\ d \in B
    OBVIOUS
  <2>2. Parted(T, ToSet(FreeList(v)), B, ToSet(AvailOf(v, sn)), ToSet(tk), ToSet(FinishedIds(v)))
    BY <1>1, <2>1
  <2>3. /\ Parted(T, ToSet(FreeList(v)), B \ {d}, ToSet(AvailOf(v, sn)) \cup {d}, ToSet(tk), ToSet(FinishedIds(v)))
        /\ d \notin ToSet(AvailOf(v, sn))
    BY <2>1, <2>2, Moves
  <2>4. QED BY <2>1, <2>3
<1>10. Add(Desc, n, AvailOf(v, sn), d, AvailOf(w, sn))
  BY <1>1, <1>2, <1>5, <1>6, <1>8 DEF Add
<1>11. IsInjective(AvailOf(w, sn)) /\ ToSet(AvailOf(w, sn)) = ToSet(AvailOf(v, sn)) \cup {d}
  BY <1>9, <1>10, Added
<1>12. Listed(w, sn, tk)
  BY <1>1, <1>4, <1>7, <1>11 DEF Listed
<1>13. PendSet(w, FALSE) = {d} \ {d}
  BY DEF PendSet
<1>14. w.num_free + 0 + Offers(w, sn) + Len(tk) + Dones(w) + x = VQ_SIZE
  <2>1. Sum(v.num_free, 1, n, Len(tk), Dones(v), x) = VQ_SIZE
    BY <1>1 DEF Sum
  <2>2. w.num_free = v.num_free /\ Offers(w, sn) = n + 1 /\ Dones(w) = Dones(v)
    BY <1>4, <1>5, <1>7
  <2>3. Sum(v.num_free, 0, n + 1, Len(tk), Dones(v), x) = VQ_SIZE
    BY <1>1, <1>2, <2>1, Shift
  <2>4. Sum(w.num_free, 0, Offers(w, sn), Len(tk), Dones(w), x) = VQ_SIZE
    BY <2>2, <2>3
  <2>5. QED BY <2>4 DEF Sum
<1>15. Placed(T, x, w, FALSE, sn, tk)
  BY <1>7, <1>9, <1>11, <1>12, <1>13, <1>14 DEF Placed, One
<1>16. QED BY <1>15 DEF w

(* The device takes the first that is offered. *)
LEMMA TakePlaces ==
    ASSUME NEW T, NEW x, NEW v, NEW p, NEW sn, NEW tk, Placed(T, x, v, p, sn, tk), sn # v.avail
    PROVE  Placed(T, x, v, p, (sn + 1) % IdxSpan, Append(tk, v.ring[sn % VQ_SIZE]))
<1> DEFINE d == v.ring[sn % VQ_SIZE]
           u == (sn + 1) % IdxSpan
           n == Offers(v, sn)
           P == PendSet(v, p)
<1>1. /\ v \in VQ /\ sn \in Index /\ tk \in Seq(Desc) /\ IsChain(v, FreeList(v)) /\ IsInjective(FreeList(v))
      /\ IsInjective(AvailOf(v, sn)) /\ IsInjective(tk) /\ IsInjective(FinishedIds(v))
      /\ Parted(T, ToSet(FreeList(v)), P, ToSet(AvailOf(v, sn)), ToSet(tk), ToSet(FinishedIds(v)))
      /\ x \in Nat /\ v.num_free + One(p) + Offers(v, sn) + Len(tk) + Dones(v) + x = VQ_SIZE
  BY DEF Placed, Listed
<1>2. v.num_free \in Nat /\ n \in Nat /\ Len(tk) \in Nat /\ Dones(v) \in Nat /\ VQ_SIZE \in Nat /\ One(p) \in Nat
  BY <1>1, RingsTyped, Fields, Sizes DEF One
<1>3. /\ Offers(v, u) = n - 1 /\ n > 0 /\ AvailOf(v, sn)[1] = d
      /\ \A k \in 1 .. n - 1 : AvailOf(v, u)[k] = AvailOf(v, sn)[k + 1]
  BY <1>1, TakeDrops
<1>4. u \in Index
  BY <1>1, Next1
<1> HIDE DEF u, P, d
<1>5. AvailOf(v, sn) \in [1 .. n -> Desc] /\ AvailOf(v, u) \in [1 .. n - 1 -> Desc]
  <2>1. AvailOf(v, u) \in [1 .. Offers(v, u) -> Desc]
    BY <1>1, <1>4, RingsTyped
  <2>2. QED BY <1>1, <1>3, <2>1, RingsTyped
<1>6. 1 \in 1 .. n /\ \A k \in 1 .. n - 1 : ~(k < 1)
  BY <1>2, <1>3
<1>7. Drop(Desc, n, AvailOf(v, sn), 1, AvailOf(v, u))
  <2>1. \A k \in 1 .. n - 1 : AvailOf(v, u)[k] = IF k < 1 THEN AvailOf(v, sn)[k] ELSE AvailOf(v, sn)[k + 1]
    BY <1>3, <1>6
  <2>2. QED BY <1>1, <1>2, <1>5, <1>6, <2>1 DEF Drop
<1>8. IsInjective(AvailOf(v, u)) /\ ToSet(AvailOf(v, u)) = ToSet(AvailOf(v, sn)) \ {d} /\ d \in ToSet(AvailOf(v, sn))
  BY <1>3, <1>7, Dropped
<1>9. d \in Desc
  BY <1>3, <1>5, <1>6
<1>10. Parted(T, ToSet(FreeList(v)), P, ToSet(AvailOf(v, sn)) \ {d}, ToSet(tk) \cup {d}, ToSet(FinishedIds(v)))
       /\ d \notin ToSet(tk)
  BY <1>1, <1>8, Moves
<1>11. /\ Append(tk, d) \in Seq(Desc) /\ Len(Append(tk, d)) = Len(tk) + 1
       /\ IsInjective(Append(tk, d)) /\ ToSet(Append(tk, d)) = ToSet(tk) \cup {d}
  BY <1>1, <1>9, <1>10, Appended
<1>12. Listed(v, u, Append(tk, d))
  BY <1>1, <1>4, <1>8, <1>11 DEF Listed
<1>13. v.num_free + One(p) + Offers(v, u) + Len(Append(tk, d)) + Dones(v) + x = VQ_SIZE
  <2>1. Sum(v.num_free, One(p), n, Len(tk), Dones(v), x) = VQ_SIZE
    BY <1>1 DEF Sum
  <2>2. Offers(v, u) = n - 1 /\ Len(Append(tk, d)) = Len(tk) + 1
    BY <1>3, <1>11
  <2>3. Sum(v.num_free, One(p), n - 1, Len(tk) + 1, Dones(v), x) = VQ_SIZE
    BY <1>1, <1>2, <2>1, Shift
  <2>4. Sum(v.num_free, One(p), Offers(v, u), Len(Append(tk, d)), Dones(v), x) = VQ_SIZE
    BY <2>2, <2>3
  <2>5. QED BY <2>4 DEF Sum
<1>14. Placed(T, x, v, p, u, Append(tk, d))
  BY <1>8, <1>10, <1>11, <1>12, <1>13 DEF Placed, P
<1>15. QED BY <1>14 DEF u, d

(* It completes any of those it has. *)
LEMMA CompletePlaces ==
    ASSUME NEW T, NEW x, NEW v, NEW p, NEW sn, NEW tk, Placed(T, x, v, p, sn, tk), NEW i \in DOMAIN tk, NEW len \in {"full", "short"}
    PROVE  /\ Placed(T, x, Used(v, [id |-> tk[i], len |-> len]), p, sn, RemoveAt(tk, i))
           /\ tk[i] \in Desc /\ tk[i] \notin ToSet(FinishedIds(v)) /\ Dones(v) < VQ_SIZE
<1> DEFINE d == tk[i]
           e == [id |-> d, len |-> len]
           w == Used(v, e)
           n == Dones(v)
           P == PendSet(v, p)
           r == RemoveAt(tk, i)
<1>1. /\ v \in VQ /\ sn \in Index /\ tk \in Seq(Desc) /\ IsChain(v, FreeList(v)) /\ IsInjective(FreeList(v))
      /\ IsInjective(AvailOf(v, sn)) /\ IsInjective(tk) /\ IsInjective(FinishedIds(v))
      /\ Parted(T, ToSet(FreeList(v)), P, ToSet(AvailOf(v, sn)), ToSet(tk), ToSet(FinishedIds(v)))
      /\ x \in Nat /\ v.num_free + One(p) + Offers(v, sn) + Len(tk) + Dones(v) + x = VQ_SIZE
  BY DEF Placed, Listed
<1>2. /\ v.num_free \in Nat /\ n \in Nat /\ Len(tk) \in Nat /\ Offers(v, sn) \in Nat
      /\ VQ_SIZE \in Nat /\ One(p) \in Nat
  BY <1>1, RingsTyped, Fields, Sizes DEF One
<1>3. i \in 1 .. Len(tk)
  BY <1>1
<1>4. /\ r \in Seq(Desc) /\ Len(r) = Len(tk) - 1 /\ d \in Desc
      /\ IsInjective(r) /\ ToSet(r) = ToSet(tk) \ {d} /\ d \in ToSet(tk)
  BY <1>1, <1>3, Removed
<1>5. n < VQ_SIZE
  <2>1. PICK a, b, c, l, q : /\ a = v.num_free /\ b = One(p) /\ c = Offers(v, sn) /\ l = Len(tk) /\ q = VQ_SIZE
                             /\ a \in Nat /\ b \in Nat /\ c \in Nat /\ l \in Nat /\ q \in Nat
    BY ONLY <1>2
  <2>2. l >= 1
    BY <1>3, <2>1
  <2>3. PICK m, y : m = n /\ y = x /\ y \in Nat /\ m \in Nat /\ a + b + c + l + m + y = q
    BY ONLY <1>1, <1>2, <2>1
  <2>4. /\ a \in Nat /\ b \in Nat /\ c \in Nat /\ l \in Nat /\ m \in Nat /\ y \in Nat /\ q \in Nat
        /\ a + b + c + l + m + y = q
    BY ONLY <2>1, <2>3, Zenon
  <2>40. m < q
    BY ONLY <2>2, <2>4
  <2>5. QED BY ONLY <2>1, <2>3, <2>40
<1>6. e \in Elem
  BY <1>4 DEF Elem
<1>7. /\ w \in VQ /\ w.next = v.next /\ w.free_head = v.free_head /\ w.num_free = v.num_free
      /\ w.ring = v.ring /\ w.avail = v.avail
  BY <1>1, <1>6, FilledIs
<1>8. Dones(w) = n + 1 /\ Finished(w)[n + 1] = e /\ \A k \in 1 .. n : Finished(w)[k] = Finished(v)[k]
  BY <1>1, <1>5, <1>6, FillAdds
<1>9. /\ FinishedIds(v) \in [1 .. n -> Desc] /\ \A k \in 1 .. n : FinishedIds(v)[k] = Finished(v)[k].id
  BY <1>1, RingsTyped
<1> HIDE DEF w
<1>10. FinishedIds(w) \in [1 .. n + 1 -> Desc] /\ \A k \in 1 .. n + 1 : FinishedIds(w)[k] = Finished(w)[k].id
  <2>1. /\ FinishedIds(w) \in [1 .. Dones(w) -> Desc]
        /\ \A k \in 1 .. Dones(w) : FinishedIds(w)[k] = Finished(w)[k].id
    BY <1>1, <1>7, RingsTyped
  <2>2. QED BY <1>8, <2>1
<1>11. FinishedIds(w)[n + 1] = d /\ \A k \in 1 .. n : FinishedIds(w)[k] = FinishedIds(v)[k]
  <2>1. n + 1 \in 1 .. n + 1 /\ \A k \in 1 .. n : k \in 1 .. n + 1
    BY <1>2
  <2>2. e.id = d
    OBVIOUS
  <2>3. QED BY <1>8, <1>9, <1>10, <2>1, <2>2
<1> HIDE DEF P, r, e
<1>12. Parted(T, ToSet(FreeList(v)), P, ToSet(AvailOf(v, sn)), ToSet(tk) \ {d}, ToSet(FinishedIds(v)) \cup {d})
       /\ d \notin ToSet(FinishedIds(v))
  BY <1>1, <1>4, Moves
<1>13. Add(Desc, n, FinishedIds(v), d, FinishedIds(w))
  BY <1>1, <1>2, <1>4, <1>9, <1>10, <1>11 DEF Add
<1>14. IsInjective(FinishedIds(w)) /\ ToSet(FinishedIds(w)) = ToSet(FinishedIds(v)) \cup {d}
  BY <1>12, <1>13, Added
<1>15. /\ Offers(w, sn) = Offers(v, sn) /\ AvailOf(w, sn) = AvailOf(v, sn)
       /\ FreeList(w) = FreeList(v) /\ IsChain(w, FreeList(v))
  BY <1>1, <1>7, SameRings
<1>16. Listed(w, sn, r)
  BY <1>1, <1>4, <1>7, <1>14, <1>15 DEF Listed
<1>17. PendSet(w, p) = P
  BY <1>7 DEF PendSet, P
<1>18. w.num_free + One(p) + Offers(w, sn) + Len(r) + Dones(w) + x = VQ_SIZE
  <2>1. Sum(v.num_free, One(p), Offers(v, sn), Len(tk), n, x) = VQ_SIZE
    BY <1>1 DEF Sum
  <2>2. w.num_free = v.num_free /\ Offers(w, sn) = Offers(v, sn) /\ Len(r) = Len(tk) - 1 /\ Dones(w) = n + 1
    BY <1>4, <1>7, <1>8, <1>15
  <2>3. Sum(v.num_free, One(p), Offers(v, sn), Len(tk) - 1, n + 1, x) = VQ_SIZE
    BY <1>1, <1>2, <2>1, Shift
  <2>4. Sum(w.num_free, One(p), Offers(w, sn), Len(r), Dones(w), x) = VQ_SIZE
    BY <2>2, <2>3
  <2>5. QED BY <2>4 DEF Sum
<1>19. Placed(T, x, w, p, sn, r)
  BY <1>4, <1>12, <1>14, <1>15, <1>16, <1>17, <1>18 DEF Placed
<1>20. QED BY <1>4, <1>5, <1>12, <1>19 DEF w, e, r

(* The block queue.  A request's three descriptors leave the free list. *)
Link(v, a, b) == [v EXCEPT !.next[a] = b]

Same(v, w) == /\ w.ring = v.ring /\ w.avail = v.avail
              /\ w.used = v.used /\ w.idx = v.idx /\ w.next_used = v.next_used

Lists(v) == v \in VQ /\ IsChain(v, FreeList(v)) /\ IsInjective(FreeList(v))

LEMMA LinkKeeps ==
    ASSUME NEW v, Lists(v), NEW a \in Desc, NEW b \in Desc, a \notin ToSet(FreeList(v))
    PROVE  LET w == Link(v, a, b) IN
           /\ Lists(w) /\ FreeList(w) = FreeList(v) /\ Same(v, w) /\ w.num_free = v.num_free
           /\ w.next = [v.next EXCEPT ![a] = b]
<1> DEFINE w == Link(v, a, b)
           n == v.num_free
           l == FreeList(v)
           nx == [v.next EXCEPT ![a] = b]
<1>1. /\ v \in VQ /\ n \in Nat /\ l \in [1 .. n -> Desc] /\ (n > 0 => l[1] = v.free_head)
      /\ \A k \in 1 .. n - 1 : l[k + 1] = v.next[l[k]]
  BY Fields DEF IsChain, Lists
<1>2. v.next \in [Desc -> Desc \cup {END}] /\ nx \in [Desc -> Desc \cup {END}]
  BY <1>1, Fields
<1>3. w = [v EXCEPT !.next = nx]
  BY <1>1, Fields DEF Link
<1>4. \A k \in 1 .. n : l[k] # a /\ l[k] \in Desc
  BY <1>1 DEF ToSet
<1>5. \A k \in 1 .. n - 1 : nx[l[k]] = v.next[l[k]]
  <2>1. \A k \in 1 .. n - 1 : k \in 1 .. n
    BY <1>1
  <2>2. QED BY <1>2, <1>4, <2>1
<1> HIDE DEF w
<1>6. w.next = nx
  <2> HIDE DEF nx
  <2>1. QED BY <1>1, <1>3, Fields
<1> HIDE DEF nx
<1>7. w = [next |-> nx, free_head |-> v.free_head, num_free |-> v.num_free, ring |-> v.ring,
           avail |-> v.avail, used |-> v.used, idx |-> v.idx, next_used |-> v.next_used]
  BY <1>1, <1>3, Fields
<1>8. w \in VQ
  BY <1>1, <1>2, <1>7, Fields DEF VQ
<1>9. Same(v, w) /\ w.num_free = n /\ w.free_head = v.free_head
  BY <1>7 DEF Same
<1> HIDE DEF l
<1>10. IsChain(w, l)
  BY <1>1, <1>5, <1>6, <1>9 DEF IsChain
<1>11. FreeList(w) = l
  BY <1>1, <1>9, <1>10, ChainIsFreeList
<1>12. IsInjective(l)
  BY DEF Lists, l
<1>13. QED BY <1>6, <1>8, <1>9, <1>10, <1>11, <1>12 DEF Lists, w, l, nx

LEMMA AllocOne ==
    ASSUME NEW v, Lists(v), v.num_free > 0
    PROVE  LET w == alloc_desc(v) IN
           /\ Lists(w) /\ Same(v, w) /\ w.num_free = v.num_free - 1
           /\ v.free_head \in Desc /\ v.free_head \in ToSet(FreeList(v))
           /\ ToSet(FreeList(w)) = ToSet(FreeList(v)) \ {v.free_head}
<1>1. v \in VQ /\ IsChain(v, FreeList(v)) /\ IsInjective(FreeList(v))
  BY DEF Lists
<1>2. LET w == alloc_desc(v) IN
           /\ v.free_head \in Desc /\ w \in VQ
           /\ IsChain(w, FreeList(w)) /\ IsInjective(FreeList(w))
           /\ ToSet(FreeList(w)) = ToSet(FreeList(v)) \ {v.free_head} /\ v.free_head \in ToSet(FreeList(v))
  BY <1>1, AllocDrops
<1>3. LET w == alloc_desc(v) IN
           /\ w.num_free = v.num_free - 1
           /\ w.ring = v.ring /\ w.avail = v.avail /\ w.used = v.used /\ w.idx = v.idx /\ w.next_used = v.next_used
  BY <1>1, <1>2, AllocIs
<1>4. QED BY <1>2, <1>3 DEF Lists, Same

LEMMA FreeOne ==
    ASSUME NEW v, Lists(v), v.num_free < VQ_SIZE, NEW d \in Desc, d \notin ToSet(FreeList(v))
    PROVE  LET w == free_desc(v, d) IN
           /\ Lists(w) /\ Same(v, w) /\ w.num_free = v.num_free + 1
           /\ ToSet(FreeList(w)) = ToSet(FreeList(v)) \cup {d}
<1>1. v \in VQ /\ IsChain(v, FreeList(v)) /\ IsInjective(FreeList(v))
  BY DEF Lists
<1>2. LET w == free_desc(v, d) IN
           /\ w \in VQ /\ IsChain(w, FreeList(w)) /\ IsInjective(FreeList(w))
           /\ ToSet(FreeList(w)) = ToSet(FreeList(v)) \cup {d}
  BY <1>1, FreeAdds
<1>3. LET w == free_desc(v, d) IN
           /\ w.num_free = v.num_free + 1
           /\ w.ring = v.ring /\ w.avail = v.avail /\ w.used = v.used /\ w.idx = v.idx /\ w.next_used = v.next_used
  BY <1>1, FreeIs
<1>4. QED BY <1>2, <1>3 DEF Lists, Same

(* Three free descriptors become a chain that starts at h. *)
Request(v, h, d, s) ==
    /\ h \in Desc /\ d \in Desc /\ s \in Desc /\ h # d /\ h # s /\ d # s
    /\ v.next[h] = d /\ v.next[d] = s

LEMMA ChainedIs ==
    ASSUME NEW v, Lists(v), v.num_free >= 3
    PROVE  \E h, d, s, w :
              /\ Lists(w) /\ Same(v, w) /\ w.num_free = v.num_free - 3
              /\ ToSet(FreeList(w)) = ToSet(FreeList(v)) \ {h, d, s}
              /\ {h, d, s} \subseteq ToSet(FreeList(v))
              /\ Request(w, h, d, s) /\ Chained(v) = Offered(w, h)
<1> DEFINE h == v.free_head
           a == alloc_desc(v)
           d == a.free_head
           b == alloc_desc(a)
           s == b.free_head
           c == alloc_desc(b)
           y == Link(c, h, d)
           w == Link(y, d, s)
           F == ToSet(FreeList(v))
<1>0. v.num_free \in Nat
  BY Fields DEF Lists
<1>1. /\ Lists(a) /\ Same(v, a) /\ a.num_free = v.num_free - 1 /\ h \in Desc /\ h \in F
      /\ ToSet(FreeList(a)) = F \ {h}
  BY <1>0, AllocOne
<1> HIDE DEF h, a
<1>2. /\ Lists(b) /\ Same(a, b) /\ b.num_free = v.num_free - 2 /\ d \in Desc /\ d \in F \ {h}
      /\ ToSet(FreeList(b)) = (F \ {h}) \ {d}
  <2>1. a.num_free > 0 /\ a.num_free - 1 = v.num_free - 2
    BY <1>0, <1>1
  <2>2. QED BY <1>1, <2>1, AllocOne
<1> HIDE DEF b, d
<1>3. /\ Lists(c) /\ Same(b, c) /\ c.num_free = v.num_free - 3 /\ s \in Desc /\ s \in (F \ {h}) \ {d}
      /\ ToSet(FreeList(c)) = ((F \ {h}) \ {d}) \ {s}
  <2>1. b.num_free > 0 /\ b.num_free - 1 = v.num_free - 3
    BY <1>0, <1>2
  <2>2. QED BY <1>2, <2>1, AllocOne
<1> HIDE DEF c, s, F
<1>4. /\ Lists(y) /\ FreeList(y) = FreeList(c) /\ Same(c, y) /\ y.num_free = c.num_free /\ y.next = [c.next EXCEPT ![h] = d]
  BY <1>1, <1>2, <1>3, LinkKeeps
<1>5. w = [c EXCEPT !.next[h] = d, !.next[d] = s]
  BY DEF Link
<1> HIDE DEF y
<1>6. /\ Lists(w) /\ FreeList(w) = FreeList(y) /\ Same(y, w) /\ w.num_free = y.num_free /\ w.next = [y.next EXCEPT ![d] = s]
  BY <1>2, <1>3, <1>4, LinkKeeps
<1> HIDE DEF w
<1>7. c.next \in [Desc -> Desc \cup {END}]
  BY <1>3, Fields DEF Lists
<1>8. Request(w, h, d, s)
  BY <1>1, <1>2, <1>3, <1>4, <1>6, <1>7 DEF Request
<1>9. Same(v, w)
  BY <1>1, <1>2, <1>3, <1>4, <1>6 DEF Same
<1>10. Chained(v) = Offered(w, h)
  BY <1>5 DEF Chained, h, d, s, a, b, c
<1>11. ToSet(FreeList(w)) = F \ {h, d, s} /\ {h, d, s} \subseteq F
  BY <1>1, <1>2, <1>3, <1>4, <1>6
<1>12. w.num_free = v.num_free - 3
  BY <1>3, <1>4, <1>6
<1>13. QED BY <1>6, <1>8, <1>9, <1>10, <1>11, <1>12 DEF F

Idle(v, sn, tk) ==
    Placed({}, 0, v, FALSE, sn, tk) /\ v.num_free = VQ_SIZE /\ ToSet(FreeList(v)) = Desc

(* p: the index is still to be moved past h. *)
BusyWith(v, p, sn, tk, h, d, s) ==
    /\ Request(v, h, d, s) /\ Placed({d, s}, 2, v, p, sn, tk)
    /\ v.num_free + 3 = VQ_SIZE /\ ToSet(FreeList(v)) = Desc \ {h, d, s}
    /\ h = v.ring[(IF p THEN v.avail ELSE v.avail - 1) % VQ_SIZE]

Busy(v, p, sn, tk) == \E h, d, s : BusyWith(v, p, sn, tk, h, d, s)

(* do_sector_io *)
LEMMA ChainPlaces ==
    ASSUME NEW v, NEW sn, NEW tk, Idle(v, sn, tk)
    PROVE  Busy(Chained(v), TRUE, sn, tk) /\ ~HasUsed(Chained(v))
<1>1. /\ v \in VQ /\ sn \in Index /\ tk \in Seq(Desc) /\ IsChain(v, FreeList(v)) /\ IsInjective(FreeList(v))
      /\ IsInjective(AvailOf(v, sn)) /\ IsInjective(tk) /\ IsInjective(FinishedIds(v))
      /\ Parted({}, ToSet(FreeList(v)), {}, ToSet(AvailOf(v, sn)), ToSet(tk), ToSet(FinishedIds(v)))
      /\ v.num_free + 0 + Offers(v, sn) + Len(tk) + Dones(v) + 0 = VQ_SIZE
      /\ v.num_free = VQ_SIZE /\ ToSet(FreeList(v)) = Desc
  BY DEF Idle, Placed, Listed, PendSet, One
<1>2. /\ Offers(v, sn) \in Nat /\ Len(tk) \in Nat /\ Dones(v) \in Nat /\ VQ_SIZE \in Nat /\ VQ_SIZE >= 3
  BY <1>1, RingsTyped, Sizes
<1>3. Offers(v, sn) = 0 /\ Len(tk) = 0 /\ Dones(v) = 0
  BY <1>1, <1>2
<1>4. Lists(v) /\ v.num_free >= 3
  BY <1>1, <1>2 DEF Lists
<1>5. PICK h, d, s, w :
              /\ Lists(w) /\ Same(v, w) /\ w.num_free = v.num_free - 3
              /\ ToSet(FreeList(w)) = ToSet(FreeList(v)) \ {h, d, s}
              /\ {h, d, s} \subseteq ToSet(FreeList(v))
              /\ Request(w, h, d, s) /\ Chained(v) = Offered(w, h)
  BY <1>4, ChainedIs
<1> DEFINE u == Offered(w, h)
<1>6. w \in VQ /\ IsChain(w, FreeList(w)) /\ IsInjective(FreeList(w)) /\ h \in Desc
  BY <1>5 DEF Lists, Request
<1>7. /\ Offers(w, sn) = Offers(v, sn) /\ AvailOf(w, sn) = AvailOf(v, sn)
      /\ FinishedIds(w) = FinishedIds(v) /\ Dones(w) = Dones(v)
  BY <1>5, SameRings DEF Same
<1>8. /\ u \in VQ /\ u.next = w.next /\ u.free_head = w.free_head /\ u.num_free = w.num_free
      /\ u.used = w.used /\ u.idx = w.idx /\ u.next_used = w.next_used
  BY <1>6, OfferedIs
<1>9. Offers(w, sn) < VQ_SIZE
  BY <1>2, <1>3, <1>7
<1>10. AvailOf(u, sn) = AvailOf(w, sn) /\ Offers(u, sn) = Offers(w, sn) /\ u.ring[u.avail % VQ_SIZE] = h
  BY <1>1, <1>6, <1>9, OfferKeeps
<1> HIDE DEF u
<1>11. FinishedIds(u) = FinishedIds(w) /\ Dones(u) = Dones(w) /\ FreeList(u) = FreeList(w) /\ IsChain(u, FreeList(w))
  BY <1>6, <1>8, SameRings
<1>12. Listed(u, sn, tk)
  BY <1>1, <1>6, <1>7, <1>8, <1>10, <1>11 DEF Listed
<1>13. PendSet(u, TRUE) = {h}
  BY <1>10 DEF PendSet
<1>14. Request(u, h, d, s)
  BY <1>5, <1>8 DEF Request
<1>15. ToSet(FreeList(u)) = Desc \ {h, d, s}
  BY <1>1, <1>5, <1>11
<1>16. Parted({d, s}, ToSet(FreeList(u)), PendSet(u, TRUE), ToSet(AvailOf(u, sn)), ToSet(tk), ToSet(FinishedIds(u)))
  <2> DEFINE A == ToSet(AvailOf(v, sn))
             K == ToSet(tk)
             G == ToSet(FinishedIds(v))
  <2>1. A = {} /\ K = {} /\ G = {}
    <3> HIDE DEF A, K, G
    <3>1. Parted({}, Desc, {}, A, K, G)
      BY <1>1 DEF A, K, G
    <3>2. QED BY <3>1 DEF Parted
  <2>2. ToSet(AvailOf(u, sn)) = {} /\ ToSet(FinishedIds(u)) = {} /\ ToSet(tk) = {}
    BY <1>7, <1>10, <1>11, <2>1
  <2>3. h \in Desc /\ d \in Desc /\ s \in Desc /\ h # d /\ h # s
    BY <1>5 DEF Request
  <2>4. Parted({d, s}, Desc \ {h, d, s}, {h}, {}, {}, {})
    BY <2>3 DEF Parted
  <2>5. QED BY <1>13, <1>15, <2>2, <2>4
<1>17. u.num_free + 3 = VQ_SIZE
  BY <1>1, <1>2, <1>5, <1>8
<1>18. Offers(u, sn) = 0 /\ Dones(u) = 0
  BY <1>3, <1>7, <1>10, <1>11
<1>19. u.num_free + 1 + Offers(u, sn) + Len(tk) + Dones(u) + 2 = VQ_SIZE
  <2>1. u.num_free \in Int
    BY <1>8, Fields
  <2>2. QED BY <1>2, <1>3, <1>17, <1>18, <2>1
<1>20. Placed({d, s}, 2, u, TRUE, sn, tk)
  BY <1>12, <1>16, <1>19 DEF Placed, One
<1>21. BusyWith(u, TRUE, sn, tk, h, d, s)
  BY <1>10, <1>14, <1>15, <1>17, <1>20 DEF BusyWith
<1>22. ~HasUsed(u)
  <2>1. u.next_used \in Index /\ u.idx \in Index
    BY <1>8, Fields
  <2>2. QED BY <1>18, <2>1, Spans DEF HasUsed, Dones
<1>23. QED BY <1>5, <1>21, <1>22 DEF Busy, u

LEMMA BusySubmits ==
    ASSUME NEW v, NEW sn, NEW tk, Busy(v, TRUE, sn, tk)
    PROVE  Busy(Published(v), FALSE, sn, tk) /\ (HasUsed(Published(v)) <=> HasUsed(v))
<1> DEFINE w == Published(v)
<1>1. PICK h, d, s : BusyWith(v, TRUE, sn, tk, h, d, s)
  BY DEF Busy
<1>2. /\ Request(v, h, d, s) /\ Placed({d, s}, 2, v, TRUE, sn, tk) /\ v \in VQ
      /\ v.num_free + 3 = VQ_SIZE /\ ToSet(FreeList(v)) = Desc \ {h, d, s}
      /\ h = v.ring[v.avail % VQ_SIZE]
  BY <1>1 DEF BusyWith, Placed, Listed
<1>3. Placed({d, s}, 2, w, FALSE, sn, tk)
  BY <1>2, SubmitPlaces
<1>4. /\ w.avail = (v.avail + 1) % IdxSpan /\ w.next = v.next /\ w.free_head = v.free_head
      /\ w.num_free = v.num_free /\ w.ring = v.ring /\ w.idx = v.idx /\ w.next_used = v.next_used
  BY <1>2, PublishedIs
<1> HIDE DEF w
<1>5. FreeList(w) = FreeList(v)
  BY <1>4, SameRings
<1>6. h = w.ring[(w.avail - 1) % VQ_SIZE]
  <2>1. v.avail \in Index
    BY <1>2, Fields
  <2>2. (((v.avail + 1) % IdxSpan) - 1) % VQ_SIZE = v.avail % VQ_SIZE
    BY <2>1, EndSlot
  <2>3. QED BY <1>2, <1>4, <2>2
<1>7. BusyWith(w, FALSE, sn, tk, h, d, s)
  BY <1>2, <1>3, <1>4, <1>5, <1>6 DEF BusyWith, Request
<1>8. QED BY <1>4, <1>7 DEF Busy, HasUsed, w

LEMMA BusyTakes ==
    ASSUME NEW v, NEW p, NEW sn, NEW tk, Busy(v, p, sn, tk), sn # v.avail
    PROVE  Busy(v, p, (sn + 1) % IdxSpan, Append(tk, v.ring[sn % VQ_SIZE]))
<1>1. PICK h, d, s : BusyWith(v, p, sn, tk, h, d, s)
  BY DEF Busy
<1>2. Placed({d, s}, 2, v, p, sn, tk)
  BY <1>1 DEF BusyWith
<1>3. Placed({d, s}, 2, v, p, (sn + 1) % IdxSpan, Append(tk, v.ring[sn % VQ_SIZE]))
  BY <1>2, TakePlaces
<1>4. BusyWith(v, p, (sn + 1) % IdxSpan, Append(tk, v.ring[sn % VQ_SIZE]), h, d, s)
  BY <1>1, <1>3 DEF BusyWith
<1>5. QED BY <1>4 DEF Busy

LEMMA BusyCompletes ==
    ASSUME NEW v, NEW p, NEW sn, NEW tk, Busy(v, p, sn, tk), NEW i \in DOMAIN tk
    PROVE  Busy(Used(v, [id |-> tk[i], len |-> "full"]), p, sn, RemoveAt(tk, i))
<1> DEFINE e == [id |-> tk[i], len |-> "full"]
           w == Used(v, e)
<1>1. PICK h, d, s : BusyWith(v, p, sn, tk, h, d, s)
  BY DEF Busy
<1>2. Placed({d, s}, 2, v, p, sn, tk) /\ v \in VQ
  BY <1>1 DEF BusyWith, Placed, Listed
<1>3. Placed({d, s}, 2, w, p, sn, RemoveAt(tk, i)) /\ tk[i] \in Desc
  BY <1>2, CompletePlaces
<1>4. e \in Elem
  BY <1>3 DEF Elem
<1>5. /\ w.next = v.next /\ w.free_head = v.free_head /\ w.num_free = v.num_free
      /\ w.ring = v.ring /\ w.avail = v.avail
  BY <1>2, <1>4, FilledIs
<1> HIDE DEF w
<1>6. FreeList(w) = FreeList(v)
  BY <1>5, SameRings
<1>7. BusyWith(w, p, sn, RemoveAt(tk, i), h, d, s)
  BY <1>1, <1>3, <1>5, <1>6 DEF BusyWith, Request
<1>8. QED BY <1>7 DEF Busy, w

(* sector_io_done *)
LEMMA ReleasePlaces ==
    ASSUME NEW v, NEW sn, NEW tk, Busy(v, FALSE, sn, tk), HasUsed(v)
    PROVE  Idle(Released(Polled(v), Chain(v, v.ring[(v.avail - 1) % VQ_SIZE])), sn, tk)
<1>1. PICK h, d, s : BusyWith(v, FALSE, sn, tk, h, d, s)
  BY DEF Busy
<1>2. /\ v \in VQ /\ sn \in Index /\ tk \in Seq(Desc) /\ IsChain(v, FreeList(v)) /\ IsInjective(FreeList(v))
      /\ IsInjective(AvailOf(v, sn)) /\ IsInjective(tk)
      /\ v.num_free + 0 + Offers(v, sn) + Len(tk) + Dones(v) + 2 = VQ_SIZE
      /\ v.num_free + 3 = VQ_SIZE /\ ToSet(FreeList(v)) = Desc \ {h, d, s}
      /\ h \in Desc /\ d \in Desc /\ s \in Desc /\ h # d /\ h # s /\ d # s
  BY <1>1 DEF BusyWith, Placed, Listed, One, Request
<1>3. Chain(v, v.ring[(v.avail - 1) % VQ_SIZE]) = <<h, d, s>>
  BY <1>1 DEF BusyWith, Request, Chain
<1> DEFINE a == Polled(v)
           f == free_desc(a, h)
           g == free_desc(f, d)
           w == free_desc(g, s)
<1>4. v.num_free \in Nat /\ Offers(v, sn) \in Nat /\ Len(tk) \in Nat /\ Dones(v) \in Nat /\ VQ_SIZE \in Nat
  BY <1>2, RingsTyped, Fields, Sizes
<1>5. Dones(a) = Dones(v) - 1 /\ Dones(v) > 0
  BY <1>2, PollDrops
<1>6. /\ a \in VQ /\ a.ring = v.ring /\ a.avail = v.avail
      /\ a.next = v.next /\ a.free_head = v.free_head /\ a.num_free = v.num_free
  BY <1>2, PolledIs
<1> HIDE DEF a
<1>7. /\ FreeList(a) = FreeList(v) /\ Lists(a) /\ Offers(a, sn) = Offers(v, sn) /\ AvailOf(a, sn) = AvailOf(v, sn)
  BY <1>2, <1>6, SameRings DEF Lists
<1>8. Offers(v, sn) = 0 /\ Len(tk) = 0 /\ Dones(a) = 0
  BY <1>2, <1>4, <1>5
<1>9. /\ Lists(f) /\ Same(a, f) /\ f.num_free = a.num_free + 1 /\ ToSet(FreeList(f)) = (Desc \ {h, d, s}) \cup {h}
  <2>1. a.num_free < VQ_SIZE
    BY <1>2, <1>4, <1>6
  <2>2. QED BY <1>2, <1>7, <2>1, FreeOne
<1> HIDE DEF f
<1>10. /\ Lists(g) /\ Same(f, g) /\ g.num_free = f.num_free + 1 /\ ToSet(FreeList(g)) = ((Desc \ {h, d, s}) \cup {h}) \cup {d}
  <2>1. f.num_free < VQ_SIZE
    BY <1>2, <1>4, <1>6, <1>9
  <2>2. QED BY <1>2, <1>9, <2>1, FreeOne
<1> HIDE DEF g
<1>11. /\ Lists(w) /\ Same(g, w) /\ w.num_free = g.num_free + 1
       /\ ToSet(FreeList(w)) = (((Desc \ {h, d, s}) \cup {h}) \cup {d}) \cup {s}
  <2>1. g.num_free < VQ_SIZE
    BY <1>2, <1>4, <1>6, <1>9, <1>10
  <2>2. QED BY <1>2, <1>10, <2>1, FreeOne
<1> HIDE DEF w
<1>12. ToSet(FreeList(w)) = Desc
  BY <1>2, <1>11
<1>13. w.num_free = VQ_SIZE
  BY <1>2, <1>4, <1>6, <1>9, <1>10, <1>11
<1>14. Same(a, w)
  BY <1>9, <1>10, <1>11 DEF Same
<1>15. Offers(w, sn) = 0 /\ AvailOf(w, sn) = AvailOf(v, sn) /\ FinishedIds(w) = FinishedIds(a) /\ Dones(w) = 0
  BY <1>7, <1>8, <1>14, SameRings DEF Same
<1>16. /\ FinishedIds(w) \in [1 .. Dones(w) -> Desc] /\ AvailOf(w, sn) \in [1 .. Offers(w, sn) -> Desc]
  BY <1>2, <1>11, RingsTyped DEF Lists
<1>17. DOMAIN FinishedIds(w) = {} /\ DOMAIN AvailOf(w, sn) = {} /\ DOMAIN tk = {}
  <2>1. 1 .. 0 = {}
    OBVIOUS
  <2>2. DOMAIN tk = 1 .. Len(tk)
    BY <1>2
  <2>3. QED BY <1>8, <1>15, <1>16, <2>1, <2>2
<1>18. ToSet(FinishedIds(w)) = {} /\ ToSet(AvailOf(w, sn)) = {} /\ ToSet(tk) = {}
  BY <1>17 DEF ToSet
<1>19. IsInjective(FinishedIds(w))
  BY <1>17 DEF IsInjective
<1>20. Listed(w, sn, tk)
  BY <1>2, <1>11, <1>15, <1>19 DEF Listed, Lists
<1>21. Parted({}, ToSet(FreeList(w)), PendSet(w, FALSE), ToSet(AvailOf(w, sn)), ToSet(tk), ToSet(FinishedIds(w)))
  BY <1>12, <1>18 DEF Parted, PendSet
<1>22. w.num_free + 0 + Offers(w, sn) + Len(tk) + Dones(w) + 0 = VQ_SIZE
  BY <1>4, <1>8, <1>13, <1>15
<1>23. Idle(w, sn, tk)
  BY <1>12, <1>13, <1>20, <1>21, <1>22 DEF Idle, Placed, One
<1>24. Released(a, <<h, d, s>>) = w
  BY DEF Released, w, g, f
<1>25. QED BY <1>3, <1>23, <1>24 DEF a

(* The state. *)
Blk == [write : BOOLEAN, sector : VqSectors \cup {None}, data : VqValues \cup {None}, status : {"ok", "error"}]

VqTypes ==
    /\ vq_use \subseteq Queues
    /\ vq \in [Queues -> VQ] /\ seen \in [Queues -> Index] /\ taken \in [Queues -> Seq(Desc)]
    /\ step \in Queues \cup {"idle", "wait"}
    /\ buf \in [{"rx", "tx"} -> [Desc -> Frames \cup {None}]]
    /\ blk \in Blk /\ vq_disk \in [VqSectors -> VqValues] /\ came \in Seq(Frames \cup {None})

NetQueue(q) ==
    /\ step = q => Placed({}, 0, vq[q], TRUE, seen[q], taken[q])
    /\ step # q => Placed({}, 0, vq[q], FALSE, seen[q], taken[q])

BlkQueue ==
    /\ step = "blk" => Busy(vq["blk"], TRUE, seen["blk"], taken["blk"])
    /\ step = "wait" => Busy(vq["blk"], FALSE, seen["blk"], taken["blk"])
    /\ step \notin {"blk", "wait"} => Idle(vq["blk"], seen["blk"], taken["blk"])

Arrived ==
    /\ Len(came) = Dones(vq["rx"])
    /\ \A k \in 1 .. Dones(vq["rx"]) : LET e == Finished(vq["rx"])[k] IN e.len = "full" => buf["rx"][e.id] = came[k]

Requested ==
    /\ step \in {"blk", "wait"} =>
          /\ vq_answer = <<>> /\ blk.sector \in VqSectors /\ (blk.write => blk.data \in VqValues)
          /\ HasUsed(vq["blk"]) /\ blk.status = "ok" => vq_disk[blk.sector] = blk.data
    /\ AnswersTrue

VqInv == VqTypes /\ NetQueue("rx") /\ NetQueue("tx") /\ BlkQueue /\ Arrived /\ Requested

LEMMA NewQueue == Idle(new, 0, <<>>) /\ new \in VQ /\ ~HasUsed(new) /\ Dones(new) = 0
<1> DEFINE l == [k \in 1 .. VQ_SIZE |-> k - 1]
<1>1. VQ_SIZE \in Nat \ {0} /\ VQ_SIZE >= 3 /\ IdxSpan \in Nat \ {0} /\ 0 \in Index
  BY Sizes DEF Index
<1>2. new \in VQ
  <2>1. [d \in Desc |-> d + 1] \in [Desc -> Desc \cup {END}] /\ 0 \in Desc
    BY <1>1 DEF Desc, END
  <2>2. [d \in Desc |-> [id |-> 0, len |-> "full"]] \in [Desc -> Elem] /\ [d \in Desc |-> 0] \in [Desc -> Desc]
    BY <2>1 DEF Elem
  <2>3. QED BY <1>1, <2>1, <2>2 DEF new, VQ
<1>3. new.num_free = VQ_SIZE /\ new.free_head = 0 /\ new.next = [d \in Desc |-> d + 1] /\ new.avail = 0 /\ new.idx = 0 /\ new.next_used = 0
  BY DEF new
<1>4. l \in [1 .. VQ_SIZE -> Desc]
  BY <1>1 DEF Desc
<1>5. IsChain(new, l)
  <2>1. l[1] = 0
    BY <1>1
  <2>2. ASSUME NEW k \in 1 .. VQ_SIZE - 1 PROVE l[k + 1] = new.next[l[k]]
    <3>1. k \in 1 .. VQ_SIZE /\ k + 1 \in 1 .. VQ_SIZE
      BY <1>1
    <3>2. l[k] = k - 1 /\ l[k] \in Desc /\ l[k + 1] = k
      BY <1>1, <1>4, <3>1
    <3>3. QED BY <1>3, <3>2
  <2> HIDE DEF l
  <2>3. QED BY <1>3, <1>4, <2>1, <2>2 DEF IsChain
<1>6. FreeList(new) = l
  <2> HIDE DEF l
  <2>1. QED BY <1>1, <1>3, <1>5, ChainIsFreeList
<1>7. IsInjective(l)
  BY <1>1 DEF IsInjective
<1>8. ToSet(l) = Desc
  <2>1. \A d \in Desc : d + 1 \in 1 .. VQ_SIZE /\ l[d + 1] = d
    BY <1>1 DEF Desc
  <2>2. DOMAIN l = 1 .. VQ_SIZE
    OBVIOUS
  <2> HIDE DEF l
  <2>3. QED BY <1>4, <2>1, <2>2 DEF ToSet
<1> HIDE DEF l
<1>9. Offers(new, 0) = 0 /\ Dones(new) = 0
  BY <1>1, <1>3, Spans DEF Offers, Dones
<1>10. /\ FinishedIds(new) \in [1 .. 0 -> Desc] /\ AvailOf(new, 0) \in [1 .. 0 -> Desc]
  <2>1. FinishedIds(new) \in [1 .. Dones(new) -> Desc] /\ AvailOf(new, 0) \in [1 .. Offers(new, 0) -> Desc]
    BY <1>1, <1>2, RingsTyped
  <2>2. QED BY <1>9, <2>1
<1>11. DOMAIN FinishedIds(new) = {} /\ DOMAIN AvailOf(new, 0) = {} /\ DOMAIN <<>> = {}
  <2>1. 1 .. 0 = {}
    OBVIOUS
  <2>2. QED BY <1>10, <2>1
<1>12. ToSet(FinishedIds(new)) = {} /\ ToSet(AvailOf(new, 0)) = {} /\ ToSet(<<>>) = {}
  BY <1>11 DEF ToSet
<1>13. IsInjective(FinishedIds(new)) /\ IsInjective(AvailOf(new, 0)) /\ IsInjective(<<>>)
  BY <1>11 DEF IsInjective
<1>14. <<>> \in Seq(Desc) /\ Len(<<>>) = 0
  OBVIOUS
<1>15. Listed(new, 0, <<>>)
  BY <1>1, <1>2, <1>5, <1>6, <1>7, <1>13, <1>14 DEF Listed
<1>16. Parted({}, ToSet(FreeList(new)), PendSet(new, FALSE), ToSet(AvailOf(new, 0)), ToSet(<<>>), ToSet(FinishedIds(new)))
  BY <1>6, <1>8, <1>12 DEF Parted, PendSet
<1>17. new.num_free + 0 + Offers(new, 0) + Len(<<>>) + Dones(new) + 0 = VQ_SIZE
  BY <1>1, <1>3, <1>9, <1>14
<1>18. Placed({}, 0, new, FALSE, 0, <<>>)
  BY <1>15, <1>16, <1>17 DEF Placed, One
<1>19. QED BY <1>2, <1>3, <1>6, <1>8, <1>9, <1>18 DEF Idle, HasUsed

LEMMA FullQueue == Placed({}, 0, Presubmitted, FALSE, 0, <<>>) /\ Presubmitted \in VQ /\ Dones(Presubmitted) = 0
<1> DEFINE v == Presubmitted
<1>1. VQ_SIZE \in Nat \ {0} /\ VQ_SIZE >= 3 /\ IdxSpan \in Nat \ {0} /\ 0 \in Index /\ VQ_SIZE \in Index
  BY Sizes DEF Index
<1>2. v = [next |-> [d \in Desc |-> END], free_head |-> END, num_free |-> 0, ring |-> [d \in Desc |-> d],
           avail |-> VQ_SIZE, used |-> new.used, idx |-> 0, next_used |-> 0]
  <2> DEFINE nx == [d \in Desc |-> END]
             rg == [d \in Desc |-> d]
             N == new
  <2>1. v = [N EXCEPT !.next = nx, !.free_head = END, !.num_free = 0, !.ring = rg, !.avail = VQ_SIZE]
    BY DEF Presubmitted
  <2>2. N.idx = 0 /\ N.next_used = 0
    BY DEF new
  <2>3. N \in VQ
    BY NewQueue
  <2> HIDE DEF nx, rg, N, v
  <2>4. v = [next |-> nx, free_head |-> END, num_free |-> 0, ring |-> rg,
             avail |-> VQ_SIZE, used |-> N.used, idx |-> 0, next_used |-> 0]
    <3>1. N = [next |-> N.next, free_head |-> N.free_head, num_free |-> N.num_free, ring |-> N.ring,
               avail |-> N.avail, used |-> N.used, idx |-> N.idx, next_used |-> N.next_used]
      BY <2>3, Fields
    <3>2. PICK a, b, c, r, e, u : N = [next |-> a, free_head |-> b, num_free |-> c, ring |-> r,
                                       avail |-> e, used |-> u, idx |-> 0, next_used |-> 0] /\ u = N.used
      BY <2>2, <3>1
    <3>3. QED BY ONLY <2>1, <3>2
  <2>5. QED BY <2>4 DEF nx, rg, N
<1>3. v \in VQ
  <2>1. [d \in Desc |-> END] \in [Desc -> Desc \cup {END}] /\ [d \in Desc |-> d] \in [Desc -> Desc] /\ 0 \in 0 .. VQ_SIZE
    BY <1>1
  <2>2. new.used \in [Desc -> Elem]
    BY NewQueue, Fields
  <2>3. QED BY <1>1, <1>2, <2>1, <2>2 DEF VQ
<1>4. v.num_free = 0 /\ v.ring = [d \in Desc |-> d] /\ v.avail = VQ_SIZE /\ v.idx = 0 /\ v.next_used = 0
  BY <1>2
<1> HIDE DEF v
<1>5. Offers(v, 0) = VQ_SIZE /\ Dones(v) = 0
  <2>1. Span(0, VQ_SIZE) = VQ_SIZE
    BY <1>1, SpanIs
  <2>2. Span(0, 0) = 0
    BY <1>1, SpanIs
  <2>3. QED BY <1>4, <2>1, <2>2 DEF Offers, Dones
<1>6. /\ FinishedIds(v) \in [1 .. 0 -> Desc] /\ AvailOf(v, 0) \in [1 .. VQ_SIZE -> Desc]
  <2>1. FinishedIds(v) \in [1 .. Dones(v) -> Desc] /\ AvailOf(v, 0) \in [1 .. Offers(v, 0) -> Desc]
    BY <1>1, <1>3, RingsTyped
  <2>2. QED BY <1>5, <2>1
<1>7. \A k \in 1 .. VQ_SIZE : AvailOf(v, 0)[k] = k - 1
  <2>1. ASSUME NEW k \in 1 .. VQ_SIZE PROVE AvailOf(v, 0)[k] = k - 1
    <3>1. AvailOf(v, 0)[k] = v.ring[Slot(0, k)]
      BY <1>5 DEF AvailOf, Offers
    <3>2. k - 1 \in 0 .. VQ_SIZE - 1 /\ 0 + k - 1 = k - 1
      BY <1>1
    <3>3. Slot(0, k) = k - 1
      BY <1>1, <3>2, ModSmall DEF Slot
    <3>4. QED BY <1>4, <3>1, <3>2, <3>3 DEF Desc
  <2>2. QED BY <2>1
<1>8. IsInjective(AvailOf(v, 0)) /\ ToSet(AvailOf(v, 0)) = Desc
  <2> DEFINE l == AvailOf(v, 0)
  <2>1. l \in [1 .. VQ_SIZE -> Desc] /\ \A k \in 1 .. VQ_SIZE : l[k] = k - 1
    BY <1>6, <1>7
  <2> HIDE DEF l
  <2>2. \A d \in Desc : d + 1 \in 1 .. VQ_SIZE /\ l[d + 1] = d
    BY <1>1, <2>1 DEF Desc
  <2>3. IsInjective(l)
    BY <1>1, <2>1 DEF IsInjective
  <2>4. ToSet(l) = Desc
    BY <2>1, <2>2 DEF ToSet
  <2>5. QED BY <2>3, <2>4 DEF l
<1>9. IsChain(v, <<>>) /\ FreeList(v) = <<>>
  <2>1. <<>> \in [1 .. 0 -> Desc]
    OBVIOUS
  <2>2. IsChain(v, <<>>)
    BY <1>4, <2>1 DEF IsChain
  <2>3. QED BY <1>4, <2>2, ChainIsFreeList
<1>10. DOMAIN FinishedIds(v) = {} /\ DOMAIN <<>> = {}
  <2>1. 1 .. 0 = {}
    OBVIOUS
  <2>2. QED BY <1>6, <2>1
<1>11. ToSet(FinishedIds(v)) = {} /\ ToSet(<<>>) = {} /\ IsInjective(FinishedIds(v)) /\ IsInjective(<<>>)
  BY <1>10 DEF ToSet, IsInjective
<1>12. <<>> \in Seq(Desc) /\ Len(<<>>) = 0
  OBVIOUS
<1>13. Listed(v, 0, <<>>)
  BY <1>1, <1>3, <1>8, <1>9, <1>11, <1>12 DEF Listed
<1>14. Parted({}, ToSet(FreeList(v)), PendSet(v, FALSE), ToSet(AvailOf(v, 0)), ToSet(<<>>), ToSet(FinishedIds(v)))
  BY <1>8, <1>9, <1>11 DEF Parted, PendSet
<1>15. v.num_free + 0 + Offers(v, 0) + Len(<<>>) + Dones(v) + 0 = VQ_SIZE
  BY <1>1, <1>4, <1>5, <1>12
<1>16. Placed({}, 0, v, FALSE, 0, <<>>)
  BY <1>13, <1>14, <1>15 DEF Placed, One
<1>17. QED BY <1>3, <1>5, <1>16 DEF v

LEMMA VqInits == VqInit => VqInv
<1> SUFFICES ASSUME VqInit PROVE VqInv
  OBVIOUS
<1>1. 0 \in Index
  BY Sizes DEF Index
<1>2. vq["rx"] = Presubmitted /\ vq["tx"] = new /\ vq["blk"] = new /\ vq \in [Queues -> VQ]
  BY NewQueue, FullQueue DEF VqInit, Queues
<1>3. \A q \in Queues : seen[q] = 0 /\ taken[q] = <<>>
  BY DEF VqInit
<1>4. step = "idle" /\ vq_answer = <<>> /\ came = <<>>
  BY DEF VqInit
<1>5. VqTypes
  <2>1. seen \in [Queues -> Index] /\ taken \in [Queues -> Seq(Desc)]
    BY <1>1 DEF VqInit
  <2>2. buf \in [{"rx", "tx"} -> [Desc -> Frames \cup {None}]]
    BY DEF VqInit
  <2>3. blk \in Blk
    BY DEF VqInit, Blk
  <2>4. vq_disk \in [VqSectors -> VqValues]
    BY VirtioAssumption DEF VqInit
  <2>5. vq_use \subseteq Queues
    BY VirtioAssumption DEF VqInit
  <2>6. QED BY <1>2, <1>4, <2>1, <2>2, <2>3, <2>4, <2>5 DEF VqTypes
<1>6. NetQueue("rx") /\ NetQueue("tx")
  BY <1>2, <1>3, <1>4, NewQueue, FullQueue DEF NetQueue, Queues, Idle
<1>7. BlkQueue
  BY <1>2, <1>3, <1>4, NewQueue DEF BlkQueue, Queues
<1>8. Arrived
  BY <1>2, <1>4, FullQueue DEF Arrived
<1>9. AnswersTrue
  <2>1. <<>> \notin VqSectors \X VqValues
    OBVIOUS
  <2>2. QED BY <1>4, <2>1 DEF AnswersTrue
<1>10. Requested
  BY <1>4, <1>9 DEF Requested
<1>11. QED BY <1>5, <1>6, <1>7, <1>8, <1>10 DEF VqInv

(* A queue that a step leaves alone. *)
LEMMA KeepsNet ==
    ASSUME NEW q, NetQueue(q), vq'[q] = vq[q], seen'[q] = seen[q], taken'[q] = taken[q], step' = q <=> step = q
    PROVE  NetQueue(q)'
BY DEF NetQueue

LEMMA KeepsBlk ==
    ASSUME BlkQueue, vq'["blk"] = vq["blk"], seen'["blk"] = seen["blk"], taken'["blk"] = taken["blk"],
           step' = step \/ (step \notin {"blk", "wait"} /\ step' \notin {"blk", "wait"})
    PROVE  BlkQueue'
BY DEF BlkQueue

LEMMA KeepsArrived ==
    ASSUME Arrived, came' = came, vq'["rx"] = vq["rx"], buf'["rx"] = buf["rx"]
    PROVE  Arrived'
BY DEF Arrived

LEMMA KeepsRequested ==
    ASSUME Requested, vq_answer' = vq_answer, blk' = blk, vq_disk' = vq_disk, vq'["blk"] = vq["blk"],
           step' = step \/ (step \notin {"blk", "wait"} /\ step' \notin {"blk", "wait"})
    PROVE  Requested'
BY DEF Requested, AnswersTrue

(* One queue is given a new value. *)
LEMMA OneQueue ==
    ASSUME VqTypes, NEW q \in Queues, NEW v \in VQ, vq' = [vq EXCEPT ![q] = v]
    PROVE  vq' \in [Queues -> VQ] /\ vq'[q] = v /\ \A r \in Queues : r # q => vq'[r] = vq[r]
BY DEF VqTypes

(* Without a request the block queue's rings are empty. *)
NothingOffered(v, sn, tk) == sn = v.avail /\ tk = <<>>

LEMMA IdleIsEmpty ==
    ASSUME NEW v, NEW sn, NEW tk, Idle(v, sn, tk)
    PROVE  NothingOffered(v, sn, tk)
<1>1. /\ v \in VQ /\ sn \in Index /\ tk \in Seq(Desc) /\ v.num_free = VQ_SIZE
      /\ v.num_free + 0 + Offers(v, sn) + Len(tk) + Dones(v) + 0 = VQ_SIZE
  BY DEF Idle, Placed, Listed, One
<1>2. /\ Offers(v, sn) \in Nat /\ Len(tk) \in Nat /\ Dones(v) \in Nat /\ VQ_SIZE \in Nat /\ v.avail \in Index
  BY <1>1, RingsTyped, Sizes, Fields
<1>3. Offers(v, sn) = 0 /\ Len(tk) = 0
  BY <1>1, <1>2
<1>4. sn = v.avail
  BY <1>1, <1>2, <1>3, Spans DEF Offers
<1>5. QED BY <1>1, <1>3, <1>4 DEF NothingOffered

LEMMA NotAPair == ASSUME NEW x PROVE <<x>> \notin VqSectors \X VqValues
<1> SUFFICES ASSUME <<x>> \in VqSectors \X VqValues PROVE FALSE
  OBVIOUS
<1>1. PICK a, b : <<x>> = <<a, b>>
  OBVIOUS
<1>2. Len(<<x>>) = 1 /\ Len(<<a, b>>) = 2
  OBVIOUS
<1>3. QED BY <1>1, <1>2

LEMMA InQueues == "rx" \in Queues /\ "tx" \in Queues /\ "blk" \in Queues
BY DEF Queues

LEMMA Submits ==
    ASSUME VqInv, submit_and_notify
    PROVE  VqInv'
<1>1. /\ VqTypes /\ NetQueue("rx") /\ NetQueue("tx") /\ BlkQueue /\ Arrived /\ Requested
      /\ step \in Queues /\ vq' = [vq EXCEPT ![step] = Published(vq[step])]
      /\ step' = (IF step = "blk" THEN "wait" ELSE "idle")
      /\ vq_use' = vq_use /\ buf' = buf /\ blk' = blk /\ vq_answer' = vq_answer /\ seen' = seen
      /\ taken' = taken /\ vq_disk' = vq_disk /\ came' = came
  BY DEF VqInv, submit_and_notify
<1>2. vq[step] \in VQ /\ Published(vq[step]) \in VQ
  <2>1. vq[step] \in VQ
    BY <1>1 DEF VqTypes
  <2>2. QED BY <2>1, PublishedIs
<1>3. vq' \in [Queues -> VQ] /\ vq'[step] = Published(vq[step]) /\ \A r \in Queues : r # step => vq'[r] = vq[r]
  BY <1>1, <1>2, OneQueue
<1>4. VqTypes'
  BY <1>1, <1>3 DEF VqTypes
<1>5. ASSUME NEW q \in {"rx", "tx"} PROVE NetQueue(q)'
  <2>1. q \in Queues /\ NetQueue(q) /\ q # "blk" /\ q # "wait" /\ q # "idle"
    BY <1>1, InQueues
  <2>2. CASE step = q
    <3>1. Placed({}, 0, vq[q], TRUE, seen[q], taken[q])
      BY <2>1, <2>2 DEF NetQueue
    <3>2. Placed({}, 0, Published(vq[q]), FALSE, seen[q], taken[q])
      BY <3>1, SubmitPlaces
    <3>3. step' # q /\ vq'[q] = Published(vq[q])
      BY <1>1, <1>3, <2>1, <2>2
    <3>4. QED BY <1>1, <3>2, <3>3 DEF NetQueue
  <2>3. CASE step # q
    <3>1. step' # q
      BY <1>1, <2>1
    <3>2. QED BY <1>1, <1>3, <2>1, <2>3, <3>1, KeepsNet
  <2>4. QED BY <2>2, <2>3
<1>6. BlkQueue' /\ Requested'
  <2>1. CASE step = "blk"
    <3>1. Busy(vq["blk"], TRUE, seen["blk"], taken["blk"])
      BY <1>1, <2>1 DEF BlkQueue
    <3>2. Busy(Published(vq["blk"]), FALSE, seen["blk"], taken["blk"]) /\ (HasUsed(Published(vq["blk"])) <=> HasUsed(vq["blk"]))
      BY <3>1, BusySubmits
    <3>3. step' = "wait" /\ vq'["blk"] = Published(vq["blk"])
      BY <1>1, <1>3, <2>1
    <3>4. BlkQueue'
      BY <1>1, <3>2, <3>3 DEF BlkQueue
    <3>5. HasUsed(vq'["blk"]) <=> HasUsed(vq["blk"])
      BY <3>2, <3>3
    <3>6. Requested'
      BY <1>1, <2>1, <3>5 DEF Requested, AnswersTrue
    <3>7. QED BY <3>4, <3>6
  <2>2. CASE step # "blk"
    <3>1. step \notin {"blk", "wait"} /\ step' \notin {"blk", "wait"}
      BY <1>1, <2>2 DEF Queues
    <3>2. vq'["blk"] = vq["blk"]
      BY <1>3, <2>2, InQueues
    <3>3. QED BY <1>1, <3>1, <3>2, KeepsBlk, KeepsRequested
  <2>3. QED BY <2>1, <2>2
<1>7. Arrived'
  <2>1. CASE step = "rx"
    <3>1. vq'["rx"] = Published(vq["rx"]) /\ vq["rx"] \in VQ
      BY <1>2, <1>3, <2>1
    <3>2. Finished(vq'["rx"]) = Finished(vq["rx"]) /\ Dones(vq'["rx"]) = Dones(vq["rx"])
      BY <3>1, PublishedIs, SameRings
    <3>3. QED BY <1>1, <3>2 DEF Arrived
  <2>2. CASE step # "rx"
    <3>1. vq'["rx"] = vq["rx"]
      BY <1>3, <2>2, InQueues
    <3>2. QED BY <1>1, <3>1, KeepsArrived
  <2>3. QED BY <2>1, <2>2
<1>8. QED BY <1>4, <1>5, <1>6, <1>7 DEF VqInv

LEMMA Sends ==
    ASSUME VqInv, NEW f \in Frames, send_frame(f)
    PROVE  VqInv'
<1>1. /\ VqTypes /\ NetQueue("rx") /\ NetQueue("tx") /\ BlkQueue /\ Arrived /\ Requested /\ step = "idle"
      /\ vq_use' = vq_use /\ blk' = blk /\ seen' = seen
      /\ taken' = taken /\ vq_disk' = vq_disk /\ came' = came
  BY DEF VqInv, send_frame, Calls
<1>2. vq_answer' \notin VqSectors \X VqValues
  <2>1. <<"tx queue full">> \notin VqSectors \X VqValues /\ <<"sent">> \notin VqSectors \X VqValues
    BY NotAPair
  <2>2. vq_answer' = <<"tx queue full">> \/ vq_answer' = <<"sent">>
    BY DEF send_frame
  <2>3. QED BY <2>1, <2>2
<1>3. AnswersTrue'
  BY <1>2 DEF AnswersTrue
<1>4. CASE vq["tx"].num_free = 0
  <2>1. vq' = vq /\ buf' = buf /\ step' = step
    BY <1>4 DEF send_frame
  <2>2. VqTypes'
    BY <1>1, <2>1 DEF VqTypes
  <2>3. NetQueue("rx")' /\ NetQueue("tx")' /\ BlkQueue' /\ Arrived'
    BY <1>1, <2>1, KeepsNet, KeepsBlk, KeepsArrived
  <2>4. Requested'
    BY <1>1, <1>3, <2>1 DEF Requested
  <2>5. QED BY <2>2, <2>3, <2>4 DEF VqInv
<1>5. CASE vq["tx"].num_free # 0
  <2> DEFINE v == vq["tx"]
             d == v.free_head
             w == Offered(alloc_desc(v), d)
  <2>1. buf' = [buf EXCEPT !["tx"][d] = f] /\ vq' = [vq EXCEPT !["tx"] = w] /\ step' = "tx"
    BY <1>5 DEF send_frame
  <2>2. v.num_free > 0 /\ v \in VQ
    <3>1. v \in VQ
      BY <1>1, InQueues DEF VqTypes
    <3>2. QED BY <1>5, <3>1, Fields
  <2>3. Placed({}, 0, v, FALSE, seen["tx"], taken["tx"])
    BY <1>1 DEF NetQueue
  <2>4. Placed({}, 0, w, TRUE, seen["tx"], taken["tx"]) /\ d \in Desc
    BY <2>2, <2>3, SendPlaces
  <2>5. w \in VQ
    BY <2>4 DEF Placed, Listed
  <2> HIDE DEF w, d
  <2>6. vq' \in [Queues -> VQ] /\ vq'["tx"] = w /\ \A r \in Queues : r # "tx" => vq'[r] = vq[r]
    BY <1>1, <2>1, <2>5, InQueues, OneQueue
  <2>7. vq'["rx"] = vq["rx"] /\ vq'["blk"] = vq["blk"]
    BY <2>6, InQueues
  <2>8. buf' \in [{"rx", "tx"} -> [Desc -> Frames \cup {None}]] /\ buf'["rx"] = buf["rx"]
    BY <1>1, <2>1, <2>4 DEF VqTypes
  <2>9. VqTypes'
    BY <1>1, <2>1, <2>6, <2>8, InQueues DEF VqTypes
  <2>10. NetQueue("tx")'
    BY <1>1, <2>1, <2>4, <2>6 DEF NetQueue
  <2>11. NetQueue("rx")'
    BY <1>1, <2>1, <2>7, KeepsNet
  <2>12. BlkQueue'
    BY <1>1, <2>1, <2>7, KeepsBlk
  <2>13. Arrived'
    BY <1>1, <2>7, <2>8, KeepsArrived
  <2>14. Requested'
    BY <1>3, <2>1 DEF Requested
  <2>15. QED BY <2>9, <2>10, <2>11, <2>12, <2>13, <2>14 DEF VqInv
<1>6. QED BY <1>4, <1>5

LEMMA Receives ==
    ASSUME VqInv, receive_frame
    PROVE  VqInv'
<1> DEFINE v == vq["rx"]
           e == UsedElem(v)
           a == Polled(v)
           w == Offered(a, e.id)
           n == Dones(v)
<1>1. /\ VqTypes /\ NetQueue("rx") /\ NetQueue("tx") /\ BlkQueue /\ Arrived /\ Requested /\ step = "idle" /\ HasUsed(v)
      /\ came' = Tail(came) /\ vq' = [vq EXCEPT !["rx"] = w] /\ step' = "rx"
      /\ vq_use' = vq_use /\ buf' = buf /\ blk' = blk /\ vq_answer' = vq_answer /\ seen' = seen
      /\ taken' = taken /\ vq_disk' = vq_disk
  BY DEF VqInv, receive_frame, Calls
<1>2. Placed({}, 0, v, FALSE, seen["rx"], taken["rx"]) /\ v \in VQ
  BY <1>1, InQueues DEF NetQueue, VqTypes
<1>3. Placed({}, 0, w, TRUE, seen["rx"], taken["rx"])
  BY <1>1, <1>2, ReceivePlaces
<1>4. w \in VQ
  BY <1>3 DEF Placed, Listed
<1>5. e.id \in Desc /\ a \in VQ
  <2>1. a \in VQ
    BY <1>2, PolledIs
  <2>2. n \in Nat /\ Finished(v) \in [1 .. n -> Elem]
    BY <1>1, <1>2, RingsTyped DEF VqTypes, Queues
  <2>3. n > 0 /\ Finished(v)[1] = e
    BY <1>1, <1>2, PollDrops
  <2>4. 1 \in 1 .. n
    BY <2>2, <2>3
  <2>5. e \in Elem
    BY <2>2, <2>3, <2>4
  <2>6. QED BY <2>1, <2>5 DEF Elem
<1>6. /\ Dones(w) = n - 1 /\ n > 0 /\ n \in Nat
      /\ \A k \in 1 .. n - 1 : Finished(w)[k] = Finished(v)[k + 1]
  <2>1. /\ Dones(a) = n - 1 /\ n > 0 /\ \A k \in 1 .. n - 1 : Finished(a)[k] = Finished(v)[k + 1]
    BY <1>1, <1>2, PollDrops
  <2>2. w.used = a.used /\ w.idx = a.idx /\ w.next_used = a.next_used
    BY <1>5, OfferedIs
  <2> HIDE DEF a, w
  <2>3. Finished(w) = Finished(a) /\ Dones(w) = Dones(a)
    BY <2>2, SameRings
  <2>4. n \in Nat
    BY <1>1, <1>2, RingsTyped DEF VqTypes, Queues
  <2>5. QED BY <2>1, <2>3, <2>4
<1> HIDE DEF w, a, e
<1>7. vq' \in [Queues -> VQ] /\ vq'["rx"] = w /\ \A r \in Queues : r # "rx" => vq'[r] = vq[r]
  BY <1>1, <1>4, InQueues, OneQueue
<1>8. vq'["tx"] = vq["tx"] /\ vq'["blk"] = vq["blk"]
  BY <1>7, InQueues
<1>9. /\ came \in Seq(Frames \cup {None}) /\ Len(came) = n
      /\ \A k \in 1 .. n : Finished(v)[k].len = "full" => buf["rx"][Finished(v)[k].id] = came[k]
  BY <1>1 DEF VqTypes, Arrived
<1> HIDE DEF n, v
<1>10. /\ came' \in Seq(Frames \cup {None}) /\ Len(came') = n - 1
       /\ \A k \in 1 .. n - 1 : came'[k] = came[k + 1]
  <2>1. came # <<>>
    BY <1>6, <1>9
  <2>2. Tail(came) \in Seq(Frames \cup {None}) /\ Len(Tail(came)) = n - 1
    BY <1>9, <2>1
  <2>3. \A k \in 1 .. n - 1 : Tail(came)[k] = came[k + 1]
    BY <1>9, <2>1
  <2>4. QED BY <1>1, <2>2, <2>3
<1>11. VqTypes'
  BY <1>1, <1>7, <1>10, InQueues DEF VqTypes
<1>12. NetQueue("rx")'
  BY <1>1, <1>3, <1>7 DEF NetQueue
<1>13. NetQueue("tx")' /\ BlkQueue' /\ Requested'
  BY <1>1, <1>8, KeepsNet, KeepsBlk, KeepsRequested
<1>14. Arrived'
  <2>1. ASSUME NEW k \in 1 .. n - 1, Finished(w)[k].len = "full"
        PROVE  buf["rx"][Finished(w)[k].id] = came'[k]
    <3>1. k + 1 \in 1 .. n
      BY <1>6
    <3>2. Finished(w)[k] = Finished(v)[k + 1] /\ came'[k] = came[k + 1]
      BY <1>6, <1>10
    <3>3. QED BY <1>9, <2>1, <3>1, <3>2
  <2>2. QED BY <1>1, <1>6, <1>7, <1>10, <2>1 DEF Arrived
<1>15. QED BY <1>11, <1>12, <1>13, <1>14 DEF VqInv

LEMMA Begins ==
    ASSUME VqInv, NEW write \in BOOLEAN, NEW lba \in VqSectors, NEW value \in VqValues, do_sector_io(write, lba, value)
    PROVE  VqInv'
<1>1. /\ VqTypes /\ NetQueue("rx") /\ NetQueue("tx") /\ BlkQueue /\ Arrived /\ Requested /\ step = "idle"
      /\ vq_use' = vq_use /\ buf' = buf /\ seen' = seen
      /\ taken' = taken /\ vq_disk' = vq_disk /\ came' = came
  BY DEF VqInv, do_sector_io, Calls
<1>2. vq_answer' \notin VqSectors \X VqValues
  <2>1. <<"failed">> \notin VqSectors \X VqValues /\ <<>> \notin VqSectors \X VqValues
    BY NotAPair
  <2>2. vq_answer' = <<"failed">> \/ vq_answer' = <<>>
    BY DEF do_sector_io
  <2>3. QED BY <2>1, <2>2
<1>3. AnswersTrue'
  BY <1>2 DEF AnswersTrue
<1>4. CASE vq["blk"].num_free < 3
  <2>1. vq' = vq /\ blk' = blk /\ step' = step
    BY <1>4 DEF do_sector_io
  <2>2. VqTypes'
    BY <1>1, <2>1 DEF VqTypes
  <2>3. NetQueue("rx")' /\ NetQueue("tx")' /\ BlkQueue' /\ Arrived'
    BY <1>1, <2>1, KeepsNet, KeepsBlk, KeepsArrived
  <2>4. Requested'
    BY <1>1, <1>3, <2>1 DEF Requested
  <2>5. QED BY <2>2, <2>3, <2>4 DEF VqInv
<1>5. CASE ~(vq["blk"].num_free < 3)
  <2> DEFINE v == vq["blk"]
             w == Chained(v)
  <2>1. /\ vq' = [vq EXCEPT !["blk"] = w] /\ step' = "blk" /\ vq_answer' = <<>>
        /\ blk' = [write |-> write, sector |-> lba, status |-> "ok", data |-> IF write THEN value ELSE blk.data]
    BY <1>5 DEF do_sector_io
  <2>2. Idle(v, seen["blk"], taken["blk"])
    BY <1>1 DEF BlkQueue
  <2>3. Busy(w, TRUE, seen["blk"], taken["blk"]) /\ ~HasUsed(w)
    BY <2>2, ChainPlaces
  <2>4. w \in VQ
    BY <2>3 DEF Busy, BusyWith, Placed, Listed
  <2> HIDE DEF w
  <2>5. vq' \in [Queues -> VQ] /\ vq'["blk"] = w /\ \A r \in Queues : r # "blk" => vq'[r] = vq[r]
    BY <1>1, <2>1, <2>4, InQueues, OneQueue
  <2>6. vq'["rx"] = vq["rx"] /\ vq'["tx"] = vq["tx"]
    BY <2>5, InQueues
  <2>7. blk' \in Blk /\ blk'.sector = lba /\ (blk'.write => blk'.data \in VqValues)
    <3>1. (IF write THEN value ELSE blk.data) \in VqValues \cup {None}
      BY <1>1 DEF VqTypes, Blk
    <3>2. blk'.write = write /\ blk'.sector = lba /\ blk'.data = IF write THEN value ELSE blk.data
      BY <2>1
    <3>3. blk' \in Blk
      BY <2>1, <3>1 DEF Blk
    <3>4. blk'.write => blk'.data \in VqValues
      BY <3>2
    <3>5. QED BY <3>2, <3>3, <3>4
  <2>8. VqTypes'
    BY <1>1, <2>1, <2>5, <2>7, InQueues DEF VqTypes
  <2>9. BlkQueue'
    BY <1>1, <2>1, <2>3, <2>5 DEF BlkQueue
  <2>10. NetQueue("rx")' /\ NetQueue("tx")' /\ Arrived'
    BY <1>1, <2>1, <2>6, KeepsNet, KeepsArrived
  <2>11. Requested'
    BY <1>3, <2>1, <2>3, <2>5, <2>7 DEF Requested
  <2>12. QED BY <2>8, <2>9, <2>10, <2>11 DEF VqInv
<1>6. QED BY <1>4, <1>5

LEMMA Ends ==
    ASSUME VqInv, sector_io_done
    PROVE  VqInv'
<1> DEFINE v == vq["blk"]
           w == Released(Polled(v), Chain(v, v.ring[(v.avail - 1) % VQ_SIZE]))
<1>1. /\ VqTypes /\ NetQueue("rx") /\ NetQueue("tx") /\ BlkQueue /\ Arrived /\ Requested
      /\ step = "wait" /\ HasUsed(v) /\ vq' = [vq EXCEPT !["blk"] = w] /\ step' = "idle" /\ vq_answer' = Result
      /\ vq_use' = vq_use /\ buf' = buf /\ blk' = blk /\ seen' = seen
      /\ taken' = taken /\ vq_disk' = vq_disk /\ came' = came
  BY DEF VqInv, sector_io_done
<1>2. Busy(v, FALSE, seen["blk"], taken["blk"])
  BY <1>1 DEF BlkQueue
<1>3. Idle(w, seen["blk"], taken["blk"])
  BY <1>1, <1>2, ReleasePlaces
<1>4. w \in VQ
  BY <1>3 DEF Idle, Placed, Listed
<1> HIDE DEF w
<1>5. vq' \in [Queues -> VQ] /\ vq'["blk"] = w /\ \A r \in Queues : r # "blk" => vq'[r] = vq[r]
  BY <1>1, <1>4, InQueues, OneQueue
<1>6. vq'["rx"] = vq["rx"] /\ vq'["tx"] = vq["tx"]
  BY <1>5, InQueues
<1>7. VqTypes'
  BY <1>1, <1>5 DEF VqTypes
<1>8. BlkQueue'
  BY <1>1, <1>3, <1>5 DEF BlkQueue
<1>9. NetQueue("rx")' /\ NetQueue("tx")' /\ Arrived'
  BY <1>1, <1>6, KeepsNet, KeepsArrived
<1>10. AnswersTrue'
  <2>1. CASE blk.status # "ok"
    <3>1. vq_answer' = <<"failed">>
      BY <1>1, <2>1 DEF Result
    <3>2. vq_answer' \notin VqSectors \X VqValues
      BY <3>1, NotAPair
    <3>3. QED BY <3>2 DEF AnswersTrue
  <2>2. CASE blk.status = "ok"
    <3>1. vq_answer' = <<blk.sector, blk.data>> /\ vq_disk[blk.sector] = blk.data
      BY <1>1, <2>2 DEF Result, Requested
    <3>2. vq_answer'[1] = blk.sector /\ vq_answer'[2] = blk.data
      BY <3>1
    <3>3. QED BY <1>1, <3>1, <3>2 DEF AnswersTrue
  <2>3. QED BY <2>1, <2>2
<1>11. Requested'
  BY <1>1, <1>10 DEF Requested
<1>12. QED BY <1>7, <1>8, <1>9, <1>11 DEF VqInv

LEMMA Takes ==
    ASSUME VqInv, NEW q \in Queues, device_takes(q)
    PROVE  VqInv'
<1> DEFINE u == (seen[q] + 1) % IdxSpan
           t == Append(taken[q], vq[q].ring[seen[q] % VQ_SIZE])
<1>1. /\ VqTypes /\ NetQueue("rx") /\ NetQueue("tx") /\ BlkQueue /\ Arrived /\ Requested
      /\ seen[q] # vq[q].avail /\ taken' = [taken EXCEPT ![q] = t] /\ seen' = [seen EXCEPT ![q] = u]
      /\ vq_use' = vq_use /\ vq' = vq /\ step' = step /\ buf' = buf /\ blk' = blk /\ vq_answer' = vq_answer
      /\ vq_disk' = vq_disk /\ came' = came
  BY DEF VqInv, device_takes
<1>2. u \in Index /\ t \in Seq(Desc)
  <2>1. seen[q] \in Index /\ taken[q] \in Seq(Desc) /\ vq[q] \in VQ
    BY <1>1 DEF VqTypes
  <2>2. seen[q] % VQ_SIZE \in Desc
    <3>1. VQ_SIZE \in Nat \ {0} /\ seen[q] \in Int
      BY <2>1, Sizes DEF Index
    <3>2. QED BY <3>1, ModRange DEF Desc
  <2>3. vq[q].ring[seen[q] % VQ_SIZE] \in Desc
    BY <2>1, <2>2, Fields
  <2>4. QED BY <2>1, <2>3, Next1
<1>3. VqTypes'
  BY <1>1, <1>2 DEF VqTypes
<1>4. seen'[q] = u /\ taken'[q] = t /\ \A r \in Queues : r # q => seen'[r] = seen[r] /\ taken'[r] = taken[r]
  BY <1>1 DEF VqTypes
<1>5. ASSUME NEW r \in {"rx", "tx"} PROVE NetQueue(r)'
  <2>1. NetQueue(r) /\ r \in Queues
    BY <1>1, InQueues
  <2>2. CASE r = q
    <3>1. step = q => Placed({}, 0, vq[q], TRUE, u, t)
      BY <1>1, <2>1, <2>2, TakePlaces DEF NetQueue
    <3>2. step # q => Placed({}, 0, vq[q], FALSE, u, t)
      BY <1>1, <2>1, <2>2, TakePlaces DEF NetQueue
    <3> HIDE DEF u, t
    <3>3. QED BY <1>1, <1>4, <2>2, <3>1, <3>2 DEF NetQueue
  <2>3. CASE r # q
    BY <1>1, <1>4, <2>1, <2>3, KeepsNet
  <2>4. QED BY <2>2, <2>3
<1>6. BlkQueue'
  <2>1. CASE q = "blk"
    <3>1. step = "blk" => Busy(vq["blk"], TRUE, u, t)
      BY <1>1, <2>1, BusyTakes DEF BlkQueue
    <3>2. step = "wait" => Busy(vq["blk"], FALSE, u, t)
      BY <1>1, <2>1, BusyTakes DEF BlkQueue
    <3>3. ASSUME step \notin {"blk", "wait"} PROVE FALSE
      <4>1. Idle(vq["blk"], seen["blk"], taken["blk"])
        BY <1>1, <3>3 DEF BlkQueue
      <4>2. NothingOffered(vq["blk"], seen["blk"], taken["blk"])
        BY <4>1, IdleIsEmpty
      <4>3. QED BY <1>1, <2>1, <4>2 DEF NothingOffered
    <3> HIDE DEF u, t
    <3>4. QED BY <1>1, <1>4, <2>1, <3>1, <3>2, <3>3 DEF BlkQueue
  <2>2. CASE q # "blk"
    BY <1>1, <1>4, <2>2, InQueues, KeepsBlk
  <2>3. QED BY <2>1, <2>2
<1>7. Arrived' /\ Requested'
  BY <1>1, KeepsArrived, KeepsRequested
<1>8. QED BY <1>3, <1>5, <1>6, <1>7 DEF VqInv

(* The device completes descriptor i of queue q. *)
Completed(q, i, len) ==
    /\ i \in DOMAIN taken[q] /\ taken[q][i] \in Desc
    /\ vq' \in [Queues -> VQ] /\ vq'[q] = Used(vq[q], [id |-> taken[q][i], len |-> len])
    /\ taken' \in [Queues -> Seq(Desc)] /\ taken'[q] = RemoveAt(taken[q], i)
    /\ \A r \in Queues : r # q => vq'[r] = vq[r] /\ taken'[r] = taken[r]
    /\ vq_use' = vq_use /\ step' = step /\ vq_answer' = vq_answer /\ seen' = seen

LEMMA Fills ==
    ASSUME VqInv, NEW q \in Queues, NEW i, NEW len \in {"full", "short"}, Completes(q, i, len)
    PROVE  Completed(q, i, len)
<1> DEFINE e == [id |-> taken[q][i], len |-> len]
           w == Used(vq[q], e)
           v == vq[q]
           us == [v.used EXCEPT ![v.idx % VQ_SIZE] = e]
<1>1. /\ i \in DOMAIN taken[q] /\ taken' = [taken EXCEPT ![q] = RemoveAt(taken[q], i)]
      /\ vq_use' = vq_use /\ step' = step /\ vq_answer' = vq_answer /\ seen' = seen
  BY DEF Completes
<1>2. vq \in [Queues -> VQ] /\ taken \in [Queues -> Seq(Desc)] /\ v \in VQ /\ taken[q] \in Seq(Desc)
  BY DEF VqInv, VqTypes
<1>3. taken[q][i] \in Desc /\ i \in 1 .. Len(taken[q])
  BY <1>1, <1>2
<1>4. e \in Elem
  BY <1>3 DEF Elem
<1>5. vq' = [vq EXCEPT ![q] = w]
  <2>1. vq' = [vq EXCEPT ![q] = [[v EXCEPT !.used = us] EXCEPT !.idx = (v.idx + 1) % IdxSpan]]
    BY <1>2, Fields DEF Completes
  <2>2. w = [[v EXCEPT !.used = us] EXCEPT !.idx = (v.idx + 1) % IdxSpan]
    BY <1>2, Fields DEF Used
  <2>3. QED BY <2>1, <2>2
<1>6. w \in VQ
  BY <1>2, <1>4, FilledIs
<1> HIDE DEF w, e
<1>7. vq' \in [Queues -> VQ] /\ vq'[q] = w /\ \A r \in Queues : r # q => vq'[r] = vq[r]
  BY <1>2, <1>5, <1>6
<1>8. RemoveAt(taken[q], i) \in Seq(Desc)
  <2>1. CASE q = "blk"
    <3>1. IsInjective(taken[q])
      BY <2>1 DEF VqInv, VqTypes, BlkQueue, Busy, BusyWith, Idle, Placed, Listed
    <3>2. QED BY <1>2, <1>3, <3>1, Removed
  <2>2. CASE q # "blk"
    <3>1. NetQueue(q)
      BY <2>2 DEF VqInv, Queues
    <3>2. IsInjective(taken[q])
      BY <3>1 DEF NetQueue, Placed, Listed
    <3>3. QED BY <1>2, <1>3, <3>2, Removed
  <2>3. QED BY <2>1, <2>2
<1>9. taken' \in [Queues -> Seq(Desc)] /\ taken'[q] = RemoveAt(taken[q], i) /\ \A r \in Queues : r # q => taken'[r] = taken[r]
  BY <1>1, <1>2, <1>8
<1>10. QED BY <1>1, <1>3, <1>7, <1>9 DEF Completed, w, e

LEMMA NetCompletes ==
    ASSUME VqInv, NEW q \in {"rx", "tx"}, NEW i, NEW len \in {"full", "short"}, Completes(q, i, len)
    PROVE  NetQueue("rx")' /\ NetQueue("tx")' /\ BlkQueue'
<1> DEFINE w == Used(vq[q], [id |-> taken[q][i], len |-> len])
           t == RemoveAt(taken[q], i)
<1>1. q \in Queues
  BY DEF Queues
<1>2. /\ i \in DOMAIN taken[q] /\ vq'[q] = w /\ taken'[q] = t
      /\ \A r \in Queues : r # q => vq'[r] = vq[r] /\ taken'[r] = taken[r]
      /\ step' = step /\ seen' = seen
  <2>1. Completed(q, i, len)
    BY <1>1, Fills
  <2>2. QED BY <2>1 DEF Completed
<1>3. ASSUME NEW r \in {"rx", "tx"} PROVE NetQueue(r)'
  <2>1. NetQueue(r) /\ r \in Queues
    BY InQueues DEF VqInv
  <2>2. CASE r = q
    <3>1. step = q => Placed({}, 0, w, TRUE, seen[q], t)
      BY <1>2, <2>1, <2>2, CompletePlaces DEF NetQueue
    <3>2. step # q => Placed({}, 0, w, FALSE, seen[q], t)
      BY <1>2, <2>1, <2>2, CompletePlaces DEF NetQueue
    <3> HIDE DEF w, t
    <3>3. QED BY <1>2, <2>2, <3>1, <3>2 DEF NetQueue
  <2>3. CASE r # q
    BY <1>2, <2>1, <2>3, KeepsNet
  <2>4. QED BY <2>2, <2>3
<1>4. BlkQueue'
  BY <1>2, InQueues, KeepsBlk DEF VqInv
<1>5. QED BY <1>3, <1>4

LEMMA SendsOut ==
    ASSUME VqInv, NEW i, device_sends(i)
    PROVE  VqInv'
<1>1. /\ Completes("tx", i, "full") /\ buf' = buf /\ blk' = blk /\ vq_disk' = vq_disk /\ came' = came
  BY DEF device_sends
<1>2. NetQueue("rx")' /\ NetQueue("tx")' /\ BlkQueue'
  BY <1>1, NetCompletes
<1>3. /\ vq' \in [Queues -> VQ] /\ taken' \in [Queues -> Seq(Desc)]
      /\ \A r \in Queues : r # "tx" => vq'[r] = vq[r] /\ taken'[r] = taken[r]
      /\ vq_use' = vq_use /\ step' = step /\ vq_answer' = vq_answer /\ seen' = seen
  <2>1. Completed("tx", i, "full")
    BY <1>1, InQueues, Fills
  <2>2. QED BY <2>1 DEF Completed
<1>4. VqTypes'
  BY <1>1, <1>3 DEF VqInv, VqTypes
<1>5. Arrived' /\ Requested'
  BY <1>1, <1>3, InQueues, KeepsArrived, KeepsRequested DEF VqInv
<1>6. QED BY <1>2, <1>4, <1>5 DEF VqInv

LEMMA Delivers ==
    ASSUME VqInv, NEW i, NEW f \in Frames, NEW len \in {"full", "short"}, device_receives(i, f, len)
    PROVE  VqInv'
<1> DEFINE v == vq["rx"]
           d == taken["rx"][i]
           e == [id |-> d, len |-> len]
           w == Used(v, e)
           n == Dones(v)
           x == IF len = "short" THEN None ELSE f
<1>1. /\ Completes("rx", i, len) /\ blk' = blk /\ vq_disk' = vq_disk
      /\ buf' = (IF len = "short" THEN buf ELSE [buf EXCEPT !["rx"][d] = f]) /\ came' = Append(came, x)
  BY DEF device_receives
<1>2. NetQueue("rx")' /\ NetQueue("tx")' /\ BlkQueue'
  BY <1>1, NetCompletes
<1>3. /\ vq' \in [Queues -> VQ] /\ taken' \in [Queues -> Seq(Desc)] /\ i \in DOMAIN taken["rx"] /\ d \in Desc
      /\ \A r \in Queues : r # "rx" => vq'[r] = vq[r] /\ taken'[r] = taken[r]
      /\ vq'["rx"] = w /\ vq_use' = vq_use /\ step' = step /\ vq_answer' = vq_answer /\ seen' = seen
  <2>1. Completed("rx", i, len)
    BY <1>1, InQueues, Fills
  <2>2. QED BY <2>1 DEF Completed
<1>4. v \in VQ /\ buf \in [{"rx", "tx"} -> [Desc -> Frames \cup {None}]] /\ came \in Seq(Frames \cup {None}) /\ seen["rx"] \in Index
  BY InQueues DEF VqInv, VqTypes
<1>5. d \notin ToSet(FinishedIds(v)) /\ n < VQ_SIZE
  <2>1. NetQueue("rx")
    BY DEF VqInv
  <2>2. \E p \in BOOLEAN : Placed({}, 0, v, p, seen["rx"], taken["rx"])
    BY <2>1 DEF NetQueue
  <2>3. QED BY <1>3, <2>2, CompletePlaces
<1>6. e \in Elem /\ e.id = d /\ e.len = len
  BY <1>3 DEF Elem
<1>7. Dones(w) = n + 1 /\ Finished(w)[n + 1] = e /\ \A k \in 1 .. n : Finished(w)[k] = Finished(v)[k]
  BY <1>4, <1>5, <1>6, FillAdds
<1>8. /\ n \in Nat /\ \A k \in 1 .. n : Finished(v)[k].id # d /\ Finished(v)[k].id \in Desc
  <2>1. /\ n \in Nat /\ FinishedIds(v) \in [1 .. n -> Desc] /\ \A k \in 1 .. n : FinishedIds(v)[k] = Finished(v)[k].id
    BY <1>4, RingsTyped
  <2>2. \A k \in 1 .. n : FinishedIds(v)[k] \in ToSet(FinishedIds(v))
    BY <2>1 DEF ToSet
  <2>3. QED BY <1>5, <2>1, <2>2
<1>9. /\ Len(came) = n
      /\ \A k \in 1 .. n : Finished(v)[k].len = "full" => buf["rx"][Finished(v)[k].id] = came[k]
  BY DEF VqInv, Arrived
<1>10. x \in Frames \cup {None}
  OBVIOUS
<1>11. /\ buf' \in [{"rx", "tx"} -> [Desc -> Frames \cup {None}]]
       /\ \A c \in Desc : c # d => buf'["rx"][c] = buf["rx"][c]
       /\ len = "full" => buf'["rx"][d] = x
  BY <1>1, <1>3, <1>4
<1> HIDE DEF w, e, x, n, v
<1>12. /\ came' \in Seq(Frames \cup {None}) /\ Len(came') = n + 1 /\ came'[n + 1] = x
       /\ \A k \in 1 .. n : came'[k] = came[k]
  BY <1>1, <1>4, <1>8, <1>9, <1>10
<1>13. VqTypes'
  BY <1>1, <1>3, <1>11, <1>12 DEF VqInv, VqTypes
<1>14. Requested'
  BY <1>1, <1>3, InQueues, KeepsRequested DEF VqInv
<1>15. Arrived'
  <2>1. ASSUME NEW k \in 1 .. n + 1, Finished(w)[k].len = "full"
        PROVE  buf'["rx"][Finished(w)[k].id] = came'[k]
    <3>1. CASE k = n + 1
      BY <1>6, <1>7, <1>11, <1>12, <2>1, <3>1
    <3>2. CASE k # n + 1
      <4>1. k \in 1 .. n
        BY <1>8, <3>2
      <4>2. Finished(w)[k] = Finished(v)[k] /\ came'[k] = came[k]
        BY <1>7, <1>12, <4>1
      <4>3. buf'["rx"][Finished(v)[k].id] = buf["rx"][Finished(v)[k].id]
        BY <1>8, <1>11, <4>1
      <4>4. QED BY <1>9, <2>1, <4>1, <4>2, <4>3
    <3>3. QED BY <3>1, <3>2
  <2>2. QED BY <1>3, <1>7, <1>12, <2>1 DEF Arrived
<1>16. QED BY <1>2, <1>13, <1>14, <1>15 DEF VqInv

LEMMA Serves ==
    ASSUME VqInv, NEW i, NEW ok \in BOOLEAN, device_serves(i, ok)
    PROVE  VqInv'
<1> DEFINE v == vq["blk"]
           w == Used(v, [id |-> taken["blk"][i], len |-> "full"])
           t == RemoveAt(taken["blk"], i)
<1>1. /\ Completes("blk", i, "full") /\ buf' = buf /\ came' = came
      /\ vq_disk' = (IF ok /\ blk.write THEN [vq_disk EXCEPT ![blk.sector] = blk.data] ELSE vq_disk)
      /\ blk' = [blk EXCEPT !.status = IF ok THEN "ok" ELSE "error",
                            !.data = IF ok /\ ~blk.write THEN vq_disk[blk.sector] ELSE blk.data]
  BY DEF device_serves
<1>2. /\ vq' \in [Queues -> VQ] /\ taken' \in [Queues -> Seq(Desc)] /\ i \in DOMAIN taken["blk"]
      /\ \A r \in Queues : r # "blk" => vq'[r] = vq[r] /\ taken'[r] = taken[r]
      /\ vq'["blk"] = w /\ taken'["blk"] = t /\ vq_use' = vq_use /\ step' = step /\ vq_answer' = vq_answer /\ seen' = seen
  <2>1. Completed("blk", i, "full")
    BY <1>1, InQueues, Fills
  <2>2. QED BY <2>1 DEF Completed
<1>3. VqTypes /\ NetQueue("rx") /\ NetQueue("tx") /\ BlkQueue /\ Arrived /\ Requested
  BY DEF VqInv
<1>4. step \in {"blk", "wait"}
  <2>1. SUFFICES ASSUME step \notin {"blk", "wait"} PROVE FALSE
    OBVIOUS
  <2>2. Idle(v, seen["blk"], taken["blk"])
    BY <1>3, <2>1 DEF BlkQueue
  <2>3. taken["blk"] = <<>>
    BY <2>2, IdleIsEmpty DEF NothingOffered
  <2>4. QED BY <1>2, <2>3
<1>5. vq_answer = <<>> /\ blk.sector \in VqSectors /\ (blk.write => blk.data \in VqValues)
  BY <1>3, <1>4 DEF Requested
<1>6. /\ blk \in Blk /\ vq_disk \in [VqSectors -> VqValues]
  BY <1>3 DEF VqTypes
<1>7. /\ blk' \in Blk /\ blk'.sector = blk.sector /\ blk'.write = blk.write
      /\ blk'.data = (IF ok /\ ~blk.write THEN vq_disk[blk.sector] ELSE blk.data)
      /\ blk'.status = IF ok THEN "ok" ELSE "error"
  <2> DEFINE x == IF ok /\ ~blk.write THEN vq_disk[blk.sector] ELSE blk.data
             st == IF ok THEN "ok" ELSE "error"
  <2>1. x \in VqValues \cup {None} /\ st \in {"ok", "error"}
    BY <1>5, <1>6 DEF Blk
  <2>2. blk = [write |-> blk.write, sector |-> blk.sector, data |-> blk.data, status |-> blk.status]
        /\ blk.write \in BOOLEAN /\ blk.sector \in VqSectors \cup {None}
    BY <1>6 DEF Blk
  <2>3. blk' = [blk EXCEPT !.status = st, !.data = x]
    BY <1>1
  <2> HIDE DEF x, st
  <2>4. blk' = [write |-> blk.write, sector |-> blk.sector, data |-> x, status |-> st]
    BY <2>2, <2>3
  <2>5. blk' \in Blk
    BY <2>1, <2>2, <2>4 DEF Blk
  <2>6. QED BY <2>4, <2>5 DEF x, st
<1>8. vq_disk' \in [VqSectors -> VqValues] /\ (ok => vq_disk'[blk.sector] = blk'.data)
  <2>1. CASE ok /\ blk.write
    BY <1>1, <1>5, <1>6, <1>7, <2>1
  <2>2. CASE ok /\ ~blk.write
    BY <1>1, <1>5, <1>6, <1>7, <2>2
  <2>3. CASE ~ok
    BY <1>1, <1>6, <2>3
  <2>4. QED BY <2>1, <2>2, <2>3
<1>9. VqTypes'
  BY <1>1, <1>2, <1>3, <1>7, <1>8 DEF VqTypes
<1>10. BlkQueue'
  <2>1. step = "blk" => Busy(w, TRUE, seen["blk"], t)
    BY <1>2, <1>3, BusyCompletes DEF BlkQueue
  <2>2. step = "wait" => Busy(w, FALSE, seen["blk"], t)
    BY <1>2, <1>3, BusyCompletes DEF BlkQueue
  <2> HIDE DEF w, t
  <2>3. QED BY <1>2, <1>4, <2>1, <2>2 DEF BlkQueue
<1>11. NetQueue("rx")' /\ NetQueue("tx")' /\ Arrived'
  BY <1>1, <1>2, <1>3, InQueues, KeepsNet, KeepsArrived
<1>12. Requested'
  <2>1. blk'.status = "ok" => vq_disk'[blk'.sector] = blk'.data
    BY <1>7, <1>8
  <2>2. blk'.sector \in VqSectors
    BY <1>5, <1>7
  <2>3. blk'.write => blk'.data \in VqValues
    BY <1>5, <1>6, <1>7
  <2>4. vq_answer' = <<>>
    BY <1>2, <1>5
  <2>5. AnswersTrue'
    <3>1. <<>> \notin VqSectors \X VqValues
      OBVIOUS
    <3>2. QED BY <2>4, <3>1 DEF AnswersTrue
  <2>6. QED BY <2>1, <2>2, <2>3, <2>4, <2>5 DEF Requested
<1>13. QED BY <1>9, <1>10, <1>11, <1>12 DEF VqInv

LEMMA VqSteps == VqInv /\ [VqNext]_vq_vars => VqInv'
<1> SUFFICES ASSUME VqInv, [VqNext]_vq_vars PROVE VqInv'
  OBVIOUS
<1>1. CASE submit_and_notify BY <1>1, Submits
<1>2. ASSUME NEW f \in Frames, send_frame(f) PROVE VqInv' BY <1>2, Sends
<1>3. CASE receive_frame BY <1>3, Receives
<1>4. ASSUME NEW write \in BOOLEAN, NEW s \in VqSectors, NEW x \in VqValues, do_sector_io(write, s, x) PROVE VqInv'
  BY <1>4, Begins
<1>5. CASE sector_io_done BY <1>5, Ends
<1>6. ASSUME NEW q \in Queues, device_takes(q) PROVE VqInv' BY <1>6, Takes
<1>7. ASSUME NEW i \in 1 .. VQ_SIZE, device_sends(i) PROVE VqInv' BY <1>7, SendsOut
<1>8. ASSUME NEW i \in 1 .. VQ_SIZE, NEW f \in Frames, NEW len \in {"full", "short"}, device_receives(i, f, len) PROVE VqInv'
  BY <1>8, Delivers
<1>9. ASSUME NEW i \in 1 .. VQ_SIZE, NEW ok \in BOOLEAN, device_serves(i, ok) PROVE VqInv' BY <1>9, Serves
<1>10. CASE UNCHANGED vq_vars
  BY <1>10 DEF vq_vars, VqInv, VqTypes, NetQueue, BlkQueue, Arrived, Requested, AnswersTrue
<1>11. QED BY <1>1, <1>2, <1>3, <1>4, <1>5, <1>6, <1>7, <1>8, <1>9, <1>10 DEF VqNext, Driver, Device

(* From the places as sets to the places as sequences. *)
Owned(places) ==
    /\ \A i \in DOMAIN places : IsInjective(places[i])
    /\ \A i, j \in DOMAIN places : i # j => ToSet(places[i]) \cap ToSet(places[j]) = {}
    /\ UNION {ToSet(places[i]) : i \in DOMAIN places} = Desc

LEMMA FivePlaces ==
    ASSUME NEW a, NEW b, NEW c, NEW d, NEW e, IsInjective(a), IsInjective(b), IsInjective(c), IsInjective(d), IsInjective(e),
           Parted({}, ToSet(a), ToSet(b), ToSet(c), ToSet(d), ToSet(e))
    PROVE  Owned(<<a, b, c, d, e>>)
<1> DEFINE places == <<a, b, c, d, e>>
<1>1. DOMAIN places = 1 .. 5 /\ places[1] = a /\ places[2] = b /\ places[3] = c /\ places[4] = d /\ places[5] = e
  OBVIOUS
<1> HIDE DEF places
<1>2. \A i \in 1 .. 5 : i = 1 \/ i = 2 \/ i = 3 \/ i = 4 \/ i = 5
  OBVIOUS
<1>3. \A i \in DOMAIN places : IsInjective(places[i])
  BY <1>1, <1>2
<1>4. PICK A, B, C, D, E : A = ToSet(a) /\ B = ToSet(b) /\ C = ToSet(c) /\ D = ToSet(d) /\ E = ToSet(e)
  OBVIOUS
<1>5. /\ ToSet(places[1]) = A /\ ToSet(places[2]) = B /\ ToSet(places[3]) = C /\ ToSet(places[4]) = D /\ ToSet(places[5]) = E
  BY <1>1, <1>4
<1>6. Parted({}, A, B, C, D, E)
  BY <1>4
<1> DEFINE S(i) == ToSet(places[i])
<1>7. S(1) = A /\ S(2) = B /\ S(3) = C /\ S(4) = D /\ S(5) = E
  BY <1>5
<1> HIDE DEF S
<1>8. A \cap B = {} /\ A \cap C = {} /\ A \cap D = {} /\ A \cap E = {} /\ B \cap C = {}
      /\ B \cap D = {} /\ B \cap E = {} /\ C \cap D = {} /\ C \cap E = {} /\ D \cap E = {}
  BY <1>6 DEF Parted
<1>9. ASSUME NEW i \in 1 .. 5, NEW j \in 1 .. 5, i < j PROVE S(i) \cap S(j) = {}
  <2>1. \/ i = 1 /\ (j = 2 \/ j = 3 \/ j = 4 \/ j = 5)
        \/ i = 2 /\ (j = 3 \/ j = 4 \/ j = 5)
        \/ i = 3 /\ (j = 4 \/ j = 5)
        \/ i = 4 /\ j = 5
    BY <1>9
  <2>2. QED BY <1>7, <1>8, <2>1
<1>10. ASSUME NEW i \in 1 .. 5, NEW j \in 1 .. 5, i # j PROVE S(i) \cap S(j) = {}
  <2>1. CASE i < j
    BY <1>9, <2>1
  <2>2. CASE j < i
    <3>1. S(j) \cap S(i) = {}
      BY <1>9, <2>2
    <3>2. QED BY <3>1
  <2>3. QED BY <1>10, <2>1, <2>2
<1>11. UNION {S(i) : i \in 1 .. 5} = Desc
  <2>1. A \cup B \cup C \cup D \cup E = Desc
    BY <1>6 DEF Parted
  <2>2. \A x : x \in UNION {S(i) : i \in 1 .. 5} <=> \E i \in 1 .. 5 : x \in S(i)
    OBVIOUS
  <2>3. \A x : (\E i \in 1 .. 5 : x \in S(i)) <=> x \in S(1) \/ x \in S(2) \/ x \in S(3) \/ x \in S(4) \/ x \in S(5)
    <3>1. 1 \in 1 .. 5 /\ 2 \in 1 .. 5 /\ 3 \in 1 .. 5 /\ 4 \in 1 .. 5 /\ 5 \in 1 .. 5
      OBVIOUS
    <3>2. QED BY <1>2, <3>1
  <2>4. QED BY <1>7, <2>1, <2>2, <2>3
<1>12. Owned(places)
  BY <1>1, <1>3, <1>10, <1>11 DEF S, Owned
<1>13. QED BY <1>12 DEF places

LEMMA SevenPlaces ==
    ASSUME NEW a, NEW b, NEW c, NEW d, NEW e, NEW f, NEW g, IsInjective(a), IsInjective(b), IsInjective(c),
           IsInjective(d), IsInjective(e), IsInjective(f), IsInjective(g),
           NEW T, T \subseteq Desc, Parted(T, ToSet(a), ToSet(b), ToSet(c), ToSet(d), ToSet(e)),
           ToSet(f) \cup ToSet(g) = T, ToSet(f) \cap ToSet(g) = {}
    PROVE  Owned(<<a, b, c, d, e, f, g>>)
<1> DEFINE places == <<a, b, c, d, e, f, g>>
<1>1. /\ DOMAIN places = 1 .. 7 /\ places[1] = a /\ places[2] = b /\ places[3] = c /\ places[4] = d /\ places[5] = e
      /\ places[6] = f /\ places[7] = g
  OBVIOUS
<1> HIDE DEF places
<1>2. \A i \in 1 .. 7 : i = 1 \/ i = 2 \/ i = 3 \/ i = 4 \/ i = 5 \/ i = 6 \/ i = 7
  OBVIOUS
<1>3. \A i \in DOMAIN places : IsInjective(places[i])
  BY <1>1, <1>2
<1>4. PICK A, B, C, D, E, F, G : /\ A = ToSet(a) /\ B = ToSet(b) /\ C = ToSet(c) /\ D = ToSet(d) /\ E = ToSet(e)
                                 /\ F = ToSet(f) /\ G = ToSet(g)
  OBVIOUS
<1> DEFINE S(i) == ToSet(places[i])
<1>5. S(1) = A /\ S(2) = B /\ S(3) = C /\ S(4) = D /\ S(5) = E /\ S(6) = F /\ S(7) = G
  BY <1>1, <1>4
<1>6. Parted(T, A, B, C, D, E) /\ F \cup G = T /\ F \cap G = {}
  BY <1>4
<1> HIDE DEF S
<1>7. A \cup B \cup C \cup D \cup E = Desc \ T
  BY <1>6 DEF Parted
<1>8. A \cap B = {} /\ A \cap C = {} /\ A \cap D = {} /\ A \cap E = {} /\ B \cap C = {}
      /\ B \cap D = {} /\ B \cap E = {} /\ C \cap D = {} /\ C \cap E = {} /\ D \cap E = {}
  BY <1>6 DEF Parted
<1>9. A \cap F = {} /\ B \cap F = {} /\ C \cap F = {} /\ D \cap F = {} /\ E \cap F = {}
  BY <1>6, <1>7
<1>10. A \cap G = {} /\ B \cap G = {} /\ C \cap G = {} /\ D \cap G = {} /\ E \cap G = {}
  BY <1>6, <1>7
<1>11. ASSUME NEW i \in 1 .. 7, NEW j \in 1 .. 7, i < j PROVE S(i) \cap S(j) = {}
  <2>1. \/ i = 1 /\ (j = 2 \/ j = 3 \/ j = 4 \/ j = 5 \/ j = 6 \/ j = 7)
        \/ i = 2 /\ (j = 3 \/ j = 4 \/ j = 5 \/ j = 6 \/ j = 7)
        \/ i = 3 /\ (j = 4 \/ j = 5 \/ j = 6 \/ j = 7)
        \/ i = 4 /\ (j = 5 \/ j = 6 \/ j = 7)
        \/ i = 5 /\ (j = 6 \/ j = 7)
        \/ i = 6 /\ j = 7
    BY <1>11
  <2>2. QED BY <1>5, <1>6, <1>8, <1>9, <1>10, <2>1
<1>12. ASSUME NEW i \in 1 .. 7, NEW j \in 1 .. 7, i # j PROVE S(i) \cap S(j) = {}
  <2>1. CASE i < j
    BY <1>11, <2>1
  <2>2. CASE j < i
    <3>1. S(j) \cap S(i) = {}
      BY <1>11, <2>2
    <3>2. QED BY <3>1
  <2>3. QED BY <1>12, <2>1, <2>2
<1>13. UNION {S(i) : i \in 1 .. 7} = Desc
  <2>1. A \cup B \cup C \cup D \cup E \cup F \cup G = Desc
    BY <1>6, <1>7
  <2>2. \A x : x \in UNION {S(i) : i \in 1 .. 7} <=> \E i \in 1 .. 7 : x \in S(i)
    OBVIOUS
  <2>3. \A x : (\E i \in 1 .. 7 : x \in S(i)) <=>
               x \in S(1) \/ x \in S(2) \/ x \in S(3) \/ x \in S(4) \/ x \in S(5) \/ x \in S(6) \/ x \in S(7)
    <3>1. 1 \in 1 .. 7 /\ 2 \in 1 .. 7 /\ 3 \in 1 .. 7 /\ 4 \in 1 .. 7 /\ 5 \in 1 .. 7 /\ 6 \in 1 .. 7 /\ 7 \in 1 .. 7
      OBVIOUS
    <3>2. QED BY <1>2, <3>1
  <2>4. QED BY <1>5, <2>1, <2>2, <2>3
<1>14. Owned(places)
  BY <1>1, <1>3, <1>12, <1>13 DEF S, Owned
<1>15. QED BY <1>14 DEF places

LEMMA Halves ==
    ASSUME NEW U, NEW s \in Seq(U), NEW t \in Seq(U)
    PROVE  /\ \A k \in 1 .. Len(s) : (s \o t)[k] = s[k]
           /\ \A k \in 1 .. Len(t) : (s \o t)[Len(s) + k] = t[k]
OBVIOUS

LEMMA FiveAndTwo ==
    ASSUME NEW a, NEW b, NEW c, NEW d, NEW e, NEW x, NEW y
    PROVE  <<a, b, c, d, e>> \o <<x, y>> = <<a, b, c, d, e, x, y>>
<1> DEFINE u == <<a, b, c, d, e>>
           t == <<x, y>>
           r == <<a, b, c, d, e, x, y>>
           U == {a, b, c, d, e, x, y}
           s == u \o t
<1>1. u \in Seq(U) /\ t \in Seq(U) /\ Len(u) = 5 /\ Len(t) = 2
  OBVIOUS
<1>2. u[1] = a /\ u[2] = b /\ u[3] = c /\ u[4] = d /\ u[5] = e /\ t[1] = x /\ t[2] = y
  OBVIOUS
<1>3. r \in [1 .. 7 -> U] /\ r[1] = a /\ r[2] = b /\ r[3] = c /\ r[4] = d /\ r[5] = e /\ r[6] = x /\ r[7] = y
  OBVIOUS
<1> HIDE DEF u, t, r, U
<1>4. s \in Seq(U) /\ Len(s) = Len(u) + Len(t)
  BY <1>1, ConcatProperties
<1>5. /\ \A k \in 1 .. Len(u) : s[k] = u[k]
      /\ \A k \in 1 .. Len(t) : s[Len(u) + k] = t[k]
  <2>1. u \in Seq(U) /\ t \in Seq(U)
    BY <1>1
  <2>2. \A k \in 1 .. Len(u) : (u \o t)[k] = u[k]
    BY ONLY <2>1, Halves, Zenon
  <2>3. \A k \in 1 .. Len(t) : (u \o t)[Len(u) + k] = t[k]
    <3>1. ASSUME NEW W, NEW a1 \in Seq(W), NEW b1 \in Seq(W), NEW k \in 1 .. Len(b1)
          PROVE  (a1 \o b1)[Len(a1) + k] = b1[k]
      BY ONLY a1 \in Seq(W), b1 \in Seq(W), k \in 1 .. Len(b1)
    <3>2. QED BY ONLY <2>1, <3>1, Zenon
  <2>4. QED BY <2>2, <2>3
<1> HIDE DEF s
<1>6. Len(s) = 7 /\ (\A k \in 1 .. 5 : s[k] = u[k]) /\ \A k \in 1 .. 2 : s[5 + k] = t[k]
  BY <1>1, <1>4, <1>5
<1>7. s \in [1 .. 7 -> U]
  <2>1. s \in [1 .. Len(s) -> U]
    BY <1>4
  <2>2. QED BY <1>6, <2>1
<1>8. s[1] = a /\ s[2] = b /\ s[3] = c /\ s[4] = d /\ s[5] = e /\ s[6] = x /\ s[7] = y
  BY <1>2, <1>6
<1>9. ASSUME NEW k \in 1 .. 7 PROVE s[k] = r[k]
  <2>1. k = 1 \/ k = 2 \/ k = 3 \/ k = 4 \/ k = 5 \/ k = 6 \/ k = 7
    OBVIOUS
  <2>2. QED BY <1>3, <1>8, <2>1
<1>10. s = r
  BY <1>3, <1>7, <1>9
<1>11. QED BY <1>10 DEF s, u, t, r

LEMMA Joined ==
    ASSUME NEW s \in Seq(Desc), NEW t \in Seq(Desc)
    PROVE  s \o t \in Seq(Desc) /\ Len(s \o t) = Len(s) + Len(t) /\ ToSet(s \o t) = ToSet(s) \cup ToSet(t)
<1> DEFINE r == s \o t
<1>1. r \in Seq(Desc) /\ Len(r) = Len(s) + Len(t) /\ Len(s) \in Nat /\ Len(t) \in Nat
  BY ConcatProperties
<1>2. /\ \A k \in 1 .. Len(s) : r[k] = s[k]
      /\ \A k \in 1 .. Len(t) : r[Len(s) + k] = t[k]
  OBVIOUS
<1> HIDE DEF r
<1>3. DOMAIN s = 1 .. Len(s) /\ DOMAIN t = 1 .. Len(t) /\ DOMAIN r = 1 .. Len(s) + Len(t)
  BY <1>1
<1>4. ToSet(r) \subseteq ToSet(s) \cup ToSet(t)
  <2>1. ASSUME NEW k \in 1 .. Len(s) + Len(t) PROVE r[k] \in ToSet(s) \cup ToSet(t)
    <3>1. CASE k \in 1 .. Len(s)
      BY <1>2, <1>3, <3>1 DEF ToSet
    <3>2. CASE k \notin 1 .. Len(s)
      <4>1. k - Len(s) \in 1 .. Len(t) /\ Len(s) + (k - Len(s)) = k
        BY <1>1, <3>2
      <4>2. r[k] = t[k - Len(s)]
        BY <1>2, <4>1
      <4>3. QED BY <1>3, <4>1, <4>2 DEF ToSet
    <3>3. QED BY <3>1, <3>2
  <2>2. QED BY <1>3, <2>1 DEF ToSet
<1>5. ToSet(s) \subseteq ToSet(r)
  <2>1. \A k \in 1 .. Len(s) : k \in 1 .. Len(s) + Len(t)
    BY <1>1
  <2>2. QED BY <1>2, <1>3, <2>1 DEF ToSet
<1>6. ToSet(t) \subseteq ToSet(r)
  <2>1. \A k \in 1 .. Len(t) : Len(s) + k \in 1 .. Len(s) + Len(t)
    BY <1>1
  <2>2. QED BY <1>2, <1>3, <2>1 DEF ToSet
<1>7. QED BY <1>1, <1>4, <1>5, <1>6 DEF r

(* What VqPlaces lists, in the terms of the invariant. *)
Shown(q, p) ==
    /\ Available(q) = AvailOf(vq[q], seen[q])
    /\ Pending(q) \in Seq(Desc) /\ IsInjective(Pending(q)) /\ ToSet(Pending(q)) = PendSet(vq[q], p)
    /\ Len(Pending(q)) = One(p)

LEMMA Shows ==
    ASSUME NEW q \in Queues, vq[q] \in VQ
    PROVE  (step = q => Shown(q, TRUE)) /\ (step # q => Shown(q, FALSE))
<1>1. Available(q) = AvailOf(vq[q], seen[q])
  BY DEF Available, AvailOf, Slot
<1>2. ASSUME step = q PROVE Shown(q, TRUE)
  <2> DEFINE d == vq[q].ring[vq[q].avail % VQ_SIZE]
  <2>1. d \in Desc
    <3>1. VQ_SIZE \in Nat \ {0} /\ vq[q].avail \in Int /\ vq[q].ring \in [Desc -> Desc]
      BY Sizes, Fields DEF Index
    <3>2. vq[q].avail % VQ_SIZE \in Desc
      BY <3>1, ModRange DEF Desc
    <3>3. QED BY <3>1, <3>2
  <2>2. Pending(q) = <<d>> /\ PendSet(vq[q], TRUE) = {d}
    BY <1>2 DEF Pending, PendSet
  <2> HIDE DEF d
  <2>3. <<d>> \in Seq(Desc) /\ Len(<<d>>) = 1 /\ DOMAIN <<d>> = {1} /\ <<d>>[1] = d
    BY <2>1
  <2>4. IsInjective(<<d>>) /\ ToSet(<<d>>) = {d}
    BY <2>3 DEF IsInjective, ToSet
  <2>5. QED BY <1>1, <2>2, <2>3, <2>4 DEF Shown, One
<1>3. ASSUME step # q PROVE Shown(q, FALSE)
  <2>1. Pending(q) = <<>> /\ PendSet(vq[q], FALSE) = {}
    BY <1>3 DEF Pending, PendSet
  <2>2. <<>> \in Seq(Desc) /\ Len(<<>>) = 0 /\ DOMAIN <<>> = {}
    OBVIOUS
  <2>3. IsInjective(<<>>) /\ ToSet(<<>>) = {}
    BY <2>2 DEF IsInjective, ToSet
  <2>4. One(FALSE) = 0
    BY DEF One
  <2>5. /\ Pending(q) \in Seq(Desc) /\ IsInjective(Pending(q)) /\ ToSet(Pending(q)) = PendSet(vq[q], FALSE)
        /\ Len(Pending(q)) = One(FALSE)
    <3>1. PICK e : e = <<>>
      OBVIOUS
    <3>2. /\ e \in Seq(Desc) /\ Len(e) = 0 /\ IsInjective(e) /\ ToSet(e) = {} /\ Pending(q) = e
      BY <2>1, <2>2, <2>3, <3>1
    <3>3. QED BY <2>1, <2>4, <3>2
  <2>6. QED BY <1>1, <2>5 DEF Shown
<1>4. QED BY <1>2, <1>3

LEMMA NetOwned ==
    ASSUME VqInv, NEW q \in {"rx", "tx"}
    PROVE  Owned(VqPlaces(q))
<1>1. q \in Queues /\ q # "blk" /\ NetQueue(q) /\ vq[q] \in VQ
  BY InQueues DEF VqInv, VqTypes
<1>2. PICK p \in BOOLEAN : Placed({}, 0, vq[q], p, seen[q], taken[q]) /\ Shown(q, p)
  BY <1>1, Shows DEF NetQueue
<1>3. VqPlaces(q) = <<FreeList(vq[q]), Pending(q), Available(q), taken[q], FinishedIds(vq[q])>>
  <2>1. VqPlaces(q) = <<FreeList(vq[q]), Pending(q), Available(q), taken[q], FinishedIds(vq[q])>> \o <<>>
    BY <1>1 DEF VqPlaces
  <2>2. PICK a, b, c, d, e : a = FreeList(vq[q]) /\ b = Pending(q) /\ c = Available(q) /\ d = taken[q] /\ e = FinishedIds(vq[q])
    OBVIOUS
  <2>3. <<a, b, c, d, e>> \o <<>> = <<a, b, c, d, e>>
    OBVIOUS
  <2>4. QED BY <2>1, <2>2, <2>3
<1>4. /\ IsInjective(FreeList(vq[q])) /\ IsInjective(Pending(q)) /\ IsInjective(Available(q)) /\ IsInjective(taken[q])
      /\ IsInjective(FinishedIds(vq[q]))
      /\ Parted({}, ToSet(FreeList(vq[q])), ToSet(Pending(q)), ToSet(Available(q)), ToSet(taken[q]), ToSet(FinishedIds(vq[q])))
  BY <1>2 DEF Placed, Listed, Shown
<1>5. QED BY <1>3, <1>4, FivePlaces

LEMMA BlkOwned ==
    ASSUME VqInv
    PROVE  Owned(VqPlaces("blk"))
<1> DEFINE q == "blk"
           v == vq["blk"]
           H == Heads("blk")
           f == Linked(v, H)
           g == Linked(v, f)
<1>1. q \in Queues /\ BlkQueue /\ v \in VQ /\ seen[q] \in Index
  BY InQueues DEF VqInv, VqTypes
<1>2. VqPlaces(q) = <<FreeList(v), Pending(q), Available(q), taken[q], FinishedIds(v), f, g>>
  <2>1. VqPlaces(q) = <<FreeList(v), Pending(q), Available(q), taken[q], FinishedIds(v)>> \o <<f, g>>
    BY DEF VqPlaces
  <2>2. PICK a, b, c, d, e, x, y : /\ a = FreeList(v) /\ b = Pending(q) /\ c = Available(q) /\ d = taken[q] /\ e = FinishedIds(v)
                                   /\ x = f /\ y = g
    OBVIOUS
  <2> HIDE DEF f, g, v
  <2>3. <<a, b, c, d, e>> \o <<x, y>> = <<a, b, c, d, e, x, y>>
    BY FiveAndTwo
  <2>4. QED BY <2>1, <2>2, <2>3
<1>3. PICK p, T, x :
         /\ p \in BOOLEAN /\ Placed(T, x, v, p, seen[q], taken[q]) /\ Shown(q, p)
         /\ \/ T = {} /\ x = 0 /\ ~p /\ Idle(v, seen[q], taken[q])
            \/ \E h, d, s : BusyWith(v, p, seen[q], taken[q], h, d, s) /\ T = {d, s} /\ x = 2
  <2>1. CASE step = "blk"
    <3>1. PICK h, d, s : BusyWith(v, TRUE, seen[q], taken[q], h, d, s)
      BY <1>1, <2>1 DEF BlkQueue, Busy
    <3>2. Placed({d, s}, 2, v, TRUE, seen[q], taken[q])
      BY <3>1 DEF BusyWith
    <3>3. Shown(q, TRUE)
      BY <1>1, <2>1, Shows
    <3>4. QED BY <3>1, <3>2, <3>3
  <2>2. CASE step = "wait"
    <3>1. PICK h, d, s : BusyWith(v, FALSE, seen[q], taken[q], h, d, s)
      BY <1>1, <2>2 DEF BlkQueue, Busy
    <3>2. Placed({d, s}, 2, v, FALSE, seen[q], taken[q])
      BY <3>1 DEF BusyWith
    <3>3. Shown(q, FALSE)
      BY <1>1, <2>2, Shows
    <3>4. QED BY <3>1, <3>2, <3>3
  <2>3. CASE step \notin {"blk", "wait"}
    <3>1. Idle(v, seen[q], taken[q])
      BY <1>1, <2>3 DEF BlkQueue
    <3>2. Placed({}, 0, v, FALSE, seen[q], taken[q])
      BY <3>1 DEF Idle
    <3>3. Shown(q, FALSE)
      BY <1>1, <2>3, Shows
    <3>4. QED BY <3>1, <3>2, <3>3
  <2>4. QED BY <2>1, <2>2, <2>3
<1>4. /\ IsInjective(FreeList(v)) /\ IsInjective(Pending(q)) /\ IsInjective(Available(q)) /\ IsInjective(taken[q])
      /\ IsInjective(FinishedIds(v)) /\ taken[q] \in Seq(Desc) /\ Pending(q) \in Seq(Desc) /\ Len(Pending(q)) = One(p)
      /\ Available(q) = AvailOf(v, seen[q])
      /\ Parted(T, ToSet(FreeList(v)), ToSet(Pending(q)), ToSet(Available(q)), ToSet(taken[q]), ToSet(FinishedIds(v)))
      /\ x \in Nat /\ v.num_free + One(p) + Offers(v, seen[q]) + Len(taken[q]) + Dones(v) + x = VQ_SIZE
  BY <1>3 DEF Placed, Listed, Shown
<1>5. /\ Offers(v, seen[q]) \in Nat /\ Dones(v) \in Nat /\ Len(taken[q]) \in Nat /\ v.num_free \in Nat /\ One(p) \in Nat
      /\ Available(q) \in Seq(Desc) /\ Len(Available(q)) = Offers(v, seen[q])
      /\ FinishedIds(v) \in Seq(Desc) /\ Len(FinishedIds(v)) = Dones(v)
  <2>1. /\ Offers(v, seen[q]) \in Nat /\ Available(q) \in [1 .. Offers(v, seen[q]) -> Desc]
        /\ Dones(v) \in Nat /\ FinishedIds(v) \in [1 .. Dones(v) -> Desc]
    BY <1>1, <1>4, RingsTyped
  <2>2. \A n \in Nat : \A u : u \in [1 .. n -> Desc] => u \in Seq(Desc) /\ Len(u) = n
    OBVIOUS
  <2>3. v.num_free \in Nat /\ One(p) \in Nat /\ Len(taken[q]) \in Nat
    BY <1>1, <1>4, Fields DEF One
  <2>4. QED BY <2>1, <2>2, <2>3
<1>6. /\ H \in Seq(Desc) /\ Len(H) = One(p) + Offers(v, seen[q]) + Len(taken[q]) + Dones(v)
      /\ ToSet(H) = ToSet(Pending(q)) \cup ToSet(Available(q)) \cup ToSet(taken[q]) \cup ToSet(FinishedIds(v))
  <2>1. PICK a, b, c, d : a = Pending(q) /\ b = Available(q) /\ c = taken[q] /\ d = FinishedIds(v)
    OBVIOUS
  <2>2. H = ((a \o b) \o c) \o d
    BY <2>1 DEF Heads
  <2>3. a \in Seq(Desc) /\ b \in Seq(Desc) /\ c \in Seq(Desc) /\ d \in Seq(Desc)
    BY <1>4, <1>5, <2>1
  <2> HIDE DEF H
  <2>4. a \o b \in Seq(Desc) /\ Len(a \o b) = Len(a) + Len(b) /\ ToSet(a \o b) = ToSet(a) \cup ToSet(b)
    BY <2>3, Joined
  <2>5. PICK m : m = a \o b
    OBVIOUS
  <2>6. m \o c \in Seq(Desc) /\ Len(m \o c) = Len(m) + Len(c) /\ ToSet(m \o c) = ToSet(m) \cup ToSet(c)
    BY <2>3, <2>4, <2>5, Joined
  <2>7. PICK l : l = m \o c
    OBVIOUS
  <2>8. l \o d \in Seq(Desc) /\ Len(l \o d) = Len(l) + Len(d) /\ ToSet(l \o d) = ToSet(l) \cup ToSet(d)
    BY <2>3, <2>6, <2>7, Joined
  <2>9. H = l \o d
    BY <2>2, <2>5, <2>7
  <2>10. Len(H) = Len(a) + Len(b) + Len(c) + Len(d) /\ ToSet(H) = ToSet(a) \cup ToSet(b) \cup ToSet(c) \cup ToSet(d)
    BY <2>4, <2>5, <2>6, <2>7, <2>8, <2>9
  <2>11. Len(a) = One(p) /\ Len(b) = Offers(v, seen[q]) /\ Len(c) = Len(taken[q]) /\ Len(d) = Dones(v)
    BY <1>4, <1>5, <2>1
  <2>12. QED BY <2>1, <2>8, <2>9, <2>10, <2>11
<1> HIDE DEF H, v
<1>7. DOMAIN H = 1 .. Len(H) /\ DOMAIN f = 1 .. Len(H) /\ DOMAIN g = 1 .. Len(H)
  BY <1>6 DEF Linked
<1>8. \A k \in 1 .. Len(H) : f[k] = v.next[H[k]] /\ g[k] = v.next[f[k]]
  BY <1>7 DEF Linked
<1> HIDE DEF f, g
<1>9. /\ IsInjective(f) /\ IsInjective(g) /\ ToSet(f) \cup ToSet(g) = T /\ ToSet(f) \cap ToSet(g) = {} /\ T \subseteq Desc
  <2>1. CASE T = {} /\ x = 0 /\ ~p /\ Idle(v, seen[q], taken[q])
    <3>1. v.num_free = VQ_SIZE /\ VQ_SIZE \in Nat
      BY <2>1, Sizes DEF Idle
    <3>2. Len(H) = 0
      BY <1>4, <1>5, <1>6, <2>1, <3>1, SMTT(30)
    <3>3. DOMAIN f = {} /\ DOMAIN g = {}
      BY <1>7, <3>2
    <3>4. ToSet(f) = {} /\ ToSet(g) = {} /\ IsInjective(f) /\ IsInjective(g)
      BY <3>3 DEF ToSet, IsInjective
    <3>5. QED BY <2>1, <3>4
  <2>2. ASSUME NEW h, NEW d, NEW s, BusyWith(v, p, seen[q], taken[q], h, d, s), T = {d, s}, x = 2
        PROVE  /\ IsInjective(f) /\ IsInjective(g) /\ ToSet(f) \cup ToSet(g) = T /\ ToSet(f) \cap ToSet(g) = {} /\ T \subseteq Desc
    <3>1. /\ h \in Desc /\ d \in Desc /\ s \in Desc /\ h # d /\ h # s /\ d # s /\ v.next[h] = d /\ v.next[d] = s
          /\ v.num_free + 3 = VQ_SIZE /\ ToSet(FreeList(v)) = Desc \ {h, d, s}
      BY <2>2 DEF BusyWith, Request
    <3>2. Len(H) = 1
      <4>1. VQ_SIZE \in Nat
        BY Sizes
      <4>2. PICK a \in Nat, b \in Nat, c \in Nat, d1 \in Nat, e \in Nat, n \in Nat :
               /\ a = v.num_free /\ b = One(p) /\ c = Offers(v, seen[q]) /\ d1 = Len(taken[q]) /\ e = Dones(v) /\ n = VQ_SIZE
        BY <1>5, <4>1
      <4>3. a + b + c + d1 + e + 2 = n /\ a + 3 = n /\ Len(H) = b + c + d1 + e
        BY <1>4, <1>6, <2>2, <3>1, <4>2
      <4>4. QED BY ONLY <4>3
    <3>3. ToSet(H) \subseteq {h}
      <4>1. PICK P, A, K, G : P = ToSet(Pending(q)) /\ A = ToSet(Available(q)) /\ K = ToSet(taken[q]) /\ G = ToSet(FinishedIds(v))
        OBVIOUS
      <4>2. Parted({d, s}, Desc \ {h, d, s}, P, A, K, G) /\ ToSet(H) = P \cup A \cup K \cup G
        BY <1>4, <1>6, <2>2, <3>1, <4>1
      <4>3. QED BY <4>2 DEF Parted
    <3>4. DOMAIN H = {1} /\ DOMAIN f = {1} /\ DOMAIN g = {1} /\ 1 \in 1 .. Len(H)
      BY <1>7, <3>2
    <3>5. H[1] = h
      <4>1. H[1] \in ToSet(H)
        BY <3>4 DEF ToSet
      <4>2. QED BY <3>3, <4>1
    <3>6. f[1] = d /\ g[1] = s
      BY <1>8, <3>1, <3>4, <3>5
    <3>7. ToSet(f) = {d} /\ ToSet(g) = {s} /\ IsInjective(f) /\ IsInjective(g)
      BY <3>4, <3>6 DEF ToSet, IsInjective
    <3>8. QED BY <2>2, <3>1, <3>7
  <2>3. QED BY <1>3, <2>1, <2>2
<1>10. Owned(<<FreeList(v), Pending(q), Available(q), taken[q], FinishedIds(v), f, g>>)
  BY <1>4, <1>9, SevenPlaces
<1>11. QED BY <1>2, <1>10

LEMMA VqInvImplies == VqInv => QueuesIntact
<1> SUFFICES ASSUME VqInv PROVE QueuesIntact
  OBVIOUS
<1>1. VqTypeOK
  <2>1. ASSUME NEW q \in Queues
        PROVE  /\ vq[q].next \in [Desc -> Desc \cup {END}] /\ vq[q].ring \in [Desc -> Desc]
               /\ vq[q].free_head \in Desc \cup {END} /\ vq[q].num_free \in 0 .. VQ_SIZE
               /\ {vq[q].avail, vq[q].idx, vq[q].next_used, seen[q]} \subseteq 0 .. IdxSpan - 1
               /\ taken[q] \in Seq(Desc)
    <3>1. vq[q] \in VQ /\ seen[q] \in Index /\ taken[q] \in Seq(Desc)
      BY DEF VqInv, VqTypes
    <3>2. QED BY <3>1, Fields DEF Index
  <2>2. QED BY <2>1 DEF VqTypeOK, VqInv, VqTypes
<1>2. OneOwner
  <2>1. vq_use \subseteq Queues
    BY DEF VqInv, VqTypes
  <2>2. \A q \in vq_use : Owned(VqPlaces(q))
    BY <2>1, NetOwned, BlkOwned DEF Queues
  <2>3. QED BY <2>2 DEF OneOwner, Owned
<1>3. ReceivedIntact
  <2> DEFINE done == Finished(vq["rx"])
             n == Dones(vq["rx"])
  <2>1. vq["rx"] \in VQ /\ seen["rx"] \in Index
    BY InQueues DEF VqInv, VqTypes
  <2>2. n \in Nat /\ done \in [1 .. n -> Elem]
    BY <2>1, RingsTyped
  <2>3. Len(came) = n /\ \A k \in 1 .. n : done[k].len = "full" => buf["rx"][done[k].id] = came[k]
    BY DEF VqInv, Arrived
  <2> HIDE DEF n, done
  <2>4. Len(done) = n /\ DOMAIN done = 1 .. n
    BY <2>2
  <2>5. QED BY <2>3, <2>4 DEF ReceivedIntact, done
<1>4. AnswersTrue
  BY DEF VqInv, Requested
<1>5. QED BY <1>1, <1>2, <1>3, <1>4 DEF QueuesIntact

(* Every descriptor of a queue always has one owner, a received frame is    *)
(* returned as it came and in order, and do_sector_io answers with what the *)
(* sector holds, for every ring size and index width.                       *)
THEOREM DescriptorsAreOwned == VqSpec => []QueuesIntact
<1>1. VqInit => VqInv BY VqInits
<1>2. VqInv /\ [VqNext]_vq_vars => VqInv' BY VqSteps
<1>3. VqInv => QueuesIntact BY VqInvImplies
<1>4. QED BY <1>1, <1>2, <1>3, PTL DEF VqSpec

(* send_frame never writes a transmit buffer that the device may still read. *)
THEOREM FramesStayIntact == VqSpec => SentIntact
<1> DEFINE live == ToSet(Available("tx")) \cup ToSet(taken["tx"]) \cup ToSet(Pending("tx"))
           A == \A d \in live : buf'["tx"][d] = buf["tx"][d]
<1>1. VqInit => VqInv BY VqInits
<1>2. VqInv /\ [VqNext]_vq_vars => VqInv' BY VqSteps
<1>3. VqInv /\ [VqNext]_vq_vars => [A]_vq_vars
  <2> SUFFICES ASSUME VqInv, [VqNext]_vq_vars PROVE A \/ UNCHANGED vq_vars
    OBVIOUS
  <2>1. buf \in [{"rx", "tx"} -> [Desc -> Frames \cup {None}]]
    BY DEF VqInv, VqTypes
  <2>2. ASSUME NEW f \in Frames, send_frame(f) PROVE A
    <3>1. CASE vq["tx"].num_free = 0
      BY <2>2, <3>1 DEF send_frame
    <3>2. CASE vq["tx"].num_free # 0
      <4> DEFINE v == vq["tx"]
                 d == v.free_head
      <4>1. buf' = [buf EXCEPT !["tx"][d] = f]
        BY <2>2, <3>2 DEF send_frame
      <4>2. v \in VQ /\ Placed({}, 0, v, FALSE, seen["tx"], taken["tx"]) /\ Shown("tx", FALSE)
        <5>1. v \in VQ /\ step = "idle" /\ NetQueue("tx")
          BY <2>2, InQueues DEF VqInv, VqTypes, send_frame, Calls
        <5>2. QED BY <5>1, InQueues, Shows DEF NetQueue
      <4>3. v.num_free > 0
        BY <3>2, <4>2, Fields
      <4>4. d \in ToSet(FreeList(v)) /\ d \in Desc
        BY <4>2, <4>3, SendPlaces
      <4>5. d \notin live
        <5>1. PICK F, P, S, K, G : /\ F = ToSet(FreeList(v)) /\ P = ToSet(Pending("tx")) /\ S = ToSet(Available("tx"))
                                   /\ K = ToSet(taken["tx"]) /\ G = ToSet(FinishedIds(v))
          OBVIOUS
        <5>2. Parted({}, F, P, S, K, G)
          BY <4>2, <5>1 DEF Placed, Shown
        <5>3. d \in F /\ live = S \cup K \cup P
          BY <4>4, <5>1
        <5>4. QED BY <5>2, <5>3 DEF Parted
      <4> HIDE DEF d, live
      <4>6. \A c \in live : c # d
        BY <4>5
      <4>7. \A c : c # d => buf'["tx"][c] = buf["tx"][c]
        BY <2>1, <4>1, <4>4
      <4>8. QED BY <4>6, <4>7
    <3>3. QED BY <3>1, <3>2
  <2>3. ASSUME NEW i, NEW f, NEW len, device_receives(i, f, len) PROVE A
    BY <2>1, <2>3 DEF device_receives
  <2>4. ASSUME buf' = buf PROVE A
    BY <2>4
  <2> HIDE DEF A
  <2>5. QED BY <2>2, <2>3, <2>4
       DEF VqNext, Driver, Device, submit_and_notify, receive_frame, do_sector_io, sector_io_done,
           device_takes, device_sends, device_serves
<1>4. QED BY <1>1, <1>2, <1>3, PTL DEF VqSpec, SentIntact
=============================================================================
