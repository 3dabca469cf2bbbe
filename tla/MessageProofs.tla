---------------------------- MODULE MessageProofs ---------------------------
(***************************************************************************)
(* Theorems about the two small protocols of the messages run: the table   *)
(* of advisory file locks and the channels between tasks.                  *)
(***************************************************************************)
EXTENDS FileLock, FiniteSetTheorems, Channel, SequenceTheorems, TLAPS

-----------------------------------------------------------------------------
(***************************************************************************)
(* The lock table is correct for any number of tasks, inodes and open      *)
(* descriptors.  The inductive invariant is IInv: besides the types, the   *)
(* redundant fields of every entry agree with its holder list.  The update *)
(* lemmas say that each way the code rewrites an entry keeps it so.        *)
(***************************************************************************)

Good(s) == s \in LockState /\ Consistent(s)

IInv == TypeOK /\ TableConsistent

-----------------------------------------------------------------------------
(* The records of one task in a consistent entry: none, or exactly one,    *)
(* of the entry's own type.                                                *)
LEMMA OfSingle ==
    ASSUME NEW s, Good(s), NEW t \in Tasks, NEW r \in Of(s, t)
    PROVE  /\ Of(s, t) = {r}
           /\ r = Rec(t, s.lock_type)
           /\ s.lock_type \in LockTypes
           /\ Cardinality(Of(s, t)) = 1
           /\ s.count \in Nat /\ s.count > 0
           /\ s.holders \ Of(s, t) \in SUBSET LockRecord
           /\ IsFiniteSet(s.holders \ Of(s, t))
           /\ Cardinality(s.holders \ Of(s, t)) = s.count - 1
  <1>1. r \in s.holders /\ r.pid = t /\ r \in LockRecord
    BY DEF Good, LockState, Of
  <1>2. Of(s, t) = {r}
    BY <1>1 DEF Good, Consistent, Of
  <1>3. r.lock_type = s.lock_type /\ s.lock_type \in LockTypes
    BY <1>1 DEF Good, Consistent, LockRecord
  <1>4. r = Rec(t, s.lock_type)
    BY <1>1, <1>3 DEF LockRecord, Rec
  <1>5. Cardinality({r}) = 1
    BY FS_Singleton
  <1>6. /\ IsFiniteSet(s.holders \ {r})
        /\ Cardinality(s.holders \ {r}) = Cardinality(s.holders) - 1
    BY <1>1, FS_RemoveElement DEF Good, Consistent
  <1>7. s.count \in Nat /\ s.count = Cardinality(s.holders) /\ s.holders \in SUBSET LockRecord
    BY DEF Good, Consistent, LockState
  <1>8. s.count # 0
    BY <1>1, <1>7, FS_EmptySet DEF Good, Consistent
  <1> QED
    BY <1>2, <1>3, <1>4, <1>5, <1>6, <1>7, <1>8

(* A reader joins an entry that has no writer (acquire_shared and its poll). *)
LEMMA JoinGood ==
    ASSUME NEW s, Good(s), NEW t \in Tasks, Of(s, t) = {}, s.lock_type # "Exclusive"
    PROVE  Good(Join(s, t))
  <1> DEFINE n == Rec(t, "Shared")
  <1>1. n \notin s.holders /\ n \in LockRecord /\ n.pid = t /\ n.lock_type = "Shared"
    BY DEF Of, Rec, LockRecord, LockTypes
  <1>2. /\ IsFiniteSet(s.holders \cup {n})
        /\ Cardinality(s.holders \cup {n}) = Cardinality(s.holders) + 1
    BY <1>1, FS_AddElement DEF Good, Consistent
  <1>3. s.count \in Nat /\ s.count = Cardinality(s.holders)
    BY DEF Good, Consistent, LockState
  <1>4. s.lock_type = "None" => s.count = 0
    BY <1>3, FS_EmptySet DEF Good, Consistent
  <1>5. s.lock_type \in {"None", "Shared"} /\ s.holders \in SUBSET LockRecord
    BY DEF Good, LockState, LockTypes
  <1>6. Join(s, t) \in LockState
    BY <1>1, <1>3, <1>5 DEF Join, LockState, LockTypes
  <1>7. Join(s, t).count = Cardinality(s.holders \cup {n})
    BY <1>2, <1>3, <1>4 DEF Join
  <1>8. \A r \in s.holders : r.lock_type = "Shared" /\ r.pid # t
    BY <1>5 DEF Good, Consistent, Of
  <1>9. Consistent(Join(s, t))
    BY <1>1, <1>2, <1>7, <1>8 DEF Join, Consistent, Good
  <1> QED
    BY <1>6, <1>9 DEF Good

(* A writer takes a free entry. *)
LEMMA TakeGood ==
    ASSUME NEW s, Good(s), NEW t \in Tasks, s.lock_type = "None"
    PROVE  Good(Take(s, t))
  <1>1. s.holders = {}
    BY DEF Good, Consistent
  <1>2. Rec(t, "Exclusive") \in LockRecord /\ Rec(t, "Exclusive").lock_type = "Exclusive"
    BY DEF Rec, LockRecord, LockTypes
  <1>3. Take(s, t) = [count |-> 1, lock_type |-> "Exclusive", holders |-> {Rec(t, "Exclusive")}]
    BY <1>1 DEF Take
  <1>4. IsFiniteSet({Rec(t, "Exclusive")}) /\ Cardinality({Rec(t, "Exclusive")}) = 1
    BY FS_Singleton
  <1> QED
    BY <1>2, <1>3, <1>4 DEF Good, Consistent, LockState, LockTypes

(* A free entry is one of count 0: the two tests the code uses agree. *)
LEMMA FreeIsCountZero ==
    ASSUME NEW s, Good(s)
    PROVE  s.count = 0 <=> s.lock_type = "None"
  BY FS_EmptySet DEF Good, Consistent

(* The sole shared holder upgrades in place. *)
LEMMA UpgradeGood ==
    ASSUME NEW s, Good(s), NEW t \in Tasks, Rec(t, "Shared") \in s.holders, s.count = 1
    PROVE  /\ Good(Upgrade(s, t))
           /\ s.holders = {Rec(t, "Shared")}
  <1> DEFINE o == Rec(t, "Shared")
             n == Rec(t, "Exclusive")
  <1>0. IsFiniteSet(s.holders) /\ Cardinality(s.holders) = 1
    BY DEF Good, Consistent
  <1>1. IsFiniteSet(s.holders \ {o}) /\ Cardinality(s.holders \ {o}) = 0
    BY <1>0, FS_RemoveElement
  <1>2. s.holders \ {o} = {}
    BY <1>1, FS_EmptySet
  <1>3. s.holders = {o}
    BY <1>2
  <1>4. Upgrade(s, t) = [count |-> 1, lock_type |-> "Exclusive", holders |-> {n}]
    BY <1>2 DEF Upgrade, Good, LockState
  <1>5. IsFiniteSet({n}) /\ Cardinality({n}) = 1
    BY FS_Singleton
  <1>6. n \in LockRecord /\ n.lock_type = "Exclusive"
    BY DEF Rec, LockRecord, LockTypes
  <1> QED
    BY <1>3, <1>4, <1>5, <1>6 DEF Good, Consistent, LockState, LockTypes

(* Unlocking removes the task's record and leaves a consistent entry. *)
LEMMA LeftGood ==
    ASSUME NEW s, Good(s), NEW t \in Tasks, Of(s, t) # {}
    PROVE  Good(Left(s, t)) /\ Left(s, t).holders = s.holders \ Of(s, t)
  <1>1. PICK r : r \in Of(s, t)
    OBVIOUS
  <1> DEFINE rest == s.holders \ Of(s, t)
             n == s.count - Cardinality(Of(s, t))
  <1>2. /\ n \in Nat /\ n = Cardinality(rest) /\ IsFiniteSet(rest)
        /\ rest \in SUBSET LockRecord /\ s.lock_type \in LockTypes
    BY <1>1, OfSingle
  <1>3. n = 0 <=> rest = {}
    BY <1>2, FS_EmptySet
  <1>4. \A q \in rest : q.lock_type = s.lock_type
    BY DEF Good, Consistent
  <1>5. rest # {} => s.lock_type = (IF \E q \in rest : q.lock_type = "Exclusive" THEN "Exclusive" ELSE "Shared")
    BY <1>2, <1>4 DEF LockTypes
  <1>6. Left(s, t) = [count |-> n, lock_type |-> IF rest = {} THEN "None" ELSE s.lock_type, holders |-> rest]
    BY <1>3, <1>5 DEF Left
  <1>7. /\ \A p, q \in rest : p.pid = q.pid => p = q
        /\ s.lock_type = "Exclusive" => n = 0
    <2>1. Cardinality(Of(s, t)) = 1
      BY <1>1, OfSingle
    <2> QED
      BY <2>1 DEF Good, Consistent
  <1>8. Left(s, t) \in LockState
    BY <1>2, <1>6 DEF LockState
  <1> QED
    BY <1>2, <1>3, <1>4, <1>6, <1>7, <1>8 DEF Good, Consistent, LockTypes

(* The cleanup on exit keeps an entry consistent although it does not      *)
(* recompute the type: the remaining holders have the type of the one that *)
(* left.                                                                   *)
LEMMA CleanedGood ==
    ASSUME NEW s, Good(s), NEW t \in Tasks
    PROVE  Good(Cleaned(s, t)) /\ Cleaned(s, t).holders = s.holders \ Of(s, t)
  <1>1. CASE Of(s, t) = {}
    <2>1. Cardinality(Of(s, t)) = 0
      BY <1>1, FS_EmptySet
    <2> QED
      BY <1>1, <2>1 DEF Cleaned
  <1>2. CASE Of(s, t) # {}
    <2>1. PICK r : r \in Of(s, t)
      BY <1>2
    <2> DEFINE rest == s.holders \ Of(s, t)
    <2>2. /\ Cardinality(Of(s, t)) = 1 /\ s.count \in Nat /\ s.count > 0
          /\ s.count - 1 = Cardinality(rest) /\ IsFiniteSet(rest)
          /\ rest \in SUBSET LockRecord /\ s.lock_type \in LockTypes
      BY <2>1, OfSingle
    <2>3. s.count - 1 = 0 <=> rest = {}
      BY <2>2, FS_EmptySet
    <2>4. Cleaned(s, t) = [count |-> s.count - 1, lock_type |-> IF rest = {} THEN "None" ELSE s.lock_type, holders |-> rest]
      <3>1. Cleaned(s, t) = [count |-> s.count - 1,
                             lock_type |-> IF s.count - 1 = 0 THEN "None" ELSE s.lock_type,
                             holders |-> rest]
        <4>1. ~(s.count < 1)
          BY <2>2
        <4> QED
          BY <2>2, <4>1 DEF Cleaned
      <3> QED
        BY <2>3, <3>1
    <2>5. /\ \A q \in rest : q.lock_type = s.lock_type
          /\ \A p, q \in rest : p.pid = q.pid => p = q
          /\ s.lock_type = "Exclusive" => s.count - 1 = 0
      BY <2>2 DEF Good, Consistent
    <2>6. Cleaned(s, t) \in LockState
      BY <2>2, <2>4 DEF LockState
    <2> QED
      BY <2>2, <2>3, <2>4, <2>5, <2>6 DEF Good, Consistent, LockTypes
  <1> QED
    BY <1>1, <1>2
-----------------------------------------------------------------------------
(* Replacing one entry by a good one keeps the table good. *)
LEMMA GoodEntry ==
    ASSUME IInv, NEW i \in Inodes
    PROVE  Good(locks[i])
  BY DEF IInv, TypeOK, TableConsistent, Good

LEMMA GoodTable ==
    ASSUME IInv, locks' \in [Inodes -> LockState], \A i \in Inodes : Good(locks'[i])
    PROVE  locks' \in [Inodes -> LockState] /\ TableConsistent'
  BY DEF TableConsistent, Good

LEMMA GoodUpdate ==
    ASSUME IInv, NEW i \in Inodes, NEW s, Good(s), locks' = [locks EXCEPT ![i] = s]
    PROVE  locks' \in [Inodes -> LockState] /\ TableConsistent'
  BY DEF IInv, TypeOK, TableConsistent, Good

(* The initial table is empty. *)
LEMMA InitIInv == Init => IInv
  <1> SUFFICES ASSUME Init PROVE IInv
    OBVIOUS
  <1>1. NoLock \in LockState /\ Consistent(NoLock)
    BY FS_EmptySet DEF NoLock, LockState, Consistent
  <1> QED
    BY <1>1, FileLockAssumption DEF Init, IInv, TypeOK, TableConsistent, Spinning

(* Each operation keeps IInv. *)
LEMMA FlockIInv ==
    ASSUME IInv, NEW t \in Tasks, NEW i \in Inodes, sys_flock(t, i)
    PROVE  IInv'
  <1> DEFINE s == locks[i]
  <1>0. Good(s)
    BY GoodEntry
  <1>1. ASSUME NEW nb \in BOOLEAN, NEW loop \in Spinning, Enter(t, i, loop)
        PROVE  IInv'
    BY <1>1, FileLockAssumption DEF IInv, TypeOK, TableConsistent, Enter, Spinning, sys_flock
  <1>2. ASSUME NEW n, Good(n), Grant(i, n), UNCHANGED pc
        PROVE  IInv'
    <2>1. locks' \in [Inodes -> LockState] /\ TableConsistent'
      BY <1>2, GoodUpdate DEF Grant
    <2> QED
      BY <1>2, <2>1 DEF IInv, TypeOK, Grant
  <1>3. ASSUME UNCHANGED vars PROVE IInv'
    BY <1>3 DEF IInv, TypeOK, TableConsistent, vars
  <1>4. ASSUME NEW nb \in BOOLEAN, acquire_shared(t, i, nb) PROVE IInv'
    BY <1>0, <1>1, <1>2, <1>3, <1>4, JoinGood DEF acquire_shared, Spinning
  <1>5. ASSUME NEW nb \in BOOLEAN, acquire_exclusive(t, i, nb) PROVE IInv'
    BY <1>0, <1>1, <1>2, <1>3, <1>5, TakeGood, UpgradeGood DEF acquire_exclusive, Spinning
  <1>6. ASSUME release_lock(t, i) PROVE IInv'
    BY <1>0, <1>2, <1>6, LeftGood DEF release_lock
  <1> QED
    BY <1>4, <1>5, <1>6 DEF sys_flock

LEMMA PollIInv ==
    ASSUME IInv, NEW t \in Tasks, try_acquire_shared(t) \/ try_acquire_exclusive(t)
    PROVE  IInv'
  <1> DEFINE i == on[t]
  <1>1. i \in Inodes /\ Resume(t)
    BY DEF IInv, TypeOK, Spinning, try_acquire_shared, try_acquire_exclusive
  <1>2. Good(locks[i])
    BY <1>1, GoodEntry
  <1>3. locks' \in [Inodes -> LockState] /\ TableConsistent'
    <2>1. CASE UNCHANGED locks
      BY <2>1 DEF IInv, TypeOK, TableConsistent
    <2>2. CASE try_acquire_shared(t) /\ ~UNCHANGED locks
      BY <1>1, <1>2, <2>2, JoinGood, GoodUpdate DEF try_acquire_shared
    <2>3. CASE try_acquire_exclusive(t) /\ ~UNCHANGED locks
      BY <1>1, <1>2, <2>3, TakeGood, UpgradeGood, FreeIsCountZero, GoodUpdate
         DEF try_acquire_exclusive
    <2> QED
      BY <2>1, <2>2, <2>3
  <1> QED
    BY <1>1, <1>3 DEF IInv, TypeOK, Resume, Spinning

LEMMA DescriptorIInv ==
    ASSUME IInv, NEW t \in Tasks, NEW i \in Inodes, sys_fs_open(t, i) \/ sys_fs_close(t, i)
    PROVE  IInv'
  <1>1. fds' \in [Tasks -> [Inodes -> 0 .. MaxFds]]
    <2>1. fds \in [Tasks -> [Inodes -> 0 .. MaxFds]] /\ MaxFds \in Nat
      BY FileLockAssumption DEF IInv, TypeOK
    <2>2. fds[t][i] < MaxFds => fds[t][i] + 1 \in 0 .. MaxFds
      BY <2>1
    <2>3. fds[t][i] > 0 => fds[t][i] - 1 \in 0 .. MaxFds
      BY <2>1
    <2> QED
      BY <2>1, <2>2, <2>3 DEF sys_fs_open, sys_fs_close
  <1> QED
    BY <1>1 DEF IInv, TypeOK, TableConsistent, sys_fs_open, sys_fs_close

LEMMA ExitIInv ==
    ASSUME IInv, NEW t \in Tasks, terminate_current(t)
    PROVE  /\ IInv'
           /\ \A i \in Inodes : locks'[i].holders = locks[i].holders \ Of(locks[i], t)
  <1>1. \A i \in Inodes : Good(Cleaned(locks[i], t))
                         /\ Cleaned(locks[i], t).holders = locks[i].holders \ Of(locks[i], t)
    BY GoodEntry, CleanedGood
  <1>2. locks' = [i \in Inodes |-> Cleaned(locks[i], t)]
    BY DEF terminate_current, release_all_for_task
  <1>3. locks' \in [Inodes -> LockState] /\ TableConsistent'
    BY <1>1, <1>2 DEF Good, TableConsistent
  <1>4. fds' \in [Tasks -> [Inodes -> 0 .. MaxFds]]
    BY FileLockAssumption DEF IInv, TypeOK, terminate_current
  <1>5. on[t] = NoInode
    BY DEF IInv, TypeOK, Spinning, terminate_current
  <1> QED
    BY <1>1, <1>2, <1>3, <1>4, <1>5 DEF IInv, TypeOK, Spinning, terminate_current

LEMMA NextIInv == IInv /\ [Next]_vars => IInv'
  <1> SUFFICES ASSUME IInv, [Next]_vars PROVE IInv'
    OBVIOUS
  <1>1. CASE UNCHANGED vars
    BY <1>1 DEF IInv, TypeOK, TableConsistent, vars
  <1>2. CASE Next
    BY <1>2, FlockIInv, PollIInv, DescriptorIInv, ExitIInv DEF Next
  <1> QED
    BY <1>1, <1>2
-----------------------------------------------------------------------------
(* The inductive invariant holds in every reachable state. *)
THEOREM IInvInvariant == Spec => []IInv
  <1> QED
    BY InitIInv, NextIInv, PTL DEF Spec

(* Type correctness, for every number of tasks, inodes and descriptors. *)
THEOREM TypeCorrect == Spec => []TypeOK
  <1>1. IInv => TypeOK
    BY DEF IInv
  <1> QED
    BY <1>1, IInvInvariant, PTL

(* count and lock_type always agree with the holder list. *)
THEOREM TableIsConsistent == Spec => []TableConsistent
  <1>1. IInv => TableConsistent
    BY DEF IInv
  <1> QED
    BY <1>1, IInvInvariant, PTL

-----------------------------------------------------------------------------
(* A consistent exclusive entry has exactly one record. *)
LEMMA ExclusiveIsAlone ==
    ASSUME NEW s, Good(s), NEW q \in s.holders, q.lock_type = "Exclusive"
    PROVE  s.holders = {q}
  <1>1. IsFiniteSet(s.holders) /\ Cardinality(s.holders) = 1
    BY DEF Good, Consistent
  <1>2. IsFiniteSet(s.holders \ {q}) /\ Cardinality(s.holders \ {q}) = 1 - 1
    BY <1>1, FS_RemoveElement
  <1>3. s.holders \ {q} = {}
    BY <1>2, FS_EmptySet
  <1> QED
    BY <1>3

(* LOCK_EX excludes every other task on the inode, whatever sequence of    *)
(* flock, close, exit and poll steps led there.                            *)
THEOREM ExclusionHolds == Spec => []MutualExclusion
  <1>1. IInv => MutualExclusion
    <2> SUFFICES ASSUME IInv, NEW i \in Inodes, NEW q \in locks[i].holders,
                        NEW r \in locks[i].holders, q.lock_type = "Exclusive"
                 PROVE  r.pid = q.pid
      BY DEF MutualExclusion
    <2> QED
      BY GoodEntry, ExclusiveIsAlone
  <1> QED
    BY <1>1, IInvInvariant, PTL
-----------------------------------------------------------------------------
(* How a step changes the records on one inode.  Every step of a task t    *)
(* leaves the holders of inode i as they are (1), lets t join the readers  *)
(* (2), makes t the only holder and a writer where nobody else held        *)
(* anything (3), or drops t's records from user code (4).  Who was granted *)
(* something is back in user code and waits for nothing.                   *)
Same(i) == locks'[i].holders = locks[i].holders

Joined(t, i) ==
    /\ Of(locks[i], t) = {} /\ locks[i].lock_type # "Exclusive"
    /\ locks'[i].holders = locks[i].holders \cup {Rec(t, "Shared")}
    /\ pc'[t] = "user" /\ on'[t] = NoInode

Seized(t, i) ==
    /\ locks[i].holders \subseteq {Rec(t, "Shared")}
    /\ locks'[i].holders = {Rec(t, "Exclusive")}
    /\ pc'[t] = "user" /\ on'[t] = NoInode

Dropped(t, i) ==
    /\ pc[t] = "user"
    /\ locks'[i].holders = locks[i].holders \ Of(locks[i], t)

Others(i) == \A j \in Inodes \ {i} : Same(j)

LEMMA StepShape ==
    ASSUME IInv, Next
    PROVE  \/ \A i \in Inodes : Same(i)
           \/ \E t \in Tasks, i \in Inodes : Others(i) /\ (Joined(t, i) \/ Seized(t, i) \/ Dropped(t, i))
           \/ \E t \in Tasks : /\ \A i \in Inodes : Dropped(t, i)
                             /\ terminate_current(t)
  <1>0. locks \in [Inodes -> LockState]
    BY DEF IInv, TypeOK
  <1>1. ASSUME NEW t \in Tasks, NEW i \in Inodes, NEW s, locks' = [locks EXCEPT ![i] = s]
        PROVE  Others(i) /\ locks'[i] = s
    BY <1>0, <1>1 DEF Others, Same
  <1>2. ASSUME NEW t \in Tasks, NEW i \in Inodes, Rec(t, "Shared") \in locks[i].holders,
               locks[i].count = 1, locks' = [locks EXCEPT ![i] = Upgrade(locks[i], t)],
               pc'[t] = "user", on'[t] = NoInode
        PROVE  Others(i) /\ Seized(t, i)
    <2>1. locks[i].holders = {Rec(t, "Shared")}
      BY <1>2, GoodEntry, UpgradeGood
    <2>2. Others(i) /\ locks'[i] = Upgrade(locks[i], t)
      BY <1>1, <1>2
    <2> QED
      BY <1>2, <2>1, <2>2 DEF Seized, Upgrade
  <1>3. ASSUME NEW t \in Tasks, NEW i \in Inodes, locks[i].lock_type = "None",
               locks' = [locks EXCEPT ![i] = Take(locks[i], t)],
               pc'[t] = "user", on'[t] = NoInode
        PROVE  Others(i) /\ Seized(t, i)
    <2>1. locks[i].holders = {}
      BY <1>3, GoodEntry DEF Good, Consistent
    <2>2. Others(i) /\ locks'[i] = Take(locks[i], t)
      BY <1>1, <1>3
    <2> QED
      BY <1>3, <2>1, <2>2 DEF Seized, Take
  <1>4. ASSUME NEW t \in Tasks, NEW i \in Inodes, Of(locks[i], t) = {},
               locks[i].lock_type # "Exclusive", locks' = [locks EXCEPT ![i] = Join(locks[i], t)],
               pc'[t] = "user", on'[t] = NoInode
        PROVE  Others(i) /\ Joined(t, i)
    <2>1. Others(i) /\ locks'[i] = Join(locks[i], t)
      BY <1>1, <1>4
    <2> QED
      BY <1>4, <2>1 DEF Joined, Join
  <1>5. ASSUME UNCHANGED locks PROVE \A i \in Inodes : Same(i)
    BY <1>5 DEF Same
  <1>6. ASSUME NEW t \in Tasks, NEW i \in Inodes, sys_flock(t, i)
        PROVE  \/ \A j \in Inodes : Same(j)
               \/ Others(i) /\ (Joined(t, i) \/ Seized(t, i) \/ Dropped(t, i))
    <2>0. pc[t] = "user" /\ on[t] = NoInode
      BY <1>6 DEF sys_flock, IInv, TypeOK, Spinning
    <2>1. ASSUME NEW nb \in BOOLEAN, acquire_shared(t, i, nb)
          PROVE  (\A j \in Inodes : Same(j)) \/ (Others(i) /\ Joined(t, i))
      BY <1>4, <1>5, <2>0, <2>1 DEF acquire_shared, Enter, Grant, vars
    <2>2. ASSUME NEW nb \in BOOLEAN, acquire_exclusive(t, i, nb)
          PROVE  (\A j \in Inodes : Same(j)) \/ (Others(i) /\ Seized(t, i))
      BY <1>2, <1>3, <1>5, <2>0, <2>2 DEF acquire_exclusive, Enter, Grant, vars
    <2>3. ASSUME release_lock(t, i)
          PROVE  Others(i) /\ Dropped(t, i)
      <3>1. pc[t] = "user"
        BY <1>6 DEF sys_flock
      <3>2. CASE Of(locks[i], t) = {}
        BY <1>1, <2>3, <3>1, <3>2 DEF release_lock, Grant, Dropped
      <3>3. CASE Of(locks[i], t) # {}
        <4>1. locks' = [locks EXCEPT ![i] = Left(locks[i], t)] /\ pc'[t] = pc[t] /\ on'[t] = on[t]
          BY <2>3, <3>3 DEF release_lock, Grant
        <4>2. Left(locks[i], t).holders = locks[i].holders \ Of(locks[i], t)
          BY <3>3, GoodEntry, LeftGood
        <4>3. Others(i) /\ locks'[i] = Left(locks[i], t)
          BY <1>1, <4>1
        <4> QED
          BY <3>1, <4>1, <4>2, <4>3 DEF Dropped
      <3> QED
        BY <3>2, <3>3
    <2> QED
      BY <1>6, <2>1, <2>2, <2>3 DEF sys_flock
  <1>7. ASSUME NEW t \in Tasks, try_acquire_shared(t)
        PROVE  (\A j \in Inodes : Same(j)) \/ (on[t] \in Inodes /\ Others(on[t]) /\ Joined(t, on[t]))
    <2>1. on[t] \in Inodes
      BY <1>7 DEF try_acquire_shared, IInv, TypeOK, Spinning
    <2>2. pc'[t] = "user" /\ on'[t] = NoInode
      BY <1>7 DEF try_acquire_shared, Resume, IInv, TypeOK
    <2> QED
      BY <1>4, <1>5, <1>7, <2>1, <2>2 DEF try_acquire_shared
  <1>8. ASSUME NEW t \in Tasks, try_acquire_exclusive(t)
        PROVE  (\A j \in Inodes : Same(j)) \/ (on[t] \in Inodes /\ Others(on[t]) /\ Seized(t, on[t]))
    <2>1. on[t] \in Inodes
      BY <1>8 DEF try_acquire_exclusive, IInv, TypeOK, Spinning
    <2>2. locks[on[t]].count = 0 => locks[on[t]].lock_type = "None"
      BY <2>1, GoodEntry, FreeIsCountZero
    <2>3. pc'[t] = "user" /\ on'[t] = NoInode
      BY <1>8 DEF try_acquire_exclusive, Resume, IInv, TypeOK
    <2> QED
      BY <1>2, <1>3, <1>5, <1>8, <2>1, <2>2, <2>3 DEF try_acquire_exclusive
  <1>9. ASSUME NEW t \in Tasks, terminate_current(t)
        PROVE  \A i \in Inodes : Dropped(t, i)
    BY <1>9, ExitIInv DEF Dropped, terminate_current
  <1>10. ASSUME NEW t \in Tasks, NEW i \in Inodes, sys_fs_open(t, i) \/ sys_fs_close(t, i)
         PROVE  \A j \in Inodes : Same(j)
    BY <1>5, <1>10 DEF sys_fs_open, sys_fs_close
  <1> QED
    BY <1>6, <1>7, <1>8, <1>9, <1>10 DEF Next

(* No step of one task takes a lock from another or weakens it. *)
THEOREM LocksNeverRevoked == Spec => NeverRevoked
  <1> DEFINE A == \A i \in Inodes : \A r \in locks[i].holders :
                    \/ r \in locks'[i].holders
                    \/ r.lock_type = "Shared" /\ Rec(r.pid, "Exclusive") \in locks'[i].holders
                    \/ pc[r.pid] = "user" /\ Of(locks'[i], r.pid) = {}
  <1>1. ASSUME IInv, [Next]_vars PROVE [A]_vars
    <2> SUFFICES ASSUME Next, NEW i \in Inodes, NEW r \in locks[i].holders
                 PROVE  \/ r \in locks'[i].holders
                        \/ r.lock_type = "Shared" /\ Rec(r.pid, "Exclusive") \in locks'[i].holders
                        \/ pc[r.pid] = "user" /\ Of(locks'[i], r.pid) = {}
      BY <1>1
    <2>1. CASE Same(i)
      BY <2>1 DEF Same
    <2>2. ASSUME NEW t \in Tasks, Joined(t, i) PROVE r \in locks'[i].holders
      BY <2>2 DEF Joined
    <2>3. ASSUME NEW t \in Tasks, Seized(t, i)
          PROVE  r.lock_type = "Shared" /\ Rec(r.pid, "Exclusive") \in locks'[i].holders
      BY <2>3 DEF Seized, Rec
    <2>4. ASSUME NEW t \in Tasks, Dropped(t, i)
          PROVE  r \in locks'[i].holders \/ (pc[r.pid] = "user" /\ Of(locks'[i], r.pid) = {})
      BY <2>4 DEF Dropped, Of
    <2> QED
      BY <1>1, <2>1, <2>2, <2>3, <2>4, StepShape DEF Others
  <1>2. Spec => [][A]_vars
    BY <1>1, IInvInvariant, PTL DEF Spec
  <1> QED
    BY <1>2 DEF NeverRevoked
(* Where a step leaves a task: where it was, in user code and waiting for  *)
(* nothing, ended, or in a loop on an inode whose table it did not touch   *)
(* and of which it is no holder, or a reader that upgrades.                *)
LEMMA TaskMoves ==
    ASSUME IInv, Next, NEW u \in Tasks
    PROVE  \/ pc'[u] = pc[u] /\ on'[u] = on[u]
           \/ pc'[u] = "user" /\ on'[u] = NoInode
           \/ terminate_current(u)
           \/ /\ UNCHANGED locks /\ on'[u] \in Inodes /\ pc'[u] \in Spinning
              /\ \/ Of(locks[on'[u]], u) = {}
                 \/ Rec(u, "Shared") \in locks[on'[u]].holders /\ pc'[u] = "spin_exclusive"
  <1>1. pc \in [Tasks -> {"user", "exited"} \cup Spinning] /\ on \in [Tasks -> Inodes \cup {NoInode}]
    BY DEF IInv, TypeOK
  <1> DEFINE Goal == \/ pc'[u] = pc[u] /\ on'[u] = on[u]
                     \/ pc'[u] = "user" /\ on'[u] = NoInode
                     \/ terminate_current(u)
                     \/ /\ UNCHANGED locks /\ on'[u] \in Inodes /\ pc'[u] \in Spinning
                        /\ \/ Of(locks[on'[u]], u) = {}
                           \/ Rec(u, "Shared") \in locks[on'[u]].holders /\ pc'[u] = "spin_exclusive"
  <1>2. ASSUME NEW t \in Tasks, NEW i \in Inodes, NEW nb \in BOOLEAN, acquire_shared(t, i, nb)
        PROVE  Goal
    BY <1>1, <1>2 DEF acquire_shared, Grant, Enter, vars, Spinning
  <1>3. ASSUME NEW t \in Tasks, NEW i \in Inodes, NEW nb \in BOOLEAN, acquire_exclusive(t, i, nb)
        PROVE  Goal
    BY <1>1, <1>3 DEF acquire_exclusive, Grant, Enter, vars, Spinning
  <1>4. ASSUME NEW t \in Tasks, NEW i \in Inodes, release_lock(t, i)
        PROVE  Goal
    BY <1>4 DEF release_lock, Grant
  <1>5. ASSUME NEW t \in Tasks, NEW i \in Inodes, sys_fs_open(t, i) \/ sys_fs_close(t, i)
        PROVE  Goal
    BY <1>5 DEF sys_fs_open, sys_fs_close
  <1>6. ASSUME NEW t \in Tasks, try_acquire_shared(t) \/ try_acquire_exclusive(t)
        PROVE  Goal
    BY <1>1, <1>6 DEF try_acquire_shared, try_acquire_exclusive, Resume
  <1>7. ASSUME NEW t \in Tasks, terminate_current(t)
        PROVE  Goal
    BY <1>1, <1>7 DEF terminate_current
  <1> QED
    BY <1>2, <1>3, <1>4, <1>5, <1>6, <1>7 DEF Next, sys_flock

(* A record of the new table was in the old one, or its task was granted   *)
(* it in this step.                                                        *)
LEMMA RecordsOld ==
    ASSUME IInv, Next, NEW i \in Inodes, NEW r \in locks'[i].holders
    PROVE  \/ r \in locks[i].holders
           \/ r.pid \in Tasks /\ pc'[r.pid] = "user" /\ on'[r.pid] = NoInode
  <1>1. \A t \in Tasks, ty \in LockTypes : Rec(t, ty).pid = t
    BY DEF Rec
  <1> QED
    BY <1>1, StepShape DEF Same, Others, Joined, Seized, Dropped, LockTypes

(* Nobody in the table has exited or waits for itself. *)
LEMMA HoldersLiveStep ==
    ASSUME IInv, HoldersLive, [Next]_vars
    PROVE  HoldersLive'
  <1>1. CASE UNCHANGED vars
    BY <1>1 DEF vars, HoldersLive, NoStaleHolder, HoldersWaitOnlyToUpgrade
  <1>2. ASSUME Next, NEW i \in Inodes, NEW r \in locks'[i].holders
        PROVE  /\ pc'[r.pid] # "exited"
               /\ on'[r.pid] = i => r.lock_type = "Shared" /\ pc'[r.pid] = "spin_exclusive"
    <2>0. i # NoInode
      BY FileLockAssumption
    <2>1. r.pid \in Tasks
      BY <1>2, NextIInv DEF IInv, TypeOK, LockState, LockRecord
    <2>2. CASE pc'[r.pid] = "user" /\ on'[r.pid] = NoInode
      BY <2>0, <2>2
    <2>3. CASE r \in locks[i].holders
      <3>1. /\ pc[r.pid] # "exited"
            /\ on[r.pid] = i => r.lock_type = "Shared" /\ pc[r.pid] = "spin_exclusive"
        BY <2>1, <2>3 DEF HoldersLive, NoStaleHolder, HoldersWaitOnlyToUpgrade, Of
      <3>2. CASE terminate_current(r.pid)
        <4>1. r \notin locks'[i].holders
          BY <2>1, <3>2, ExitIInv DEF Of
        <4> QED
          BY <1>2, <4>1
      <3>3. CASE /\ UNCHANGED locks /\ on'[r.pid] \in Inodes /\ pc'[r.pid] \in Spinning
                 /\ \/ Of(locks[on'[r.pid]], r.pid) = {}
                    \/ /\ Rec(r.pid, "Shared") \in locks[on'[r.pid]].holders
                       /\ pc'[r.pid] = "spin_exclusive"
        <4>1. pc'[r.pid] # "exited"
          BY <3>3 DEF Spinning
        <4>2. ASSUME on'[r.pid] = i PROVE r.lock_type = "Shared" /\ pc'[r.pid] = "spin_exclusive"
          <5>1. r \in Of(locks[i], r.pid)
            BY <2>3 DEF Of
          <5>2. Rec(r.pid, "Shared") \in Of(locks[i], r.pid) /\ pc'[r.pid] = "spin_exclusive"
            BY <3>3, <4>2, <5>1 DEF Of, Rec
          <5>3. r = Rec(r.pid, "Shared")
            <6>1. Of(locks[i], r.pid) = {r}
              BY <2>1, <5>1, GoodEntry, OfSingle
            <6> QED
              BY <5>2, <6>1
          <5> QED
            BY <5>2, <5>3 DEF Rec
        <4> QED
          BY <4>1, <4>2
      <3> QED
        BY <1>2, <2>1, <2>2, <3>1, <3>2, <3>3, TaskMoves
    <2> QED
      BY <1>2, <2>2, <2>3, RecordsOld
  <1>3. CASE Next
    BY <1>2, <1>3 DEF HoldersLive, NoStaleHolder, HoldersWaitOnlyToUpgrade, Of
  <1> QED
    BY <1>1, <1>3

(* Who is in the table can still act: the cleanup of terminate_current     *)
(* leaves no record of an exited task, and a task that waits for an inode  *)
(* it holds is a reader in spin_wait_exclusive.                            *)
THEOREM HoldersStayLive == Spec => []HoldersLive
  <1>1. Init => HoldersLive
    BY DEF Init, HoldersLive, NoStaleHolder, HoldersWaitOnlyToUpgrade, NoLock, Of
  <1>2. IInv /\ HoldersLive /\ [Next]_vars => HoldersLive'
    BY HoldersLiveStep
  <1> QED
    BY <1>1, <1>2, IInvInvariant, PTL DEF Spec
-----------------------------------------------------------------------------
(* The records of an entry determine the abstract mode of every task, and  *)
(* the three shapes of change are the three actions of RWLock.             *)
Mode == [t \in Tasks |-> [i \in Inodes |-> ModeIn(locks[i], t)]]

LEMMA ModeOfEntry ==
    ASSUME NEW s, Good(s), NEW t \in Tasks
    PROVE  /\ ModeIn(s, t) = "none" <=> Of(s, t) = {}
           /\ ModeIn(s, t) = "exclusive" <=> Rec(t, "Exclusive") \in s.holders
           /\ ModeIn(s, t) = "exclusive" => s.lock_type = "Exclusive"
  <1>1. \A ty \in LockTypes : Rec(t, ty) \in s.holders => Rec(t, ty) \in Of(s, t)
    BY DEF Of, Rec
  <1>2. \A r \in Of(s, t) : r = Rec(t, "Shared") \/ r = Rec(t, "Exclusive")
    BY OfSingle DEF LockTypes
  <1>3. Rec(t, "Exclusive") \in s.holders => s.lock_type = "Exclusive"
    BY DEF Good, Consistent, Rec
  <1>4. \A r \in Of(s, t) : r \in s.holders
    BY DEF Of
  <1> QED
    BY <1>1, <1>2, <1>3, <1>4 DEF ModeIn, LockTypes

LEMMA ModeSame ==
    ASSUME NEW i \in Inodes, Same(i)
    PROVE  \A t \in Tasks : ModeIn(locks'[i], t) = ModeIn(locks[i], t)
  BY DEF Same, ModeIn

LEMMA ModeJoined ==
    ASSUME IInv, NEW t \in Tasks, NEW i \in Inodes, Joined(t, i)
    PROVE  /\ ModeIn(locks[i], t) = "none"
           /\ \A u \in Tasks : ModeIn(locks[i], u) # "exclusive"
           /\ ModeIn(locks'[i], t) = "shared"
           /\ \A u \in Tasks \ {t} : ModeIn(locks'[i], u) = ModeIn(locks[i], u)
  <1>1. /\ ModeIn(locks[i], t) = "none"
        /\ \A u \in Tasks : ModeIn(locks[i], u) # "exclusive"
    BY GoodEntry, ModeOfEntry DEF Joined
  <1>2. Rec(t, "Exclusive") \notin locks[i].holders
    BY DEF Joined, Of, Rec
  <1>3. /\ Rec(t, "Exclusive") # Rec(t, "Shared")
        /\ \A u \in Tasks \ {t} : \A ty \in LockTypes : Rec(u, ty) # Rec(t, "Shared")
    BY DEF Rec
  <1> QED
    BY <1>1, <1>2, <1>3 DEF Joined, ModeIn, LockTypes

LEMMA ModeSeized ==
    ASSUME NEW t \in Tasks, NEW i \in Inodes, Seized(t, i)
    PROVE  /\ ModeIn(locks'[i], t) = "exclusive"
           /\ \A u \in Tasks \ {t} : /\ ModeIn(locks[i], u) = "none"
                                    /\ ModeIn(locks'[i], u) = "none"
  <1>1. \A u \in Tasks \ {t} : \A ty, ty2 \in LockTypes : Rec(u, ty) # Rec(t, ty2)
    BY DEF Rec
  <1> QED
    BY <1>1 DEF Seized, ModeIn, LockTypes

LEMMA ModeDropped ==
    ASSUME NEW t \in Tasks, NEW i \in Inodes, Dropped(t, i)
    PROVE  /\ ModeIn(locks'[i], t) = "none"
           /\ \A u \in Tasks \ {t} : ModeIn(locks'[i], u) = ModeIn(locks[i], u)
  <1>1. \A u \in Tasks : \A ty \in LockTypes :
           Rec(u, ty) \in locks'[i].holders <=> Rec(u, ty) \in locks[i].holders /\ u # t
    BY DEF Dropped, Of, Rec
  <1> QED
    BY <1>1 DEF ModeIn, LockTypes

(* One task's mode on one inode changes and nothing else does. *)
LEMMA ModeUpdate ==
    ASSUME NEW t \in Tasks, NEW i \in Inodes, NEW m, ModeIn(locks'[i], t) = m,
           \A u \in Tasks \ {t} : ModeIn(locks'[i], u) = ModeIn(locks[i], u),
           \A j \in Inodes \ {i}, u \in Tasks : ModeIn(locks'[j], u) = ModeIn(locks[j], u)
    PROVE  Mode' = [Mode EXCEPT ![t][i] = m]
  <1> DEFINE row == [j \in Inodes |-> ModeIn(locks'[j], t)]
  <1>1. Mode' = [u \in Tasks |-> [j \in Inodes |-> ModeIn(locks'[j], u)]]
    BY DEF Mode
  <1>2. [Mode[t] EXCEPT ![i] = m] = row
    BY DEF Mode
  <1>3. \A u \in Tasks \ {t} : Mode[u] = [j \in Inodes |-> ModeIn(locks'[j], u)]
    <2> SUFFICES ASSUME NEW u \in Tasks \ {t}
                 PROVE  Mode[u] = [j \in Inodes |-> ModeIn(locks'[j], u)]
      OBVIOUS
    <2>1. \A j \in Inodes : ModeIn(locks'[j], u) = ModeIn(locks[j], u)
      OBVIOUS
    <2> QED
      BY <2>1 DEF Mode
  <1>4. [Mode EXCEPT ![t] = row] = [u \in Tasks |-> [j \in Inodes |-> ModeIn(locks'[j], u)]]
    BY <1>3 DEF Mode
  <1> QED
    BY <1>1, <1>2, <1>4

LEMMA RefinementStep ==
    ASSUME IInv, Next
    PROVE  RW!Next \/ UNCHANGED Mode
  <1>1. Mode' = [t \in Tasks |-> [i \in Inodes |-> ModeIn(locks'[i], t)]]
    BY DEF Mode
  <1>2. CASE \A i \in Inodes : Same(i)
    BY <1>1, <1>2, ModeSame DEF Mode
  <1>3. ASSUME NEW t \in Tasks, NEW i \in Inodes, Others(i), Joined(t, i)
        PROVE  RW!AcquireShared(t, i)
    <2>1. \A j \in Inodes \ {i}, u \in Tasks : ModeIn(locks'[j], u) = ModeIn(locks[j], u)
      BY <1>3, ModeSame DEF Others
    <2>2. Mode' = [Mode EXCEPT ![t][i] = "shared"]
      BY <1>3, <2>1, ModeJoined, ModeUpdate
    <2>3. Mode[t][i] = "none" /\ \A u \in Tasks \ {t} : Mode[u][i] # "exclusive"
      BY <1>3, ModeJoined DEF Mode
    <2> QED
      BY <2>2, <2>3 DEF RW!AcquireShared, Mode
  <1>4. ASSUME NEW t \in Tasks, NEW i \in Inodes, Others(i), Seized(t, i)
        PROVE  RW!AcquireExclusive(t, i)
    <2>1. \A j \in Inodes \ {i}, u \in Tasks : ModeIn(locks'[j], u) = ModeIn(locks[j], u)
      BY <1>4, ModeSame DEF Others
    <2>2. Mode' = [Mode EXCEPT ![t][i] = "exclusive"]
      BY <1>4, <2>1, ModeSeized, ModeUpdate
    <2>3. \A u \in Tasks \ {t} : Mode[u][i] = "none"
      BY <1>4, ModeSeized DEF Mode
    <2> QED
      BY <2>2, <2>3 DEF RW!AcquireExclusive, Mode
  <1>5. ASSUME NEW t \in Tasks, NEW S \in SUBSET Inodes, \A i \in S : Dropped(t, i),
               \A j \in Inodes \ S : Same(j)
        PROVE  RW!Release(t, S)
    <2>1. \A j \in Inodes \ S, u \in Tasks : ModeIn(locks'[j], u) = ModeIn(locks[j], u)
      BY <1>5, ModeSame
    <2>2. \A i \in S : /\ ModeIn(locks'[i], t) = "none"
                      /\ \A u \in Tasks \ {t} : ModeIn(locks'[i], u) = ModeIn(locks[i], u)
      BY <1>5, ModeDropped
    <2>3. Mode' = [Mode EXCEPT ![t] = [i \in Inodes |-> IF i \in S THEN "none" ELSE Mode[t][i]]]
      BY <1>1, <2>1, <2>2 DEF Mode
    <2> QED
      BY <2>3 DEF RW!Release, Mode
  <1>6. ASSUME NEW t \in Tasks, NEW i \in Inodes, Others(i), Dropped(t, i)
        PROVE  RW!Release(t, {i})
    BY <1>5, <1>6 DEF Others
  <1>7. ASSUME NEW t \in Tasks, \A i \in Inodes : Dropped(t, i)
        PROVE  RW!Release(t, Inodes)
    BY <1>5, <1>7
  <1> QED
    BY <1>2, <1>3, <1>4, <1>6, <1>7, StepShape DEF RW!Next

(* The lock table with its four acquisition paths, two release paths and   *)
(* polling waiters implements the abstract readers-writer lock.            *)
THEOREM Refinement == Spec => ImplementsRWLock
  <1>1. Init => RW!Init
    BY DEF Init, RW!Init, NoLock, ModeIn
  <1>2. ASSUME IInv, [Next]_vars
        PROVE  [RW!Next]_[t \in Tasks |-> [i \in Inodes |-> ModeIn(locks[i], t)]]
    <2>1. CASE Next
      BY <1>2, <2>1, RefinementStep DEF Mode
    <2>2. CASE UNCHANGED vars
      BY <2>2 DEF vars
    <2> QED
      BY <1>2, <2>1, <2>2
  <1> QED
    BY <1>1, <1>2, IInvInvariant, PTL DEF Spec, ImplementsRWLock, RW!Spec

-----------------------------------------------------------------------------
(***************************************************************************)
(* A channel delivers each message at most once, wakes the receiver of a   *)
(* message that is sent, and gives each call the reply to its own request, *)
(* for every finite set of tasks, every use of the two ends and any number *)
(* of messages.                                                            *)
(*                                                                         *)
(* ChannelSound is not inductive.  That a message is not delivered again   *)
(* needs to know that what lies in a slot was not delivered before; that   *)
(* send wakes the sleeper needs to know that a sleeper is the registered   *)
(* receiver; and that a reply matches needs the one place where the        *)
(* request of a waiting caller can be: in the peer's slot, with the peer,  *)
(* or back as the stored reply.                                            *)
(***************************************************************************)

Fates == {"pending", "received", "lost"}
Message == [by : ChTasks, from : Ends, kind : {"send", "call"}, fate : Fates, copies : Nat]
Waits == {"blocked", "poll", "call"} \X Ends

ChTypes ==
    /\ use \in Uses /\ end \in [Ends -> EndState]
    /\ st \in [ChTasks -> {<<"run">>} \cup Waits]
    /\ sent \in Seq(Message) /\ Len(sent) <= use.max
    /\ owes \in [ChTasks -> Numbers] /\ asked \in [ChTasks -> Numbers]
    /\ DOMAIN answer = ChTasks
    /\ \A t \in ChTasks, w \in Waits : st[t] = w => w[2] \in use.ends[t]

(* What lies in a slot, and where the messages that are pending lie.       *)
Slotted(en, s) ==
    /\ \A e \in Ends : en[e].pending_msg # None =>
          /\ en[e].pending_msg \in 1 .. Len(s)
          /\ s[en[e].pending_msg].fate = "pending" /\ s[en[e].pending_msg].from = Peer(e)
    /\ \A i \in 1 .. Len(s) :
          /\ s[i].fate = "pending" => en[Peer(s[i].from)].pending_msg = i
          /\ s[i].copies = IF s[i].fate = "received" THEN 1 ELSE 0

(* A task asleep on an end is the receiver registered there, and the end   *)
(* has nothing for it.                                                     *)
Sleepers ==
    SendsOnly => \A t \in ChTasks, e \in Ends : st[t] = <<"blocked", e>> =>
        end[e].pending_msg = None /\ end[e].blocked_receiver = t

(* t waits at the end e it holds for the reply to its request n.           *)
Waiting(t, e, n) == e \in use.ends[t] /\ st[t] = <<"call", e>> /\ asked[t] = n /\ n # None

(* The request of a waiting caller is at one place only: unread at the     *)
(* peer, read by the one task that holds the peer, or answered.            *)
Unread(e) == end[Peer(e)].pending_msg # None =>
    /\ \E t \in ChTasks : Waiting(t, e, end[Peer(e)].pending_msg)
    /\ end[e].pending_reply = NoReply
    /\ \A u \in ChTasks : owes[u] # end[Peer(e)].pending_msg
Answered(e) == end[e].pending_reply # NoReply =>
    /\ \E t \in ChTasks : Waiting(t, e, end[e].pending_reply)
    /\ \A u \in ChTasks : owes[u] # end[e].pending_reply
Owed(u) == owes[u] # None =>
    \E t \in ChTasks, e \in Ends : t # u /\ Peer(e) \in use.ends[u] /\ Waiting(t, e, owes[u])
AskedOnce ==
    /\ \A t \in ChTasks : asked[t] <= Len(sent)
    /\ \A t, u \in ChTasks : asked[t] = asked[u] /\ asked[t] # None => t = u
Exchange ==
    CallsOnly =>
        /\ \A e \in Ends : Unread(e) /\ Answered(e)
        /\ \A u \in ChTasks : Owed(u)
        /\ AskedOnce
        /\ \A t \in ChTasks : answer[t][1] = answer[t][2]

(* The inductive invariant. *)
ChInv == ChTypes /\ Slotted(end, sent) /\ Sleepers /\ Exchange
-----------------------------------------------------------------------------
LEMMA Peers == \A e \in Ends : Peer(e) \in Ends /\ Peer(e) # e /\ Peer(Peer(e)) = e
BY DEF Ends, Peer

(* A task runs or waits at an end, never both. *)
LEMMA Places ==
    /\ \A k, e : <<k, e>> # <<"run">>
    /\ \A k, l, e, f : <<k, e>> = <<l, f>> <=> k = l /\ e = f
    /\ \A k \in {"blocked", "poll", "call"}, e \in Ends : <<k, e>> \in Waits
    /\ \A w \in Waits : /\ w[1] \in {"blocked", "poll", "call"} /\ w[2] \in Ends
                        /\ w = <<w[1], w[2]>> /\ w # <<"run">>
    /\ <<"run">>[1] = "run"
<1>1. \A k, e : <<k, e>> # <<"run">>
  <2>1. SUFFICES ASSUME NEW k, NEW e PROVE <<k, e>> # <<"run">>
    OBVIOUS
  <2>2. Len(<<k, e>>) = 2 /\ Len(<<"run">>) = 1
    OBVIOUS
  <2>3. QED BY <2>2
<1>2. \A w \in Waits : /\ w[1] \in {"blocked", "poll", "call"} /\ w[2] \in Ends
                       /\ w = <<w[1], w[2]>>
  BY DEF Waits
<1>3. \A k \in {"blocked", "poll", "call"}, e \in Ends : <<k, e>> \in Waits
  BY DEF Waits
<1>4. QED BY <1>1, <1>2, <1>3

(* With one task per end, who holds an end is the only one to hold it. *)
LEMMA OneHolder ==
    ASSUME use \in Uses, OnePerEnd
    PROVE  \A e \in Ends, t, u \in ChTasks : e \in use.ends[t] /\ e \in use.ends[u] => t = u
<1>1. SUFFICES ASSUME NEW e \in Ends, NEW t \in ChTasks, NEW u \in ChTasks,
                      e \in use.ends[t], e \in use.ends[u]
               PROVE  t = u
  OBVIOUS
<1> DEFINE S == {v \in ChTasks : e \in use.ends[v]}
<1>2. IsFiniteSet(S)
  BY FS_Subset, ChannelAssumption, S \subseteq ChTasks
<1>3. Cardinality(S) = 1
  BY DEF OnePerEnd
<1>4. PICK x : S = {x}
  BY <1>2, <1>3, FS_Singleton
<1>5. t \in S /\ u \in S
  BY <1>1
<1>6. QED BY <1>4, <1>5

(* What the types say of a use and of one end. *)
LEMMA UseType ==
    ASSUME use \in Uses
    PROVE  use.max \in 0 .. MaxSent /\ use.max \in Nat /\ MaxSent \in Nat
BY ChannelAssumption DEF Use

(* The history after a message is sent: one more message, pending, and the *)
(* one it replaces lost.                                                   *)
LEMMA RecordedShape ==
    ASSUME ChTypes, NEW t \in ChTasks, NEW e \in Ends, NEW kind \in {"send", "call"},
           NEW r, r = Recorded(t, e, kind)
    PROVE  /\ r \in Seq(Message) /\ Len(r) = Len(sent) + 1
           /\ /\ r[Len(sent) + 1].from = e /\ r[Len(sent) + 1].fate = "pending"
              /\ r[Len(sent) + 1].copies = 0
           /\ \A i \in 1 .. Len(sent) :
                 /\ r[i].from = sent[i].from /\ r[i].copies = sent[i].copies
                 /\ i # end[Peer(e)].pending_msg => r[i].fate = sent[i].fate
                 /\ i = end[Peer(e)].pending_msg => r[i].fate = "lost"
<1> DEFINE h == [i \in 1 .. Len(sent) |-> IF i = end[Peer(e)].pending_msg
                        THEN [sent[i] EXCEPT !.fate = "lost"] ELSE sent[i]]
           m == [by |-> t, from |-> e, kind |-> kind, fate |-> "pending", copies |-> 0]
<1>1. m \in Message
  BY DEF Message, Fates
<1>2. \A i \in 1 .. Len(sent) : sent[i] \in Message
  BY DEF ChTypes
<1>3. \A i \in 1 .. Len(sent) : [sent[i] EXCEPT !.fate = "lost"] \in Message
  BY <1>2 DEF Message, Fates
<1>4. Len(sent) \in Nat
  BY DEF ChTypes
<1>5. h \in Seq(Message) /\ Len(h) = Len(sent)
  <2>1. h \in [1 .. Len(sent) -> Message]
    BY <1>2, <1>3
  <2>2. QED BY <2>1, <1>4, IsASeq, LenProperties
<1>6. Recorded(t, e, kind) = Append(h, m)
  BY DEF Recorded
<1> HIDE DEF h, m
<1>7. /\ Append(h, m) \in Seq(Message) /\ Len(Append(h, m)) = Len(h) + 1
      /\ Append(h, m)[Len(h) + 1] = m /\ \A i \in 1 .. Len(h) : Append(h, m)[i] = h[i]
  BY <1>1, <1>5, AppendProperties
<1>8. \A i \in 1 .. Len(sent) :
         /\ h[i].from = sent[i].from /\ h[i].copies = sent[i].copies
         /\ i # end[Peer(e)].pending_msg => h[i].fate = sent[i].fate
         /\ i = end[Peer(e)].pending_msg => h[i].fate = "lost"
  BY <1>2 DEF h, Message
<1>9. m.from = e /\ m.fate = "pending" /\ m.copies = 0
  BY DEF m
<1>10. r = Append(h, m)
  BY <1>6
<1>11. QED BY <1>5, <1>7, <1>8, <1>9, <1>10

-----------------------------------------------------------------------------
(* The three things a step does to slots and history: nothing, a message   *)
(* posted at the peer of e, the message at e received.                     *)
Quiet == sent' = sent /\ \A f \in Ends : end'[f].pending_msg = end[f].pending_msg
Posted(t, e, kind) ==
    /\ sent' = Recorded(t, e, kind)
    /\ end'[Peer(e)].pending_msg = Len(sent) + 1
    /\ end'[e].pending_msg = end[e].pending_msg
Taken(e) ==
    /\ end[e].pending_msg # None
    /\ sent' = [sent EXCEPT ![end[e].pending_msg].fate = "received",
                            ![end[e].pending_msg].copies = @ + 1]
    /\ end'[e].pending_msg = None
    /\ end'[Peer(e)].pending_msg = end[Peer(e)].pending_msg

(* A posted message is the one pending at the peer, and the only one. *)
LEMMA PostedSlots ==
    ASSUME ChTypes, Slotted(end, sent), NEW t \in ChTasks, NEW e \in Ends,
           NEW kind \in {"send", "call"}, Posted(t, e, kind)
    PROVE  Slotted(end', sent')
<1> DEFINE old == end[Peer(e)].pending_msg
           n == Len(sent) + 1
<1>0. sent' = Recorded(t, e, kind)
  BY DEF Posted
<1>1. sent' \in Seq(Message) /\ Len(sent') = n
  BY <1>0, RecordedShape
<1>2. Len(sent) \in Nat /\ \A i \in 1 .. Len(sent) : sent[i] \in Message
  BY DEF ChTypes
<1>3. \A i \in 1 .. Len(sent) :
         /\ sent'[i].from = sent[i].from /\ sent'[i].copies = sent[i].copies
         /\ i # old => sent'[i].fate = sent[i].fate
         /\ i = old => sent'[i].fate = "lost"
  BY <1>0, RecordedShape
<1>4. sent'[n].from = e /\ sent'[n].fate = "pending" /\ sent'[n].copies = 0
  BY <1>0, RecordedShape
<1>5. end'[Peer(e)].pending_msg = n /\ end'[e].pending_msg = end[e].pending_msg
  BY DEF Posted
<1>6. 1 .. n = (1 .. Len(sent)) \cup {n} /\ n \notin 1 .. Len(sent)
  BY <1>2
<1>7. end[e].pending_msg # None =>
         /\ end[e].pending_msg \in 1 .. Len(sent) /\ end[e].pending_msg # old
         /\ sent[end[e].pending_msg].fate = "pending" /\ sent[end[e].pending_msg].from = Peer(e)
  BY Peers DEF Slotted
<1>8. old # None => old \in 1 .. Len(sent) /\ sent[old].fate = "pending" /\ sent[old].from = e
  BY Peers DEF Slotted
<1>9. \A f \in Ends : f = e \/ f = Peer(e)
  BY DEF Ends, Peer
<1>10. \A f \in Ends : end'[f].pending_msg # None =>
          /\ end'[f].pending_msg \in 1 .. Len(sent')
          /\ sent'[end'[f].pending_msg].fate = "pending"
          /\ sent'[end'[f].pending_msg].from = Peer(f)
  <2>1. SUFFICES ASSUME NEW f \in Ends, end'[f].pending_msg # None
                 PROVE  /\ end'[f].pending_msg \in 1 .. n
                        /\ sent'[end'[f].pending_msg].fate = "pending"
                        /\ sent'[end'[f].pending_msg].from = Peer(f)
    BY <1>1
  <2>2. CASE f = e
    BY <2>1, <2>2, <1>5, <1>7, <1>3, <1>6
  <2>3. CASE f = Peer(e)
    BY <2>1, <2>3, <1>4, <1>5, <1>6, Peers
  <2>4. QED BY <2>2, <2>3, <1>9
<1>11. \A i \in 1 .. Len(sent') :
          /\ sent'[i].fate = "pending" => end'[Peer(sent'[i].from)].pending_msg = i
          /\ sent'[i].copies = IF sent'[i].fate = "received" THEN 1 ELSE 0
  <2>1. SUFFICES ASSUME NEW i \in 1 .. n
                 PROVE  /\ sent'[i].fate = "pending" => end'[Peer(sent'[i].from)].pending_msg = i
                        /\ sent'[i].copies = IF sent'[i].fate = "received" THEN 1 ELSE 0
    BY <1>1
  <2>2. CASE i = n
    BY <2>2, <1>4, <1>5
  <2>3. CASE i \in 1 .. Len(sent)
    <3>1. /\ sent[i].fate = "pending" => end[Peer(sent[i].from)].pending_msg = i
          /\ sent[i].copies = IF sent[i].fate = "received" THEN 1 ELSE 0
      BY <2>3 DEF Slotted
    <3>2. CASE i = old
      <4>1. i # None
        BY <2>3, <1>2 DEF None
      <4>2. sent[i].fate = "pending" /\ sent'[i].fate = "lost" /\ sent'[i].copies = sent[i].copies
        BY <4>1, <3>2, <1>8, <1>3, <2>3
      <4>3. QED BY <4>2, <3>1
    <3>3. CASE i # old
      <4>1. /\ sent'[i].from = sent[i].from /\ sent'[i].copies = sent[i].copies
            /\ sent'[i].fate = sent[i].fate
        BY <3>3, <2>3, <1>3
      <4>2. sent[i].from \in Ends
        BY <2>3, <1>2 DEF Message
      <4>3. sent[i].fate = "pending" => Peer(sent[i].from) = e
        BY <3>1, <3>3, <4>2, <1>9, Peers
      <4>4. sent[i].fate = "pending" => end'[Peer(sent'[i].from)].pending_msg = i
        BY <4>1, <4>3, <3>1, <1>5
      <4>5. QED BY <4>1, <4>4, <3>1
    <3>4. QED BY <3>2, <3>3
  <2>4. QED BY <2>2, <2>3, <1>6
<1>12. QED BY <1>10, <1>11 DEF Slotted

(* A message that is received leaves its slot, and was never delivered. *)
LEMMA TakenSlots ==
    ASSUME ChTypes, Slotted(end, sent), NEW e \in Ends, Taken(e)
    PROVE  Slotted(end', sent') /\ sent' \in Seq(Message) /\ Len(sent') = Len(sent)
<1> DEFINE k == end[e].pending_msg
<1>1. /\ k \in 1 .. Len(sent) /\ sent[k].fate = "pending" /\ sent[k].from = Peer(e)
      /\ sent[k].copies = 0
  BY DEF Slotted, Taken
<1>2. Len(sent) \in Nat /\ \A i \in 1 .. Len(sent) : sent[i] \in Message
  BY DEF ChTypes
<1> DEFINE m == [sent[k] EXCEPT !.fate = "received", !.copies = @ + 1]
<1>3. m \in Message /\ m.fate = "received" /\ m.copies = 1 /\ m.from = Peer(e)
  <2>1. sent[k] \in Message
    BY <1>1, <1>2
  <2> DEFINE q == [sent[k] EXCEPT !.fate = "received"]
  <2>2. q \in Message /\ q.fate = "received" /\ q.copies = 0 /\ q.from = sent[k].from
    BY <2>1, <1>1 DEF Message, Fates
  <2>3. m = [q EXCEPT !.copies = @ + 1]
    BY <2>1, <2>2 DEF Message
  <2> HIDE DEF q, m
  <2>4. QED BY <2>2, <2>3, <1>1 DEF Message
<1>4. sent' = [sent EXCEPT ![k] = m]
  BY <1>1 DEF Taken, ChTypes
<1> HIDE DEF m
<1>5. /\ sent' \in Seq(Message) /\ Len(sent') = Len(sent)
      /\ \A i \in 1 .. Len(sent) : sent'[i] = IF i = k THEN m ELSE sent[i]
  BY <1>1, <1>3, <1>4, ExceptSeq DEF ChTypes
<1>6. end'[e].pending_msg = None /\ end'[Peer(e)].pending_msg = end[Peer(e)].pending_msg
  BY DEF Taken
<1>7. \A f \in Ends : f = e \/ f = Peer(e)
  BY DEF Ends, Peer
<1>8. \A f \in Ends : end'[f].pending_msg # None =>
         /\ end'[f].pending_msg \in 1 .. Len(sent')
         /\ sent'[end'[f].pending_msg].fate = "pending"
         /\ sent'[end'[f].pending_msg].from = Peer(f)
  <2>1. SUFFICES ASSUME end[Peer(e)].pending_msg # None
                 PROVE  /\ end[Peer(e)].pending_msg \in 1 .. Len(sent)
                        /\ sent'[end[Peer(e)].pending_msg].fate = "pending"
                        /\ sent'[end[Peer(e)].pending_msg].from = Peer(Peer(e))
    BY <1>5, <1>6, <1>7
  <2>2. /\ end[Peer(e)].pending_msg \in 1 .. Len(sent)
        /\ sent[end[Peer(e)].pending_msg].fate = "pending"
        /\ sent[end[Peer(e)].pending_msg].from = Peer(Peer(e))
    BY <2>1, Peers DEF Slotted
  <2>3. end[Peer(e)].pending_msg # k
    BY <2>2, <1>1, Peers
  <2>4. QED BY <2>2, <2>3, <1>5
<1>9. \A i \in 1 .. Len(sent') :
         /\ sent'[i].fate = "pending" => end'[Peer(sent'[i].from)].pending_msg = i
         /\ sent'[i].copies = IF sent'[i].fate = "received" THEN 1 ELSE 0
  <2>1. SUFFICES ASSUME NEW i \in 1 .. Len(sent)
                 PROVE  /\ sent'[i].fate = "pending" => end'[Peer(sent'[i].from)].pending_msg = i
                        /\ sent'[i].copies = IF sent'[i].fate = "received" THEN 1 ELSE 0
    BY <1>5
  <2>2. CASE i = k
    BY <2>2, <1>3, <1>5
  <2>3. CASE i # k
    <3>1. sent'[i] = sent[i]
      BY <2>3, <1>5
    <3>2. sent[i].fate = "pending" => end[Peer(sent[i].from)].pending_msg = i
      BY DEF Slotted
    <3>3. sent[i].from \in Ends
      BY <1>2 DEF Message
    <3>4. sent[i].fate = "pending" => Peer(sent[i].from) # e
      BY <3>2, <2>3
    <3>5. sent[i].fate = "pending" => end'[Peer(sent[i].from)].pending_msg = i
      BY <3>2, <3>3, <3>4, <1>6, <1>7, Peers
    <3>6. sent[i].copies = IF sent[i].fate = "received" THEN 1 ELSE 0
      BY DEF Slotted
    <3>7. QED BY <3>1, <3>5, <3>6
  <2>4. QED BY <2>2, <2>3
<1>10. QED BY <1>5, <1>8, <1>9 DEF Slotted

-----------------------------------------------------------------------------
(* One field of one end is written. *)
LEMMA Written ==
    ASSUME NEW en \in [Ends -> EndState], NEW e \in Ends
    PROVE  /\ \A n \in Numbers : [en EXCEPT ![e].pending_msg = n] \in [Ends -> EndState]
           /\ \A t \in ChTasks \cup {None} :
                 /\ [en EXCEPT ![e].blocked_receiver = t] \in [Ends -> EndState]
                 /\ [en EXCEPT ![e].blocked_sender = t] \in [Ends -> EndState]
                 /\ [en EXCEPT ![e].blocked_caller = t] \in [Ends -> EndState]
           /\ \A n \in Numbers \cup {NoReply} :
                 [en EXCEPT ![e].pending_reply = n] \in [Ends -> EndState]
<1>1. \A n \in Numbers : [en EXCEPT ![e].pending_msg = n] \in [Ends -> EndState]
  BY DEF EndState
<1>2. \A t \in ChTasks \cup {None} : [en EXCEPT ![e].blocked_receiver = t] \in [Ends -> EndState]
  BY DEF EndState
<1>3. \A t \in ChTasks \cup {None} : [en EXCEPT ![e].blocked_sender = t] \in [Ends -> EndState]
  BY DEF EndState
<1>4. \A t \in ChTasks \cup {None} : [en EXCEPT ![e].blocked_caller = t] \in [Ends -> EndState]
  BY DEF EndState
<1>5. \A n \in Numbers \cup {NoReply} : [en EXCEPT ![e].pending_reply = n] \in [Ends -> EndState]
  BY DEF EndState
<1>6. QED BY <1>1, <1>2, <1>3, <1>4, <1>5

(* What each operation of the channel leaves in the two ends. *)
LEMMA SendEnds ==
    ASSUME ChTypes, NEW t \in ChTasks, NEW e \in Ends, NEW n \in Numbers
    PROVE  LET en == send(e, n, t) IN
           /\ en \in [Ends -> EndState]
           /\ en[Peer(e)].pending_msg = n /\ en[e].pending_msg = end[e].pending_msg
           /\ en[Peer(e)].blocked_receiver = None \/ end[Peer(e)].blocked_receiver = None
           /\ en[e].blocked_receiver = end[e].blocked_receiver
           /\ \A f \in Ends : en[f].pending_reply = end[f].pending_reply
<1> DEFINE p == Peer(e)
<1>1. p \in Ends /\ p # e /\ \A f \in Ends : f = e \/ f = p
  BY DEF Ends, Peer
<1>2. end \in [Ends -> EndState]
  BY DEF ChTypes
<1> HIDE DEF p
<1>3. CASE end[p].blocked_receiver # None
  <2> DEFINE e1 == [end EXCEPT ![p].blocked_receiver = None]
             e2 == [e1 EXCEPT ![p].pending_msg = n]
  <2>1. send(e, n, t) = e2
    BY <1>2, <1>3 DEF send, p
  <2>2. e1 \in [Ends -> EndState]
    BY <1>1, <1>2, Written
  <2>3. /\ e1[p].blocked_receiver = None /\ e1[p].pending_reply = end[p].pending_reply
        /\ e1[e] = end[e]
    BY <1>1, <1>2 DEF EndState
  <2> HIDE DEF e1
  <2>4. e2 \in [Ends -> EndState]
    BY <1>1, <2>2, Written
  <2>5. /\ e2[p].blocked_receiver = None /\ e2[p].pending_reply = end[p].pending_reply
        /\ e2[p].pending_msg = n /\ e2[e] = end[e]
    BY <1>1, <2>2, <2>3 DEF EndState
  <2>6. QED BY <1>1, <2>1, <2>4, <2>5 DEF p
<1>4. CASE end[p].blocked_receiver = None
  <2> DEFINE e1 == [end EXCEPT ![p].pending_msg = n]
             e2 == [e1 EXCEPT ![e].blocked_sender = t]
  <2>1. send(e, n, t) = e2
    BY <1>2, <1>4 DEF send, p
  <2>2. e1 \in [Ends -> EndState]
    BY <1>1, <1>2, Written
  <2>3. /\ e1[p].pending_msg = n /\ e1[p].pending_reply = end[p].pending_reply
        /\ e1[e] = end[e]
    BY <1>1, <1>2 DEF EndState
  <2> HIDE DEF e1
  <2>4. e2 \in [Ends -> EndState]
    BY <1>1, <2>2, Written
  <2>5. /\ e2[p] = e1[p] /\ e2[e].pending_msg = end[e].pending_msg
        /\ e2[e].blocked_receiver = end[e].blocked_receiver
        /\ e2[e].pending_reply = end[e].pending_reply
    BY <1>1, <2>2, <2>3 DEF EndState
  <2>6. QED BY <1>1, <1>4, <2>1, <2>3, <2>4, <2>5 DEF p
<1>5. QED BY <1>3, <1>4

LEMMA ReceivedEnds ==
    ASSUME ChTypes, NEW e \in Ends
    PROVE  LET en == received(e) IN
           /\ en \in [Ends -> EndState]
           /\ en[e].pending_msg = None /\ en[Peer(e)] = end[Peer(e)]
           /\ en[e].blocked_receiver = end[e].blocked_receiver
           /\ en[e].pending_reply = end[e].pending_reply
<1> DEFINE e1 == [end EXCEPT ![e].pending_msg = None]
           e2 == [e1 EXCEPT ![e].blocked_sender = None]
<1>1. end \in [Ends -> EndState]
  BY DEF ChTypes
<1>2. None \in Numbers
  BY ChannelAssumption DEF None, Numbers
<1>3. received(e) = e2
  BY <1>1 DEF received
<1>4. e1 \in [Ends -> EndState]
  BY <1>1, <1>2, Written
<1>5. /\ e1[e].pending_msg = None /\ e1[e].pending_reply = end[e].pending_reply
      /\ e1[e].blocked_receiver = end[e].blocked_receiver /\ e1[Peer(e)] = end[Peer(e)]
  BY <1>1, Peers DEF EndState
<1> HIDE DEF e1
<1>6. e2 \in [Ends -> EndState]
  BY <1>4, Written
<1>7. /\ e2[e].pending_msg = None /\ e2[e].pending_reply = end[e].pending_reply
      /\ e2[e].blocked_receiver = end[e].blocked_receiver /\ e2[Peer(e)] = end[Peer(e)]
  BY <1>4, <1>5, Peers DEF EndState
<1>8. QED BY <1>3, <1>6, <1>7

LEMMA RegisteredEnds ==
    ASSUME ChTypes, NEW e \in Ends, NEW t \in ChTasks
    PROVE  LET en == [end EXCEPT ![e].blocked_receiver = t] IN
           /\ en \in [Ends -> EndState]
           /\ en[e].blocked_receiver = t /\ en[Peer(e)] = end[Peer(e)]
           /\ \A f \in Ends : /\ en[f].pending_msg = end[f].pending_msg
                              /\ en[f].pending_reply = end[f].pending_reply
BY DEF ChTypes, EndState, Ends, Peer

Called(e, n, t) == [end EXCEPT ![Peer(e)].blocked_receiver = None, ![Peer(e)].pending_msg = n,
                               ![e].blocked_caller = t]
Answering(e, n) == [end EXCEPT ![e].blocked_caller = None, ![e].pending_reply = n]
Fetched(e) == [end EXCEPT ![e].pending_reply = NoReply]

LEMMA CallEnds ==
    ASSUME ChTypes, NEW t \in ChTasks, NEW e \in Ends, NEW n \in Numbers, NEW en,
           en = Called(e, n, t)
    PROVE  /\ en \in [Ends -> EndState]
           /\ en[Peer(e)].pending_msg = n /\ en[e].pending_msg = end[e].pending_msg
           /\ \A f \in Ends : en[f].pending_reply = end[f].pending_reply
<1> DEFINE p == Peer(e)
           e1 == [end EXCEPT ![p].blocked_receiver = None]
           e2 == [e1 EXCEPT ![p].pending_msg = n]
           e3 == [e2 EXCEPT ![e].blocked_caller = t]
<1>1. p \in Ends /\ p # e /\ \A f \in Ends : f = e \/ f = p
  BY DEF Ends, Peer
<1>2. end \in [Ends -> EndState]
  BY DEF ChTypes
<1>3. en = e3
  BY <1>2 DEF Called
<1> HIDE DEF p
<1>4. e1 \in [Ends -> EndState]
  BY <1>1, <1>2, Written
<1>5. e1[p].pending_reply = end[p].pending_reply /\ e1[e] = end[e]
  BY <1>1, <1>2 DEF EndState
<1> HIDE DEF e1
<1>6. e2 \in [Ends -> EndState]
  BY <1>1, <1>4, Written
<1>7. e2[p].pending_msg = n /\ e2[p].pending_reply = end[p].pending_reply /\ e2[e] = end[e]
  BY <1>1, <1>4, <1>5 DEF EndState
<1> HIDE DEF e2
<1>8. e3 \in [Ends -> EndState]
  BY <1>1, <1>6, Written
<1>9. /\ e3[p].pending_msg = n /\ e3[p].pending_reply = end[p].pending_reply
      /\ e3[e].pending_msg = end[e].pending_msg /\ e3[e].pending_reply = end[e].pending_reply
  BY <1>1, <1>6, <1>7 DEF EndState
<1>10. QED BY <1>1, <1>3, <1>8, <1>9 DEF p

LEMMA AnsweringEnds ==
    ASSUME ChTypes, NEW e \in Ends, NEW n \in Numbers, NEW en, en = Answering(e, n)
    PROVE  /\ en \in [Ends -> EndState] /\ en[e].pending_reply = n
           /\ en[Peer(e)] = end[Peer(e)] /\ en[e].pending_msg = end[e].pending_msg
           /\ en[e].blocked_receiver = end[e].blocked_receiver
BY SMTT(30) DEF Answering, ChTypes, EndState, Ends, Peer

LEMMA FetchedEnds ==
    ASSUME ChTypes, NEW e \in Ends, NEW en, en = Fetched(e)
    PROVE  /\ en \in [Ends -> EndState] /\ en[e].pending_reply = NoReply
           /\ en[Peer(e)] = end[Peer(e)] /\ en[e].pending_msg = end[e].pending_msg
           /\ en[e].blocked_receiver = end[e].blocked_receiver
BY SMTT(30) DEF Fetched, ChTypes, EndState, Ends, Peer

(* wake_task_by_id changes nobody but the task it wakes, and that one only *)
(* when it sleeps.                                                         *)
LEMMA WokenShape ==
    ASSUME ChTypes, NEW u \in ChTasks \cup {None}
    PROVE  /\ Woken(u) \in [ChTasks -> {<<"run">>} \cup Waits]
           /\ \A t \in ChTasks : \/ Woken(u)[t] = st[t]
                                 \/ /\ t = u /\ st[t] \in Waits /\ st[t][1] = "blocked"
                                    /\ Woken(u)[t] = <<"run">>
           /\ u # None /\ st[u][1] = "blocked" => Woken(u)[u] = <<"run">>
<1>1. st \in [ChTasks -> {<<"run">>} \cup Waits]
  BY DEF ChTypes
<1>2. CASE u # None /\ st[u][1] = "blocked"
  <2>1. u \in ChTasks /\ Woken(u) = [st EXCEPT ![u] = <<"run">>]
    BY <1>2 DEF Woken
  <2>2. st[u] \in Waits
    BY <1>1, <1>2, <2>1, Places
  <2>3. QED BY <1>1, <1>2, <2>1, <2>2
<1>3. CASE ~(u # None /\ st[u][1] = "blocked")
  <2>1. Woken(u) = st
    BY <1>3 DEF Woken
  <2>2. QED BY <1>1, <1>3, <2>1
<1>4. QED BY <1>2, <1>3

(* Where the tasks wait stays typed when tasks are woken or run on. *)
LEMMA StKept ==
    ASSUME ChTypes, use' = use,
           st' \in [ChTasks -> {<<"run">>} \cup Waits],
           \A t \in ChTasks : st'[t] = st[t] \/ st'[t] = <<"run">>
    PROVE  \A t \in ChTasks, w \in Waits : st'[t] = w => w[2] \in use'.ends[t]
BY Places DEF ChTypes

LEMMA StSet ==
    ASSUME ChTypes, use' = use, NEW t \in ChTasks, NEW e \in Ends, e \in use.ends[t],
           NEW k \in {"blocked", "poll", "call"}, st' = [st EXCEPT ![t] = <<k, e>>]
    PROVE  /\ st' \in [ChTasks -> {<<"run">>} \cup Waits]
           /\ st'[t] = <<k, e>> /\ \A u \in ChTasks : u # t => st'[u] = st[u]
           /\ \A u \in ChTasks, w \in Waits : st'[u] = w => w[2] \in use'.ends[u]
<1>1. st \in [ChTasks -> {<<"run">>} \cup Waits]
  BY DEF ChTypes
<1>2. <<k, e>> \in Waits
  BY Places
<1>3. /\ st' \in [ChTasks -> {<<"run">>} \cup Waits]
      /\ st'[t] = <<k, e>> /\ \A u \in ChTasks : u # t => st'[u] = st[u]
  BY <1>1, <1>2
<1>4. ASSUME NEW u \in ChTasks, NEW w \in Waits, st'[u] = w
      PROVE  w[2] \in use'.ends[u]
  <2>1. CASE u = t
    <3>1. w = <<k, e>>
      BY <2>1, <1>3, <1>4
    <3>2. w[2] = e
      BY <3>1
    <3>3. QED BY <2>1, <3>2
  <2>2. CASE u # t
    BY <2>2, <1>3, <1>4 DEF ChTypes
  <2>3. QED BY <2>1, <2>2
<1>5. QED BY <1>3, <1>4

(* Taking the message at e. *)
LEMMA GetsShape ==
    ASSUME ChTypes, Slotted(end, sent), NEW t \in ChTasks, NEW e \in Ends, Gets(t, e), use' = use
    PROVE  /\ Taken(e) /\ end' \in [Ends -> EndState] /\ end'[Peer(e)] = end[Peer(e)]
           /\ end'[e].blocked_receiver = end[e].blocked_receiver
           /\ end'[e].pending_reply = end[e].pending_reply
           /\ owes' \in [ChTasks -> Numbers] /\ owes'[t] = end[e].pending_msg
           /\ \A u \in ChTasks : u # t => owes'[u] = owes[u]
           /\ st' \in [ChTasks -> {<<"run">>} \cup Waits] /\ st'[t] = <<"run">>
           /\ \A u \in ChTasks : u # t => st'[u] = st[u]
           /\ \A u \in ChTasks, w \in Waits : st'[u] = w => w[2] \in use'.ends[u]
<1>1. end' = received(e) /\ end[e].pending_msg # None
  BY DEF Gets
<1>2. /\ end' \in [Ends -> EndState]
      /\ end'[e].pending_msg = None /\ end'[Peer(e)] = end[Peer(e)]
      /\ end'[e].blocked_receiver = end[e].blocked_receiver
      /\ end'[e].pending_reply = end[e].pending_reply
  BY <1>1, ReceivedEnds
<1>3. Taken(e)
  BY <1>1, <1>2 DEF Taken, Gets
<1>4. end[e].pending_msg \in Numbers
  BY DEF ChTypes, EndState
<1>5. /\ owes' \in [ChTasks -> Numbers] /\ owes'[t] = end[e].pending_msg
      /\ \A u \in ChTasks : u # t => owes'[u] = owes[u]
  BY <1>4 DEF ChTypes, Gets
<1>6. /\ st' \in [ChTasks -> {<<"run">>} \cup Waits] /\ st'[t] = <<"run">>
      /\ \A u \in ChTasks : u # t => st'[u] = st[u]
  BY DEF ChTypes, Gets
<1>7. \A u \in ChTasks, w \in Waits : st'[u] = w => w[2] \in use'.ends[u]
  BY <1>6, StKept
<1>8. QED BY <1>2, <1>3, <1>5, <1>6, <1>7

-----------------------------------------------------------------------------
(* How a program uses the channel does not change. *)
LEMMA UseKept ==
    ASSUME use' = use PROVE (SendsOnly' <=> SendsOnly) /\ (CallsOnly' <=> CallsOnly)
BY DEF SendsOnly, CallsOnly, OnePerEnd

(* A step that leaves slots and registrations alone, or empties slots, and *)
(* puts nobody to sleep.                                                   *)
LEMMA SleepersKept ==
    ASSUME Sleepers, use' = use,
           \A e \in Ends : /\ end'[e].pending_msg \in {None, end[e].pending_msg}
                           /\ end'[e].blocked_receiver = end[e].blocked_receiver,
           \A t \in ChTasks : st'[t] = st[t] \/ st'[t][1] # "blocked"
    PROVE  Sleepers'
<1>1. SUFFICES ASSUME SendsOnly, NEW t \in ChTasks, NEW e \in Ends, st'[t] = <<"blocked", e>>
               PROVE  end'[e].pending_msg = None /\ end'[e].blocked_receiver = t
  BY UseKept DEF Sleepers
<1>2. st'[t] = st[t]
  BY <1>1
<1>3. QED BY <1>1, <1>2 DEF Sleepers

(* A step that leaves requests and replies where they are. *)
LEMMA ExchangeKept ==
    ASSUME Exchange, use' = use, sent' = sent, owes' = owes, asked' = asked, answer' = answer,
           \A e \in Ends : /\ end'[e].pending_msg = end[e].pending_msg
                           /\ end'[e].pending_reply = end[e].pending_reply,
           \A t \in ChTasks, e \in Ends : st[t] = <<"call", e>> => st'[t] = st[t]
    PROVE  Exchange'
<1>1. SUFFICES ASSUME CallsOnly PROVE Exchange'
  BY UseKept DEF Exchange
<1>2. \A t \in ChTasks, e \in Ends, n \in Numbers \cup {NoReply} : Waiting(t, e, n) => Waiting(t, e, n)'
  BY DEF Waiting
<1>3. \A t \in ChTasks, e \in Ends : Waiting(t, e, end[Peer(e)].pending_msg)
         => Waiting(t, e, end[Peer(e)].pending_msg)'
  BY Peers DEF Waiting
<1>4. \A t \in ChTasks, e \in Ends : Waiting(t, e, end[e].pending_reply)
         => Waiting(t, e, end[e].pending_reply)'
  BY DEF Waiting
<1>5. \A t, u \in ChTasks, e \in Ends : Waiting(t, e, owes[u]) => Waiting(t, e, owes[u])'
  BY DEF Waiting
<1>6. \A e \in Ends : Unread(e)'
  BY <1>1, <1>3, Peers DEF Exchange, Unread
<1>7. \A e \in Ends : Answered(e)'
  BY <1>1, <1>4 DEF Exchange, Answered
<1>8. \A u \in ChTasks : Owed(u)'
  BY <1>1, <1>5 DEF Exchange, Owed
<1>9. AskedOnce' /\ \A t \in ChTasks : answer'[t][1] = answer'[t][2]
  BY <1>1 DEF Exchange, AskedOnce
<1>10. QED BY <1>6, <1>7, <1>8, <1>9 DEF Exchange

LEMMA QuietSlots ==
    ASSUME Slotted(end, sent), Quiet, sent \in Seq(Message) PROVE Slotted(end', sent')
<1>1. \A i \in 1 .. Len(sent) : Peer(sent[i].from) \in Ends
  <2>1. \A i \in 1 .. Len(sent) : sent[i] \in Message
    OBVIOUS
  <2>2. QED BY <2>1, Peers DEF Message
<1>2. QED BY <1>1 DEF Slotted, Quiet

-----------------------------------------------------------------------------
LEMMA SendStep ==
    ASSUME ChInv, NEW t \in ChTasks, NEW e \in Ends, sys_channel_send(t, e)
    PROVE  ChInv'
<1> DEFINE n == Len(sent) + 1
           r == end[Peer(e)].blocked_receiver
<1>1. ChTypes /\ Slotted(end, sent) /\ Sleepers
  BY DEF ChInv
<1>2. /\ use' = use /\ owes' = owes /\ asked' = asked /\ answer' = answer /\ Len(sent) < use.max
      /\ sent' = Recorded(t, e, "send") /\ end' = send(e, n, t) /\ st' = Woken(r)
      /\ "send" \in use.ops
  BY DEF sys_channel_send, ChRunning
<1>3. n \in Numbers /\ n <= use.max
  BY <1>1, <1>2, UseType DEF ChTypes, Numbers
<1>4. /\ end' \in [Ends -> EndState]
      /\ end'[Peer(e)].pending_msg = n /\ end'[e].pending_msg = end[e].pending_msg
      /\ end'[e].blocked_receiver = end[e].blocked_receiver
  BY <1>1, <1>2, <1>3, SendEnds
<1>5. r \in ChTasks \cup {None}
  BY <1>1, Peers DEF ChTypes, EndState
<1>6. Posted(t, e, "send")
  BY <1>2, <1>4 DEF Posted
<1>7. Slotted(end', sent')
  BY <1>1, <1>6, PostedSlots
<1>8. sent' \in Seq(Message) /\ Len(sent') = n
  BY <1>1, <1>2, RecordedShape
<1> HIDE DEF n, r
<1>9. /\ st' \in [ChTasks -> {<<"run">>} \cup Waits]
      /\ \A u \in ChTasks : st'[u] = st[u] \/ st'[u] = <<"run">>
      /\ r # None /\ st[r][1] = "blocked" => st'[r] = <<"run">>
  BY <1>1, <1>2, <1>5, WokenShape
<1>10. ChTypes'
  BY <1>1, <1>2, <1>3, <1>4, <1>8, <1>9, StKept DEF ChTypes
<1>11. Sleepers'
  <2>1. SUFFICES ASSUME SendsOnly, NEW u \in ChTasks, NEW f \in Ends, st'[u] = <<"blocked", f>>
                 PROVE  end'[f].pending_msg = None /\ end'[f].blocked_receiver = u
    BY <1>2, UseKept DEF Sleepers
  <2>2. st[u] = <<"blocked", f>>
    BY <2>1, <1>9, Places
  <2>3. end[f].pending_msg = None /\ end[f].blocked_receiver = u
    BY <2>1, <2>2, <1>1 DEF Sleepers
  <2>4. f # Peer(e)
    <3>1. SUFFICES ASSUME f = Peer(e) PROVE FALSE
      OBVIOUS
    <3>2. r = u /\ u # None
      BY <3>1, <2>3, ChannelAssumption DEF r
    <3>3. st[r][1] = "blocked"
      BY <3>2, <2>2
    <3>4. QED BY <3>2, <3>3, <1>9, <2>1, Places
  <2>5. f = e
    BY <2>4 DEF Ends, Peer
  <2>6. QED BY <2>3, <2>5, <1>4
<1>12. Exchange'
  BY <1>2 DEF Exchange, CallsOnly
<1>13. QED BY <1>7, <1>10, <1>11, <1>12 DEF ChInv

(* A message is taken: its request moves from the slot to the receiver. *)
LEMMA GetsStep ==
    ASSUME ChInv, NEW t \in ChTasks, NEW e \in Ends, Gets(t, e),
           e \in use.ends[t], \A f \in Ends : st[t] # <<"call", f>>,
           use' = use, asked' = asked, answer' = answer
    PROVE  ChInv'
<1>1. ChTypes /\ Slotted(end, sent) /\ Sleepers /\ Exchange
  BY DEF ChInv
<1>0. PICK n \in Numbers : n = end[e].pending_msg
  BY <1>1 DEF ChTypes, EndState
<1>2. /\ Taken(e) /\ end' \in [Ends -> EndState] /\ end'[Peer(e)] = end[Peer(e)]
      /\ end'[e].blocked_receiver = end[e].blocked_receiver
      /\ end'[e].pending_reply = end[e].pending_reply
      /\ owes' \in [ChTasks -> Numbers] /\ owes'[t] = n
      /\ \A u \in ChTasks : u # t => owes'[u] = owes[u]
      /\ st' \in [ChTasks -> {<<"run">>} \cup Waits] /\ st'[t] = <<"run">>
      /\ \A u \in ChTasks : u # t => st'[u] = st[u]
      /\ \A u \in ChTasks, w \in Waits : st'[u] = w => w[2] \in use'.ends[u]
  BY <1>0, <1>1, GetsShape
<1>3. /\ end'[e].pending_msg = None /\ n # None
      /\ \A f \in Ends : f = e \/ f = Peer(e)
  BY <1>0, <1>2 DEF Taken, Ends, Peer
<1>4. Slotted(end', sent') /\ sent' \in Seq(Message) /\ Len(sent') = Len(sent)
  BY <1>1, <1>2, TakenSlots
<1>5. ChTypes'
  BY <1>1, <1>2, <1>4 DEF ChTypes
<1>6. Sleepers'
  <2>1. \A f \in Ends : /\ end'[f].pending_msg \in {None, end[f].pending_msg}
                        /\ end'[f].blocked_receiver = end[f].blocked_receiver
    BY <1>2, <1>3
  <2>2. \A u \in ChTasks : st'[u] = st[u] \/ st'[u][1] # "blocked"
    BY <1>2, Places
  <2>3. QED BY <1>1, <2>1, <2>2, SleepersKept
<1>7. Exchange'
  <2>1. SUFFICES ASSUME CallsOnly PROVE Exchange'
    BY UseKept DEF Exchange
  <2>2. /\ \A f \in Ends : Unread(f) /\ Answered(f)
        /\ \A u \in ChTasks : Owed(u)
        /\ AskedOnce /\ \A u \in ChTasks : answer[u][1] = answer[u][2]
    BY <1>1, <2>1 DEF Exchange
  <2>3. \A u \in ChTasks, f \in Ends : \A m : Waiting(u, f, m) => u # t /\ Waiting(u, f, m)'
    BY <1>2 DEF Waiting
  <2>4. PICK c \in ChTasks : Waiting(c, Peer(e), n)
    BY <1>0, <2>2, <1>3, Peers DEF Unread
  <2>5. end[Peer(e)].pending_reply = NoReply /\ \A u \in ChTasks : owes[u] # n
    BY <1>0, <2>2, <1>3, Peers DEF Unread
  <2>6. c # t /\ Waiting(c, Peer(e), n)'
    BY <2>3, <2>4, Peers
  <2>7. \A u, v \in ChTasks, f, g \in Ends : \A m :
           Waiting(u, f, m) /\ Waiting(v, g, m) => u = v /\ f = g
    BY <2>2, Places DEF Waiting, AskedOnce
  <2>8. ASSUME NEW f \in Ends PROVE Unread(f)'
    <3>1. CASE f = Peer(e)
      BY <3>1, <1>3, Peers DEF Unread
    <3>2. CASE f = e
      <4>1. SUFFICES ASSUME end[Peer(e)].pending_msg # None PROVE FALSE
        BY <3>2, <1>2 DEF Unread
      <4>2. PICK u \in ChTasks : Waiting(u, e, end[Peer(e)].pending_msg)
        BY <4>1, <2>2 DEF Unread
      <4>3. u # t /\ e \in use.ends[u]
        BY <4>2, <2>3 DEF Waiting
      <4>4. QED BY <4>3, OneHolder, <2>1, <1>1 DEF CallsOnly, ChTypes
    <3>3. QED BY <3>1, <3>2, <1>3
  <2>9. ASSUME NEW f \in Ends PROVE Answered(f)'
    <3>1. CASE f = Peer(e)
      BY <3>1, <1>2, <2>5 DEF Answered
    <3>2. CASE f = e
      <4>1. SUFFICES ASSUME end[e].pending_reply # NoReply PROVE FALSE
        BY <3>2, <1>2 DEF Answered
      <4>2. PICK u \in ChTasks : Waiting(u, e, end[e].pending_reply)
        BY <4>1, <2>2 DEF Answered
      <4>3. u # t /\ e \in use.ends[u]
        BY <4>2, <2>3 DEF Waiting
      <4>4. QED BY <4>3, OneHolder, <2>1, <1>1 DEF CallsOnly, ChTypes
    <3>3. QED BY <3>1, <3>2, <1>3
  <2>10. ASSUME NEW u \in ChTasks PROVE Owed(u)'
    <3>1. CASE u = t
      BY <3>1, <1>2, <2>6, Peers DEF Owed
    <3>2. CASE u # t
      <4>1. owes'[u] = owes[u]
        BY <3>2, <1>2
      <4>2. SUFFICES ASSUME NEW m \in Numbers, m = owes[u], m # None
                     PROVE  \E v \in ChTasks, f \in Ends :
                               v # u /\ Peer(f) \in use'.ends[u] /\ Waiting(v, f, m)'
        BY <4>1, <1>1 DEF Owed, ChTypes
      <4>3. PICK v \in ChTasks, f \in Ends :
                    v # u /\ Peer(f) \in use.ends[u] /\ Waiting(v, f, m)
        BY <4>2, <2>2 DEF Owed
      <4>4. QED BY <4>3, <2>3
    <3>3. QED BY <3>1, <3>2
  <2>11. AskedOnce' /\ \A u \in ChTasks : answer'[u][1] = answer'[u][2]
    BY <2>2, <1>4 DEF AskedOnce
  <2>12. QED BY <2>8, <2>9, <2>10, <2>11 DEF Exchange
<1>8. QED BY <1>4, <1>5, <1>6, <1>7 DEF ChInv

(* A receiver that finds nothing registers, and sleeps or goes on polling. *)
LEMMA RegisterStep ==
    ASSUME ChInv, NEW t \in ChTasks, NEW e \in Ends, e \in use.ends[t],
           end[e].pending_msg = None, end' = [end EXCEPT ![e].blocked_receiver = t],
           \A f \in Ends : st[t] # <<"call", f>> /\ st[t] # <<"blocked", f>>,
           NEW k \in {"blocked", "poll"}, st' = [st EXCEPT ![t] = <<k, e>>],
           use' = use, sent' = sent, owes' = owes, asked' = asked, answer' = answer
    PROVE  ChInv'
<1>1. ChTypes /\ Slotted(end, sent) /\ Sleepers /\ Exchange
  BY DEF ChInv
<1>2. /\ end' \in [Ends -> EndState]
      /\ end'[e].blocked_receiver = t /\ end'[Peer(e)] = end[Peer(e)]
      /\ \A f \in Ends : /\ end'[f].pending_msg = end[f].pending_msg
                         /\ end'[f].pending_reply = end[f].pending_reply
  BY <1>1, RegisteredEnds
<1>3. /\ st' \in [ChTasks -> {<<"run">>} \cup Waits]
      /\ st'[t] = <<k, e>> /\ \A u \in ChTasks : u # t => st'[u] = st[u]
      /\ \A u \in ChTasks, w \in Waits : st'[u] = w => w[2] \in use'.ends[u]
  BY <1>1, StSet
<1>4. ChTypes'
  BY <1>1, <1>2, <1>3 DEF ChTypes
<1>5. Slotted(end', sent')
  BY <1>1, <1>2, QuietSlots DEF Quiet, ChTypes
<1>6. Exchange'
  <2>1. \A u \in ChTasks, f \in Ends : st[u] = <<"call", f>> => st'[u] = st[u]
    BY <1>3
  <2>2. QED BY <1>1, <1>2, <2>1, ExchangeKept
<1>7. Sleepers'
  <2>1. SUFFICES ASSUME SendsOnly, NEW u \in ChTasks, NEW f \in Ends, st'[u] = <<"blocked", f>>
                 PROVE  end'[f].pending_msg = None /\ end'[f].blocked_receiver = u
    BY UseKept DEF Sleepers
  <2>2. CASE u = t
    <3>1. f = e
      BY <2>1, <2>2, <1>3, Places
    <3>2. QED BY <3>1, <2>2, <1>2
  <2>3. CASE u # t
    <3>1. st[u] = <<"blocked", f>>
      BY <2>1, <2>3, <1>3
    <3>2. end[f].pending_msg = None /\ end[f].blocked_receiver = u
      BY <2>1, <3>1, <1>1 DEF Sleepers
    <3>3. f \in use.ends[u]
      <4>1. <<"blocked", f>> \in Waits /\ <<"blocked", f>>[2] = f
        BY Places
      <4>2. QED BY <3>1, <4>1, <1>1 DEF ChTypes
    <3>4. f # e
      BY <3>3, <2>1, <2>3, <1>1, OneHolder DEF SendsOnly, ChTypes
    <3>5. f = Peer(e)
      BY <3>4 DEF Ends, Peer
    <3>6. QED BY <3>2, <3>5, <1>2
  <2>4. QED BY <2>2, <2>3
<1>8. QED BY <1>4, <1>5, <1>6, <1>7 DEF ChInv

LEMMA ReceiveStep ==
    ASSUME ChInv, NEW t \in ChTasks, NEW e \in Ends,
           sys_channel_receive(t, e) \/ receive_poll(t, e)
    PROVE  ChInv'
<1>1. ChTypes
  BY DEF ChInv
<1>2. st[t] \in {<<"run">>, <<"poll", e>>} /\ e \in use.ends[t]
  <2>1. CASE sys_channel_receive(t, e)
    BY <2>1 DEF sys_channel_receive, ChRunning
  <2>2. CASE receive_poll(t, e)
    <3>1. st[t] = <<"poll", e>>
      BY <2>2 DEF receive_poll
    <3>2. <<"poll", e>> \in Waits /\ <<"poll", e>>[2] = e
      BY Places
    <3>3. QED BY <3>1, <3>2, <1>1 DEF ChTypes
  <2>3. QED BY <2>1, <2>2
<1>3. \A f \in Ends : st[t] # <<"call", f>> /\ st[t] # <<"blocked", f>>
  BY <1>2, Places
<1>4. use' = use /\ asked' = asked /\ answer' = answer
  BY DEF sys_channel_receive, receive_poll
<1>5. CASE Gets(t, e)
  BY <1>2, <1>3, <1>4, <1>5, GetsStep
<1>6. CASE ~Gets(t, e)
  <2>1. /\ end[e].pending_msg = None /\ end' = [end EXCEPT ![e].blocked_receiver = t]
        /\ sent' = sent /\ owes' = owes
    BY <1>6 DEF sys_channel_receive, receive_poll
  <2>2. PICK k \in {"blocked", "poll"} : st' = [st EXCEPT ![t] = <<k, e>>]
    <3>1. CASE sys_channel_receive(t, e)
      BY <3>1, <1>6 DEF sys_channel_receive
    <3>2. CASE receive_poll(t, e)
      <4>1. st[t] = <<"poll", e>> /\ st' = st
        BY <3>2, <1>6 DEF receive_poll
      <4>2. st = [st EXCEPT ![t] = <<"poll", e>>]
        BY <4>1, <1>1 DEF ChTypes
      <4>3. QED BY <4>1, <4>2
    <3>3. QED BY <3>1, <3>2
  <2>3. QED BY <1>2, <1>3, <1>4, <2>1, <2>2, RegisterStep
<1>7. QED BY <1>5, <1>6

LEMMA KillStep ==
    ASSUME ChInv, NEW t \in ChTasks, sys_kill(t) PROVE ChInv'
<1>1. ChTypes /\ Slotted(end, sent) /\ Sleepers /\ Exchange
  BY DEF ChInv
<1>2. /\ st' = Woken(t) /\ use' = use /\ end' = end /\ sent' = sent
      /\ owes' = owes /\ asked' = asked /\ answer' = answer
  BY DEF sys_kill
<1>3. /\ st' \in [ChTasks -> {<<"run">>} \cup Waits]
      /\ \A u \in ChTasks : \/ st'[u] = st[u]
                            \/ st[u] \in Waits /\ st[u][1] = "blocked" /\ st'[u] = <<"run">>
  BY <1>1, <1>2, WokenShape
<1>4. ChTypes'
  BY <1>1, <1>2, <1>3, StKept DEF ChTypes
<1>5. Slotted(end', sent')
  BY <1>1, <1>2
<1>6. Sleepers'
  <2>1. \A u \in ChTasks : st'[u] = st[u] \/ st'[u][1] # "blocked"
    BY <1>3, Places
  <2>2. QED BY <1>1, <1>2, <2>1, SleepersKept
<1>7. Exchange'
  <2>1. \A u \in ChTasks, f \in Ends : st[u] = <<"call", f>> => st'[u] = st[u]
    BY <1>3, Places
  <2>2. QED BY <1>1, <1>2, <2>1, ExchangeKept
<1>8. QED BY <1>4, <1>5, <1>6, <1>7 DEF ChInv

(* The facts about requests that the three steps of a call share. *)
LEMMA ExchangeFacts ==
    ASSUME ChTypes, Exchange, CallsOnly
    PROVE  /\ \A f \in Ends : Unread(f) /\ Answered(f)
           /\ \A u \in ChTasks : Owed(u)
           /\ AskedOnce /\ \A u \in ChTasks : answer[u][1] = answer[u][2]
           /\ \A u, v \in ChTasks, f, g \in Ends : \A m :
                 Waiting(u, f, m) /\ Waiting(v, g, m) => u = v /\ f = g
           /\ \A u, v \in ChTasks, f \in Ends : \A m, n :
                 Waiting(u, f, m) /\ Waiting(v, f, n) => u = v /\ m = n
           /\ \A u \in ChTasks, f \in Ends : f \in use.ends[u] /\ st[u] = <<"run">> =>
                 end[f].pending_reply = NoReply /\ end[Peer(f)].pending_msg = None
<1>1. /\ \A f \in Ends : Unread(f) /\ Answered(f)
      /\ \A u \in ChTasks : Owed(u)
      /\ AskedOnce /\ \A u \in ChTasks : answer[u][1] = answer[u][2]
  BY DEF Exchange
<1>2. \A u, v \in ChTasks, f, g \in Ends : \A m :
         Waiting(u, f, m) /\ Waiting(v, g, m) => u = v /\ f = g
  BY <1>1, Places DEF Waiting, AskedOnce
<1>3. \A f \in Ends, u, v \in ChTasks : f \in use.ends[u] /\ f \in use.ends[v] => u = v
  BY OneHolder DEF ChTypes, CallsOnly
<1>4. \A u, v \in ChTasks, f \in Ends : \A m, n :
         Waiting(u, f, m) /\ Waiting(v, f, n) => u = v /\ m = n
  BY <1>3 DEF Waiting
<1>5. ASSUME NEW u \in ChTasks, NEW f \in Ends, f \in use.ends[u], st[u] = <<"run">>
      PROVE  end[f].pending_reply = NoReply /\ end[Peer(f)].pending_msg = None
  <2>1. \A v \in ChTasks : \A m : ~Waiting(v, f, m)
    BY <1>3, <1>5, Places DEF Waiting
  <2>2. QED BY <1>1, <2>1 DEF Unread, Answered
<1>6. QED BY <1>1, <1>2, <1>4, <1>5

(* A request is posted.  Its number is new, so nobody owes it. *)
LEMMA CallStep ==
    ASSUME ChInv, NEW t \in ChTasks, NEW e \in Ends, sys_channel_call(t, e),
           end[e].pending_reply = NoReply
    PROVE  ChInv'
<1>1. ChTypes /\ Slotted(end, sent) /\ Sleepers /\ Exchange
  BY DEF ChInv
<1>2. PICK n : n = Len(sent) + 1
  OBVIOUS
<1>3. /\ use' = use /\ owes' = owes /\ answer' = answer /\ Len(sent) < use.max
      /\ sent' = Recorded(t, e, "call") /\ st' = [st EXCEPT ![t] = <<"call", e>>]
      /\ end' = Called(e, n, t)
      /\ asked' = [asked EXCEPT ![t] = n]
      /\ "call" \in use.ops /\ e \in use.ends[t] /\ st[t] = <<"run">>
  BY <1>2 DEF sys_channel_call, ChRunning, Called
<1>4. n \in Numbers /\ n <= use.max /\ n # None /\ n > Len(sent) /\ Len(sent) \in Nat
  BY <1>1, <1>2, <1>3, UseType DEF ChTypes, Numbers, None
<1>5. /\ end' \in [Ends -> EndState]
      /\ end'[Peer(e)].pending_msg = n /\ end'[e].pending_msg = end[e].pending_msg
      /\ \A f \in Ends : end'[f].pending_reply = end[f].pending_reply
  BY <1>1, <1>3, <1>4, CallEnds
<1>6. Posted(t, e, "call")
  BY <1>2, <1>3, <1>5 DEF Posted
<1>7. Slotted(end', sent')
  BY <1>1, <1>6, PostedSlots
<1>8. sent' \in Seq(Message) /\ Len(sent') = n
  BY <1>1, <1>2, <1>3, RecordedShape
<1>9. /\ st' \in [ChTasks -> {<<"run">>} \cup Waits]
      /\ st'[t] = <<"call", e>> /\ \A u \in ChTasks : u # t => st'[u] = st[u]
      /\ \A u \in ChTasks, w \in Waits : st'[u] = w => w[2] \in use'.ends[u]
  BY <1>1, <1>3, StSet
<1>10. /\ asked' \in [ChTasks -> Numbers] /\ asked'[t] = n
       /\ \A u \in ChTasks : u # t => asked'[u] = asked[u]
  BY <1>1, <1>3, <1>4 DEF ChTypes
<1>11. ChTypes'
  BY <1>1, <1>3, <1>4, <1>5, <1>8, <1>9, <1>10 DEF ChTypes
<1>12. Sleepers'
  BY <1>3 DEF Sleepers, SendsOnly
<1>13. Exchange'
  <2>1. SUFFICES ASSUME CallsOnly PROVE Exchange'
    BY <1>3, UseKept DEF Exchange
  <2>2. /\ \A f \in Ends : Unread(f) /\ Answered(f)
        /\ \A u \in ChTasks : Owed(u)
        /\ AskedOnce /\ \A u \in ChTasks : answer[u][1] = answer[u][2]
    BY <1>1, <2>1, ExchangeFacts
  <2>3. \A u \in ChTasks, f \in Ends : \A m : Waiting(u, f, m) => Waiting(u, f, m)'
    BY <1>3, <1>9, <1>10, Places DEF Waiting
  <2>4. Waiting(t, e, n)'
    BY <1>3, <1>4, <1>9, <1>10 DEF Waiting
  <2>5. \A u \in ChTasks : asked[u] \in Nat /\ asked[u] # n
    <3>1. \A u \in ChTasks : asked[u] <= Len(sent) /\ asked[u] \in Nat
      BY <1>1, <2>2 DEF AskedOnce, ChTypes, Numbers
    <3>2. QED BY <3>1, <1>4
  <2>6. \A u \in ChTasks : owes[u] # n
    BY <2>2, <2>5, <1>4 DEF Owed, Waiting
  <2>7. ASSUME NEW f \in Ends PROVE Unread(f)'
    <3>1. CASE f = e
      BY <3>1, <2>4, <2>6, <1>3, <1>5 DEF Unread
    <3>2. CASE f = Peer(e)
      <4>1. SUFFICES ASSUME NEW m, m = end[e].pending_msg, m # None
                     PROVE  /\ \E u \in ChTasks : Waiting(u, f, m)'
                            /\ end'[f].pending_reply = NoReply
                            /\ \A u \in ChTasks : owes'[u] # m
        BY <3>2, <1>5, Peers DEF Unread
      <4>2. /\ \E u \in ChTasks : Waiting(u, f, m)
            /\ end[f].pending_reply = NoReply /\ \A u \in ChTasks : owes[u] # m
        BY <4>1, <3>2, <2>2, Peers DEF Unread
      <4>3. QED BY <4>2, <2>3, <1>3, <1>5
    <3>3. QED BY <3>1, <3>2 DEF Ends, Peer
  <2>8. ASSUME NEW f \in Ends PROVE Answered(f)'
    <3>1. SUFFICES ASSUME NEW m, m = end[f].pending_reply, m # NoReply
                   PROVE  /\ \E u \in ChTasks : Waiting(u, f, m)'
                          /\ \A u \in ChTasks : owes'[u] # m
      BY <1>5 DEF Answered
    <3>2. (\E u \in ChTasks : Waiting(u, f, m)) /\ \A u \in ChTasks : owes[u] # m
      BY <3>1, <2>2 DEF Answered
    <3>3. QED BY <3>2, <2>3, <1>3
  <2>9. ASSUME NEW u \in ChTasks PROVE Owed(u)'
    <3>1. SUFFICES ASSUME NEW m, m = owes[u], m # None
                   PROVE  \E v \in ChTasks, f \in Ends :
                             v # u /\ Peer(f) \in use'.ends[u] /\ Waiting(v, f, m)'
      BY <1>3 DEF Owed
    <3>2. \E v \in ChTasks, f \in Ends : v # u /\ Peer(f) \in use.ends[u] /\ Waiting(v, f, m)
      BY <3>1, <2>2 DEF Owed
    <3>3. QED BY <3>2, <2>3, <1>3
  <2>10. \A u \in ChTasks : asked'[u] <= Len(sent')
    <3>1. \A u \in ChTasks : asked[u] <= Len(sent) /\ asked[u] \in Nat
      BY <1>1, <2>2 DEF AskedOnce, ChTypes, Numbers
    <3>2. QED BY <3>1, <1>4, <1>8, <1>10
  <2>11. \A u, v \in ChTasks : asked'[u] = asked'[v] /\ asked'[u] # None => u = v
    BY <2>2, <2>5, <1>10 DEF AskedOnce
  <2>12. QED BY <2>2, <2>7, <2>8, <2>9, <2>10, <2>11, <1>3 DEF Exchange, AskedOnce
<1>14. QED BY <1>7, <1>11, <1>12, <1>13 DEF ChInv

(* A stored reply is taken without a request: never in a program that only *)
(* calls and answers.                                                      *)
LEMMA StoredReplyStep ==
    ASSUME ChInv, NEW t \in ChTasks, NEW e \in Ends, sys_channel_call(t, e),
           end[e].pending_reply # NoReply
    PROVE  ChInv'
<1>1. ChTypes /\ Slotted(end, sent) /\ Sleepers /\ Exchange
  BY DEF ChInv
<1>2. /\ use' = use /\ owes' = owes /\ asked' = asked /\ sent' = sent /\ st' = st
      /\ end' = Fetched(e) /\ DOMAIN answer' = DOMAIN answer
      /\ e \in use.ends[t] /\ st[t] = <<"run">>
  BY DEF sys_channel_call, ChRunning, Fetched
<1>3. /\ end' \in [Ends -> EndState] /\ end'[Peer(e)] = end[Peer(e)]
      /\ end'[e].pending_msg = end[e].pending_msg
      /\ end'[e].blocked_receiver = end[e].blocked_receiver
  BY <1>1, <1>2, FetchedEnds
<1>4. \A f \in Ends : f = e \/ f = Peer(e)
  BY DEF Ends, Peer
<1>5. ChTypes'
  BY <1>1, <1>2, <1>3 DEF ChTypes
<1>6. Slotted(end', sent')
  BY <1>1, <1>2, <1>3, <1>4, QuietSlots DEF Quiet, ChTypes
<1>7. Sleepers'
  BY <1>1, <1>2, <1>3, <1>4, SleepersKept
<1>8. ~CallsOnly
  BY <1>1, <1>2, ExchangeFacts
<1>9. Exchange'
  BY <1>2, <1>8, UseKept DEF Exchange
<1>10. QED BY <1>5, <1>6, <1>7, <1>9 DEF ChInv

(* The reply found is the one to the request the caller waits for. *)
LEMMA CheckReplyStep ==
    ASSUME ChInv, NEW t \in ChTasks, NEW e \in Ends, check_reply(t, e)
    PROVE  ChInv'
<1>1. ChTypes /\ Slotted(end, sent) /\ Sleepers /\ Exchange
  BY DEF ChInv
<1>2. /\ use' = use /\ owes' = owes /\ sent' = sent
      /\ asked' = [asked EXCEPT ![t] = None] /\ st' = [st EXCEPT ![t] = <<"run">>]
      /\ end' = Fetched(e)
      /\ answer' = [answer EXCEPT ![t] = <<asked[t], end[e].pending_reply>>]
      /\ st[t] = <<"call", e>> /\ end[e].pending_reply # NoReply
  BY DEF check_reply, Fetched
<1>3. /\ end' \in [Ends -> EndState] /\ end'[Peer(e)] = end[Peer(e)]
      /\ end'[e].pending_msg = end[e].pending_msg /\ end'[e].pending_reply = NoReply
      /\ end'[e].blocked_receiver = end[e].blocked_receiver
  BY <1>1, <1>2, FetchedEnds
<1>4. \A f \in Ends : f = e \/ f = Peer(e)
  BY DEF Ends, Peer
<1>5. /\ st' \in [ChTasks -> {<<"run">>} \cup Waits] /\ st'[t] = <<"run">>
      /\ \A u \in ChTasks : u # t => st'[u] = st[u]
  BY <1>1, <1>2 DEF ChTypes
<1>6. /\ asked' \in [ChTasks -> Numbers] /\ asked'[t] = None
      /\ \A u \in ChTasks : u # t => asked'[u] = asked[u]
  BY <1>1, <1>2, ChannelAssumption DEF ChTypes, Numbers, None
<1>7. /\ DOMAIN answer' = ChTasks /\ answer'[t] = <<asked[t], end[e].pending_reply>>
      /\ \A u \in ChTasks : u # t => answer'[u] = answer[u]
  BY <1>1, <1>2 DEF ChTypes
<1>8. ChTypes'
  BY <1>1, <1>2, <1>3, <1>5, <1>6, <1>7, StKept DEF ChTypes
<1>9. Slotted(end', sent')
  BY <1>1, <1>2, <1>3, <1>4, QuietSlots DEF Quiet, ChTypes
<1>10. Sleepers'
  <2>1. \A u \in ChTasks : st'[u] = st[u] \/ st'[u][1] # "blocked"
    BY <1>5, Places
  <2>2. QED BY <1>1, <1>2, <1>3, <1>4, <2>1, SleepersKept
<1>11. Exchange'
  <2>1. SUFFICES ASSUME CallsOnly PROVE Exchange'
    BY <1>2, UseKept DEF Exchange
  <2>2. /\ \A f \in Ends : Unread(f) /\ Answered(f)
        /\ \A u \in ChTasks : Owed(u)
        /\ AskedOnce /\ \A u \in ChTasks : answer[u][1] = answer[u][2]
        /\ \A u, v \in ChTasks, f \in Ends : \A m, n :
              Waiting(u, f, m) /\ Waiting(v, f, n) => u = v /\ m = n
    BY <1>1, <2>1, ExchangeFacts
  <2>3. e \in use.ends[t]
    <3>1. <<"call", e>> \in Waits /\ <<"call", e>>[2] = e
      BY Places
    <3>2. QED BY <3>1, <1>1, <1>2 DEF ChTypes
  <2>4. PICK m : m = end[e].pending_reply
    OBVIOUS
  <2>5. Waiting(t, e, m)
    <3>1. PICK u \in ChTasks : Waiting(u, e, m)
      BY <2>2, <2>4, <1>2 DEF Answered
    <3>2. u = t
      BY <3>1, <2>1, <2>3, <1>1, OneHolder DEF CallsOnly, ChTypes, Waiting
    <3>3. QED BY <3>1, <3>2
  <2>6. asked[t] = m /\ m # None
    BY <2>5 DEF Waiting
  <2>7. \A u \in ChTasks, f \in Ends : \A n :
           Waiting(u, f, n) /\ n # m => u # t /\ Waiting(u, f, n)'
    BY <1>2, <1>5, <1>6, <2>6 DEF Waiting
  <2>8. \A u \in ChTasks : owes[u] # m
    BY <2>2, <2>4, <1>2 DEF Answered
  <2>9. end[Peer(e)].pending_msg = None
    BY <2>2, <1>2 DEF Unread
  <2>10. \A u \in ChTasks : \A n : ~Waiting(u, Peer(e), n) \/ n # m
    BY <2>2, <2>6, <2>5, <1>2, Peers, Places DEF Waiting, AskedOnce
  <2>11. ASSUME NEW f \in Ends PROVE Unread(f)'
    <3>1. CASE f = e
      BY <3>1, <2>9, <1>3 DEF Unread
    <3>2. CASE f = Peer(e)
      <4>1. SUFFICES ASSUME NEW n, n = end[e].pending_msg, n # None
                     PROVE  /\ \E u \in ChTasks : Waiting(u, f, n)'
                            /\ end'[f].pending_reply = NoReply
                            /\ \A u \in ChTasks : owes'[u] # n
        BY <3>2, <1>3, Peers DEF Unread
      <4>2. /\ \E u \in ChTasks : Waiting(u, f, n)
            /\ end[f].pending_reply = NoReply /\ \A u \in ChTasks : owes[u] # n
        BY <4>1, <3>2, <2>2, Peers DEF Unread
      <4>3. QED BY <4>2, <3>2, <2>7, <2>10, <1>2, <1>3
    <3>3. QED BY <3>1, <3>2, <1>4
  <2>12. ASSUME NEW f \in Ends PROVE Answered(f)'
    <3>1. CASE f = e
      BY <3>1, <1>3 DEF Answered
    <3>2. CASE f = Peer(e)
      <4>1. SUFFICES ASSUME NEW n, n = end[f].pending_reply, n # NoReply
                     PROVE  /\ \E u \in ChTasks : Waiting(u, f, n)'
                            /\ \A u \in ChTasks : owes'[u] # n
        BY <3>2, <1>3 DEF Answered
      <4>2. (\E u \in ChTasks : Waiting(u, f, n)) /\ \A u \in ChTasks : owes[u] # n
        BY <4>1, <2>2 DEF Answered
      <4>3. QED BY <4>2, <3>2, <2>7, <2>10, <1>2
    <3>3. QED BY <3>1, <3>2, <1>4
  <2>13. ASSUME NEW u \in ChTasks PROVE Owed(u)'
    <3>1. SUFFICES ASSUME NEW n, n = owes[u], n # None
                   PROVE  \E v \in ChTasks, f \in Ends :
                             v # u /\ Peer(f) \in use'.ends[u] /\ Waiting(v, f, n)'
      BY <1>2 DEF Owed
    <3>2. \E v \in ChTasks, f \in Ends : v # u /\ Peer(f) \in use.ends[u] /\ Waiting(v, f, n)
      BY <3>1, <2>2 DEF Owed
    <3>3. QED BY <3>1, <3>2, <2>7, <2>8, <1>2
  <2>14. AskedOnce'
    <3>1. Len(sent) \in Nat
      BY <1>1 DEF ChTypes
    <3>2. QED BY <3>1, <2>2, <1>2, <1>6 DEF AskedOnce, None
  <2>15. \A u \in ChTasks : answer'[u][1] = answer'[u][2]
    <3>1. answer'[t] = <<m, m>>
      BY <1>7, <2>4, <2>6
    <3>2. answer'[t][1] = answer'[t][2]
      BY <3>1
    <3>3. QED BY <3>2, <1>7, <2>2
  <2>16. QED BY <2>11, <2>12, <2>13, <2>14, <2>15 DEF Exchange
<1>12. QED BY <1>8, <1>9, <1>10, <1>11 DEF ChInv

(* The reply goes to the end where the caller waits for it. *)
LEMMA ReplyStep ==
    ASSUME ChInv, NEW t \in ChTasks, NEW e \in Ends, sys_channel_reply(t, e)
    PROVE  ChInv'
<1> DEFINE g == Peer(e)
           c == end[g].blocked_caller
<1>1. ChTypes /\ Slotted(end, sent) /\ Sleepers /\ Exchange
  BY DEF ChInv
<1>2. PICK m \in Numbers : m = owes[t]
  BY <1>1 DEF ChTypes
<1>3. /\ use' = use /\ sent' = sent /\ asked' = asked /\ answer' = answer
      /\ owes' = [owes EXCEPT ![t] = None] /\ st' = Woken(c) /\ end' = Answering(g, m)
      /\ "reply" \in use.ops /\ e \in use.ends[t] /\ st[t] = <<"run">>
      /\ use.unsolicited \/ m # None
  BY <1>2 DEF sys_channel_reply, ChRunning, Answering
<1>4. g \in Ends /\ g # e /\ Peer(g) = e /\ \A f \in Ends : f = e \/ f = g
  BY DEF Ends, Peer
<1>5. c \in ChTasks \cup {None}
  BY <1>1, <1>4 DEF ChTypes, EndState
<1> HIDE DEF g, c
<1>6. /\ end' \in [Ends -> EndState] /\ end'[e] = end[e] /\ end'[g].pending_reply = m
      /\ end'[g].pending_msg = end[g].pending_msg
  BY <1>1, <1>3, <1>4, AnsweringEnds
<1>7. /\ st' \in [ChTasks -> {<<"run">>} \cup Waits]
      /\ \A u \in ChTasks : \/ st'[u] = st[u]
                            \/ st[u] \in Waits /\ st[u][1] = "blocked" /\ st'[u] = <<"run">>
  BY <1>1, <1>3, <1>5, WokenShape
<1>8. /\ owes' \in [ChTasks -> Numbers] /\ owes'[t] = None
      /\ \A u \in ChTasks : u # t => owes'[u] = owes[u]
  BY <1>1, <1>3, ChannelAssumption DEF ChTypes, Numbers, None
<1>9. ChTypes'
  BY <1>1, <1>3, <1>6, <1>7, <1>8, StKept DEF ChTypes
<1>10. Slotted(end', sent')
  BY <1>1, <1>3, <1>4, <1>6, QuietSlots DEF Quiet, ChTypes
<1>11. Sleepers'
  BY <1>3 DEF Sleepers, SendsOnly
<1>12. Exchange'
  <2>1. SUFFICES ASSUME CallsOnly PROVE Exchange'
    BY <1>3, UseKept DEF Exchange
  <2>2. /\ \A f \in Ends : Unread(f) /\ Answered(f)
        /\ \A u \in ChTasks : Owed(u)
        /\ AskedOnce /\ \A u \in ChTasks : answer[u][1] = answer[u][2]
    BY <1>1, <2>1, ExchangeFacts
  <2>3. /\ \A u, v \in ChTasks, f, h \in Ends : \A n :
              Waiting(u, f, n) /\ Waiting(v, h, n) => u = v /\ f = h
        /\ \A u, v \in ChTasks, f \in Ends : \A k, n :
              Waiting(u, f, k) /\ Waiting(v, f, n) => u = v /\ k = n
    BY <1>1, <2>1, ExchangeFacts
  <2>4. end[e].pending_reply = NoReply /\ end[g].pending_msg = None
    BY <1>1, <1>3, <2>1, ExchangeFacts DEF g
  <2>5. \A f \in Ends, u, v \in ChTasks : f \in use.ends[u] /\ f \in use.ends[v] => u = v
    BY <1>1, <2>1, OneHolder DEF ChTypes, CallsOnly
  <2>6. m # None
    BY <1>3, <2>1 DEF CallsOnly
  <2>7. \A u \in ChTasks, f \in Ends : \A n : Waiting(u, f, n) => Waiting(u, f, n)'
    BY <1>3, <1>7, Places DEF Waiting
  <2>8. PICK v \in ChTasks, f \in Ends : v # t /\ Peer(f) \in use.ends[t] /\ Waiting(v, f, m)
    BY <1>2, <2>2, <2>6 DEF Owed
  <2>9. f = g
    <3>1. f # e
      BY <2>5, <2>8, <1>3 DEF Waiting
    <3>2. QED BY <3>1, <1>4
  <2>10. \A u \in ChTasks : u # t => owes[u] # m
    <3>1. SUFFICES ASSUME NEW u \in ChTasks, owes[u] = m PROVE u = t
      OBVIOUS
    <3>2. PICK w \in ChTasks, h \in Ends : Peer(h) \in use.ends[u] /\ Waiting(w, h, m)
      BY <3>1, <2>2, <2>6 DEF Owed
    <3>3. h = g
      BY <3>2, <2>3, <2>8, <2>9
    <3>4. e \in use.ends[u]
      BY <3>2, <3>3, <1>4
    <3>5. QED BY <3>4, <1>3, <2>5
  <2>11. \A u \in ChTasks : owes'[u] # m
    BY <2>10, <2>6, <1>8
  <2>12. end[e].pending_msg = None
    <3>1. SUFFICES ASSUME NEW n, n = end[e].pending_msg, n # None PROVE FALSE
      OBVIOUS
    <3>2. /\ \E u \in ChTasks : Waiting(u, g, n)
          /\ owes[t] # n
      BY <3>1, <2>2, <1>4 DEF Unread
    <3>3. n = m
      BY <3>2, <2>3, <2>8, <2>9, <1>4
    <3>4. QED BY <3>2, <3>3, <1>2
  <2>13. \A h \in Ends : Unread(h)'
    BY <2>4, <2>12, <1>4, <1>6 DEF Unread, g
  <2>14. Answered(e)'
    BY <2>4, <1>6 DEF Answered
  <2>15. Answered(g)'
    <3>1. Waiting(v, g, m)'
      BY <2>7, <2>8, <2>9
    <3>2. QED BY <3>1, <2>11, <1>6 DEF Answered
  <2>16. ASSUME NEW u \in ChTasks PROVE Owed(u)'
    <3>1. CASE u = t
      BY <3>1, <1>8 DEF Owed
    <3>2. CASE u # t
      <4>1. SUFFICES ASSUME NEW n, n = owes[u], n # None
                     PROVE  \E w \in ChTasks, h \in Ends :
                               w # u /\ Peer(h) \in use'.ends[u] /\ Waiting(w, h, n)'
        BY <3>2, <1>3, <1>8 DEF Owed
      <4>2. \E w \in ChTasks, h \in Ends : w # u /\ Peer(h) \in use.ends[u] /\ Waiting(w, h, n)
        BY <4>1, <2>2 DEF Owed
      <4>3. QED BY <4>2, <2>7, <1>3
    <3>3. QED BY <3>1, <3>2
  <2>17. AskedOnce' /\ \A u \in ChTasks : answer'[u][1] = answer'[u][2]
    BY <2>2, <1>3 DEF AskedOnce
  <2>18. \A h \in Ends : Answered(h)'
    <3>1. SUFFICES ASSUME NEW h \in Ends PROVE Answered(h)'
      OBVIOUS
    <3>2. CASE h = e
      BY <3>2, <2>14 DEF Answered
    <3>3. CASE h = g
      BY <3>3, <2>15 DEF Answered
    <3>4. QED BY <3>2, <3>3, <1>4
  <2>19. QED BY <2>13, <2>18, <2>16, <2>17 DEF Exchange
<1>13. QED BY <1>9, <1>10, <1>11, <1>12 DEF ChInv

-----------------------------------------------------------------------------
LEMMA ChannelStart == ChInit => ChInv
<1>1. SUFFICES ASSUME ChInit PROVE ChInv
  OBVIOUS
<1>2. ChTypes
  <2>1. use \in Uses /\ use.max \in Nat
    BY <1>1, UseType DEF ChInit
  <2>2. None \in Numbers
    BY ChannelAssumption DEF None, Numbers
  <2>3. end \in [Ends -> EndState]
    BY <1>1, <2>2 DEF ChInit, EndState
  <2>4. sent \in Seq(Message) /\ Len(sent) <= use.max
    BY <1>1, <2>1 DEF ChInit
  <2>5. owes \in [ChTasks -> Numbers] /\ asked \in [ChTasks -> Numbers] /\ DOMAIN answer = ChTasks
    BY <1>1, <2>2 DEF ChInit
  <2>6. \A t \in ChTasks : st[t] = <<"run">>
    BY <1>1 DEF ChInit
  <2>7. st \in [ChTasks -> {<<"run">>} \cup Waits]
    BY <1>1 DEF ChInit
  <2>8. QED BY <2>1, <2>3, <2>4, <2>5, <2>6, <2>7, Places DEF ChTypes
<1>3. \A e \in Ends : end[e].pending_msg = None /\ end[e].pending_reply = NoReply
  BY <1>1 DEF ChInit
<1>4. Slotted(end, sent)
  BY <1>1, <1>3 DEF Slotted, ChInit
<1>5. Sleepers
  BY <1>3, <1>1, Places DEF Sleepers, ChInit
<1>6. Exchange
  <2>1. \A t \in ChTasks : owes[t] = None /\ asked[t] = None /\ answer[t] = <<0, 0>>
    BY <1>1 DEF ChInit
  <2>2. Len(sent) = 0
    BY <1>1 DEF ChInit
  <2>3. AskedOnce
    BY <2>1, <2>2 DEF AskedOnce, None
  <2>4. QED BY <1>3, <2>1, <2>3, Peers DEF Exchange, Unread, Answered, Owed
<1>7. QED BY <1>2, <1>4, <1>5, <1>6 DEF ChInv

LEMMA ChannelStep == ChInv /\ [ChNext]_ch_vars => ChInv'
<1>1. SUFFICES ASSUME ChInv, [ChNext]_ch_vars PROVE ChInv'
  OBVIOUS
<1>2. CASE UNCHANGED ch_vars
  <2>1. /\ use' = use /\ end' = end /\ st' = st /\ sent' = sent /\ owes' = owes
        /\ asked' = asked /\ answer' = answer
    BY <1>2 DEF ch_vars
  <2>2. ChTypes /\ Slotted(end, sent) /\ Sleepers /\ Exchange
    BY <1>1 DEF ChInv
  <2>3. ChTypes' /\ Slotted(end', sent')
    BY <2>1, <2>2 DEF ChTypes
  <2>4. Sleepers'
    BY <2>1, <2>2, SleepersKept
  <2>5. Exchange'
    BY <2>1, <2>2, ExchangeKept
  <2>6. QED BY <2>3, <2>4, <2>5 DEF ChInv
<1>3. ASSUME NEW t \in ChTasks, sys_kill(t) PROVE ChInv'
  BY <1>1, <1>3, KillStep
<1>4. ASSUME NEW t \in ChTasks, NEW e \in Ends, sys_channel_call(t, e) PROVE ChInv'
  BY <1>1, <1>4, CallStep, StoredReplyStep
<1>5. ASSUME NEW t \in ChTasks, NEW e \in Ends,
             sys_channel_receive(t, e) \/ receive_poll(t, e)
      PROVE  ChInv'
  BY <1>1, <1>5, ReceiveStep
<1>6. QED BY <1>1, <1>2, <1>3, <1>4, <1>5, SendStep, CheckReplyStep, ReplyStep DEF ChNext

LEMMA ChannelEnough == ChInv => ChannelSound
<1>1. SUFFICES ASSUME ChInv PROVE ChannelSound
  OBVIOUS
<1>2. ChTypes /\ Slotted(end, sent) /\ Sleepers /\ Exchange
  BY <1>1 DEF ChInv
<1>3. ChTypeOK
  BY <1>2 DEF ChTypes, Slotted, ChTypeOK, Waits
<1>4. DeliveredOnce
  BY <1>2 DEF Slotted, DeliveredOnce
<1>5. NoLostWakeup
  BY <1>2 DEF Sleepers, NoLostWakeup
<1>6. RepliesMatch
  BY <1>2 DEF Exchange, RepliesMatch
<1>7. QED BY <1>3, <1>4, <1>5, <1>6 DEF ChannelSound

(* Every message is delivered at most once and lies where its sender put   *)
(* it; with one task per end that only sends and receives, nobody sleeps   *)
(* on a message; with one task per end that only calls and answers, every  *)
(* call returns the reply to its own request.                              *)
THEOREM ChannelIsSound == ChSpec => []ChannelSound
<1>1. ChInit => ChInv
  BY ChannelStart
<1>2. ChInv /\ [ChNext]_ch_vars => ChInv'
  BY ChannelStep
<1>3. ChInv => ChannelSound
  BY ChannelEnough
<1>4. QED BY <1>1, <1>2, <1>3, PTL DEF ChSpec
=============================================================================
