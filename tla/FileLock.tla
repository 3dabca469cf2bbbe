------------------------------ MODULE FileLock ------------------------------
(***************************************************************************)
(* Per-inode advisory locks: the FILE_LOCKS table of fs/file_lock.rs, the  *)
(* flock syscall that reaches it through a descriptor, the close syscall   *)
(* and task termination.                                                   *)
(*                                                                         *)
(* Each table operation runs under the FILE_LOCKS mutex, so it is one      *)
(* step.  A blocking request that cannot be granted drops the mutex and    *)
(* polls (HLT, then one attempt): the poll is a step of its own, and       *)
(* every other task can run between two polls.  A missing table entry and  *)
(* an entry whose holders have all left behave alike in every operation    *)
(* and are one value here (NoLock).                                        *)
(***************************************************************************)
EXTENDS Naturals, FiniteSets

CONSTANTS
    Tasks,     \* task ids
    Inodes,    \* (fs_id, inode) keys of the table
    NoInode,   \* not an inode: what a task waits for when it does not wait
    MaxFds     \* bound: descriptors one task keeps open on one inode

ASSUME FileLockAssumption == NoInode \notin Inodes /\ MaxFds \in Nat \ {0}

VARIABLES
    locks,     \* FILE_LOCKS: inode -> InodeLockState
    fds,       \* fds[t][i]: descriptors of task t that reference inode i
    pc,        \* where task t is: user code, one of the spin loops, exited
    on         \* the inode task t spins on, or NoInode

vars == <<locks, fds, pc, on>>

LockTypes == {"Shared", "Exclusive"}
LockRecord == [pid : Tasks, lock_type : LockTypes]
Spinning == {"spin_shared", "spin_exclusive"}

NoLock == [count |-> 0, lock_type |-> "None", holders |-> {}]
Rec(t, ty) == [pid |-> t, lock_type |-> ty]
Of(s, t) == {r \in s.holders : r.pid = t}

Init ==
    /\ locks = [i \in Inodes |-> NoLock]
    /\ fds = [t \in Tasks |-> [i \in Inodes |-> 0]]
    /\ pc = [t \in Tasks |-> "user"]
    /\ on = [t \in Tasks |-> NoInode]
-----------------------------------------------------------------------------
(* The table updates.  A record is pushed, or the task's own record is     *)
(* rewritten in place on an upgrade.                                       *)

Join(s, t) ==
    [count     |-> IF s.lock_type = "None" THEN 1 ELSE s.count + 1,
     lock_type |-> "Shared",
     holders   |-> s.holders \cup {Rec(t, "Shared")}]

Take(s, t) ==
    [count |-> 1, lock_type |-> "Exclusive",
     holders |-> s.holders \cup {Rec(t, "Exclusive")}]

Upgrade(s, t) ==
    [count |-> s.count, lock_type |-> "Exclusive",
     holders |-> (s.holders \ {Rec(t, "Shared")}) \cup {Rec(t, "Exclusive")}]

Grant(i, s) ==
    /\ locks' = [locks EXCEPT ![i] = s]
    /\ UNCHANGED <<fds, on>>

Enter(t, i, loop) ==
    /\ pc' = [pc EXCEPT ![t] = loop]
    /\ on' = [on EXCEPT ![t] = i]
    /\ UNCHANGED <<locks, fds>>
-----------------------------------------------------------------------------

(* Fault: LOCK_SH by the exclusive holder downgrades its record. *)
acquire_shared_Downgrades(t, i, nonblocking) ==
    LET s == locks[i] IN
    \/ Rec(t, "Shared") \in s.holders /\ UNCHANGED vars
    \/ /\ Rec(t, "Exclusive") \in s.holders
       /\ Grant(i, [count |-> 1, lock_type |-> "Shared", holders |-> {Rec(t, "Shared")}])
       /\ UNCHANGED pc
    \/ Of(s, t) = {} /\ s.lock_type # "Exclusive" /\ Grant(i, Join(s, t)) /\ UNCHANGED pc
    \/ /\ Of(s, t) = {} /\ s.lock_type = "Exclusive"
       /\ IF nonblocking THEN UNCHANGED vars ELSE Enter(t, i, "spin_shared")

(* flock(LOCK_SH): a holder of any kind gets a no-op, readers join, and an *)
(* exclusive holder elsewhere means WouldBlock or the spin loop.           *)
acquire_shared(t, i, nonblocking) ==
    LET s == locks[i] IN
    \/ /\ Of(s, t) # {}
       /\ UNCHANGED vars
    \/ /\ Of(s, t) = {}
       /\ s.lock_type # "Exclusive"
       /\ Grant(i, Join(s, t))
       /\ UNCHANGED pc
    \/ /\ Of(s, t) = {}
       /\ s.lock_type = "Exclusive"
       /\ IF nonblocking THEN UNCHANGED vars ELSE Enter(t, i, "spin_shared")

(* Fault: the upgrade does not test that the task is the sole holder. *)
acquire_exclusive_AnyCount(t, i, nonblocking) ==
    LET s == locks[i] IN
    \/ Rec(t, "Exclusive") \in s.holders /\ UNCHANGED vars
    \/ Rec(t, "Shared") \in s.holders /\ Grant(i, Upgrade(s, t)) /\ UNCHANGED pc
    \/ Of(s, t) = {} /\ s.lock_type = "None" /\ Grant(i, Take(s, t)) /\ UNCHANGED pc
    \/ /\ Of(s, t) = {} /\ s.lock_type # "None"
       /\ IF nonblocking THEN UNCHANGED vars ELSE Enter(t, i, "spin_exclusive")

(* flock(LOCK_EX): upgrade only as the sole holder (count = 1). *)
acquire_exclusive(t, i, nonblocking) ==
    LET s == locks[i] IN
    \/ /\ Rec(t, "Exclusive") \in s.holders
       /\ UNCHANGED vars
    \/ /\ Rec(t, "Shared") \in s.holders
       /\ s.count = 1
       /\ Grant(i, Upgrade(s, t))
       /\ UNCHANGED pc
    \/ /\ Of(s, t) = {}
       /\ s.lock_type = "None"
       /\ Grant(i, Take(s, t))
       /\ UNCHANGED pc
    \/ /\ \/ Rec(t, "Shared") \in s.holders /\ s.count # 1
          \/ Of(s, t) = {} /\ s.lock_type # "None"
       /\ IF nonblocking THEN UNCHANGED vars ELSE Enter(t, i, "spin_exclusive")

(* Fault: unlocking empties the whole entry, other tasks' records too. *)
Left_Everyone(s, t) == NoLock

(* flock(LOCK_UN): drop the task's records and recompute the entry's type. *)
Left(s, t) ==
    LET rest == s.holders \ Of(s, t)
        n == s.count - Cardinality(Of(s, t))
    IN  [count     |-> n,
         lock_type |-> IF n = 0 \/ rest = {} THEN "None"
                       ELSE IF \E r \in rest : r.lock_type = "Exclusive"
                            THEN "Exclusive" ELSE "Shared",
         holders   |-> rest]

release_lock(t, i) ==
    /\ Grant(i, IF Of(locks[i], t) = {} THEN locks[i] ELSE Left(locks[i], t))
    /\ UNCHANGED pc

(* flock needs an open descriptor of the inode (else NotFound). *)
sys_flock(t, i) ==
    /\ pc[t] = "user"
    /\ fds[t][i] > 0
    /\ \/ \E nb \in BOOLEAN : acquire_shared(t, i, nb) \/ acquire_exclusive(t, i, nb)
       \/ release_lock(t, i)

Resume(t) ==
    /\ pc' = [pc EXCEPT ![t] = "user"]
    /\ on' = [on EXCEPT ![t] = NoInode]
    /\ UNCHANGED fds

(* One successful poll of spin_wait_shared; a failed one changes nothing. *)
try_acquire_shared(t) ==
    LET i == on[t]
        s == locks[i]
    IN  /\ pc[t] = "spin_shared"
        /\ \/ /\ Of(s, t) # {}
              /\ UNCHANGED locks
           \/ /\ Of(s, t) = {}
              /\ s.lock_type # "Exclusive"
              /\ locks' = [locks EXCEPT ![i] = Join(s, t)]
        /\ Resume(t)

(* One poll of spin_wait_exclusive; here a free entry is one of count 0. *)
try_acquire_exclusive(t) ==
    LET i == on[t]
        s == locks[i]
    IN  /\ pc[t] = "spin_exclusive"
        /\ \/ /\ Rec(t, "Exclusive") \in s.holders
              /\ UNCHANGED locks
           \/ /\ Rec(t, "Shared") \in s.holders
              /\ s.count = 1
              /\ locks' = [locks EXCEPT ![i] = Upgrade(s, t)]
           \/ /\ s.count = 0
              /\ locks' = [locks EXCEPT ![i] = Take(s, t)]
        /\ Resume(t)

sys_fs_open(t, i) ==
    /\ pc[t] = "user"
    /\ fds[t][i] < MaxFds
    /\ fds' = [fds EXCEPT ![t][i] = @ + 1]
    /\ UNCHANGED <<locks, pc, on>>

(* Closing removes the descriptor and closes the inode, nothing more. *)
sys_fs_close(t, i) ==
    /\ pc[t] = "user"
    /\ fds[t][i] > 0
    /\ fds' = [fds EXCEPT ![t][i] = @ - 1]
    /\ UNCHANGED <<locks, pc, on>>

(* Fault: the cleanup drops the records and leaves the count. *)
Cleaned_KeepsCount(s, t) == [s EXCEPT !.holders = @ \ Of(s, t)]

(* The cleanup on exit does not recompute the type of an entry that keeps  *)
(* other holders, and its subtraction saturates.                           *)
Cleaned(s, t) ==
    LET k == Cardinality(Of(s, t))
        n == IF s.count < k THEN 0 ELSE s.count - k
    IN  IF k = 0 THEN s
        ELSE [count     |-> n,
              lock_type |-> IF n = 0 THEN "None" ELSE s.lock_type,
              holders   |-> s.holders \ Of(s, t)]

(* Fault: the cleanup is skipped. *)
release_all_for_task_Skipped(t) == UNCHANGED locks

release_all_for_task(t) == locks' = [i \in Inodes |-> Cleaned(locks[i], t)]

(* A task exits from user code: its table entries and descriptors go. *)
terminate_current(t) ==
    /\ pc[t] = "user"
    /\ release_all_for_task(t)
    /\ fds' = [fds EXCEPT ![t] = [i \in Inodes |-> 0]]
    /\ pc' = [pc EXCEPT ![t] = "exited"]
    /\ UNCHANGED on

Next ==
    \E t \in Tasks :
        \/ \E i \in Inodes : sys_flock(t, i) \/ sys_fs_open(t, i) \/ sys_fs_close(t, i)
        \/ try_acquire_shared(t)
        \/ try_acquire_exclusive(t)
        \/ terminate_current(t)

Spec == Init /\ [][Next]_vars
-----------------------------------------------------------------------------
LockState == [count : Nat, lock_type : {"None"} \cup LockTypes, holders : SUBSET LockRecord]

(* The table, the descriptor counts and the control points have their types. *)
TypeOK ==
    /\ locks \in [Inodes -> LockState]
    /\ fds \in [Tasks -> [Inodes -> 0 .. MaxFds]]
    /\ pc \in [Tasks -> {"user", "exited"} \cup Spinning]
    /\ on \in [Tasks -> Inodes \cup {NoInode}]
    /\ \A t \in Tasks : pc[t] \in Spinning <=> on[t] # NoInode

(* The redundant fields of InodeLockState agree with its holder list: the  *)
(* count is the number of records (one when the lock is exclusive), no     *)
(* task has two records, and the type is the type of the records.  Every   *)
(* grant decision reads one of the redundant fields (count in the          *)
(* upgrades, lock_type elsewhere), so a path that lets them drift apart    *)
(* breaks exclusion later.                                                 *)
Consistent(s) ==
    /\ IsFiniteSet(s.holders)
    /\ s.count = Cardinality(s.holders)
    /\ \A q, r \in s.holders : q.pid = r.pid => q = r
    /\ s.lock_type = "None" <=> s.holders = {}
    /\ \A r \in s.holders : r.lock_type = s.lock_type
    /\ s.lock_type = "Exclusive" => s.count = 1

TableConsistent == \A i \in Inodes : Consistent(locks[i])

(* LOCK_EX is exclusive: while a task has an exclusive record on an inode, *)
(* no other task has any record there, whichever of the four acquisition   *)
(* paths and two release paths led to this state.                          *)
MutualExclusion ==
    \A i \in Inodes : \A q, r \in locks[i].holders :
        q.lock_type = "Exclusive" => r.pid = q.pid

(* A task that has exited left nothing in the table, on any inode: the     *)
(* cleanup of terminate_current reaches every entry.                       *)
NoStaleHolder ==
    \A t \in Tasks, i \in Inodes : pc[t] = "exited" => Of(locks[i], t) = {}

(* A task that waits for an inode it already has a record on is a shared   *)
(* holder in spin_wait_exclusive.  So no task ever waits for itself alone, *)
(* and the only cycle on a single inode is between readers that all try to *)
(* upgrade (their `count == 1' can then never come true).                  *)
HoldersWaitOnlyToUpgrade ==
    \A i \in Inodes : \A r \in locks[i].holders :
        on[r.pid] = i => r.lock_type = "Shared" /\ pc[r.pid] = "spin_exclusive"

(* Who is in the table can still act: no record of a task that exited, and *)
(* no record of a task that waits for itself.                              *)
HoldersLive == NoStaleHolder /\ HoldersWaitOnlyToUpgrade

(* A held lock is never taken away or weakened by another task's step:     *)
(* when a record disappears, or an exclusive record turns shared, its      *)
(* owner was running user code before the step (it unlocked or exited),    *)
(* and no exclusive record is ever turned into a shared one.               *)
NeverRevoked ==
    [][\A i \in Inodes : \A r \in locks[i].holders :
          \/ r \in locks'[i].holders
          \/ r.lock_type = "Shared" /\ Rec(r.pid, "Exclusive") \in locks'[i].holders
          \/ pc[r.pid] = "user" /\ Of(locks'[i], r.pid) = {}]_vars

(* The lock table implements the readers-writer lock of module RWLock: the *)
(* abstract mode of a task on an inode is read off its records.            *)
ModeIn(s, t) ==
    IF Rec(t, "Exclusive") \in s.holders THEN "exclusive"
    ELSE IF Rec(t, "Shared") \in s.holders THEN "shared"
    ELSE "none"

RW == INSTANCE RWLock WITH mode <- [t \in Tasks |-> [i \in Inodes |-> ModeIn(locks[i], t)]]

ImplementsRWLock == RW!Spec
=============================================================================
