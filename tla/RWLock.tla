------------------------------- MODULE RWLock -------------------------------
(***************************************************************************)
(* What advisory file locks promise (fs/file_lock.rs, module comment): on  *)
(* every inode any number of tasks may hold a shared lock, or exactly one  *)
(* task an exclusive lock.  A task may upgrade, may drop what it holds on  *)
(* one inode or, when it exits, on every inode.  Nothing here says how the *)
(* lock table is kept or how a waiting task waits.                         *)
(***************************************************************************)
CONSTANTS Tasks, Inodes

VARIABLE mode   \* mode[t][i]: the lock task t holds on inode i

Modes == {"none", "shared", "exclusive"}

Init == mode = [t \in Tasks |-> [i \in Inodes |-> "none"]]

(* A reader enters when nobody else writes. *)
AcquireShared(t, i) ==
    /\ mode[t][i] = "none"
    /\ \A u \in Tasks \ {t} : mode[u][i] # "exclusive"
    /\ mode' = [mode EXCEPT ![t][i] = "shared"]

(* A writer enters, or a reader upgrades, when nobody else holds anything. *)
AcquireExclusive(t, i) ==
    /\ \A u \in Tasks \ {t} : mode[u][i] = "none"
    /\ mode' = [mode EXCEPT ![t][i] = "exclusive"]

(* A task gives back the locks it holds on the inodes of S. *)
Release(t, S) ==
    mode' = [mode EXCEPT ![t] =
                [i \in Inodes |-> IF i \in S THEN "none" ELSE mode[t][i]]]

Next ==
    \E t \in Tasks :
        \/ \E i \in Inodes : AcquireShared(t, i) \/ AcquireExclusive(t, i)
        \/ \E S \in SUBSET Inodes : Release(t, S)

Spec == Init /\ [][Next]_mode
=============================================================================
