------------------------------ MODULE VirtualFs ------------------------------
(***************************************************************************)
(* The two filesystems without storage: devfs (fs/devfs.rs) and procfs     *)
(* (fs/procfs.rs).  Their inodes are computed from paths and decoded when  *)
(* they are used.  The offsets of procfs inodes and the shift of descriptor*)
(* entries are scaled down; their order is the code's.  What a file of     *)
(* procfs contains is generated at every read, and is abstracted to its    *)
(* length.                                                                 *)
(***************************************************************************)
EXTENDS Integers, Sequences, FiniteSets

CONSTANTS
    PidOf,       \* the components that are numbers, as numbers
    PidSpan,     \* distance of the procfs inode ranges, 0x10000 in the code
    FdShift      \* factor of the descriptor in an fd entry's inode, 2^32

ASSUME VirtualFsAssumption ==
    /\ PidSpan \in Nat /\ PidSpan > 11 /\ FdShift \in Nat /\ FdShift > 6 * PidSpan
    /\ \A c \in DOMAIN PidOf : PidOf[c] \in Nat

VOk(v) == [ok |-> TRUE, val |-> v, err |-> "none"]
VErr(e) == [ok |-> FALSE, val |-> 0, err |-> e]

-----------------------------------------------------------------------------
(* devfs *)
DEV_ROOT_INO == 1
DEVICES == [null |-> 2, zero |-> 3, serial |-> 4, console |-> 5, random |-> 6, urandom |-> 7]
NULL_INO == DEVICES.null

dev_resolve_path(rel) ==
    IF rel \in {<<>>, <<".">>} THEN VOk(DEV_ROOT_INO)
    ELSE IF Len(rel) = 1 /\ rel[1] \in DOMAIN DEVICES THEN VOk(DEVICES[rel[1]])
    ELSE VErr("NotFound")

(* How many bytes a read answers; `waiting' is how many the UART holds. *)
dev_read(ino, len, waiting) ==
    CASE ino = DEV_ROOT_INO -> VErr("NotSupported")
      [] ino = NULL_INO -> VOk(0)
      [] ino \in {DEVICES.serial, DEVICES.console} -> VOk(IF len <= waiting THEN len ELSE waiting)
      [] ino \in {DEVICES.zero, DEVICES.random, DEVICES.urandom} -> VOk(len)

dev_write(ino, len) == IF ino = DEV_ROOT_INO THEN VErr("NotSupported") ELSE VOk(len)

dev_stat(ino) == VOk([is_dir |-> ino = DEV_ROOT_INO, size |-> 0])

dev_readdir(ino) ==
    IF ino = DEV_ROOT_INO THEN VOk({<<n>> : n \in DOMAIN DEVICES}) ELSE VErr("NotFound")

-----------------------------------------------------------------------------
(* procfs *)
PROC_ROOT_INO == 1
NET_DIR_INO == 5
Fixed == [meminfo |-> 2, uptime |-> 3, version |-> 4, net |-> NET_DIR_INO, cpuinfo |-> 9]
NetFiles == [ifconfig |-> 6, tcp |-> 7, udp |-> 8, arp |-> 10, dev |-> 11]

PID_DIR_OFFSET == PidSpan
PID_CMDLINE_OFFSET == 2 * PidSpan
PID_STATUS_OFFSET == 3 * PidSpan
PID_MAPS_OFFSET == 4 * PidSpan
PID_FD_OFFSET == 5 * PidSpan
PID_ENVIRON_OFFSET == 6 * PidSpan

PidFiles == [cmdline |-> PID_CMDLINE_OFFSET, status |-> PID_STATUS_OFFSET, maps |-> PID_MAPS_OFFSET,
             fd |-> PID_FD_OFFSET, environ |-> PID_ENVIRON_OFFSET]

resolve_fd_entry_path(pid, sub) ==
    IF Len(sub) = 2 /\ sub[1] = "fd" /\ sub[2] \in DOMAIN PidOf
    THEN VOk(PID_FD_OFFSET + pid + PidOf[sub[2]] * FdShift) ELSE VErr("NotFound")

(* Any number is a pid: whether there is such a task is asked by a read.   *)
resolve_pid_path(rel) ==
    LET pid == PidOf[rel[1]]
        sub == Tail(rel)
    IN  IF rel[1] \notin DOMAIN PidOf THEN VErr("NotFound")
        ELSE IF sub \in {<<>>, <<".">>} THEN VOk(PID_DIR_OFFSET + pid)
        ELSE IF Len(sub) = 1 /\ sub[1] \in DOMAIN PidFiles THEN VOk(PidFiles[sub[1]] + pid)
        ELSE resolve_fd_entry_path(pid, sub)

proc_resolve_path(rel) ==
    IF rel \in {<<>>, <<".">>} THEN VOk(PROC_ROOT_INO)
    ELSE IF Len(rel) = 1 /\ rel[1] \in DOMAIN Fixed THEN VOk(Fixed[rel[1]])
    ELSE IF Len(rel) = 2 /\ rel[1] = "net" /\ rel[2] \in DOMAIN NetFiles THEN VOk(NetFiles[rel[2]])
    ELSE resolve_pid_path(rel)

SystemFiles == ({Fixed[f] : f \in DOMAIN Fixed} \cup {NetFiles[f] : f \in DOMAIN NetFiles}) \ {NET_DIR_INO}

(* The match of ProcFs::read: what an inode names, by the range it is in.  *)
(* The range of descriptor entries ends at PID_ENVIRON_OFFSET, below every *)
(* inode that has a descriptor in its upper half.                          *)
Decoded(ino) ==
    CASE ino \in {PROC_ROOT_INO, NET_DIR_INO} -> [what |-> "dir", pid |-> 0]
      [] ino \in SystemFiles -> [what |-> "system", pid |-> 0]
      [] ino \in PID_CMDLINE_OFFSET .. PID_STATUS_OFFSET - 1 -> [what |-> "cmdline", pid |-> ino - PID_CMDLINE_OFFSET]
      [] ino \in PID_STATUS_OFFSET .. PID_MAPS_OFFSET - 1 -> [what |-> "status", pid |-> ino - PID_STATUS_OFFSET]
      [] ino \in PID_MAPS_OFFSET .. PID_FD_OFFSET - 1 -> [what |-> "maps", pid |-> ino - PID_MAPS_OFFSET]
      [] ino \in PID_FD_OFFSET .. PID_ENVIRON_OFFSET - 1 -> [what |-> "fd", pid |-> (ino - PID_FD_OFFSET) % FdShift]
      [] ino >= PID_ENVIRON_OFFSET -> [what |-> "environ", pid |-> ino - PID_ENVIRON_OFFSET]
      [] OTHER -> [what |-> "dir", pid |-> 0]

(* read: the files of a pid need its task; `size' is what the generator    *)
(* produced this time.                                                     *)
proc_read(ino, offset, len, tasks, size) ==
    LET d == Decoded(ino) IN
    IF d.what \in {"dir", "fd"} THEN VErr("NotSupported")
    ELSE IF d.what # "system" /\ d.pid \notin tasks THEN VErr("NotFound")
    ELSE IF offset >= size THEN VOk(0)
    ELSE VOk(IF len <= size - offset THEN len ELSE size - offset)

(* stat: directories and files; the size of a system file is what it would *)
(* contain now, that of a pid's file is 0.                                 *)
proc_stat(ino, size) ==
    LET d == Decoded(ino).what
    IN  VOk([is_dir |-> d \in {"dir", "fd"}, size |-> IF d = "system" THEN size ELSE 0])

(* The pids whose task exists and is not terminated. *)
enumerate_pids(tasks) == {c \in DOMAIN PidOf : PidOf[c] \in tasks}

(* /proc lists the system files, the net directory and the tasks alive. *)
readdir_root(tasks) ==
    {<<c>> : c \in DOMAIN Fixed \cup enumerate_pids(tasks)}

(* /proc/net lists its files, whatever the state of the network. *)
readdir_net == {<<f>> : f \in DOMAIN NetFiles}

(* /proc/<pid>/fd lists the open descriptors of a task that exists. *)
readdir_pid_fd(pid, tasks, fds) ==
    IF pid \in tasks THEN VOk({<<"fd", n>> : n \in fds}) ELSE VErr("NotFound")

(* readdir by inode: a pid's directory holds the same five files for every *)
(* task; anything else is not a directory.                                 *)
proc_readdir(ino, tasks, fds) ==
    LET d == Decoded(ino) IN
    IF ino = PROC_ROOT_INO THEN VOk(readdir_root(tasks))
    ELSE IF ino = NET_DIR_INO THEN VOk(readdir_net)
    ELSE IF ino \in PID_DIR_OFFSET .. PID_CMDLINE_OFFSET - 1
    THEN IF ino - PID_DIR_OFFSET \in tasks THEN VOk({<<f>> : f \in DOMAIN PidFiles}) ELSE VErr("NotFound")
    ELSE IF d.what = "fd" THEN readdir_pid_fd(d.pid, tasks, fds)
    ELSE VErr("NotFound")
=============================================================================
