-------------------------------- MODULE Files --------------------------------
(***************************************************************************)
(* The file calls of one task (syscall/mod.rs): paths against the working  *)
(* directory, the mount table (fs/vfs.rs), descriptors with offsets, and   *)
(* the calls on names, over ramfs at /, procfs at /proc and devfs at /dev  *)
(* as main.rs mounts them.                                                 *)
(*                                                                         *)
(* A system call is one step.  A path is its sequence of components; the   *)
(* mount table compares characters, so a name may also begin with a mount  *)
(* point's (Glued).  Bad pointers and names that are not UTF-8 return      *)
(* before anything happens and are left out, and so are FIFOs: every       *)
(* filesystem answers mkfifo with NotSupported.                            *)
(***************************************************************************)
EXTENDS Ramfs, VirtualFs

CONSTANTS
    Uses,         \* what a task does: its paths ([abs: BOOLEAN, path: sequence]),
                  \*   targets of links, bytes a call moves (io), FD_LIMIT, and
                  \*   the number of slots it fills (born)
    Glued,        \* name |-> [mount, rest]: names that start like a mount point
    Pids,        \* pids alive
    Bytes,        \* values written
    MaxIo,        \* bound: bytes per call
    MaxContent    \* bound: length of a generated file

ASSUME FilesAssumption ==
    /\ MaxIo \in Nat /\ MaxContent \in Nat
    /\ \A u \in Uses : /\ u.io \in 0 .. MaxIo /\ u.FD_LIMIT \in Nat /\ u.born \in Nat
                       /\ \A p \in u.paths : p.abs \in BOOLEAN /\ p.path \in Seq(STRING)
                       /\ \A l \in u.targets : l \in Seq(STRING)
    /\ \A c \in DOMAIN Glued : Glued[c].mount \in {"proc", "dev"} /\ Glued[c].rest \in STRING

FD_FIRST_USABLE == 2
NoFd == [path |-> <<>>, ino |-> -1, offset |-> 0, id |-> 0]

VARIABLES
    use,        \* one of Uses
    table,      \* RAMFS
    fd_table,   \* fd_table[fd]: an FdEntry with the history field `id', or NoFd
    cwd,        \* the task's working directory
    ret,        \* how the last call ended: ok, error or panic
    born,       \* history: number of slots filled so far
    removed,    \* history: ids of files that were unlinked
    early,      \* history: ids made while the root had no slot
    orphans     \* history: ids whose directory was unlinked

files_vars == <<use, table, fd_table, cwd, ret, born, removed, early, orphans>>
history == <<removed, early, orphans>>

Running == ret # "panic"
UserPaths == use.paths
Fds == FD_FIRST_USABLE .. use.FD_LIMIT - 1
MaxBorn == use.born

FilesInit ==
    /\ use \in Uses
    /\ table = [i \in Slots |-> Unused]
    /\ fd_table = [fd \in Fds |-> NoFd]
    /\ cwd = <<>>
    /\ ret = "ok"
    /\ born = 0
    /\ removed = {} /\ early = {} /\ orphans = {}

-----------------------------------------------------------------------------
(* resolve_path *)
resolve_path(p) == IF p.abs THEN p.path ELSE cwd \o p.path

(* resolve_fs: the longest mount point that the path starts with, and the  *)
(* rest without a leading slash.                                           *)
resolve_fs(full) ==
    IF full = <<>> THEN [fs |-> "ramfs", rel |-> <<>>]
    ELSE IF full[1] \in {"proc", "dev"} THEN [fs |-> full[1], rel |-> Tail(full)]
    ELSE IF full[1] \in DOMAIN Glued
    THEN [fs |-> Glued[full[1]].mount, rel |-> <<Glued[full[1]].rest>> \o Tail(full)]
    ELSE [fs |-> "ramfs", rel |-> full]

(* split_parent_name *)
HasName(full) == full # <<>>
ParentOf(full) == SubSeq(full, 1, Len(full) - 1)
NameOf(full) == full[Len(full)]

Lift(t, r) == [table |-> t, ok |-> r.ok, val |-> r.val, err |-> r.err, panic |-> FALSE]

(* FileSystem::open of whichever filesystem a path is on. *)
open(t, full, create, id) ==
    LET m == resolve_fs(full) IN
    CASE m.fs = "ramfs" -> ram_open(t, m.rel, create, id)
      [] m.fs = "proc" -> Lift(t, proc_resolve_path(m.rel))
      [] m.fs = "dev" -> Lift(t, dev_resolve_path(m.rel))

fstat(t, full, ino, size) ==
    LET fs == resolve_fs(full).fs IN
    CASE fs = "ramfs" -> ram_stat(t, ino)
      [] fs = "proc" -> Lift(t, proc_stat(ino, size))
      [] fs = "dev" -> Lift(t, dev_stat(ino))

readdir(t, full, ino) ==
    LET fs == resolve_fs(full).fs IN
    CASE fs = "ramfs" -> ram_readdir(t, ino)
      [] fs = "proc" -> Lift(t, proc_readdir(ino, Pids, {fd \in Fds : fd_table[fd] # NoFd}))
      [] fs = "dev" -> Lift(t, dev_readdir(ino))

(* The table after a call, with the histories: slots filled since are the  *)
(* new ids, slots cleared are removed, and the children of a cleared       *)
(* directory are orphans.                                                  *)
Ids(t) == {t[i].id : i \in {j \in Slots : t[j].in_use}}
NewTable(t) ==
    LET made == Ids(t) \ Ids(table)
        gone == Ids(table) \ Ids(t)
    IN  /\ table' = t
        /\ born' = born + Cardinality(made)
        /\ removed' = removed \cup gone
        /\ early' = early \cup {k \in made : /\ get_root_dir_idx(table) = 0
                                             /\ RootName \notin {t[i].name : i \in {j \in Slots : t[j].id <= k /\ t[j].is_dir}}}
        /\ orphans' = orphans \cup
              {table[c.slot].id : c \in UNION {Listed(table, i) : i \in {j \in Slots : table[j].id \in gone}}}

Id == born + 1
CanFill == born < MaxBorn
Outcome(ok) == IF ok THEN "ok" ELSE "error"
Answer(r) == ret' = IF r.panic THEN "panic" ELSE Outcome(r.ok)

-----------------------------------------------------------------------------
(* Descriptors *)

FreeFds == {fd \in Fds : fd_table[fd] = NoFd}
HistoryId(t, full, ino) ==
    IF resolve_fs(full).fs = "ramfs" /\ ino # ROOT_INO THEN t[ino].id ELSE 0

(* sys_fs_open: flags 0 reads, 1 reads, writes and creates.  The file is   *)
(* made before a descriptor is looked for.                                 *)
sys_fs_open_path(p, create) ==
    LET full == resolve_path(p)
        r == open(table, full, create, Id)
        fd == Lowest(FreeFds)
    IN  /\ Running /\ CanFill
        /\ NewTable(r.table)
        /\ IF r.ok /\ FreeFds # {}
           THEN /\ fd_table' = [fd_table EXCEPT ![fd] =
                     [path |-> full, ino |-> r.val, offset |-> 0, id |-> HistoryId(r.table, full, r.val)]]
                /\ ret' = "ok"
           ELSE /\ UNCHANGED fd_table
                /\ IF r.ok THEN ret' = "error" ELSE Answer(r)
        /\ UNCHANGED cwd

(* sys_fs_read: `waiting' bytes are at the UART, a generated file has      *)
(* `size' bytes; the offset moves by what was read.                        *)
sys_fs_read(fd, len, waiting, size) ==
    LET e == fd_table[fd]
        fs == resolve_fs(e.path).fs
        r == CASE fs = "ramfs" -> ram_read(table, e.ino, e.offset, len)
               [] fs = "proc" -> Lift(table, proc_read(e.ino, e.offset, len, Pids, size))
               [] fs = "dev" -> Lift(table, dev_read(e.ino, len, waiting))
    IN  /\ Running
        /\ e # NoFd
        /\ e.offset + len <= MAX_FILE_SIZE + MaxIo
        /\ fd_table' = [fd_table EXCEPT ![fd].offset = @ + r.val]
        /\ Answer(r)
        /\ UNCHANGED <<table, cwd, born, history>>

sys_fs_write(fd, bytes) ==
    LET e == fd_table[fd]
        fs == resolve_fs(e.path).fs
        r == CASE fs = "ramfs" -> ram_write(table, e.ino, e.offset, bytes)
               [] fs = "proc" -> Err(table, "PermissionDenied")
               [] fs = "dev" -> Lift(table, dev_write(e.ino, Len(bytes)))
    IN  /\ Running
        /\ e # NoFd
        /\ e.offset + Len(bytes) <= MAX_FILE_SIZE + MaxIo
        /\ table' = r.table
        /\ fd_table' = [fd_table EXCEPT ![fd].offset = @ + r.val]
        /\ ret' = Outcome(r.ok)
        /\ UNCHANGED <<cwd, born, history>>

(* The offset sys_fs_seek computes: backwards it stops at 0, and SEEK_END  *)
(* goes no further than the end.                                           *)
Sought(whence, current, size, delta) ==
    LET from == IF whence = "SET" THEN 0 ELSE IF whence = "CUR" THEN current ELSE size
    IN  IF whence = "END" /\ delta >= 0 THEN size
        ELSE IF from + delta < 0 THEN 0 ELSE from + delta

sys_fs_seek(fd, delta, whence, size) ==
    LET e == fd_table[fd]
        m == fstat(table, e.path, e.ino, size)
        to == Sought(whence, e.offset, m.val.size, delta)
    IN  /\ Running
        /\ e # NoFd
        /\ IF ~m.ok \/ (whence = "SET" /\ delta < 0)
           THEN /\ ret' = "error"
                /\ UNCHANGED fd_table
           ELSE /\ to <= MAX_FILE_SIZE + MaxIo
                /\ fd_table' = [fd_table EXCEPT ![fd].offset = to]
                /\ ret' = "ok"
        /\ UNCHANGED <<table, cwd, born, history>>

(* No filesystem keeps state for an open file. *)
sys_fs_close_path(fd) ==
    /\ Running
    /\ fd_table[fd] # NoFd
    /\ fd_table' = [fd_table EXCEPT ![fd] = NoFd]
    /\ ret' = "ok"
    /\ UNCHANGED <<table, cwd, born, history>>

(* sys_dup2: a copy of the entry, offset included, over whatever is there. *)
sys_dup2(old, new) ==
    /\ Running
    /\ old # new
    /\ fd_table[old] # NoFd
    /\ fd_table' = [fd_table EXCEPT ![new] = fd_table[old]]
    /\ ret' = "ok"
    /\ UNCHANGED <<table, cwd, born, history>>

(* sys_fstat and sys_getdents64 ask the filesystem about a descriptor. *)
sys_fstat(fd) ==
    /\ Running
    /\ fd_table[fd] # NoFd
    /\ Answer(fstat(table, fd_table[fd].path, fd_table[fd].ino, 0))
    /\ UNCHANGED <<table, fd_table, cwd, born, history>>

sys_getdents64(fd) ==
    /\ Running
    /\ fd_table[fd] # NoFd
    /\ ret' = Outcome(readdir(table, fd_table[fd].path, fd_table[fd].ino).ok)
    /\ UNCHANGED <<table, fd_table, cwd, born, history>>

-----------------------------------------------------------------------------
(* Calls on names *)

(* A call that opens a path to look at it: opening / makes the root's slot.*)
Looks(p, answer(_, _)) ==
    LET full == resolve_path(p)
        r == open(table, full, FALSE, Id)
    IN  /\ Running /\ CanFill
        /\ NewTable(r.table)
        /\ ret' = IF r.panic THEN "panic" ELSE Outcome(r.ok /\ answer(r, full))
        /\ UNCHANGED <<fd_table, cwd>>

sys_fs_stat(p) == Looks(p, LAMBDA r, full : fstat(r.table, full, r.val, 0).ok)

sys_fs_readdir(p) ==
    Looks(p, LAMBDA r, full : readdir(r.table, full, r.val).ok)

(* sys_access: a directory is not executable; whatever exists can be       *)
(* opened for writing.                                                     *)
sys_access(p, x_ok) ==
    Looks(p, LAMBDA r, full : ~(x_ok /\ fstat(r.table, full, r.val, 0).val.is_dir))

(* sys_readlink does not resolve its path against the working directory.   *)
sys_readlink(p) ==
    /\ p.abs
    /\ Looks(p, LAMBDA r, full :
               resolve_fs(full).fs = "ramfs" /\ ram_readlink(r.table, r.val).ok)

(* sys_chmod: what is stored is left out, the root and the filesystems     *)
(* without storage refuse.                                                 *)
sys_chmod(p) ==
    Looks(p, LAMBDA r, full : resolve_fs(full).fs = "ramfs" /\ r.val # ROOT_INO)

sys_chdir(p) ==
    LET full == resolve_path(p)
        r == open(table, full, FALSE, Id)
        m == fstat(r.table, full, r.val, 0)
    IN  /\ Running /\ CanFill
        /\ NewTable(r.table)
        /\ IF r.ok /\ m.ok /\ m.val.is_dir
           THEN cwd' = full /\ ret' = "ok"
           ELSE /\ UNCHANGED cwd
                /\ ret' = IF r.panic THEN "panic" ELSE "error"
        /\ UNCHANGED fd_table

(* A call that changes an entry of a directory: the parent is opened, then *)
(* the method of its filesystem is called.                                 *)
Changes(p, method(_, _, _), refused) ==
    LET full == resolve_path(p)
        up == open(table, ParentOf(full), FALSE, Id)
        fs == resolve_fs(ParentOf(full)).fs
        r == IF up.ok /\ fs = "ramfs" THEN method(up.table, up.val, <<NameOf(full)>>)
             ELSE IF up.ok THEN Err(up.table, refused) ELSE up
    IN  /\ Running /\ born + 1 < MaxBorn
        /\ IF HasName(full) THEN NewTable(r.table) /\ Answer(r)
           ELSE UNCHANGED <<table, born, history>> /\ ret' = "error"
        /\ UNCHANGED <<fd_table, cwd>>

NextId(t) == IF Ids(t) = Ids(table) THEN Id ELSE Id + 1

sys_fs_unlink(p) == Changes(p, LAMBDA t, ino, n : ram_unlink(t, ino, n), "PermissionDenied")
sys_fs_mkdir(p) == Changes(p, LAMBDA t, ino, n : ram_mkdir(t, ino, n, NextId(t)), "NotSupported")
sys_fs_rmdir(p) == Changes(p, LAMBDA t, ino, n : ram_rmdir(t, ino, n), "NotSupported")
sys_symlink(p, target) ==
    Changes(p, LAMBDA t, ino, n : ram_symlink(t, ino, n, target, NextId(t)), "NotSupported")

(* Fault: the old name goes before the new one is made. *)
Renamed_RemovesFirst(old, new) ==
    LET up == open(table, ParentOf(old), FALSE, Id)
        un == IF up.ok /\ HasName(old) THEN ram_unlink(up.table, up.val, <<NameOf(old)>>) ELSE up
        to == open(un.table, new, TRUE, Id)
        bytes == BytesRead(un.table, open(un.table, old, FALSE, Id).val, 0, MAX_FILE_SIZE)
    IN  IF to.ok /\ to.val # 0 THEN ram_write(to.table, to.val, 0, bytes) ELSE to

(* sys_fs_rename on ramfs: the content is read, written over the start of  *)
(* a file with the new name, and the old name is unlinked where it can be. *)
(* Nothing of the three is undone when the next one fails.                 *)
Renamed(old, new) ==
    LET from == open(table, old, FALSE, Id)
        bytes == BytesRead(from.table, from.val, 0, MAX_FILE_SIZE)
        to == open(from.table, new, TRUE, NextId(from.table))
        w == IF bytes # <<>> THEN ram_write(to.table, to.val, 0, bytes) ELSE to
        up == open(w.table, ParentOf(old), FALSE, NextId(w.table))
        un == IF up.ok THEN ram_unlink(up.table, up.val, <<NameOf(old)>>) ELSE up
    IN  IF ~from.ok THEN from
        ELSE IF to.panic THEN to
        ELSE IF ~to.ok THEN Err(to.table, "Busy")
        ELSE IF ~HasName(old) THEN Ok(w.table, 0)
        ELSE IF up.panic THEN up ELSE Ok(un.table, 0)

sys_fs_rename(p, q) ==
    LET old == resolve_path(p)
        new == resolve_path(q)
    IN  /\ Running /\ born + 2 < MaxBorn
        /\ resolve_fs(old).fs = "ramfs" /\ resolve_fs(new).fs = "ramfs"
        /\ LET r == Renamed(old, new) IN NewTable(r.table) /\ Answer(r)
        /\ UNCHANGED <<fd_table, cwd>>

-----------------------------------------------------------------------------
Writes == UNION {[1 .. n -> Bytes] : n \in 1 .. use.io}

Call ==
    \/ \E p \in UserPaths :
          \/ \E create \in BOOLEAN : sys_fs_open_path(p, create)
          \/ sys_fs_stat(p) \/ sys_fs_readdir(p) \/ sys_readlink(p) \/ sys_chmod(p)
          \/ \E x_ok \in BOOLEAN : sys_access(p, x_ok)
          \/ sys_chdir(p)
          \/ sys_fs_unlink(p) \/ sys_fs_mkdir(p) \/ sys_fs_rmdir(p)
          \/ \E target \in use.targets : sys_symlink(p, target)
          \/ \E q \in UserPaths : sys_fs_rename(p, q)
    \/ \E fd \in Fds :
          \/ \E len \in 1 .. use.io, n \in 0 .. MaxContent : sys_fs_read(fd, len, n, n)
          \/ \E bytes \in Writes : sys_fs_write(fd, bytes)
          \/ \E delta \in -1 .. 1, whence \in IF use.io = 0 THEN {} ELSE {"SET", "CUR", "END"}, n \in 0 .. MaxContent :
                sys_fs_seek(fd, delta, whence, n)
          \/ sys_fs_close_path(fd) \/ sys_fstat(fd) \/ sys_getdents64(fd)
          \/ \E new \in Fds : sys_dup2(fd, new)

FilesNext == Call /\ UNCHANGED use

FilesSpec == FilesInit /\ [][FilesNext]_files_vars

-----------------------------------------------------------------------------
(* Directories and slots agree through every sequence of calls: what a     *)
(* directory lists is in use under that name, listed once and by one       *)
(* directory, with no name twice; what no directory lists was made before  *)
(* the root had a slot, or was in a directory that unlink took away.       *)
TreeSound ==
    LET dirs == {i \in Slots : table[i].in_use /\ table[i].is_dir}
        entries == UNION {{<<d, k>> : k \in DOMAIN table[d].children} : d \in dirs}
        Entry(x) == table[x[1]].children[x[2]]
    IN  /\ \A x \in entries : table[Entry(x).slot].in_use /\ table[Entry(x).slot].name = Entry(x).name
        /\ \A x, y \in entries : x # y =>
              Entry(x).slot # Entry(y).slot /\ (x[1] = y[1] => Entry(x).name # Entry(y).name)
        /\ \A i \in Slots : table[i].in_use /\ table[i].name # RootName =>
              \/ \E x \in entries : Entry(x).slot = i
              \/ table[i].id \in early \cup orphans

(* A descriptor stays with the file it was opened on: the slot its inode   *)
(* names is that file's, unless the file was unlinked or renamed away (the *)
(* slot may then be another file's), and a descriptor of procfs reads the  *)
(* file its path names, except for the entries of an fd directory and for  *)
(* numbers as large as the distance of the inode ranges, which no task has.*)
DescriptorsFollowTheirFile ==
    \A fd \in Fds : fd_table[fd] # NoFd =>
        LET e == fd_table[fd]
            m == resolve_fs(e.path)
        IN  /\ e.id # 0 /\ e.id \notin removed => table[e.ino].id = e.id
            /\ (/\ m.fs = "proc" /\ Len(m.rel) = 2 /\ m.rel[1] \in DOMAIN PidOf /\ PidOf[m.rel[1]] < PidSpan
                /\ m.rel[2] \in DOMAIN PidFiles) =>
                  Decoded(e.ino) = [what |-> m.rel[2], pid |-> PidOf[m.rel[1]]]

Starts(s, prefix) == Len(prefix) <= Len(s) /\ SubSeq(s, 1, Len(prefix)) = prefix

(* A rename that answers ok carries the file over: the new name is bound   *)
(* to a file that starts with the bytes the old name had.  Not so where    *)
(* the new name is the last component of the old one (/d/a to /a): open    *)
(* takes whatever slot has the flat name a, which may be the entry of d    *)
(* that the call then unlinks.                                             *)
RenameCarries ==
    [][\A p, q \in UserPaths :
         LET old == resolve_path(p)
             new == resolve_path(q)
             from == find_file(table, old)
             to == find_file(table', new)
         IN  (/\ old # <<>> /\ new # <<>> /\ new # old /\ new # <<NameOf(old)>>
              /\ from # 0 /\ ret' = "ok" /\ sys_fs_rename(p, q)) =>
                to # 0 /\ Starts(table'[to].data, table[from].data)]_files_vars
=============================================================================
