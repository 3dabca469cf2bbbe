-------------------------------- MODULE Ramfs --------------------------------
(***************************************************************************)
(* The in-memory filesystem (fs/ramfs.rs): a table of slots, and the       *)
(* methods of RamFsVfs as functions from a table to a table and a result.  *)
(*                                                                         *)
(* A name is the sequence of components it is written with: open looks     *)
(* the whole relative path up as one flat name, while a directory's        *)
(* children have names of one component.  Slots are numbered from 1, which *)
(* makes a slot's number its inode number; 0 is the root's inode.  Modes   *)
(* are stored and never consulted, and no system call makes a FIFO here,   *)
(* so both are left out; so is RamFsVfs::create, which no call reaches.    *)
(***************************************************************************)
EXTENDS Integers, Sequences, FiniteSets

CONSTANTS
    MAX_FILES,       \* slots of the table
    MAX_FILE_SIZE    \* bytes of a file

ASSUME RamfsAssumption == MAX_FILES \in Nat \ {0} /\ MAX_FILE_SIZE \in Nat

Slots == 1 .. MAX_FILES
ROOT_INO == 0
RootName == <<".">>
NoLink == <<"none">>

(* RamFs::new: one entry of the table.  `id' is a history field, the       *)
(* number of the creation that filled the slot.                            *)
Unused == [name |-> <<>>, data |-> <<>>, in_use |-> FALSE, is_dir |-> FALSE,
           symlink_target |-> NoLink, children |-> <<>>, id |-> 0]

Ok(t, v) == [table |-> t, ok |-> TRUE, val |-> v, err |-> "none", panic |-> FALSE]
Err(t, e) == [table |-> t, ok |-> FALSE, val |-> 0, err |-> e, panic |-> FALSE]
Panic(t) == [table |-> t, ok |-> FALSE, val |-> 0, err |-> "panic", panic |-> TRUE]

Lowest(S) == IF S = {} THEN 0 ELSE CHOOSE i \in S : \A j \in S : i <= j
Smaller(a, b) == IF a <= b THEN a ELSE b

-----------------------------------------------------------------------------
(* Lookups in a table; 0 stands for None. *)

find_file(t, n) == Lowest({i \in Slots : t[i].in_use /\ t[i].name = n})

(* Fault: a slot that is being used passes for free. *)
find_free_slot_AnySlot(t) == Lowest({i \in Slots : ~t[i].in_use \/ t[i].name # RootName})

find_free_slot(t) == Lowest({i \in Slots : ~t[i].in_use})

get_root_dir_idx(t) == Lowest({i \in Slots : t[i].in_use /\ t[i].is_dir /\ t[i].name = RootName})

Listed(t, dir) == {t[dir].children[k] : k \in DOMAIN t[dir].children}

find_child(t, dir, n) ==
    IF ~t[dir].is_dir THEN 0
    ELSE LET hits == {k \in DOMAIN t[dir].children : t[dir].children[k].name = n}
         IN  IF hits = {} THEN 0 ELSE t[dir].children[Lowest(hits)].slot

-----------------------------------------------------------------------------
(* Updates of a table. *)

clear_slot(t, i) == [t EXCEPT ![i] = Unused]

init_slot(t, i, n, id) == [t EXCEPT ![i] = [Unused EXCEPT !.name = n, !.in_use = TRUE, !.id = id]]

(* children.push *)
AddChild(t, dir, i) ==
    [t EXCEPT ![dir].children = Append(@, [name |-> t[i].name, slot |-> i])]

(* children.retain: the entries that are not the slot's, in their order.   *)
Retained(list, i) ==
    LET kept[n \in 0 .. Len(list)] ==
          IF n = 0 THEN <<>>
          ELSE IF list[n].slot # i THEN Append(kept[n - 1], list[n]) ELSE kept[n - 1]
    IN  kept[Len(list)]
DropChild(t, dir, i) == [t EXCEPT ![dir].children = Retained(@, i)]

(* ensure_root_dir makes the root directory when it is first asked for,    *)
(* and panics when there is no slot for it.                                *)
ensure_root_dir(t, id) ==
    LET free == find_free_slot(t) IN
    IF get_root_dir_idx(t) # 0 THEN Ok(t, get_root_dir_idx(t))
    ELSE IF free = 0 THEN Panic(t)
    ELSE Ok([t EXCEPT ![free] = [Unused EXCEPT !.name = RootName, !.in_use = TRUE,
                                               !.is_dir = TRUE, !.id = id]], free)

Live(t, ino) == ino \in Slots /\ t[ino].in_use
LiveDir(t, ino) == Live(t, ino) /\ t[ino].is_dir

-----------------------------------------------------------------------------
(* open: the root, an existing name, or with CREATE a new slot, which the  *)
(* root lists if there is a root yet.  The calls never pass TRUNCATE.      *)
ram_open(t, n, create, id) ==
    LET free == find_free_slot(t)
        made == init_slot(t, free, n, id)
    IN  CASE n = <<>> -> LET r == ensure_root_dir(t, id)
                         IN  IF r.panic THEN r ELSE Ok(r.table, ROOT_INO)
          [] n # <<>> /\ find_file(t, n) # 0 -> Ok(t, find_file(t, n))
          [] n # <<>> /\ find_file(t, n) = 0 /\ ~create -> Err(t, "NotFound")
          [] n # <<>> /\ find_file(t, n) = 0 /\ create /\ free = 0 -> Err(t, "NoSpace")
          [] n # <<>> /\ find_file(t, n) = 0 /\ create /\ free # 0 ->
                Ok(IF get_root_dir_idx(made) = 0 THEN made
                   ELSE AddChild(made, get_root_dir_idx(made), free), free)

(* read: how many bytes from an offset. *)
ram_read(t, ino, offset, len) ==
    IF ino = ROOT_INO THEN Err(t, "NotSupported")
    ELSE IF ~Live(t, ino) THEN Err(t, "NotFound")
    ELSE IF offset >= Len(t[ino].data) THEN Ok(t, 0)
    ELSE Ok(t, Smaller(len, Len(t[ino].data) - offset))

(* The bytes that read copies. *)
BytesRead(t, ino, offset, len) ==
    LET r == ram_read(t, ino, offset, len)
    IN  IF r.ok THEN SubSeq(t[ino].data, offset + 1, offset + r.val) ELSE <<>>

(* The content after a write: extended with zeros, then overwritten. *)
Written(old, offset, bytes) ==
    LET end == offset + Len(bytes) IN
    [k \in 1 .. (IF end > Len(old) THEN end ELSE Len(old)) |->
        IF k > offset /\ k <= end THEN bytes[k - offset]
        ELSE IF k <= Len(old) THEN old[k] ELSE 0]

ram_write(t, ino, offset, bytes) ==
    IF ino = ROOT_INO THEN Err(t, "NotSupported")
    ELSE IF ~Live(t, ino) THEN Err(t, "NotFound")
    ELSE IF offset + Len(bytes) > MAX_FILE_SIZE THEN Err(t, "FileTooLarge")
    ELSE Ok([t EXCEPT ![ino].data = Written(@, offset, bytes)], Len(bytes))

(* stat: whether an inode is a directory, and its size. *)
ram_stat(t, ino) ==
    LET root == get_root_dir_idx(t)
        i == IF ino = ROOT_INO THEN root ELSE ino
        dir == ino = ROOT_INO \/ t[i].is_dir
        size == IF i = 0 THEN 0 ELSE IF dir THEN Len(t[i].children) ELSE Len(t[i].data)
    IN  IF ino # ROOT_INO /\ ~Live(t, ino) THEN Err(t, "NotFound")
        ELSE Ok(t, [is_dir |-> dir, size |-> size])

(* readdir, for the calls that have opened the directory: the names listed *)
(* whose slot is in use.  Opening the root made its slot.                  *)
ram_readdir(t, ino) ==
    LET i == IF ino = ROOT_INO THEN get_root_dir_idx(t) ELSE ino IN
    IF ino # ROOT_INO /\ ~LiveDir(t, ino) THEN Err(t, "NotFound")
    ELSE Ok(t, {c.name : c \in {d \in Listed(t, i) : t[d.slot].in_use}})

-----------------------------------------------------------------------------
(* The methods that take a parent inode and one component. *)

(* Resolving the parent of mkdir and symlink. *)
Parent(t, ino, id, otherwise) ==
    IF ino = ROOT_INO THEN ensure_root_dir(t, id)
    ELSE IF LiveDir(t, ino) THEN Ok(t, ino) ELSE Err(t, otherwise)

(* A new slot listed by a resolved parent. *)
AddUnder(t, dir, n, id, fields) ==
    LET free == find_free_slot(t)
        made == init_slot(t, free, n, id)
    IN  IF free = 0 THEN Err(t, "NoSpace")
        ELSE Ok(AddChild([made EXCEPT ![free].is_dir = fields.is_dir,
                                      ![free].symlink_target = fields.target], dir, free), free)

(* Fault: a name that the parent lists already is made again. *)
ram_mkdir_Twice(t, ino, n, id) ==
    LET p == Parent(t, ino, id, "NotADirectory") IN
    IF ~p.ok THEN p ELSE AddUnder(p.table, p.val, n, id, [is_dir |-> TRUE, target |-> NoLink])

ram_mkdir(t, ino, n, id) ==
    LET p == Parent(t, ino, id, "NotADirectory") IN
    IF ~p.ok THEN p
    ELSE IF find_child(p.table, p.val, n) # 0 THEN Err(p.table, "AlreadyExists")
    ELSE AddUnder(p.table, p.val, n, id, [is_dir |-> TRUE, target |-> NoLink])

(* symlink looks in the whole table for a name that is to go into the root.*)
ram_symlink(t, ino, n, target, id) ==
    LET p == Parent(t, ino, id, "NotFound") IN
    IF ino = ROOT_INO /\ find_file(t, n) # 0 THEN Err(t, "AlreadyExists")
    ELSE IF ~p.ok THEN p
    ELSE IF ino # ROOT_INO /\ find_child(t, ino, n) # 0 THEN Err(t, "AlreadyExists")
    ELSE AddUnder(p.table, p.val, n, id, [is_dir |-> FALSE, target |-> target])

ram_readlink(t, ino) ==
    IF ino = ROOT_INO THEN Err(t, "NotSupported")
    ELSE IF ~Live(t, ino) THEN Err(t, "NotFound")
    ELSE IF t[ino].symlink_target = NoLink THEN Err(t, "NotSupported")
    ELSE Ok(t, t[ino].symlink_target)

(* Unlinking through a directory that is there: the child goes, whatever   *)
(* it is.  The calls open the parent first, so the root has its slot and   *)
(* the branch for a table without a root is not reached.                   *)
ram_unlink(t, ino, n) ==
    LET dir == IF ino = ROOT_INO THEN get_root_dir_idx(t) ELSE ino
        child == find_child(t, dir, n)
    IN  IF ino # ROOT_INO /\ ~LiveDir(t, ino) THEN Err(t, "NotFound")
        ELSE IF child = 0 THEN Err(t, "NotFound")
        ELSE Ok(clear_slot(DropChild(t, dir, child), child), child)

ram_rmdir(t, ino, n) ==
    LET dir == IF ino = ROOT_INO THEN get_root_dir_idx(t) ELSE ino
        child == find_child(t, dir, n)
    IN  IF ino # ROOT_INO /\ ~LiveDir(t, ino) THEN Err(t, "NotADirectory")
        ELSE IF child = 0 THEN Err(t, "NotFound")
        ELSE IF ~t[child].is_dir THEN Err(t, "NotADirectory")
        ELSE IF t[child].children # <<>> THEN Err(t, "IoError")
        ELSE Ok(clear_slot(DropChild(t, dir, child), child), child)

=============================================================================
