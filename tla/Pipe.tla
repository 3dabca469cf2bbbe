-------------------------------- MODULE Pipe --------------------------------
(***************************************************************************)
(* Pipes (ipc/pipe.rs) behind the descriptor table of one task and the     *)
(* system calls that change them: pipe, fs_read, fs_write, readv, writev,  *)
(* dup2 and fs_close (syscall/mod.rs).                                     *)
(*                                                                         *)
(* A descriptor table is not inherited and a pipe's handles are told to    *)
(* nobody, so a pipe is used by the one task that made it, and its ends    *)
(* are dropped only when that task's handle table is emptied.  No          *)
(* filesystem implements FIFO buffers, so named pipes do not exist either. *)
(* The bytes of a pipe are numbered as they are written.  A regular file   *)
(* is a descriptor that takes a place in the table, and nothing more.      *)
(***************************************************************************)
EXTENDS Integers, Sequences, FiniteSets

CONSTANTS
    FD_LIMIT,    \* descriptors from FD_FIRST_USABLE up to here
    Capacity,    \* of a pipe's ring buffer
    MaxPipes,    \* bound: pipes created
    MaxBytes,    \* bound: bytes written into one pipe
    MaxLen       \* bound: bytes one buffer of a call asks for

FD_FIRST_USABLE == 2

ASSUME PipeAssumption ==
    /\ FD_LIMIT \in Nat /\ FD_LIMIT > FD_FIRST_USABLE
    /\ Capacity \in Nat \ {0} /\ MaxPipes \in Nat /\ MaxBytes \in Nat /\ MaxLen \in Nat

Fds == FD_FIRST_USABLE .. FD_LIMIT    \* the keys the code can create
Pipes == 1 .. MaxPipes
NoEntry == <<"none", 0>>
Entry == {<<"file", 0>>} \cup ({"r", "w"} \X Pipes)   \* FdEntry: path, ino

VARIABLES
    fd_table,    \* fd_table[fd]: an Entry or NoEntry
    pipes_made,        \* pipes created so far
    buffer,      \* buffer[p]: the numbers of the bytes in the ring buffer
    open,        \* open[p]: which of reader_open and writer_open hold
    written,     \* history: bytes accepted by pipe p
    delivered,   \* history: bytes whose arrival a call reported
    unreported,  \* history: bytes taken out by calls that answered an error
    panicked

pipe_vars == <<fd_table, pipes_made, buffer, open, written, delivered, unreported, panicked>>
streams == <<buffer, written, delivered, unreported>>

PipeInit ==
    /\ fd_table = [fd \in Fds |-> NoEntry]
    /\ pipes_made = 0
    /\ buffer = [p \in Pipes |-> <<>>]
    /\ open = [p \in Pipes |-> {}]
    /\ written = [p \in Pipes |-> 0]
    /\ delivered = [p \in Pipes |-> <<>>]
    /\ unreported = [p \in Pipes |-> 0]
    /\ panicked = FALSE

Min2(a, b) == IF a <= b THEN a ELSE b
IsEnd(fd, kind) == fd_table[fd][1] = kind
PipeOf(fd) == fd_table[fd][2]

(* The kernel runs, and so does the task: it has not emptied its table.   *)
Running == ~panicked /\ (pipes_made > 0 => open[pipes_made] # {})

-----------------------------------------------------------------------------
(* The loop `while fd_table.contains_key(&fd)': the first free number from *)
(* `from' on, and None when the limit comes first.  The limit is tested    *)
(* after a step only, never on `from' itself.                              *)
FreeFrom(from) ==
    LET free == {fd \in from .. FD_LIMIT - 1 : fd_table[fd] = NoEntry}
    IN  IF from = FD_LIMIT /\ fd_table[from] = NoEntry THEN {from}
        ELSE {fd \in free : \A g \in free : fd <= g}

(* sys_fs_open of a regular file. *)
sys_fs_open ==
    /\ Running
    /\ \E fd \in FreeFrom(FD_FIRST_USABLE) : fd_table' = [fd_table EXCEPT ![fd] = <<"file", 0>>]
    /\ UNCHANGED <<pipes_made, streams, open, panicked>>

(* sys_pipe: both ends are made, then the two descriptors; a missing second*)
(* one answers OutOfMemory and leaves the first in the table.              *)
sys_pipe ==
    /\ Running
    /\ pipes_made < MaxPipes
    /\ pipes_made' = pipes_made + 1
    /\ open' = [open EXCEPT ![pipes_made + 1] = {"r", "w"}]
    /\ LET p == pipes_made + 1
           r == FreeFrom(FD_FIRST_USABLE)
           w == UNION {FreeFrom(fd + 1) : fd \in r}
       IN  fd_table' = [fd \in Fds |-> IF fd \in r THEN <<"r", p>>
                                       ELSE IF fd \in w THEN <<"w", p>> ELSE fd_table[fd]]
    /\ UNCHANGED <<streams, panicked>>

-----------------------------------------------------------------------------

(* PipeWriter::write: the bytes accepted of a request of len. *)
write(p, len) == Min2(len, Capacity - Len(buffer[p]))

(* The pipe after n more bytes. *)
Accepts(p, n) ==
    /\ buffer' = [buffer EXCEPT ![p] = @ \o [i \in 1 .. n |-> written[p] + i]]
    /\ written' = [written EXCEPT ![p] = @ + n]
    /\ UNCHANGED <<fd_table, pipes_made, open, delivered, unreported, panicked>>

sys_fs_write(fd, len) ==
    /\ Running
    /\ IsEnd(fd, "w")
    /\ written[PipeOf(fd)] + len <= MaxBytes
    /\ Accepts(PipeOf(fd), write(PipeOf(fd), len))

(* sys_writev of two buffers: the second is tried only when the first went *)
(* in whole, and skipped when its pointer is bad.                          *)
sys_writev(fd, len1, len2, bad2) ==
    /\ Running
    /\ IsEnd(fd, "w")
    /\ written[PipeOf(fd)] + len1 + len2 <= MaxBytes
    /\ LET p == PipeOf(fd)
           n == write(p, len1)
       IN  Accepts(p, IF n < len1 \/ bad2 THEN n
                      ELSE n + Min2(len2, Capacity - Len(buffer[p]) - n))

(* Fault: the bytes stay in the buffer. *)
Takes_Kept(p, n, told) ==
    /\ buffer' = buffer
    /\ delivered' = [delivered EXCEPT ![p] = IF told THEN @ \o SubSeq(buffer[p], 1, n) ELSE @]
    /\ unreported' = [unreported EXCEPT ![p] = IF told THEN @ ELSE @ + n]
    /\ UNCHANGED <<fd_table, pipes_made, open, written, panicked>>

(* PipeReader::read: n bytes leave the buffer; the caller is told of them, *)
(* or gets an error.                                                       *)
Takes(p, n, told) ==
    /\ buffer' = [buffer EXCEPT ![p] = SubSeq(@, n + 1, Len(@))]
    /\ delivered' = [delivered EXCEPT ![p] = IF told THEN @ \o SubSeq(buffer[p], 1, n) ELSE @]
    /\ unreported' = [unreported EXCEPT ![p] = IF told THEN @ ELSE @ + n]
    /\ UNCHANGED <<fd_table, pipes_made, open, written, panicked>>

(* The number of bytes PipeReader::read returns. *)
read(p, len) == Min2(len, Len(buffer[p]))

(* sys_fs_read: copy_to_user comes after the bytes were taken. *)
sys_fs_read(fd, len, bad) ==
    /\ Running
    /\ IsEnd(fd, "r")
    /\ LET n == read(PipeOf(fd), len)
       IN  Takes(PipeOf(fd), n, n = 0 \/ ~bad)

(* sys_readv of two buffers: a bad second pointer turns the answer into an *)
(* error although the first buffer was filled.                             *)
sys_readv(fd, len1, len2, bad2) ==
    /\ Running
    /\ IsEnd(fd, "r")
    /\ LET p == PipeOf(fd)
           n == read(p, len1)
           second == n = len1 /\ len2 > 0
       IN  IF second /\ bad2 THEN Takes(p, n, n = 0)
           ELSE Takes(p, IF second THEN read(p, len1 + len2) ELSE n, TRUE)

-----------------------------------------------------------------------------
(* sys_dup2 (and dup3): whatever new stood for is dropped from the table.  *)
sys_dup2(old, new) ==
    /\ Running
    /\ old < FD_LIMIT /\ new < FD_LIMIT /\ old # new
    /\ fd_table[old] # NoEntry
    /\ fd_table' = [fd_table EXCEPT ![new] = fd_table[old]]
    /\ UNCHANGED <<pipes_made, streams, open, panicked>>

(* sys_fs_close: the entry goes, then its path is resolved.  A pipe's path *)
(* begins with `<', no mount point does, and resolve_fs panics.            *)
sys_fs_close(fd) ==
    /\ Running
    /\ fd_table[fd] # NoEntry
    /\ fd_table' = [fd_table EXCEPT ![fd] = NoEntry]
    /\ panicked' = (fd_table[fd][1] # "file")
    /\ UNCHANGED <<pipes_made, streams, open>>

(* The task's handle table is emptied: PipeReader::drop, PipeWriter::drop. *)
fd_close_all ==
    /\ Running
    /\ \E p \in Pipes : open[p] # {}
    /\ open' = [p \in Pipes |-> {}]
    /\ fd_table' = [fd \in Fds |-> NoEntry]
    /\ UNCHANGED <<pipes_made, streams, panicked>>

PipeNext ==
    \/ sys_fs_open
    \/ sys_pipe
    \/ \E fd \in Fds, len \in 0 .. MaxLen : sys_fs_write(fd, len)
    \/ \E fd \in Fds, l1, l2 \in 0 .. MaxLen, bad \in BOOLEAN : sys_writev(fd, l1, l2, bad)
    \/ \E fd \in Fds, len \in 0 .. MaxLen, bad \in BOOLEAN : sys_fs_read(fd, len, bad)
    \/ \E fd \in Fds, l1, l2 \in 0 .. MaxLen, bad \in BOOLEAN : sys_readv(fd, l1, l2, bad)
    \/ \E old, new \in Fds : sys_dup2(old, new)
    \/ \E fd \in Fds : sys_fs_close(fd)
    \/ fd_close_all

PipeSpec == PipeInit /\ [][PipeNext]_pipe_vars

-----------------------------------------------------------------------------
(* A buffer never holds more than its capacity and no descriptor names a   *)
(* pipe that was never made.                                               *)
PipeTypeOK ==
    /\ fd_table \in [Fds -> Entry \cup {NoEntry}]
    /\ \A fd \in Fds : PipeOf(fd) <= pipes_made
    /\ pipes_made \in 0 .. MaxPipes
    /\ buffer \in [Pipes -> Seq(1 .. MaxBytes)]
    /\ \A p \in Pipes : Len(buffer[p]) <= Capacity
    /\ open \in [Pipes -> SUBSET {"r", "w"}]
    /\ written \in [Pipes -> 0 .. MaxBytes]
    /\ delivered \in [Pipes -> Seq(1 .. MaxBytes)]
    /\ unreported \in [Pipes -> 0 .. MaxBytes]
    /\ panicked \in BOOLEAN

Increasing(s) == \A i \in 1 .. Len(s) - 1 : s[i] < s[i + 1]

(* A pipe is a stream: through partial writes, vectors and short reads the *)
(* bytes arrive in the order they were written, none twice, and the only   *)
(* ones missing left the buffer in a call that answered an error.          *)
BytesInOrder ==
    \A p \in Pipes :
        LET s == delivered[p] \o buffer[p]
        IN  /\ Increasing(s)
            /\ Len(s) + unreported[p] = written[p]
            /\ buffer[p] # <<>> => buffer[p][Len(buffer[p])] = written[p]

(* The pipes at any time: descriptors and buffers within their bounds and  *)
(* every stream in order.                                                  *)
PipesSound == PipeTypeOK /\ BytesInOrder
=============================================================================
