----------------------------- MODULE TaskCalls ------------------------------
(* The system calls that keep something per task (groups and sessions, mask,  *)
(* environment, sockets and their options) and the vectored reads            *)
(* and writes, which move several buffers in one call and stop half way when   *)
(* a buffer is bad or the source or the sink runs short.                      *)
EXTENDS Integers, Sequences, FiniteSets

CONSTANTS
    CallTasks,      \* the tasks that make calls, 1..n
    EnvKeys, EnvValues,
    FirstSock,      \* NEXT_SOCK_FD at the start
    MaxSocks,       \* bound: sockets made in a behaviour
    FileData,       \* what the file holds when it is opened
    PipeCapacity,
    IoVecs          \* the vectors a program passes: [addr, len] records

IoVecType == [addr : {"ok", "bad"}, len : Nat]
ASSUME TcAssumption ==
    /\ FileData \in Seq(Nat) /\ PipeCapacity \in Nat /\ IoVecs \subseteq Seq(IoVecType)

VARIABLES
    tc_use,         \* "attributes", "sockets" or "vector"
    attr,           \* per task: pgid, sid, umask, env (a key without a value is "unset")
    told,           \* what each task was last told or set itself: history
    sockets,        \* fd -> owner, port and options
    file, offset,   \* the open file and the offset of its descriptor
    queue,          \* the bytes of the pipe
    moved           \* what calls reported: file bytes read, pipe stream written and read

attr_vars == <<attr, told, sockets>>
vector_vars == <<file, offset, queue, moved>>
tc_vars == <<tc_use, attr_vars, vector_vars>>

DefaultOptions == [SO_REUSEADDR |-> 0, TCP_NODELAY |-> 0, SO_RCVBUF |-> 8192, SO_SNDBUF |-> 8192]
Fresh(t) == [pgid |-> t, sid |-> t, umask |-> 18, env |-> [k \in EnvKeys |-> "unset"]]
TcInit ==
    /\ tc_use \in {"attributes", "sockets", "vector"}
    /\ attr = [t \in CallTasks |-> Fresh(t)] /\ told = attr /\ sockets = <<>>
    /\ file = FileData /\ offset = 0 /\ queue = <<>>
    /\ moved = [read |-> <<>>, put |-> <<>>, got |-> <<>>, lost |-> FALSE]

(* ------------------------------------------------- what belongs to a task *)
\* pid 0 is the caller, pgid 0 the target's own id; no check of the session.
\* Fault: pgid 0 stands for the caller's id, whatever the target.
sys_setpgid_Caller(t, pid, pgid) ==
    LET target == IF pid = 0 THEN t ELSE pid
        new == IF pgid = 0 THEN t ELSE pgid
    IN /\ target \in CallTasks
       /\ attr' = [attr EXCEPT ![target].pgid = new]
       /\ told' = [told EXCEPT ![target].pgid = IF pgid = 0 THEN target ELSE pgid]
       /\ UNCHANGED sockets
sys_setpgid(t, pid, pgid) ==
    LET target == IF pid = 0 THEN t ELSE pid
        new == IF pgid = 0 THEN target ELSE pgid
    IN /\ target \in CallTasks
       /\ attr' = [attr EXCEPT ![target].pgid = new]
       /\ told' = [told EXCEPT ![target].pgid = IF pgid = 0 THEN target ELSE pgid]
       /\ UNCHANGED sockets
sys_getpgid(pid, t) == attr[IF pid = 0 THEN t ELSE pid].pgid
sys_setsid(t) ==
    /\ attr' = [attr EXCEPT ![t].sid = t, ![t].pgid = t]
    /\ told' = [told EXCEPT ![t].sid = t, ![t].pgid = t] /\ UNCHANGED sockets
sys_umask(t, mask) ==
    /\ attr' = [attr EXCEPT ![t].umask = mask % 512]
    /\ told' = [told EXCEPT ![t].umask = mask % 512] /\ UNCHANGED sockets
sys_env_set(t, key, value) ==
    /\ attr' = [attr EXCEPT ![t].env[key] = value]
    /\ told' = [told EXCEPT ![t].env[key] = value] /\ UNCHANGED sockets
sys_env_get(t, key) == attr[t].env[key]

(* ------------------------------------------------------ sockets' options *)
\* Descriptors of sockets come from one counter of the whole system.
sys_socket(t) ==
    /\ Cardinality(DOMAIN sockets) < MaxSocks
    /\ LET fd == FirstSock + Cardinality(DOMAIN sockets)
           new == [owner |-> t, port |-> 0, options |-> DefaultOptions]
       IN sockets' = [s \in DOMAIN sockets \cup {fd} |-> IF s = fd THEN new ELSE sockets[s]]
    /\ UNCHANGED <<attr, told>>
Owns(t, fd) == fd \in DOMAIN sockets /\ sockets[fd].owner = t
sys_bind(t, fd, port) ==
    /\ Owns(t, fd) /\ sockets' = [sockets EXCEPT ![fd].port = port] /\ UNCHANGED <<attr, told>>
Flags == {"SO_REUSEADDR", "TCP_NODELAY"}
sys_setsockopt(t, fd, opt, value) ==
    /\ Owns(t, fd) /\ opt \in DOMAIN DefaultOptions
    /\ sockets' = [sockets EXCEPT ![fd].options[opt] =
                      IF opt \in Flags THEN (IF value # 0 THEN 1 ELSE 0) ELSE value]
    /\ UNCHANGED <<attr, told>>
sys_getsockopt(fd, opt) == sockets[fd].options[opt]

(* -------------------------------------------------- vectored reads, writes *)
\* One turn of the loop of sys_readv over [source, at]: an empty buffer is passed
\* over, a bad one ends the call with an error, a short read ends it.
Least(a, b) == IF a < b THEN a ELSE b
ReadStep(s, iov) ==
    IF s.done \/ iov.len = 0 THEN s
    ELSE IF iov.addr = "bad" THEN [s EXCEPT !.done = TRUE, !.failed = TRUE]
    ELSE LET n == Least(iov.len, Len(s.source) - s.at) IN
         [s EXCEPT !.out = @ \o SubSeq(s.source, s.at + 1, s.at + n), !.at = @ + n, !.done = n < iov.len]
ReadTurns(source, at, iovs) ==
    LET turn[n \in 0 .. Len(iovs)] ==
            IF n = 0 THEN [source |-> source, at |-> at, out |-> <<>>, done |-> FALSE, failed |-> FALSE]
            ELSE ReadStep(turn[n - 1], iovs[n])
    IN  turn
ReadAll(source, at, iovs) == ReadTurns(source, at, iovs)[Len(iovs)]
sys_readv_file(iovs) ==
    LET r == ReadAll(file, offset, iovs)
    IN /\ offset' = IF r.failed THEN offset ELSE r.at
       /\ moved' = IF r.failed THEN moved ELSE [moved EXCEPT !.read = @ \o r.out]
       /\ UNCHANGED <<file, queue>>
\* A pipe: what a failed call took before the bad buffer is gone.
sys_readv_pipe(iovs) ==
    LET r == ReadAll(queue, 0, iovs)
    IN /\ queue' = SubSeq(queue, r.at + 1, Len(queue))
       /\ moved' = IF r.failed THEN [moved EXCEPT !.lost = @ \/ r.out # <<>>]
                   ELSE [moved EXCEPT !.got = @ \o r.out]
       /\ UNCHANGED <<file, offset>>
\* A bad buffer after the first bytes ends a write with what was written.
WriteStep(s, iov) ==
    IF s.done \/ iov.len = 0 THEN s
    ELSE IF iov.addr = "bad" THEN [s EXCEPT !.done = TRUE]
    ELSE LET n == Least(iov.len, s.room) IN
         [s EXCEPT !.out = @ \o [i \in 1..n |-> s.next + Len(s.out) + i], !.room = @ - n, !.done = n < iov.len]
WriteTurns(room, next, iovs) ==
    LET turn[n \in 0 .. Len(iovs)] ==
            IF n = 0 THEN [room |-> room, next |-> next, out |-> <<>>, done |-> FALSE]
            ELSE WriteStep(turn[n - 1], iovs[n])
    IN  turn
sys_writev_pipe(iovs) ==
    LET w == WriteTurns(PipeCapacity - Len(queue), Len(moved.put), iovs)[Len(iovs)]
    IN /\ queue' = queue \o w.out
       /\ moved' = [moved EXCEPT !.put = @ \o w.out] /\ UNCHANGED <<file, offset>>

AttributeStep ==
    /\ tc_use = "attributes" /\ UNCHANGED <<tc_use, vector_vars>>
    /\ \E t \in CallTasks :
         \/ \E pid \in CallTasks \cup {0}, pgid \in CallTasks \cup {0} : sys_setpgid(t, pid, pgid)
         \/ sys_setsid(t) \/ (\E m \in {18, 531} : sys_umask(t, m))
         \/ \E k \in EnvKeys, v \in EnvValues : sys_env_set(t, k, v)
SocketStep ==
    /\ tc_use = "sockets" /\ UNCHANGED <<tc_use, vector_vars>>
    /\ \E t \in CallTasks :
         \/ sys_socket(t)
         \/ \E fd \in FirstSock..(FirstSock + MaxSocks) :
              \/ \E port \in {80} : sys_bind(t, fd, port)
              \/ \E opt \in DOMAIN DefaultOptions, v \in {0, 4096} : sys_setsockopt(t, fd, opt, v)
VectorStep ==
    /\ tc_use = "vector" /\ UNCHANGED <<tc_use, attr_vars>>
    /\ \E iovs \in IoVecs : sys_readv_file(iovs) \/ sys_readv_pipe(iovs)
         \/ (Len(moved.put) < 2 * PipeCapacity /\ sys_writev_pipe(iovs))
TcNext == AttributeStep \/ SocketStep \/ VectorStep

TcSpec == TcInit /\ [][TcNext]_tc_vars

(* ------------------------------------------------------------ properties *)
\* What a task reads back is what was last set for it, whatever other tasks do
\* in between: calls change the caller, and setpgid its target.
AttributesTheirOwn ==
    \A t \in CallTasks :
        /\ attr[t] = told[t] /\ sys_getpgid(t, 0) = told[t].pgid
        /\ \A k \in EnvKeys : sys_env_get(t, k) = told[t].env[k]

\* The bytes that vectored reads report are the file from its start, in order
\* and without a gap, and the offset is where they end; and a pipe gives what
\* was put into it in order, unless a read failed after it had taken bytes.
VectoredInOrder ==
    /\ moved.read = SubSeq(FileData, 1, offset)
    /\ ~moved.lost => moved.got \o queue = moved.put

\* The calls on a task's attributes and on vectors of buffers do what they report.
TaskCallsSound == AttributesTheirOwn /\ VectoredInOrder
=============================================================================
