--------------------------- MODULE MachineProofs ----------------------------
(***************************************************************************)
(* Theorems about the parts of the machine: signals and poll, the system   *)
(* call stub, the interrupt-safe mutex, the start of the application       *)
(* processors and the locks of the thread library, for any tasks, signals, *)
(* processors, locks and threads.                                          *)
(***************************************************************************)
EXTENDS Input, Smp, Signals, SyscallEntry, Pthreads, ProofLemmas, FiniteSetTheorems, SequenceTheorems, TLAPS

-----------------------------------------------------------------------------
(* Signals.  Beside the property itself the invariant says what a set of   *)
(* signals holds, so that the lowest of them is one of them.               *)
SignalsInv ==
    /\ pending \in [SigTasks -> SUBSET Signums] /\ sent \in [SigTasks -> SUBSET Signums]
    /\ handlers \in [SigTasks -> [Signums -> Handlers]]
    /\ SignalsKept

LEMMA SignalsStart == SignalsInit => SignalsInv /\ PollTruthful
<1>1. SignalsInit => SignalsInv
  BY SignalsAssumption DEF SignalsInit, SignalsInv, SignalsKept, Handlers
<1>2. SignalsInit => PollTruthful
  BY DEF SignalsInit, PollTruthful
<1>3. QED BY <1>1, <1>2

(* sys_kill and sys_tgkill. *)
LEMMA KillKeeps ==
    ASSUME SignalsInv, NEW t \in SigTasks, NEW n \in Signums \cup {BadSignum}, sys_kill(t, n)
    PROVE  SignalsInv'
<1>1. n \in Signums
  BY DEF sys_kill
<1>2. /\ pending' = [pending EXCEPT ![t] = pending[t] \cup {n}] /\ sent' = [sent EXCEPT ![t] = sent[t] \cup {n}]
      /\ handlers' = handlers
  BY DEF sys_kill, send_signal
<1>3. QED BY <1>1, <1>2 DEF SignalsInv, SignalsKept

LEMMA HandlerKeeps ==
    ASSUME SignalsInv, NEW t \in SigTasks, NEW n \in Signums, n # SIGKILL, NEW h \in Handlers,
           pending' = pending, sent' = sent, handlers' = [handlers EXCEPT ![t][n] = h]
    PROVE  SignalsInv'
<1>1. handlers' \in [SigTasks -> [Signums -> Handlers]]
  BY DEF SignalsInv
<1>2. \A u \in SigTasks : handlers'[u][SIGKILL] = handlers[u][SIGKILL]
  BY SignalsAssumption DEF SignalsInv
<1>3. QED BY <1>1, <1>2 DEF SignalsInv, SignalsKept

LEMMA TakeKeeps ==
    ASSUME SignalsInv, NEW t \in SigTasks, next_pending(t)
    PROVE  SignalsInv'
<1> DEFINE S == pending[t] \ blocked[t]
           n == CHOOSE n \in S : \A u \in S : n <= u
<1>1. /\ pending' = [pending EXCEPT ![t] = pending[t] \ {n}] /\ sent' = [sent EXCEPT ![t] = sent[t] \ {n}]
      /\ handlers' = handlers
  BY DEF next_pending
<1> HIDE DEF n
<1>2. QED BY <1>1 DEF SignalsInv, SignalsKept

LEMMA SignalsStep == SignalsInv /\ [SignalStep \/ PollStep]_signals_vars => SignalsInv'
<1>1. SUFFICES ASSUME SignalsInv, [SignalStep \/ PollStep]_signals_vars PROVE SignalsInv'
  OBVIOUS
<1>2. CASE UNCHANGED <<pending, handlers, sent>>
  BY <1>1, <1>2 DEF SignalsInv, SignalsKept
<1>3. CASE PollStep
  <2>1. UNCHANGED <<pending, handlers, sent>>
    BY <1>3 DEF PollStep, sys_poll, poll_turn, EndChanges, SignalsTick, sig_vars
  <2>2. QED BY <2>1, <1>2
<1>4. ASSUME NEW t \in SigTasks, NEW n \in Signums \cup {BadSignum},
             sys_kill(t, n) \/ \E g \in SigTasks \cup {NoTask} : sys_tgkill(g, t, n)
      PROVE  SignalsInv'
  BY <1>1, <1>4, KillKeeps DEF sys_tgkill
<1>5. ASSUME NEW t \in SigTasks, NEW n \in Signums \cup {BadSignum}, NEW h \in Handlers,
             sys_signal(t, n, h) \/ \E act, oact \in {"null", "ok", "bad"} : sys_rt_sigaction(t, n, h, act, oact)
      PROVE  SignalsInv'
  <2>1. /\ n \in Signums /\ n # SIGKILL /\ pending' = pending /\ sent' = sent
        /\ handlers' = handlers \/ handlers' = [handlers EXCEPT ![t][n] = h]
    BY <1>5 DEF sys_signal, sys_rt_sigaction
  <2>2. CASE handlers' = handlers
    BY <1>2, <2>1, <2>2
  <2>3. CASE handlers' = [handlers EXCEPT ![t][n] = h]
    BY <1>1, <2>1, <2>3, HandlerKeeps
  <2>4. QED BY <2>1, <2>2, <2>3
<1>6. ASSUME NEW t \in SigTasks, next_pending(t) PROVE SignalsInv'
  BY <1>1, <1>6, TakeKeeps
<1>7. ASSUME NEW t \in SigTasks, \E how, mask : sys_sigprocmask(t, how, mask) PROVE SignalsInv'
  <2>1. UNCHANGED <<pending, handlers, sent>>
    BY <1>7 DEF sys_sigprocmask
  <2>2. QED BY <2>1, <1>2
<1>8. CASE UNCHANGED signals_vars
  BY <1>2, <1>8 DEF signals_vars, sig_vars
<1>9. QED BY <1>1, <1>3, <1>4, <1>5, <1>6, <1>7, <1>8 DEF SignalStep

(* What one turn of poll answers of a descriptor. *)
LEMMA ReventsTruthful ==
    ASSUME NEW fd \in Fds, NEW ev, NEW state
    PROVE  /\ Revents(fd, ev, state) \subseteq ev \cup {"POLLERR"}
           /\ fd = "pipe_r" /\ state[fd] = "data" /\ "POLLIN" \in ev => "POLLIN" \in Revents(fd, ev, state)
           /\ fd = "socket" /\ state[fd] \in {"connected", "listening"} /\ "POLLIN" \in ev =>
                 "POLLIN" \in Revents(fd, ev, state)
<1>1. CASE fd = "file"
  BY <1>1 DEF Revents
<1>2. CASE fd = "pipe_r"
  BY <1>2 DEF Revents
<1>3. CASE fd = "pipe_w"
  BY <1>3 DEF Revents
<1>4. CASE fd = "closed"
  BY <1>4 DEF Revents
<1>5. CASE fd = "socket"
  BY <1>5 DEF Revents
<1>6. QED BY <1>1, <1>2, <1>3, <1>4, <1>5 DEF Fds

(* A poll in progress asks for input on each of its descriptors. *)
PollAsks ==
    poll # NoTask => /\ DOMAIN poll.events \subseteq Fds
                     /\ \A fd \in DOMAIN poll.events : "POLLIN" \in poll.events[fd]

LEMMA TurnTruthful ==
    ASSUME PollAsks, poll_turn
    PROVE  PollTruthful'
<1> DEFINE ev == poll.events
           revents == ScanAll(ev, ends)
           shown == [fd \in DOMAIN revents |-> ends[fd]]
           late == poll.timeout # Forever /\ now - poll.start >= poll.timeout
<1>1. DOMAIN revents = DOMAIN ev /\ \A fd \in DOMAIN ev : revents[fd] = Revents(fd, ev[fd], ends) /\ shown[fd] = ends[fd]
  BY DEF ScanAll
<1>2. DOMAIN ev \subseteq Fds /\ \A fd \in DOMAIN ev : "POLLIN" \in ev[fd]
  BY DEF PollAsks, poll_turn
<1>3. /\ late \/ \E fd \in DOMAIN revents : revents[fd] # {}
      /\ answer' = [revents |-> revents, seen |-> shown, events |-> ev, late |-> late]
  BY DEF poll_turn
<1> HIDE DEF revents, ev, shown, late
<1>4. answer'.revents = revents /\ answer'.seen = shown /\ answer'.events = ev /\ answer'.late = late
  BY <1>3
<1>5. \A fd \in DOMAIN revents : revents[fd] \subseteq ev[fd] \cup {"POLLERR"}
  BY <1>1, <1>2, ReventsTruthful
<1>6. (\A fd \in DOMAIN revents : revents[fd] = {}) => late
  BY <1>3
<1>7. "pipe_r" \in DOMAIN revents /\ shown["pipe_r"] = "data" => "POLLIN" \in revents["pipe_r"]
  BY <1>1, <1>2, ReventsTruthful
<1>8. "socket" \in DOMAIN revents /\ shown["socket"] \in {"connected", "listening"} => "POLLIN" \in revents["socket"]
  BY <1>1, <1>2, ReventsTruthful
<1>9. QED BY <1>4, <1>5, <1>6, <1>7, <1>8 DEF PollTruthful

LEMMA PollsStep ==
    PollAsks /\ PollTruthful /\ [SignalStep \/ PollStep]_signals_vars => PollAsks' /\ PollTruthful'
<1>1. SUFFICES ASSUME PollAsks, PollTruthful, [SignalStep \/ PollStep]_signals_vars
               PROVE  PollAsks' /\ PollTruthful'
  OBVIOUS
<1>2. CASE UNCHANGED <<poll, answer>>
  BY <1>1, <1>2 DEF PollAsks, PollTruthful
<1>3. CASE SignalStep \/ UNCHANGED signals_vars
  <2>1. UNCHANGED <<poll, answer>>
    BY <1>3 DEF SignalStep, sys_kill, sys_tgkill, sys_signal, sys_rt_sigaction, sys_sigprocmask, next_pending,
                signals_vars, poll_vars
  <2>2. QED BY <2>1, <1>2
<1>4. CASE EndChanges \/ SignalsTick
  BY <1>2, <1>4 DEF EndChanges, SignalsTick, poll_vars
<1>5. CASE poll_turn
  <2>1. PollAsks'
    BY <1>5 DEF poll_turn, PollAsks
  <2>2. QED BY <1>1, <1>5, <2>1, TurnTruthful
<1>6. ASSUME NEW ev \in Polling, NEW timeout \in Timeouts, sys_poll(ev, timeout)
      PROVE  PollAsks' /\ PollTruthful'
  <2>1. poll'.events = ev /\ answer' = <<>>
    BY <1>6 DEF sys_poll
  <2>2. PICK f \in Fds, e \in {{"POLLIN"}, {"POLLIN", "POLLOUT"}} : ev = [fd \in {f} |-> e]
    BY DEF Polling
  <2>3. DOMAIN ev \subseteq Fds /\ \A fd \in DOMAIN ev : "POLLIN" \in ev[fd]
    BY <2>2
  <2>4. QED BY <2>1, <2>3 DEF PollAsks, PollTruthful
<1>7. QED BY <1>1, <1>3, <1>4, <1>5, <1>6 DEF PollStep

(* Signals and poll (signal.rs, syscall/mod.rs): for any tasks, signal     *)
(* numbers and timeouts, a signal that was sent is pending until it is     *)
(* taken and no other is taken for it, SIGKILL keeps its action, and poll  *)
(* answers what was asked, all that is readable, and nothing only when it  *)
(* is late.                                                                *)
THEOREM SignalsAreSound == SignalsSpec => []SignalsSound
<1>1. SignalsInit => SignalsInv /\ PollAsks /\ PollTruthful
  <2>1. SignalsInit => PollAsks
    BY DEF SignalsInit, PollAsks
  <2>2. QED BY <2>1, SignalsStart
<1>2. /\ SignalsInv /\ PollAsks /\ PollTruthful
      /\ [SignalStep \/ PollStep]_signals_vars
      => (SignalsInv /\ PollAsks /\ PollTruthful)'
  BY SignalsStep, PollsStep
<1>3. SignalsInv /\ PollAsks /\ PollTruthful => SignalsSound
  BY DEF SignalsInv, SignalsSound
<1>4. QED BY <1>1, <1>2, <1>3, PTL DEF SignalsSpec
-----------------------------------------------------------------------------
(* The stub: while a call is handled the frame is the one that was pushed, *)
(* and the registers that were pushed are still those of the caller.       *)
FrameHolds == in_call => frame = Frame(cpu)

LEMMA FrameStart == EntryInit => FrameHolds
  BY DEF EntryInit, FrameHolds

LEMMA FrameStep == FrameHolds /\ [EntryNext]_entry_vars => FrameHolds'
<1>1. SUFFICES ASSUME FrameHolds, [EntryNext]_entry_vars PROVE FrameHolds'
  OBVIOUS
<1>2. CASE UNCHANGED <<cpu, in_call, frame>>
  BY <1>1, <1>2 DEF FrameHolds
<1>3. CASE syscall_entry
  BY <1>3 DEF syscall_entry, FrameHolds
<1>4. CASE return_fast \/ return_switch \/ Compute
  BY <1>4 DEF return_fast, return_switch, Compute, FrameHolds
<1>5. CASE entry_user_fault_halt \/ (\E u \in EntryTasks : entry_block_and_switch(u)) \/ UNCHANGED entry_vars
  BY <1>2, <1>5 DEF entry_user_fault_halt, entry_block_and_switch, entry_vars
<1>6. QED BY <1>1, <1>3, <1>4, <1>5 DEF EntryNext

(* The words above the argument registers are the ones that are popped. *)
LEMMA FrameWords ==
    ASSUME NEW c
    PROVE  \A i \in 1 .. 8 : Frame(c)[8 + i] = c[Popped[i]]
<1> DEFINE w == [i \in DOMAIN Pushes |-> IF Pushes[i] \in {"is_kernel", "cr3"} THEN Zero ELSE c[Pushes[i]]]
           r == Reverse(w)
           W == {w[i] : i \in 1 .. 16} \cup {Word("stack")}
<1>1. DOMAIN Pushes = 1 .. 16
  BY DEF Pushes
<1>2. w \in [1 .. 16 -> W] /\ Len(w) = 16
  BY <1>1
<1>3. r \in [1 .. 16 -> W] /\ \A j \in 1 .. 16 : r[j] = w[(16 - j) + 1]
  <2> HIDE DEF w, W
  <2>1. r = [j \in 1 .. 16 |-> w[(16 - j) + 1]]
    BY <1>2 DEF Reverse
  <2> HIDE DEF r
  <2>2. \A j \in 1 .. 16 : (16 - j) + 1 \in 1 .. 16
    OBVIOUS
  <2>3. QED BY <2>1, <2>2, <1>2
<1>4. r \in Seq(W) /\ Len(r) = 16
  <2> HIDE DEF r, W
  <2>1. ASSUME NEW n \in Nat, NEW f \in [1 .. n -> W] PROVE f \in Seq(W) /\ Len(f) = n
    OBVIOUS
  <2>2. QED BY <1>3, <2>1
<1>5. Frame(c) = r \o <<Word("stack")>>
  BY DEF Frame
<1>6. ASSUME NEW i \in 1 .. 8 PROVE Frame(c)[8 + i] = w[9 - i]
  <2>1. 8 + i \in 1 .. 16 /\ (16 - (8 + i)) + 1 = 9 - i
    OBVIOUS
  <2> HIDE DEF r, w, W
  <2>2. (r \o <<Word("stack")>>)[8 + i] = r[8 + i]
    <3> DEFINE z == <<Word("stack")>>
    <3>1. z \in Seq(W) /\ Len(z) = 1
      BY DEF W
    <3> HIDE DEF z
    <3>2. \A j \in 1 .. Len(r) + Len(z) : (r \o z)[j] = IF j <= Len(r) THEN r[j] ELSE z[j - Len(r)]
      BY <1>4, <3>1, ConcatProperties
    <3>3. 8 + i \in 1 .. Len(r) + Len(z) /\ 8 + i <= Len(r)
      BY <1>4, <2>1, <3>1
    <3>4. (r \o z)[8 + i] = r[8 + i]
      BY <3>2, <3>3
    <3>5. QED BY <3>4 DEF z
  <2>3. r[8 + i] = w[9 - i]
    BY <1>3, <2>1
  <2>4. QED BY <1>5, <2>2, <2>3
<1>7. ASSUME NEW i \in 1 .. 8 PROVE w[9 - i] = c[Popped[i]]
  <2>1. 9 - i \in 1 .. 16 /\ Pushes[9 - i] = Popped[i] /\ Popped[i] \notin {"is_kernel", "cr3"}
    BY DEF Pushes, Popped
  <2>2. QED BY <2>1, <1>1
<1>8. QED BY <1>6, <1>7

LEMMA FastReturn ==
    ASSUME FrameHolds, return_fast, NEW x \in Preserved
    PROVE  cpu'[x] = cpu[x]
<1>1. x \in FieldSet
  BY DEF Preserved, FieldSet, Fields, Range
<1>2. CASE x = "rsp"
  <2>1. x \notin Range(Popped) /\ x # "rax"
    BY <1>2 DEF Popped, Range
  <2>2. QED BY <1>1, <1>2, <2>1 DEF return_fast
<1>3. CASE x # "rsp"
  <2>1. DOMAIN Popped = 1 .. 8
    BY DEF Popped
  <2>2. \E i \in 1 .. 8 : Popped[i] = x
    BY <1>3 DEF Preserved, Popped
  <2>3. x \in Range(Popped)
    BY <2>1, <2>2 DEF Range
  <2> DEFINE k == PoppedAt(x)
  <2>4. k \in 1 .. 8 /\ Popped[k] = x
    BY <2>1, <2>2 DEF PoppedAt
  <2>5. cpu'[x] = frame[8 + k]
    <3>1. cpu'[x] = CASE x \in Range(Popped) -> frame[8 + PoppedAt(x)]
                      [] x = "rax" -> Word("result")
                      [] x \in {"rsp", "cr3", "is_kernel"} -> cpu[x]
                      [] OTHER -> Word("scratch")
      BY <1>1 DEF return_fast
    <3>2. x # "rax" /\ x \notin {"rsp", "cr3", "is_kernel"}
      BY <1>3 DEF Preserved
    <3>3. QED BY <2>3, <3>1, <3>2
  <2> HIDE DEF k
  <2>6. frame = Frame(cpu)
    BY DEF FrameHolds, return_fast
  <2>7. QED BY <2>4, <2>5, <2>6, FrameWords
<1>4. QED BY <1>2, <1>3

LEMMA FirstRun ==
    ASSUME return_switch, resumed' = "entry", NEW x \in {"rcx", "rsp", "r11"}
    PROVE  cpu'[x] = <<running', x>>
<1> DEFINE c == switch_ctx.ctx
           u == switch_ctx.task
<1>1. c = user_mode(u) \/ c = kernel_mode(u)
  BY DEF return_switch
<1>2. x \in FieldSet /\ x # "cr3" /\ x # "is_kernel"
  BY DEF FieldSet, Fields, Range
<1>3. DOMAIN user_mode(u) = FieldSet /\ user_mode(u)[x] = <<u, x>>
  BY <1>2 DEF user_mode
<1>4. DOMAIN kernel_mode(u) = FieldSet /\ kernel_mode(u)[x] = <<u, x>>
  BY <1>2, <1>3 DEF kernel_mode
<1>5. cpu' = [c EXCEPT !.cr3 = IF @ = Zero THEN cpu.cr3 ELSE @] /\ running' = u
  BY DEF return_switch
<1> HIDE DEF c, u
<1>6. DOMAIN c = FieldSet /\ c[x] = <<u, x>>
  BY <1>1, <1>3, <1>4
<1>7. QED BY <1>2, <1>5, <1>6

(* The system call stub (arch/x86_64/syscall.rs): a call that returns without a *)
(* switch gives back every register the calling convention preserves, and  *)
(* a task that runs for the first time has its own entry point, stack and  *)
(* flags.                                                                  *)
THEOREM CallsReturn == EntrySpec => CallsKeepRegisters
<1>1. FrameHolds /\ [EntryNext]_entry_vars =>
         [/\ return_fast => \A r \in Preserved : cpu'[r] = cpu[r]
          /\ (return_switch /\ resumed' = "entry" =>
                 \A r \in {"rcx", "rsp", "r11"} : cpu'[r] = <<running', r>>)]_entry_vars
  BY FastReturn, FirstRun
<1>2. QED BY <1>1, FrameStart, FrameStep, PTL DEF EntrySpec, CallsKeepRegisters
-----------------------------------------------------------------------------
(* The interrupt-safe mutex.  That the flag comes back needs to know what  *)
(* every saved flag is: the outermost mutex of a processor holds the flag  *)
(* from before, the inner ones FALSE, and nobody but the holder of a mutex *)
(* overwrites its flag.                                                    *)
LockEntry == {<<>>} \cup (Locks \X BOOLEAN \X {"spin", "save", "restore"})
MutexTypes ==
    /\ holder \in [Locks -> Cpus \cup {0}] /\ saved_if \in [Locks -> BOOLEAN]
    /\ if_flag \in [Cpus -> BOOLEAN] /\ if_before \in [Cpus -> BOOLEAN]
    /\ held \in [Cpus -> Seq(Locks)] /\ entering \in [Cpus -> LockEntry]
    /\ isr \in [Cpus -> Locks \cup {SmpNone}]

(* A mutex has the holder that has it in its guards or is about to. *)
Has(c, l) ==
    \/ \E i \in 1 .. Len(held[c]) : held[c][i] = l
    \/ entering[c] # <<>> /\ entering[c][1] = l /\ entering[c][3] = "save"
HolderHas ==
    \A c \in Cpus, l \in Locks : holder[l] = c <=> Has(c, l)

(* No processor takes a mutex it has. *)
TakenOnce(c) ==
    /\ \A i, j \in 1 .. Len(held[c]) : held[c][i] = held[c][j] => i = j
    /\ entering[c] # <<>> /\ entering[c][3] \in {"spin", "save"} =>
          \A i \in 1 .. Len(held[c]) : held[c][i] # entering[c][1]

(* Interrupts are masked inside, and a handler runs only outside. *)
Masked(c) ==
    /\ if_flag[c] => held[c] = <<>> /\ entering[c] = <<>>
    /\ isr[c] # SmpNone => if_flag[c]

(* The flag to come back to. *)
Outer(c) == IF held[c] = <<>> THEN if_before[c] ELSE FALSE
FlagsKept(c) ==
    /\ \A i \in 1 .. Len(held[c]) : saved_if[held[c][i]] = IF i = 1 THEN if_before[c] ELSE FALSE
    /\ entering[c] # <<>> => entering[c][2] = Outer(c)
    /\ held[c] = <<>> /\ entering[c] = <<>> => if_flag[c] = if_before[c]

MutexInv == MutexTypes /\ HolderHas /\ \A c \in Cpus : TakenOnce(c) /\ Masked(c) /\ FlagsKept(c)

LEMMA EntryShape ==
    ASSUME NEW e \in LockEntry, e # <<>>
    PROVE  e[1] \in Locks /\ e[2] \in BOOLEAN /\ e[3] \in {"spin", "save", "restore"}
  BY DEF LockEntry

LEMMA NewEntry ==
    ASSUME NEW l \in Locks, NEW b \in BOOLEAN, NEW k \in {"spin", "save", "restore"}, NEW e, e = <<l, b, k>>
    PROVE  e \in LockEntry /\ e # <<>> /\ e[1] = l /\ e[2] = b /\ e[3] = k
  BY DEF LockEntry

(* What is the same for a processor that takes no step. *)
LEMMA OtherCpu ==
    ASSUME NEW d \in Cpus, TakenOnce(d), Masked(d), FlagsKept(d),
           held'[d] = held[d], entering'[d] = entering[d], if_flag'[d] = if_flag[d],
           if_before'[d] = if_before[d], isr'[d] = isr[d],
           \A i \in 1 .. Len(held[d]) : saved_if'[held[d][i]] = saved_if[held[d][i]]
    PROVE  TakenOnce(d)' /\ Masked(d)' /\ FlagsKept(d)'
<1>1. TakenOnce(d)'
  BY DEF TakenOnce
<1>2. Masked(d)'
  BY DEF Masked
<1>3. Outer(d)' = Outer(d)
  BY DEF Outer
<1>4. FlagsKept(d)'
  BY <1>3 DEF FlagsKept
<1>5. QED BY <1>1, <1>2, <1>4

LEMMA SameHas ==
    ASSUME NEW d \in Cpus, held'[d] = held[d], entering'[d] = entering[d]
    PROVE  \A l \in Locks : Has(d, l)' <=> Has(d, l)
  BY DEF Has

(* lock(), up to CLI. *)
LEMMA CliStep ==
    ASSUME MutexInv, NEW c \in Cpus, NEW l \in Locks, lock_cli(c, l)
    PROVE  MutexInv'
<1>1. /\ isr[c] = SmpNone /\ entering[c] = <<>> /\ l \notin Holds(c)
      /\ entering' = [entering EXCEPT ![c] = <<l, if_flag[c], "spin">>]
      /\ if_flag' = [if_flag EXCEPT ![c] = FALSE]
      /\ if_before' = if_before /\ holder' = holder /\ saved_if' = saved_if /\ held' = held /\ isr' = isr
  BY DEF lock_cli
<1>2. MutexTypes /\ HolderHas /\ \A d \in Cpus : TakenOnce(d) /\ Masked(d) /\ FlagsKept(d)
  BY DEF MutexInv
<1>3. if_flag[c] \in BOOLEAN /\ held[c] \in Seq(Locks)
  BY <1>2 DEF MutexTypes
<1>4. PICK e : e = <<l, if_flag[c], "spin">>
  OBVIOUS
<1>5. e \in LockEntry /\ e # <<>> /\ e[1] = l /\ e[2] = if_flag[c] /\ e[3] = "spin"
  BY <1>3, <1>4, NewEntry
<1>6. entering' \in [Cpus -> LockEntry] /\ entering'[c] = e /\ \A d \in Cpus \ {c} : entering'[d] = entering[d]
  BY <1>1, <1>2, <1>4, <1>5 DEF MutexTypes
<1>7. if_flag' \in [Cpus -> BOOLEAN] /\ if_flag'[c] = FALSE /\ \A d \in Cpus \ {c} : if_flag'[d] = if_flag[d]
  BY <1>1, <1>2 DEF MutexTypes
<1>8. MutexTypes'
  BY <1>1, <1>2, <1>6, <1>7 DEF MutexTypes
<1>9. \A k \in Locks : Has(c, k)' <=> Has(c, k)
  BY <1>1, <1>5, <1>6 DEF Has
<1>10. HolderHas'
  BY <1>1, <1>2, <1>6, <1>9, SameHas DEF HolderHas
<1>11. TakenOnce(c)'
  BY <1>1, <1>2, <1>3, <1>5, <1>6 DEF TakenOnce, Holds
<1>12. Masked(c)'
  BY <1>1, <1>7 DEF Masked
<1>13. if_flag[c] = Outer(c) /\ Outer(c)' = Outer(c)
  BY <1>1, <1>2, <1>3 DEF Outer, Masked, FlagsKept
<1>14. FlagsKept(c)'
  BY <1>1, <1>2, <1>5, <1>6, <1>13, ZenonT(30) DEF FlagsKept
<1>15. \A d \in Cpus \ {c} : TakenOnce(d)' /\ Masked(d)' /\ FlagsKept(d)'
  BY <1>1, <1>2, <1>6, <1>7, OtherCpu
<1>16. QED BY <1>8, <1>10, <1>11, <1>12, <1>14, <1>15 DEF MutexInv

(* lock(), the exchange that succeeds. *)
LEMMA AcquireStep ==
    ASSUME MutexInv, NEW c \in Cpus, lock_acquire(c)
    PROVE  MutexInv'
<1> DEFINE l == entering[c][1]
<1>1. /\ entering[c] # <<>> /\ entering[c][3] = "spin" /\ holder[l] = 0
      /\ holder' = [holder EXCEPT ![l] = c]
      /\ entering' = [entering EXCEPT ![c][3] = "save"]
      /\ if_before' = if_before /\ if_flag' = if_flag /\ saved_if' = saved_if /\ held' = held /\ isr' = isr
  BY DEF lock_acquire
<1>2. MutexTypes /\ HolderHas /\ \A d \in Cpus : TakenOnce(d) /\ Masked(d) /\ FlagsKept(d)
  BY DEF MutexInv
<1>3. entering[c] \in LockEntry /\ held[c] \in Seq(Locks)
  BY <1>2 DEF MutexTypes
<1>4. l \in Locks /\ entering[c][2] \in BOOLEAN
  BY <1>1, <1>3, EntryShape
<1>5. PICK e : e = <<l, entering[c][2], "save">>
  OBVIOUS
<1>6. e \in LockEntry /\ e # <<>> /\ e[1] = l /\ e[2] = entering[c][2] /\ e[3] = "save"
  BY <1>4, <1>5, NewEntry
<1>7. [entering[c] EXCEPT ![3] = "save"] = e
  BY <1>1, <1>3, <1>5 DEF LockEntry
<1>8. entering' \in [Cpus -> LockEntry] /\ entering'[c] = e /\ \A d \in Cpus \ {c} : entering'[d] = entering[d]
  BY <1>1, <1>2, <1>6, <1>7 DEF MutexTypes
<1> HIDE DEF l
<1>9. holder' \in [Locks -> Cpus \cup {0}] /\ holder'[l] = c /\ \A k \in Locks \ {l} : holder'[k] = holder[k]
  BY <1>1, <1>2, <1>4 DEF MutexTypes
<1>10. MutexTypes'
  BY <1>1, <1>2, <1>8, <1>9 DEF MutexTypes
<1>11. \A k \in Locks : Has(c, k)' <=> Has(c, k) \/ k = l
  BY <1>1, <1>6, <1>8 DEF Has
<1>12. \A d \in Cpus : ~Has(d, l)
  BY <1>1, <1>2, <1>4, SmpAssumption DEF HolderHas
<1>13. HolderHas'
  <2>1. ASSUME NEW d \in Cpus, NEW k \in Locks PROVE holder'[k] = d <=> Has(d, k)'
    <3>1. holder[k] = d <=> Has(d, k)
      BY <1>2 DEF HolderHas
    <3>2. CASE d = c
      BY <3>1, <3>2, <1>9, <1>11
    <3>3. CASE d # c
      <4>1. Has(d, k)' <=> Has(d, k)
        BY <3>3, <1>1, <1>8, SameHas
      <4>2. QED BY <3>1, <3>3, <4>1, <1>9, <1>12
    <3>4. QED BY <3>2, <3>3
  <2>2. QED BY <2>1 DEF HolderHas
<1>14. TakenOnce(c)'
  <2>1. \A i, j \in 1 .. Len(held[c]) : held[c][i] = held[c][j] => i = j
    BY <1>2 DEF TakenOnce
  <2>2. \A i \in 1 .. Len(held[c]) : held[c][i] # l
    BY <1>1, <1>2 DEF TakenOnce, l
  <2>3. held'[c] = held[c] /\ entering'[c][1] = l
    BY <1>1, <1>6, <1>8
  <2>4. QED BY ONLY <2>1, <2>2, <2>3 DEF TakenOnce
<1>15. Masked(c)'
  BY <1>1, <1>2 DEF Masked
<1>16. FlagsKept(c)'
  <2>1. Outer(c)' = Outer(c)
    BY <1>1 DEF Outer
  <2>2. entering[c][2] = Outer(c)
    BY <1>1, <1>2 DEF FlagsKept
  <2>3. entering'[c] # <<>> /\ entering'[c][2] = Outer(c)'
    BY <1>6, <1>8, <2>1, <2>2
  <2>4. \A i \in 1 .. Len(held[c]) : saved_if[held[c][i]] = IF i = 1 THEN if_before[c] ELSE FALSE
    BY <1>2 DEF FlagsKept
  <2>5. QED BY <1>1, <2>3, <2>4 DEF FlagsKept
<1>17. \A d \in Cpus \ {c} : TakenOnce(d)' /\ Masked(d)' /\ FlagsKept(d)'
  BY <1>1, <1>2, <1>8, OtherCpu
<1>18. QED BY <1>10, <1>13, <1>14, <1>15, <1>16, <1>17 DEF MutexInv

(* lock(), storing the flag: the mutex joins the guards. *)
LEMMA SaveStep ==
    ASSUME MutexInv, NEW c \in Cpus, lock_save(c)
    PROVE  MutexInv'
<1> DEFINE l == entering[c][1]
           n == Len(held[c])
<1>1. /\ entering[c] # <<>> /\ entering[c][3] = "save"
      /\ saved_if' = [saved_if EXCEPT ![l] = entering[c][2]]
      /\ held' = [held EXCEPT ![c] = Append(held[c], l)]
      /\ entering' = [entering EXCEPT ![c] = <<>>]
      /\ if_before' = if_before /\ if_flag' = if_flag /\ holder' = holder /\ isr' = isr
  BY DEF lock_save
<1>2. MutexTypes /\ HolderHas /\ \A d \in Cpus : TakenOnce(d) /\ Masked(d) /\ FlagsKept(d)
  BY DEF MutexInv
<1>3. entering[c] \in LockEntry /\ held[c] \in Seq(Locks) /\ n \in Nat
  BY <1>2 DEF MutexTypes
<1>4. l \in Locks /\ entering[c][2] \in BOOLEAN
  BY <1>1, <1>3, EntryShape
<1>5. entering' \in [Cpus -> LockEntry] /\ entering'[c] = <<>> /\ \A d \in Cpus \ {c} : entering'[d] = entering[d]
  BY <1>1, <1>2 DEF MutexTypes, LockEntry
<1> HIDE DEF l
<1>6. /\ Append(held[c], l) \in Seq(Locks) /\ Len(Append(held[c], l)) = n + 1 /\ Append(held[c], l)[n + 1] = l
      /\ \A i \in 1 .. n : Append(held[c], l)[i] = held[c][i]
  BY <1>3, <1>4
<1>7. /\ held' \in [Cpus -> Seq(Locks)] /\ held'[c] = Append(held[c], l)
      /\ \A d \in Cpus \ {c} : held'[d] = held[d]
  BY <1>1, <1>2, <1>6 DEF MutexTypes
<1>8. /\ saved_if' \in [Locks -> BOOLEAN] /\ saved_if'[l] = entering[c][2]
      /\ \A k \in Locks \ {l} : saved_if'[k] = saved_if[k]
  BY <1>1, <1>2, <1>4 DEF MutexTypes
<1>9. MutexTypes'
  BY <1>1, <1>2, <1>5, <1>7, <1>8 DEF MutexTypes
<1> HIDE DEF n
<1>10. /\ Len(held'[c]) = n + 1 /\ held'[c][n + 1] = l /\ \A i \in 1 .. n : held'[c][i] = held[c][i]
       /\ n + 1 \in 1 .. n + 1 /\ \A i \in 1 .. n + 1 : i \in 1 .. n \/ i = n + 1
       /\ \A i \in 1 .. n : i \in 1 .. n + 1
  BY <1>3, <1>6, <1>7
<1>11. \A k \in Locks : Has(c, k)' <=> Has(c, k)
  <2>1. ASSUME NEW k \in Locks PROVE Has(c, k) <=> (\E i \in 1 .. n : held[c][i] = k) \/ k = l
    BY <1>1 DEF Has, l, n
  <2>2. ASSUME NEW k \in Locks PROVE Has(c, k)' <=> \E i \in 1 .. n + 1 : held'[c][i] = k
    BY <1>5, <1>10 DEF Has
  <2>3. QED BY <2>1, <2>2, <1>10
<1>12. HolderHas'
  BY <1>1, <1>2, <1>5, <1>7, <1>11, SameHas DEF HolderHas
<1>13. \A i \in 1 .. n : held[c][i] # l /\ held[c][i] \in Locks
  <2>1. \A i \in 1 .. n : held[c][i] # l
    BY <1>1, <1>2 DEF TakenOnce, l, n
  <2>2. \A i \in 1 .. n : held[c][i] \in Locks
    BY <1>3 DEF n
  <2>3. QED BY <2>1, <2>2
<1>14. TakenOnce(c)'
  <2>1. \A i, j \in 1 .. n : held[c][i] = held[c][j] => i = j
    BY <1>2 DEF TakenOnce, n
  <2>2. \A i, j \in 1 .. n + 1 : held'[c][i] = held'[c][j] => i = j
    BY <1>10, <1>13, <2>1
  <2>3. QED BY <1>5, <1>10, <2>2 DEF TakenOnce
<1>15. Masked(c)'
  BY <1>1, <1>2 DEF Masked
<1>16. FlagsKept(c)'
  <2>1. entering[c][2] = Outer(c) /\ \A i \in 1 .. n : saved_if[held[c][i]] = IF i = 1 THEN if_before[c] ELSE FALSE
    BY <1>1, <1>2 DEF FlagsKept, n
  <2>2. held[c] = <<>> <=> n = 0
    BY <1>3 DEF n
  <2>3. saved_if'[l] = IF n + 1 = 1 THEN if_before[c] ELSE FALSE
    <3>1. n + 1 = 1 <=> held[c] = <<>>
      BY <1>3, <2>2
    <3>2. saved_if'[l] = Outer(c)
      BY <1>8, <2>1
    <3>3. QED BY ONLY <3>1, <3>2, Zenon DEF Outer
  <2>4. ASSUME NEW i \in 1 .. n PROVE saved_if'[held'[c][i]] = IF i = 1 THEN if_before[c] ELSE FALSE
    <3>1. held'[c][i] = held[c][i] /\ held[c][i] \in Locks \ {l}
      BY <1>10, <1>13
    <3>2. saved_if'[held'[c][i]] = saved_if[held[c][i]]
      BY <1>8, <3>1
    <3>3. QED BY ONLY <2>1, <3>2, i \in 1 .. n, Zenon
  <2>5. \A i \in 1 .. n + 1 : saved_if'[held'[c][i]] = IF i = 1 THEN if_before[c] ELSE FALSE
    BY <1>10, <2>3, <2>4
  <2>6. held'[c] # <<>>
    <3>1. Len(held'[c]) # 0
      BY <1>3, <1>10
    <3>2. QED BY <3>1
  <2>7. Len(held'[c]) = n + 1 /\ entering'[c] = <<>> /\ if_before' = if_before
    BY <1>1, <1>5, <1>10
  <2>8. QED BY ONLY <2>5, <2>6, <2>7, Zenon DEF FlagsKept
<1>17. ASSUME NEW d \in Cpus \ {c} PROVE TakenOnce(d)' /\ Masked(d)' /\ FlagsKept(d)'
  <2>1. ASSUME NEW i \in 1 .. Len(held[d]) PROVE held[d][i] # l /\ held[d][i] \in Locks
    <3>1. held[d] \in Seq(Locks)
      BY <1>2 DEF MutexTypes
    <3>2. held[d][i] \in Locks
      BY <3>1
    <3>3. holder[held[d][i]] = d
      BY <1>2, <3>2 DEF HolderHas, Has
    <3>4. holder[l] = c
      BY <1>1, <1>2, <1>4 DEF HolderHas, Has, l
    <3>5. QED BY <3>2, <3>3, <3>4
  <2>2. \A i \in 1 .. Len(held[d]) : saved_if'[held[d][i]] = saved_if[held[d][i]]
    BY <2>1, <1>8
  <2>3. QED BY <1>1, <1>2, <1>5, <1>7, <2>2, OtherCpu
<1>18. QED BY <1>9, <1>12, <1>14, <1>15, <1>16, <1>17 DEF MutexInv

(* Dropping the guard on top: the flag is read, then the mutex released. *)
LEMMA ReleaseStep ==
    ASSUME MutexInv, NEW c \in Cpus, unlock_release(c)
    PROVE  MutexInv'
<1> DEFINE n == Len(held[c])
           l == held[c][n]
           h == SubSeq(held[c], 1, n - 1)
<1>1. /\ held[c] # <<>> /\ entering[c] = <<>> /\ isr[c] = SmpNone
      /\ entering' = [entering EXCEPT ![c] = <<l, saved_if[l], "restore">>]
      /\ holder' = [holder EXCEPT ![l] = 0]
      /\ held' = [held EXCEPT ![c] = h]
      /\ if_before' = if_before /\ if_flag' = if_flag /\ saved_if' = saved_if /\ isr' = isr
  BY DEF unlock_release
<1>2. MutexTypes /\ HolderHas /\ \A d \in Cpus : TakenOnce(d) /\ Masked(d) /\ FlagsKept(d)
  BY DEF MutexInv
<1>3. held[c] \in Seq(Locks) /\ n \in Nat /\ n >= 1
  BY <1>1, <1>2 DEF MutexTypes
<1>4. l \in Locks /\ n \in 1 .. n /\ saved_if[l] \in BOOLEAN
  BY <1>2, <1>3 DEF MutexTypes
<1>5. h \in Seq(Locks) /\ Len(h) = n - 1 /\ \A i \in 1 .. n - 1 : h[i] = held[c][i]
  BY <1>3
<1> HIDE DEF l, h
<1>6. PICK e : e = <<l, saved_if[l], "restore">>
  OBVIOUS
<1>7. e \in LockEntry /\ e # <<>> /\ e[1] = l /\ e[2] = saved_if[l] /\ e[3] = "restore"
  BY <1>4, <1>6, NewEntry
<1>8. entering' \in [Cpus -> LockEntry] /\ entering'[c] = e /\ \A d \in Cpus \ {c} : entering'[d] = entering[d]
  BY <1>1, <1>2, <1>6, <1>7 DEF MutexTypes
<1>9. held' \in [Cpus -> Seq(Locks)] /\ held'[c] = h /\ \A d \in Cpus \ {c} : held'[d] = held[d]
  BY <1>1, <1>2, <1>5 DEF MutexTypes
<1>10. holder' \in [Locks -> Cpus \cup {0}] /\ holder'[l] = 0 /\ \A k \in Locks \ {l} : holder'[k] = holder[k]
  BY <1>1, <1>2, <1>4 DEF MutexTypes
<1>11. MutexTypes'
  BY <1>1, <1>2, <1>8, <1>9, <1>10 DEF MutexTypes
<1> HIDE DEF n
<1>12. \A i \in 1 .. n - 1 : i \in 1 .. n /\ i # n
  BY <1>3
<1>13. \A i, j \in 1 .. n : held[c][i] = held[c][j] => i = j
  BY <1>2 DEF TakenOnce, n
<1>14. \A i \in 1 .. n - 1 : h[i] # l
  BY <1>4, <1>5, <1>12, <1>13 DEF l
<1>15. \A k \in Locks : Has(c, k)' <=> Has(c, k) /\ k # l
  <2>1. ASSUME NEW k \in Locks PROVE Has(c, k) <=> \E i \in 1 .. n : held[c][i] = k
    BY <1>1 DEF Has, n
  <2>2. ASSUME NEW k \in Locks PROVE Has(c, k)' <=> \E i \in 1 .. n - 1 : h[i] = k
    BY <1>5, <1>7, <1>8, <1>9 DEF Has
  <2>3. \A i \in 1 .. n : i \in 1 .. n - 1 \/ i = n
    BY <1>3
  <2>4. \A i \in 1 .. n - 1 : h[i] = held[c][i]
    BY <1>5
  <2>5. held[c][n] = l
    BY DEF l
  <2>6. QED BY <2>1, <2>2, <2>3, <2>4, <2>5, <1>12, <1>14
<1>16. Has(c, l)
  BY <1>4 DEF Has, l, n
<1>17. HolderHas'
  <2>1. ASSUME NEW d \in Cpus, NEW k \in Locks PROVE holder'[k] = d <=> Has(d, k)'
    <3>1. (holder[k] = d <=> Has(d, k)) /\ holder[l] = c /\ d # 0
      BY <1>2, <1>4, <1>16, SmpAssumption DEF HolderHas
    <3>2. CASE d = c
      BY <3>1, <3>2, <1>10, <1>15
    <3>3. CASE d # c
      <4>1. Has(d, k)' <=> Has(d, k)
        BY <3>3, <1>8, <1>9, SameHas
      <4>2. QED BY <3>1, <3>3, <4>1, <1>10
    <3>4. QED BY <3>2, <3>3
  <2>2. QED BY <2>1 DEF HolderHas
<1>18. TakenOnce(c)'
  <2>1. \A i, j \in 1 .. n - 1 : h[i] = h[j] => i = j
    BY <1>5, <1>12, <1>13
  <2>2. QED BY <1>5, <1>7, <1>8, <1>9, <2>1 DEF TakenOnce
<1>19. Masked(c)'
  BY <1>1, <1>2 DEF Masked
<1>20. FlagsKept(c)'
  <2>1. \A i \in 1 .. n : saved_if[held[c][i]] = IF i = 1 THEN if_before[c] ELSE FALSE
    BY <1>2 DEF FlagsKept, n
  <2>2. h = <<>> <=> n = 1
    BY <1>3, <1>5
  <2>3. saved_if[l] = IF n = 1 THEN if_before[c] ELSE FALSE
    BY <1>4, <2>1 DEF l
  <2>4. saved_if[l] = Outer(c)'
    BY <1>1, <1>9, <2>2, <2>3 DEF Outer
  <2>5. \A i \in 1 .. n - 1 : saved_if[h[i]] = IF i = 1 THEN if_before[c] ELSE FALSE
    BY <1>5, <1>12, <2>1
  <2>6. QED BY <1>1, <1>5, <1>7, <1>8, <1>9, <2>4, <2>5 DEF FlagsKept
<1>21. \A d \in Cpus \ {c} : TakenOnce(d)' /\ Masked(d)' /\ FlagsKept(d)'
  BY <1>1, <1>2, <1>8, <1>9, OtherCpu
<1>22. QED BY <1>11, <1>17, <1>18, <1>19, <1>20, <1>21 DEF MutexInv

(* The end of the release: STI if the flag was set. *)
LEMMA RestoreStep ==
    ASSUME MutexInv, NEW c \in Cpus, unlock_restore(c)
    PROVE  MutexInv'
<1>1. /\ entering[c] # <<>> /\ entering[c][3] = "restore"
      /\ if_flag' = [if_flag EXCEPT ![c] = if_flag[c] \/ entering[c][2]]
      /\ entering' = [entering EXCEPT ![c] = <<>>]
      /\ if_before' = if_before /\ holder' = holder /\ saved_if' = saved_if /\ held' = held /\ isr' = isr
  BY DEF unlock_restore
<1>2. MutexTypes /\ HolderHas /\ \A d \in Cpus : TakenOnce(d) /\ Masked(d) /\ FlagsKept(d)
  BY DEF MutexInv
<1>3. entering[c] \in LockEntry /\ if_flag[c] \in BOOLEAN
  BY <1>2 DEF MutexTypes
<1>4. entering[c][2] \in BOOLEAN
  BY <1>1, <1>3, EntryShape
<1>5. if_flag[c] = FALSE /\ isr[c] = SmpNone /\ entering[c][2] = Outer(c)
  BY <1>1, <1>2, <1>3 DEF Masked, FlagsKept
<1>6. entering' \in [Cpus -> LockEntry] /\ entering'[c] = <<>> /\ \A d \in Cpus \ {c} : entering'[d] = entering[d]
  BY <1>1, <1>2 DEF MutexTypes, LockEntry
<1>7. if_flag' \in [Cpus -> BOOLEAN] /\ if_flag'[c] = Outer(c) /\ \A d \in Cpus \ {c} : if_flag'[d] = if_flag[d]
  <2>1. (if_flag[c] \/ entering[c][2]) = Outer(c) /\ Outer(c) \in BOOLEAN
    BY <1>4, <1>5
  <2>2. if_flag' = [if_flag EXCEPT ![c] = Outer(c)]
    BY <1>1, <2>1
  <2>3. QED BY <1>2, <2>1, <2>2 DEF MutexTypes
<1>8. MutexTypes'
  BY <1>1, <1>2, <1>6, <1>7 DEF MutexTypes
<1>9. \A k \in Locks : Has(c, k)' <=> Has(c, k)
  BY <1>1, <1>6 DEF Has
<1>10. HolderHas'
  BY <1>1, <1>2, <1>6, <1>9, SameHas DEF HolderHas
<1>11. TakenOnce(c)'
  BY <1>1, <1>2, <1>6 DEF TakenOnce
<1>12. Masked(c)'
  BY <1>1, <1>5, <1>6, <1>7 DEF Masked, Outer
<1>13. FlagsKept(c)'
  <2>1. \A i \in 1 .. Len(held[c]) : saved_if[held[c][i]] = IF i = 1 THEN if_before[c] ELSE FALSE
    BY <1>2 DEF FlagsKept
  <2>2. held[c] = <<>> => if_flag'[c] = if_before[c]
    BY <1>7 DEF Outer
  <2>3. QED BY <1>1, <1>6, <2>1, <2>2 DEF FlagsKept
<1>14. \A d \in Cpus \ {c} : TakenOnce(d)' /\ Masked(d)' /\ FlagsKept(d)'
  BY <1>1, <1>2, <1>6, <1>7, OtherCpu
<1>15. QED BY <1>8, <1>10, <1>11, <1>12, <1>13, <1>14 DEF MutexInv

(* An interrupt comes and goes. *)
LEMMA InterruptStep ==
    ASSUME MutexInv, NEW c \in Cpus,
           InterruptDone(c) \/ \E l \in Locks : Interrupt(c, l)
    PROVE  MutexInv'
<1>1. /\ if_flag' = if_flag /\ entering' = entering /\ if_before' = if_before /\ holder' = holder
      /\ saved_if' = saved_if /\ held' = held
      /\ \E x \in Locks \cup {SmpNone} : isr' = [isr EXCEPT ![c] = x] /\ (x # SmpNone => if_flag[c])
  BY DEF InterruptDone, Interrupt
<1>2. MutexTypes /\ HolderHas /\ \A d \in Cpus : TakenOnce(d) /\ Masked(d) /\ FlagsKept(d)
  BY DEF MutexInv
<1>3. /\ isr' \in [Cpus -> Locks \cup {SmpNone}] /\ (isr'[c] # SmpNone => if_flag[c])
      /\ \A d \in Cpus \ {c} : isr'[d] = isr[d]
  BY <1>1, <1>2 DEF MutexTypes
<1>4. MutexTypes'
  BY <1>1, <1>2, <1>3 DEF MutexTypes
<1>5. HolderHas'
  BY <1>1, <1>2, SameHas DEF HolderHas
<1>6. ASSUME NEW d \in Cpus PROVE TakenOnce(d)' /\ FlagsKept(d)'
  <2>1. TakenOnce(d)' <=> TakenOnce(d)
    BY <1>1 DEF TakenOnce
  <2>2. Outer(d)' = Outer(d)
    BY <1>1 DEF Outer
  <2>3. FlagsKept(d)' <=> FlagsKept(d)
    BY <1>1, <2>2 DEF FlagsKept
  <2>4. QED BY <1>2, <2>1, <2>3
<1>7. \A d \in Cpus : Masked(d)'
  BY <1>1, <1>2, <1>3 DEF Masked
<1>8. QED BY <1>4, <1>5, <1>6, <1>7 DEF MutexInv

(* No mutex is held when the system starts. *)
LEMMA MutexStart == SmpInit => MutexInv
<1> SUFFICES ASSUME SmpInit PROVE MutexInv
  OBVIOUS
<1>1. /\ holder = [l \in Locks |-> 0] /\ saved_if = [l \in Locks |-> FALSE]
      /\ if_flag \in [Cpus -> BOOLEAN] /\ if_before = if_flag
      /\ held = [c \in Cpus |-> <<>>] /\ entering = [c \in Cpus |-> <<>>] /\ isr = [c \in Cpus |-> SmpNone]
  BY DEF SmpInit
<1>2. \A c \in Cpus : held[c] = <<>> /\ entering[c] = <<>> /\ isr[c] = SmpNone /\ Len(held[c]) = 0
  BY <1>1
<1>3. MutexTypes
  BY <1>1 DEF MutexTypes, LockEntry
<1>4. HolderHas
  BY <1>1, <1>2, SmpAssumption DEF HolderHas, Has
<1>5. ASSUME NEW c \in Cpus PROVE TakenOnce(c) /\ Masked(c) /\ FlagsKept(c)
  <2>1. 1 .. Len(held[c]) = {}
    BY <1>2
  <2>2. TakenOnce(c) /\ Masked(c)
    BY <1>2, <2>1 DEF TakenOnce, Masked
  <2>3. FlagsKept(c)
    BY <1>1, <1>2, <2>1 DEF FlagsKept
  <2>4. QED BY <2>2, <2>3
<1>6. QED BY <1>3, <1>4, <1>5 DEF MutexInv

(* A step that leaves the mutexes alone. *)
LEMMA MutexSame == MutexInv /\ UNCHANGED lock_state => MutexInv'
<1> SUFFICES ASSUME MutexInv, UNCHANGED lock_state PROVE MutexInv'
  OBVIOUS
<1>1. /\ holder' = holder /\ saved_if' = saved_if /\ if_flag' = if_flag /\ if_before' = if_before
      /\ held' = held /\ entering' = entering /\ isr' = isr
  BY DEF lock_state
<1>2. MutexTypes'
  BY <1>1 DEF MutexInv, MutexTypes
<1>3. HolderHas'
  BY <1>1, SameHas DEF MutexInv, HolderHas
<1>4. \A d \in Cpus : TakenOnce(d)' /\ Masked(d)' /\ FlagsKept(d)'
  BY <1>1, OtherCpu DEF MutexInv
<1>5. QED BY <1>2, <1>3, <1>4 DEF MutexInv

LEMMA IntMutexStep == MutexInv /\ [SmpNext]_smp_vars => MutexInv'
<1> SUFFICES ASSUME MutexInv, [SmpNext]_smp_vars PROVE MutexInv'
  OBVIOUS
<1>1. ASSUME NEW c \in Cpus, NEW l \in Locks, lock_cli(c, l) PROVE MutexInv'
  BY <1>1, CliStep
<1>2. ASSUME NEW c \in Cpus, lock_acquire(c) PROVE MutexInv'
  BY <1>2, AcquireStep
<1>3. ASSUME NEW c \in Cpus, lock_save(c) PROVE MutexInv'
  BY <1>3, SaveStep
<1>4. ASSUME NEW c \in Cpus, unlock_release(c) PROVE MutexInv'
  BY <1>4, ReleaseStep
<1>5. ASSUME NEW c \in Cpus, unlock_restore(c) PROVE MutexInv'
  BY <1>5, RestoreStep
<1>6. ASSUME NEW c \in Cpus, InterruptDone(c) \/ \E l \in Locks : Interrupt(c, l) PROVE MutexInv'
  BY <1>6, InterruptStep
<1>7. ASSUME NEW t \in MadtTables, acpi_parse(t) PROVE MutexInv'
  BY <1>7, MutexSame DEF acpi_parse
<1>8. CASE send_init_ipi \/ send_sipi \/ wait_ready
  BY <1>8, MutexSame DEF send_init_ipi, send_sipi, wait_ready
<1>9. ASSUME NEW a \in Aps, ap_count(a) \/ ap_ready(a) PROVE MutexInv'
  BY <1>9, MutexSame DEF ap_count, ap_ready
<1>10. CASE UNCHANGED smp_vars
  BY <1>10, MutexSame DEF smp_vars
<1>11. QED BY <1>1, <1>2, <1>3, <1>4, <1>5, <1>6, <1>7, <1>8, <1>9, <1>10 DEF SmpNext

(* IntMutex, for any number of CPUs and mutexes and any nesting: a CPU in a   *)
(* critical section takes no interrupt, no handler waits for a mutex of the  *)
(* CPU it interrupted, and the interrupt flag comes back to what it was.     *)
THEOREM InterruptsAreSafe == SmpSpec => []InterruptSafe
<1>1. MutexInv => InterruptSafe
  <2> SUFFICES ASSUME MutexInv, NEW c \in Cpus
               PROVE  /\ held[c] # <<>> => ~if_flag[c]
                      /\ isr[c] # SmpNone => holder[isr[c]] # c
                      /\ held[c] = <<>> /\ entering[c] = <<>> => if_flag[c] = if_before[c]
    BY DEF InterruptSafe
  <2>1. MutexTypes /\ HolderHas /\ Masked(c) /\ FlagsKept(c)
    BY DEF MutexInv
  <2>2. ASSUME isr[c] # SmpNone PROVE holder[isr[c]] # c
    <3>1. isr[c] \in Locks /\ held[c] = <<>> /\ entering[c] = <<>>
      BY <2>1, <2>2 DEF MutexTypes, Masked
    <3>2. ~Has(c, isr[c])
      BY <3>1 DEF Has
    <3>3. QED BY <2>1, <3>1, <3>2 DEF HolderHas
  <2>3. QED BY <2>1, <2>2 DEF Masked, FlagsKept
<1>2. QED BY <1>1, MutexStart, IntMutexStep, PTL DEF SmpSpec

(* ----------------------------------------------- application processors *)
BootTypes ==
    /\ started \in Nat /\ ap_index \in [Aps -> Nat] /\ bsp.ap \in Nat /\ bsp.ap >= 1
    /\ bsp = [ap |-> bsp.ap, step |-> bsp.step, rounds |-> bsp.rounds]
    /\ ap \in [Aps -> {"off", "waiting", "dead", "trampoline", "running", "idle"}]
    /\ ready \in [1 .. Cardinality(Aps) -> BOOLEAN]

(* An index is given by the counter, to a processor that runs. *)
Indexed(a) ==
    /\ ap_index[a] <= started
    /\ ap_index[a] = 0 <=> ap[a] \notin {"running", "idle"}

(* The processors that the boot processor has not reached are off. *)
NotReached(a) == a > bsp.ap \/ (a = bsp.ap /\ bsp.step = "init") => ap[a] = "off"

BootInv == BootTypes /\ (\A a \in Aps : Indexed(a) /\ NotReached(a)) /\ ProcessorsCounted

LEMMA BootStart == SmpInit => BootInv
<1> SUFFICES ASSUME SmpInit PROVE BootInv
  OBVIOUS
<1>1. /\ ap = [a \in Aps |-> "off"] /\ ap_index = [a \in Aps |-> 0] /\ started = 0
      /\ ready = [a \in 1 .. Cardinality(Aps) |-> FALSE]
      /\ bsp = [ap |-> 1, step |-> "init", rounds |-> 0]
  BY DEF SmpInit
<1>2. BootTypes
  BY <1>1 DEF BootTypes
<1>3. QED BY <1>1, <1>2 DEF BootInv, Indexed, NotReached, ProcessorsCounted

(* A step of the boot processor: it moves the processor it starts, which has *)
(* no index, and lowers no other announcement.                               *)
LEMMA BspStep ==
    ASSUME BootInv, send_init_ipi \/ send_sipi \/ wait_ready
    PROVE  BootInv'
<1>1. BootTypes /\ (\A a \in Aps : Indexed(a) /\ NotReached(a)) /\ ProcessorsCounted
  BY DEF BootInv
<1>2. bsp.ap \in Aps /\ bsp.ap \in 1 .. Cardinality(Aps)
  BY <1>1, SmpAssumption DEF BootTypes, send_init_ipi, send_sipi, wait_ready, Boot
<1>3. CASE send_init_ipi
  <2>1. PICK state \in {"waiting", "dead"} : ap' = [ap EXCEPT ![bsp.ap] = state]
    BY <1>3 DEF send_init_ipi
  <2>2. /\ ready' = [ready EXCEPT ![bsp.ap] = FALSE] /\ bsp' = [bsp EXCEPT !.step = "sipi"]
        /\ started' = started /\ ap_index' = ap_index /\ bsp.step = "init"
    BY <1>3 DEF send_init_ipi
  <2>3. bsp'.ap = bsp.ap /\ bsp'.step = "sipi" /\ bsp' = [ap |-> bsp'.ap, step |-> bsp'.step, rounds |-> bsp'.rounds]
    BY <1>1, <2>2 DEF BootTypes
  <2>4. BootTypes'
    BY <1>1, <1>2, <2>1, <2>2, <2>3 DEF BootTypes
  <2>5. ap'[bsp.ap] = state /\ \A a \in Aps \ {bsp.ap} : ap'[a] = ap[a]
    BY <1>1, <1>2, <2>1 DEF BootTypes
  <2>6. ap[bsp.ap] = "off"
    BY <1>1, <1>2, <2>2 DEF NotReached
  <2>7. \A a \in Aps : Indexed(a)'
    BY <1>1, <1>2, <2>2, <2>5, <2>6 DEF Indexed
  <2>8. \A a \in Aps : NotReached(a)'
    BY <1>1, <2>3, <2>5, SmpAssumption DEF NotReached, BootTypes
  <2>9. ProcessorsCounted'
    <3>1. \A b, d \in Aps : b # d /\ ap_index'[b] > 0 => ap_index'[b] # ap_index'[d]
      BY <1>1, <2>2 DEF ProcessorsCounted
    <3>2. ASSUME NEW i \in DOMAIN ready', ready'[i] PROVE \E b \in Aps : ap_index'[b] = i /\ ap'[b] = "idle"
      <4>1. i \in DOMAIN ready /\ ready[i]
        BY <3>2, <1>1, <1>2, <2>2 DEF BootTypes
      <4>2. PICK b \in Aps : ap_index[b] = i /\ ap[b] = "idle"
        BY <4>1, <1>1 DEF ProcessorsCounted
      <4>3. b # bsp.ap
        BY <4>2, <2>6
      <4>4. QED BY <4>2, <4>3, <2>2, <2>5
    <3>3. QED BY <3>1, <3>2 DEF ProcessorsCounted
  <2>10. QED BY <2>4, <2>7, <2>8, <2>9 DEF BootInv
<1>4. CASE send_sipi
  <2>1. /\ ap' = [ap EXCEPT ![bsp.ap] = IF ap[bsp.ap] = "waiting" THEN "trampoline" ELSE ap[bsp.ap]]
        /\ bsp' = [bsp EXCEPT !.step = IF bsp.step = "sipi" THEN "again" ELSE "wait", !.rounds = ReadyTimeout]
        /\ ready' = ready /\ started' = started /\ ap_index' = ap_index
    BY <1>4 DEF send_sipi
  <2>2. bsp'.ap = bsp.ap /\ bsp'.step # "init" /\ bsp' = [ap |-> bsp'.ap, step |-> bsp'.step, rounds |-> bsp'.rounds]
    BY <1>1, <2>1 DEF BootTypes
  <2>3. BootTypes'
    BY <1>1, <1>2, <2>1, <2>2 DEF BootTypes
  <2>4. /\ ap'[bsp.ap] = ap[bsp.ap] \/ (ap[bsp.ap] = "waiting" /\ ap'[bsp.ap] = "trampoline")
        /\ \A a \in Aps \ {bsp.ap} : ap'[a] = ap[a]
    BY <1>1, <1>2, <2>1 DEF BootTypes
  <2>5. \A a \in Aps : Indexed(a)'
    BY <1>1, <2>1, <2>4 DEF Indexed
  <2>6. \A a \in Aps : NotReached(a)'
    BY <1>1, <2>2, <2>4, SmpAssumption DEF NotReached, BootTypes
  <2>7. ProcessorsCounted'
    BY <1>1, <2>1, <2>4 DEF ProcessorsCounted
  <2>8. QED BY <2>3, <2>5, <2>6, <2>7 DEF BootInv
<1>5. CASE wait_ready
  <2>1. /\ bsp' = (IF ready[bsp.ap] \/ bsp.rounds = 0 THEN [ap |-> bsp.ap + 1, step |-> "init", rounds |-> 0]
                   ELSE [bsp EXCEPT !.rounds = @ - 1])
        /\ ap' = ap /\ ready' = ready /\ started' = started /\ ap_index' = ap_index /\ bsp.step = "wait"
    BY <1>5 DEF wait_ready
  <2>2. /\ bsp' = [ap |-> bsp'.ap, step |-> bsp'.step, rounds |-> bsp'.rounds]
        /\ bsp'.ap = bsp.ap + 1 \/ (bsp'.ap = bsp.ap /\ bsp'.step # "init")
    BY <1>1, <2>1 DEF BootTypes
  <2>3. BootTypes'
    BY <1>1, <2>1, <2>2 DEF BootTypes
  <2>4. \A a \in Aps : Indexed(a)'
    BY <1>1, <2>1 DEF Indexed
  <2>5. \A a \in Aps : NotReached(a)'
    BY <1>1, <2>1, <2>2, SmpAssumption DEF NotReached, BootTypes
  <2>6. ProcessorsCounted'
    BY <1>1, <2>1 DEF ProcessorsCounted
  <2>7. QED BY <2>3, <2>4, <2>5, <2>6 DEF BootInv
<1>6. QED BY <1>3, <1>4, <1>5

(* A processor takes the next index of the counter. *)
LEMMA CountStep ==
    ASSUME BootInv, NEW a \in Aps, ap_count(a)
    PROVE  BootInv'
<1>1. BootTypes /\ (\A b \in Aps : Indexed(b) /\ NotReached(b)) /\ ProcessorsCounted
  BY DEF BootInv
<1>2. /\ ap[a] = "trampoline" /\ ap' = [ap EXCEPT ![a] = "running"] /\ started' = started + 1
      /\ ap_index' = [ap_index EXCEPT ![a] = started + 1] /\ ready' = ready /\ bsp' = bsp
  BY DEF ap_count
<1>3. /\ ap'[a] = "running" /\ ap_index'[a] = started + 1
      /\ \A b \in Aps \ {a} : ap'[b] = ap[b] /\ ap_index'[b] = ap_index[b]
  BY <1>1, <1>2 DEF BootTypes
<1>4. BootTypes'
  BY <1>1, <1>2 DEF BootTypes
<1>5. \A b \in Aps : Indexed(b)'
  BY <1>1, <1>2, <1>3 DEF Indexed, BootTypes
<1>6. \A b \in Aps : NotReached(b)'
  BY <1>1, <1>2, <1>3 DEF NotReached
<1>7. \A b \in Aps : ap_index[b] <= started /\ ap_index[b] \in Nat
  BY <1>1 DEF Indexed, BootTypes
<1>8. ProcessorsCounted'
  BY <1>1, <1>2, <1>3, <1>7 DEF ProcessorsCounted, BootTypes
<1>9. QED BY <1>4, <1>5, <1>6, <1>8 DEF BootInv

(* A processor announces itself under its index. *)
LEMMA ReadyStep ==
    ASSUME BootInv, NEW a \in Aps, ap_ready(a)
    PROVE  BootInv'
<1>1. BootTypes /\ (\A b \in Aps : Indexed(b) /\ NotReached(b)) /\ ProcessorsCounted
  BY DEF BootInv
<1>2. /\ ap[a] = "running" /\ ap' = [ap EXCEPT ![a] = "idle"] /\ started' = started
      /\ ap_index' = ap_index /\ ready' = [ready EXCEPT ![ap_index[a]] = TRUE] /\ bsp' = bsp
  BY DEF ap_ready
<1>3. ap'[a] = "idle" /\ \A b \in Aps \ {a} : ap'[b] = ap[b]
  BY <1>1, <1>2 DEF BootTypes
<1>4. /\ ready' \in [1 .. Cardinality(Aps) -> BOOLEAN]
      /\ \A i \in 1 .. Cardinality(Aps) : ready'[i] = ready[i] \/ i = ap_index[a]
  BY <1>1, <1>2 DEF BootTypes
<1>5. BootTypes'
  BY <1>1, <1>2, <1>4 DEF BootTypes
<1>6. \A b \in Aps : Indexed(b)'
  BY <1>1, <1>2, <1>3 DEF Indexed
<1>7. \A b \in Aps : NotReached(b)'
  BY <1>1, <1>2, <1>3 DEF NotReached
<1>8. ProcessorsCounted'
  <2>1. \A b, d \in Aps : b # d /\ ap_index'[b] > 0 => ap_index'[b] # ap_index'[d]
    BY <1>1, <1>2 DEF ProcessorsCounted
  <2>2. ASSUME NEW i \in DOMAIN ready', ready'[i] PROVE \E b \in Aps : ap_index'[b] = i /\ ap'[b] = "idle"
    <3>1. CASE i = ap_index[a]
      BY <3>1, <1>2, <1>3
    <3>2. CASE i # ap_index[a]
      <4>1. i \in DOMAIN ready /\ ready[i]
        BY <3>2, <2>2, <1>1, <1>4 DEF BootTypes
      <4>2. PICK b \in Aps : ap_index[b] = i /\ ap[b] = "idle"
        BY <4>1, <1>1 DEF ProcessorsCounted
      <4>3. QED BY <4>2, <1>2, <1>3
    <3>3. QED BY <3>1, <3>2
  <2>3. QED BY <2>1, <2>2 DEF ProcessorsCounted
<1>9. QED BY <1>5, <1>6, <1>7, <1>8 DEF BootInv

LEMMA BootStep == BootInv /\ [SmpNext]_smp_vars => BootInv'
<1> SUFFICES ASSUME BootInv, [SmpNext]_smp_vars PROVE BootInv'
  OBVIOUS
<1>1. CASE send_init_ipi \/ send_sipi \/ wait_ready
  BY <1>1, BspStep
<1>2. ASSUME NEW a \in Aps, ap_count(a) PROVE BootInv'
  BY <1>2, CountStep
<1>3. ASSUME NEW a \in Aps, ap_ready(a) PROVE BootInv'
  BY <1>3, ReadyStep
<1>4. CASE UNCHANGED <<ap, ap_index, started, ready, bsp>>
  <2>1. BootTypes' /\ ProcessorsCounted'
    BY <1>4 DEF BootInv, BootTypes, ProcessorsCounted
  <2>2. \A a \in Aps : Indexed(a)' /\ NotReached(a)'
    BY <1>4 DEF BootInv, Indexed, NotReached
  <2>3. QED BY <2>1, <2>2 DEF BootInv
<1>5. ASSUME NEW c \in Cpus,
             (\E l \in Locks : lock_cli(c, l) \/ Interrupt(c, l)) \/ lock_acquire(c) \/ lock_save(c)
             \/ unlock_release(c) \/ unlock_restore(c) \/ InterruptDone(c)
      PROVE  UNCHANGED <<ap, ap_index, started, ready, bsp>>
  BY <1>5 DEF lock_cli, Interrupt, lock_acquire, lock_save, unlock_release, unlock_restore, InterruptDone, boot_state
<1>6. ASSUME NEW t \in MadtTables, acpi_parse(t) PROVE UNCHANGED <<ap, ap_index, started, ready, bsp>>
  BY <1>6 DEF acpi_parse
<1>7. UNCHANGED smp_vars => UNCHANGED <<ap, ap_index, started, ready, bsp>>
  BY DEF smp_vars, boot_state
<1>8. QED BY <1>1, <1>2, <1>3, <1>4, <1>5, <1>6, <1>7 DEF SmpNext

(* start_aps and ap_main, for any number of processors and any timeout: no    *)
(* two processors take one index, late starters included, and AP_READY of an *)
(* index is set only by the processor that has it, once it idles.            *)
THEOREM ProcessorsAreCounted == SmpSpec => []ProcessorsCounted
<1>1. BootInv => ProcessorsCounted
  BY DEF BootInv
<1>2. QED BY <1>1, BootStart, BootStep, PTL DEF SmpSpec
(* ------------------------------------------------------- the MADT walk *)
(* The start of the walk, and what it carries.                             *)
Start(t) == [ended |-> FALSE, room |-> t.room, found |-> [cpus |-> <<>>, ioapic |-> 0, overrides |-> <<>>]]
Findings == [cpus : Seq(Nat), ioapic : Nat, overrides : Seq(Nat)]
Walks == [ended : BOOLEAN, room : Nat, found : Findings]

LEMMA NotedTyped ==
    ASSUME NEW f \in Findings, NEW e \in MadtEntry
    PROVE  /\ Noted(f, e) \in Findings
           /\ Noted(f, e).cpus = IF EnabledCpu(e) /\ Len(f.cpus) < MAX_CPUS THEN Append(f.cpus, e.id) ELSE f.cpus
<1>1. /\ f = [cpus |-> f.cpus, ioapic |-> f.ioapic, overrides |-> f.overrides]
      /\ f.cpus \in Seq(Nat) /\ f.ioapic \in Nat /\ f.overrides \in Seq(Nat) /\ e.id \in Nat
  BY DEF Findings, MadtEntry
<1>2. Append(f.cpus, e.id) \in Seq(Nat) /\ Append(f.overrides, e.id) \in Seq(Nat)
  BY <1>1
<1>3. CASE EnabledCpu(e) /\ Len(f.cpus) < MAX_CPUS
  <2>1. Noted(f, e) = [f EXCEPT !.cpus = Append(f.cpus, e.id)]
    BY <1>3 DEF Noted, EnabledCpu
  <2>2. Noted(f, e) = [cpus |-> Append(f.cpus, e.id), ioapic |-> f.ioapic, overrides |-> f.overrides]
    BY <1>1, <2>1
  <2>3. QED BY <1>1, <1>2, <1>3, <2>2 DEF Findings
<1>4. CASE ~(EnabledCpu(e) /\ Len(f.cpus) < MAX_CPUS)
  <2>1. \/ Noted(f, e) = f
        \/ Noted(f, e) = [f EXCEPT !.ioapic = e.id]
        \/ Noted(f, e) = [f EXCEPT !.overrides = Append(f.overrides, e.id)]
    BY <1>4 DEF Noted, EnabledCpu
  <2>2. \/ Noted(f, e) = f
        \/ Noted(f, e) = [cpus |-> f.cpus, ioapic |-> e.id, overrides |-> f.overrides]
        \/ Noted(f, e) = [cpus |-> f.cpus, ioapic |-> f.ioapic, overrides |-> Append(f.overrides, e.id)]
    BY <1>1, <2>1
  <2>3. Noted(f, e).cpus = f.cpus
    BY <2>2
  <2>4. Noted(f, e) \in Findings
    <3>1. \A c, o \in Seq(Nat), i \in Nat : [cpus |-> c, ioapic |-> i, overrides |-> o] \in Findings
      BY DEF Findings
    <3>2. QED BY <1>1, <1>2, <2>2, <3>1
  <2>5. QED BY <1>4, <2>3, <2>4
<1>5. QED BY <1>3, <1>4

Breaks(w, e) == e.len < 2 \/ e.len > w.room
LEMMA ScanTyped ==
    ASSUME NEW w \in Walks, NEW e \in MadtEntry
    PROVE  /\ Scan(w, e) \in Walks
           /\ w.ended \/ Breaks(w, e) => Scan(w, e) = [ended |-> TRUE, room |-> w.room, found |-> w.found]
           /\ ~w.ended /\ ~Breaks(w, e) =>
                 Scan(w, e) = [ended |-> FALSE, room |-> w.room - e.len, found |-> Noted(w.found, e)]
<1>1. /\ w = [ended |-> w.ended, room |-> w.room, found |-> w.found]
      /\ w.ended \in BOOLEAN /\ w.room \in Nat /\ w.found \in Findings /\ e.len \in Nat
  BY DEF Walks, MadtEntry
<1>2. w.ended \/ w.room < 2 \/ e.len < 2 \/ e.len > w.room <=> w.ended \/ Breaks(w, e)
  BY <1>1 DEF Breaks
<1>3. CASE w.ended \/ Breaks(w, e)
  <2>1. Scan(w, e) = [w EXCEPT !.ended = TRUE]
    BY <1>2, <1>3 DEF Scan
  <2>2. Scan(w, e) = [ended |-> TRUE, room |-> w.room, found |-> w.found]
    BY <1>1, <2>1
  <2>3. QED BY <1>1, <1>3, <2>2 DEF Walks
<1>4. CASE ~w.ended /\ ~Breaks(w, e)
  <2>1. Scan(w, e) = [w EXCEPT !.room = w.room - e.len, !.found = Noted(w.found, e)]
    BY <1>2, <1>4 DEF Scan
  <2>2. Scan(w, e) = [ended |-> FALSE, room |-> w.room - e.len, found |-> Noted(w.found, e)]
    <3>1. w.ended = FALSE
      BY <1>1, <1>4
    <3>2. QED BY <1>1, <2>1, <3>1
  <2>3. w.room - e.len \in Nat
    BY <1>1, <1>4 DEF Breaks
  <2>4. Noted(w.found, e) \in Findings
    BY <1>1, NotedTyped
  <2>5. QED BY <1>4, <2>2, <2>3, <2>4 DEF Walks
<1>5. QED BY <1>3, <1>4

(* Where the entries end is what the loop adds up. *)
LEMMA EndsAre ==
    ASSUME NEW entries \in Seq(MadtEntry)
    PROVE  /\ \A n \in 0 .. Len(entries) : EntryEnds(entries)[n] \in Nat
           /\ EntryEnds(entries)[0] = 0
           /\ \A n \in 1 .. Len(entries) : EntryEnds(entries)[n] = EntryEnds(entries)[n - 1] + entries[n].len
<1> DEFINE N == Len(entries)
           F == [x \in Nat \X Nat |-> x[2] + IF x[1] \in 1 .. N THEN entries[x[1]].len ELSE 0]
           Is(f) == f = [n \in 0 .. N |-> IF n = 0 THEN 0 ELSE f[n - 1] + entries[n].len]
           g == EntryEnds(entries)
<1>1. N \in Nat /\ \A n \in 1 .. N : n - 1 \in 0 .. N /\ entries[n].len \in Nat
  <2>1. N \in Nat /\ \A n \in 1 .. N : n - 1 \in 0 .. N /\ entries[n] \in MadtEntry
    OBVIOUS
  <2>2. \A e \in MadtEntry : e.len \in Nat
    BY DEF MadtEntry
  <2>3. QED BY <2>1, <2>2
<1>2. F \in Steps(Nat)
  BY <1>1 DEF Steps
<1>3. PICK f \in [0 .. N -> Nat] : f[0] = 0 /\ \A k \in 1 .. N : f[k] = F[<<k, f[k - 1]>>]
  <2> HIDE DEF F, N
  <2>1. Runs(Nat, 0, F, N) # {}
    BY <1>1, <1>2, Recursion
  <2>2. QED BY <2>1 DEF Runs
<1>4. ASSUME NEW k \in 1 .. N PROVE f[k] = f[k - 1] + entries[k].len
  <2>1. f[k - 1] \in Nat /\ k \in Nat
    <3>1. k - 1 \in 0 .. N /\ k \in Nat
      BY <1>1
    <3>2. QED BY ONLY <3>1, f \in [0 .. N -> Nat]
  <2>2. F[<<k, f[k - 1]>>] = f[k - 1] + entries[k].len
    BY <2>1
  <2>3. QED BY <1>3, <2>2
<1> HIDE DEF F
<1>5. Is(f)
  <2>1. \A n \in 0 .. N : f[n] = IF n = 0 THEN 0 ELSE f[n - 1] + entries[n].len
    BY <1>1, <1>3, <1>4
  <2>2. QED BY <2>1
<1>6. g = CHOOSE h : Is(h)
  BY DEF EntryEnds
<1>7. Is(g)
  <2> HIDE DEF Is, g
  <2>1. QED BY <1>5, <1>6
<1>8. g[0] = 0 /\ \A n \in 1 .. N : g[n] = g[n - 1] + entries[n].len
  <2>1. \A n \in 0 .. N : g[n] = IF n = 0 THEN 0 ELSE g[n - 1] + entries[n].len
    BY <1>7
  <2> HIDE DEF g, Is
  <2>2. N \in Nat /\ 0 \in 0 .. N /\ \A n \in 1 .. N : n \in 0 .. N /\ n # 0
    BY <1>1
  <2>3. QED BY <2>1, <2>2
<1> HIDE DEF N, g, Is
<1> DEFINE S == {n \in 0 .. N : g[n] \in Nat}
<1>9. 0 \in S /\ \A k \in 0 .. N - 1 : k \in S => k + 1 \in S
  <2>1. 0 \in S
    BY <1>1, <1>8
  <2>2. ASSUME NEW k \in 0 .. N - 1, k \in S PROVE k + 1 \in S
    <3>1. k + 1 \in 1 .. N /\ (k + 1) - 1 = k /\ g[k] \in Nat
      BY <1>1, <2>2
    <3>2. g[k + 1] = g[k] + entries[k + 1].len /\ entries[k + 1].len \in Nat
      BY <1>1, <1>8, <3>1
    <3>3. QED BY <1>1, <3>1, <3>2
  <2>3. QED BY <2>1, <2>2
<1>10. \A n \in 0 .. N : n \in S
  <2> HIDE DEF S
  <2>1. QED BY <1>1, <1>9, Induct
<1>11. QED BY <1>8, <1>10 DEF N, g

(* The walk scans the entries one by one. *)
LEMMA WalkIs ==
    ASSUME NEW t \in MadtTables
    PROVE  /\ \A n \in 0 .. Len(t.entries) : Walk(t)[n] \in Walks
           /\ Walk(t)[0] = Start(t)
           /\ \A n \in 1 .. Len(t.entries) : Walk(t)[n] = Scan(Walk(t)[n - 1], t.entries[n])
<1> DEFINE N == Len(t.entries)
           a == Start(t)
           F == [x \in Nat \X Walks |-> IF x[1] \in 1 .. N THEN Scan(x[2], t.entries[x[1]]) ELSE x[2]]
           Is(f) == f = [n \in 0 .. N |-> IF n = 0 THEN a ELSE Scan(f[n - 1], t.entries[n])]
           g == Walk(t)
<1>1. t.entries \in Seq(MadtEntry) /\ t.room \in Nat
  BY SmpAssumption
<1>2. N \in Nat /\ \A n \in 1 .. N : n - 1 \in 0 .. N /\ t.entries[n] \in MadtEntry
  BY <1>1
<1>3. a \in Walks
  BY <1>1 DEF Start, Walks, Findings
<1>4. \A w \in Walks, n \in 1 .. N : Scan(w, t.entries[n]) \in Walks
  BY <1>2, ScanTyped
<1>5. F \in Steps(Walks)
  BY <1>4 DEF Steps
<1> HIDE DEF a
<1>6. PICK f \in [0 .. N -> Walks] : f[0] = a /\ \A k \in 1 .. N : f[k] = F[<<k, f[k - 1]>>]
  <2> HIDE DEF F, N
  <2>1. Runs(Walks, a, F, N) # {}
    BY <1>2, <1>3, <1>5, Recursion
  <2>2. QED BY <2>1 DEF Runs
<1>7. ASSUME NEW k \in 1 .. N PROVE f[k] = Scan(f[k - 1], t.entries[k])
  <2>1. f[k - 1] \in Walks /\ k \in Nat
    BY <1>2
  <2>2. F[<<k, f[k - 1]>>] = Scan(f[k - 1], t.entries[k])
    BY <2>1
  <2>3. QED BY <1>6, <2>2
<1> HIDE DEF F
<1>8. Is(f)
  <2>1. \A n \in 0 .. N : f[n] = IF n = 0 THEN a ELSE Scan(f[n - 1], t.entries[n])
    BY <1>2, <1>6, <1>7
  <2>2. QED BY <2>1
<1>9. g = CHOOSE h : Is(h)
  BY DEF Walk, a, Start
<1>10. Is(g)
  <2> HIDE DEF Is, g
  <2>1. QED BY <1>8, <1>9
<1>11. g[0] = a /\ \A n \in 1 .. N : g[n] = Scan(g[n - 1], t.entries[n])
  <2> HIDE DEF g
  <2>1. \A n \in 0 .. N : g[n] = IF n = 0 THEN a ELSE Scan(g[n - 1], t.entries[n])
    BY <1>10
  <2>2. 0 \in 0 .. N /\ \A n \in 1 .. N : n \in 0 .. N /\ n # 0
    BY <1>2
  <2>3. QED BY ONLY <2>1, <2>2, ZenonT(30)
<1> HIDE DEF N, g, Is
<1> DEFINE S == {n \in 0 .. N : g[n] \in Walks}
<1>12. 0 \in S /\ \A k \in 0 .. N - 1 : k \in S => k + 1 \in S
  <2>1. 0 \in S
    BY <1>2, <1>3, <1>11
  <2>2. ASSUME NEW k \in 0 .. N - 1, k \in S PROVE k + 1 \in S
    <3>1. k + 1 \in 1 .. N /\ (k + 1) - 1 = k /\ g[k] \in Walks
      BY <1>2, <2>2
    <3>2. g[k + 1] = Scan(g[k], t.entries[k + 1])
      BY <1>11, <3>1
    <3>3. g[k + 1] \in Walks
      BY <1>4, <3>1, <3>2
    <3>4. QED BY <1>2, <3>1, <3>3
  <2>3. QED BY <2>1, <2>2
<1>13. \A n \in 0 .. N : n \in S
  <2> HIDE DEF S
  <2>1. QED BY <1>2, <1>12, Induct
<1>14. QED BY <1>11, <1>13 DEF N, g, a

(* The number of an enabled entry among the enabled ones. *)
LEMMA Ranks ==
    ASSUME NEW t, NEW n \in Nat
    PROVE  /\ IsFiniteSet(EnabledIn(t, n)) /\ Cardinality(EnabledIn(t, n)) \in Nat
           /\ \A i \in EnabledIn(t, n) : /\ Cardinality(EnabledIn(t, i)) \in 1 .. Cardinality(EnabledIn(t, n))
                                         /\ i \in 1 .. n
<1>1. ASSUME NEW m \in Nat PROVE IsFiniteSet(EnabledIn(t, m)) /\ Cardinality(EnabledIn(t, m)) \in Nat
  <2>1. IsFiniteSet(1 .. m)
    BY FS_Interval
  <2>2. EnabledIn(t, m) \in SUBSET (1 .. m)
    BY DEF EnabledIn
  <2>3. QED BY <2>1, <2>2, FS_Subset, FS_CardinalityType
<1>2. ASSUME NEW i \in EnabledIn(t, n)
      PROVE  Cardinality(EnabledIn(t, i)) \in 1 .. Cardinality(EnabledIn(t, n)) /\ i \in 1 .. n
  <2>1. i \in 1 .. n /\ i \in EnabledIn(t, i) /\ EnabledIn(t, i) \in SUBSET EnabledIn(t, n)
    BY DEF EnabledIn
  <2>2. IsFiniteSet(EnabledIn(t, i)) /\ Cardinality(EnabledIn(t, i)) \in Nat
    BY <1>1, <2>1
  <2>3. Cardinality(EnabledIn(t, i)) # 0
    BY <2>1, <2>2, FS_EmptySet
  <2>4. Cardinality(EnabledIn(t, i)) <= Cardinality(EnabledIn(t, n))
    BY <1>1, <2>1, FS_Subset
  <2>5. QED BY <1>1, <2>1, <2>2, <2>3, <2>4
<1>3. QED BY <1>1, <1>2

(* One more entry: unless it is enabled and sound, the enabled ones stay. *)
LEMMA OneMore ==
    ASSUME NEW t, NEW n \in Nat
    PROVE  /\ WholeEntries(t, n + 1) /\ EnabledCpu(t.entries[n + 1]) =>
                 /\ EnabledIn(t, n + 1) = EnabledIn(t, n) \cup {n + 1}
                 /\ Cardinality(EnabledIn(t, n + 1)) = Cardinality(EnabledIn(t, n)) + 1
           /\ ~(WholeEntries(t, n + 1) /\ EnabledCpu(t.entries[n + 1])) => EnabledIn(t, n + 1) = EnabledIn(t, n)
<1>1. \A i : i \in 1 .. n + 1 <=> i \in 1 .. n \/ i = n + 1
  OBVIOUS
<1>2. ~(WholeEntries(t, n + 1) /\ EnabledCpu(t.entries[n + 1])) => EnabledIn(t, n + 1) = EnabledIn(t, n)
  BY <1>1 DEF EnabledIn
<1>3. ASSUME WholeEntries(t, n + 1), EnabledCpu(t.entries[n + 1])
      PROVE  /\ EnabledIn(t, n + 1) = EnabledIn(t, n) \cup {n + 1}
             /\ Cardinality(EnabledIn(t, n + 1)) = Cardinality(EnabledIn(t, n)) + 1
  <2>1. EnabledIn(t, n + 1) = EnabledIn(t, n) \cup {n + 1}
    BY <1>1, <1>3 DEF EnabledIn
  <2>2. n + 1 \notin EnabledIn(t, n)
    BY DEF EnabledIn
  <2>3. IsFiniteSet(EnabledIn(t, n))
    BY Ranks
  <2>4. QED BY <2>1, <2>2, <2>3, FS_AddElement
<1>4. QED BY <1>2, <1>3

(* What is found grows with the enabled entries. *)
LEMMA FoundMore ==
    ASSUME NEW t, NEW n \in Nat, NEW cpus \in Seq(Nat), FoundIn(t, n, cpus), t.entries[n + 1].id \in Nat,
           WholeEntries(t, n + 1), EnabledCpu(t.entries[n + 1])
    PROVE  FoundIn(t, n + 1, IF Len(cpus) < MAX_CPUS THEN Append(cpus, t.entries[n + 1].id) ELSE cpus)
<1> DEFINE E(m) == EnabledIn(t, m)
           C(m) == Cardinality(EnabledIn(t, m))
           id == t.entries[n + 1].id
           more == IF Len(cpus) < MAX_CPUS THEN Append(cpus, id) ELSE cpus
<1>1. E(n + 1) = E(n) \cup {n + 1} /\ C(n + 1) = C(n) + 1
  BY OneMore
<1>2. /\ C(n) \in Nat /\ MAX_CPUS \in Nat
      /\ \A i \in E(n) : C(i) \in 1 .. C(n)
  BY Ranks, SmpAssumption
<1>3. /\ Len(cpus) = IF C(n) < MAX_CPUS THEN C(n) ELSE MAX_CPUS
      /\ \A i \in E(n) : C(i) <= MAX_CPUS => cpus[C(i)] = t.entries[i].id
  BY DEF FoundIn
<1> HIDE DEF E, C
<1>4. CASE C(n) < MAX_CPUS
  <2>1. more = Append(cpus, id) /\ Len(more) = C(n) + 1 /\ Len(cpus) = C(n)
    BY <1>2, <1>3, <1>4
  <2>2. more[C(n) + 1] = id /\ \A k \in 1 .. C(n) : more[k] = cpus[k]
    BY <1>2, <2>1
  <2> HIDE DEF more, id
  <2>3. Len(more) = IF C(n + 1) < MAX_CPUS THEN C(n + 1) ELSE MAX_CPUS
    BY <1>1, <1>2, <1>4, <2>1
  <2>4. \A i \in E(n) : C(i) <= MAX_CPUS => more[C(i)] = t.entries[i].id
    BY <1>2, <1>3, <2>2
  <2>5. more[C(n + 1)] = t.entries[n + 1].id
    BY <1>1, <2>2 DEF id
  <2>6. \A i \in E(n + 1) : C(i) <= MAX_CPUS => more[C(i)] = t.entries[i].id
    BY <1>1, <2>4, <2>5
  <2>7. QED BY <2>3, <2>6 DEF FoundIn, E, C, more, id
<1>5. CASE ~(C(n) < MAX_CPUS)
  <2>1. more = cpus /\ Len(cpus) = MAX_CPUS
    BY <1>2, <1>3, <1>5
  <2>2. ~(C(n + 1) < MAX_CPUS) /\ ~(C(n + 1) <= MAX_CPUS)
    BY <1>1, <1>2, <1>5
  <2>3. \A i \in E(n + 1) : C(i) <= MAX_CPUS => cpus[C(i)] = t.entries[i].id
    BY <1>1, <1>3, <2>2
  <2> HIDE DEF more
  <2>4. FoundIn(t, n + 1, more)
    BY <2>1, <2>2, <2>3 DEF FoundIn, E, C
  <2>5. QED BY <2>4 DEF more, id
<1>6. QED BY <1>4, <1>5

(* After n entries the walk has not ended iff they are sound, its room is   *)
(* what is left behind them, and it has found their processors.            *)
WalkKeeps(t, n) ==
    /\ Walk(t)[n].ended <=> ~WholeEntries(t, n)
    /\ WholeEntries(t, n) => Walk(t)[n].room + EntryEnds(t.entries)[n] = t.room
    /\ FoundIn(t, n, Walk(t)[n].found.cpus)

(* What is left behind an entry has room for it iff the table has.         *)
LEMMA RoomLeft ==
    ASSUME NEW at \in Nat, NEW len \in Nat, NEW left \in Nat, NEW room \in Nat, left + at = room
    PROVE  at + len <= room <=> len <= left
  OBVIOUS

LEMMA WalkStep ==
    ASSUME NEW t \in MadtTables, NEW n \in 0 .. Len(t.entries) - 1, WalkKeeps(t, n)
    PROVE  WalkKeeps(t, n + 1)
<1> DEFINE w == Walk(t)[n]
           v == Walk(t)[n + 1]
           e == t.entries[n + 1]
           at == EntryEnds(t.entries)[n]
           end == EntryEnds(t.entries)[n + 1]
<1>1. t.entries \in Seq(MadtEntry) /\ t.room \in Nat
  BY SmpAssumption
<1>2. n \in Nat /\ n \in 0 .. Len(t.entries) /\ n + 1 \in 1 .. Len(t.entries) /\ (n + 1) - 1 = n /\ Len(t.entries) \in Nat
  BY <1>1
<1>3. e \in MadtEntry /\ e.len \in Nat /\ e.id \in Nat
  <2>1. e \in MadtEntry
    BY <1>1, <1>2
  <2>2. QED BY <2>1 DEF MadtEntry
<1>4. w \in Walks /\ v = Scan(w, e)
  BY <1>2, WalkIs
<1>5. at \in Nat /\ end = at + e.len
  BY <1>1, <1>2, EndsAre
<1>6. WholeEntries(t, n + 1) <=> WholeEntries(t, n) /\ e.len >= 2 /\ end <= t.room
  <2>1. \A i : i \in 1 .. n + 1 <=> i \in 1 .. n \/ i = n + 1
    BY <1>2
  <2>2. QED BY <2>1 DEF WholeEntries
<1>7. /\ w.ended <=> ~WholeEntries(t, n)
      /\ WholeEntries(t, n) => w.room + at = t.room
      /\ FoundIn(t, n, w.found.cpus)
  BY DEF WalkKeeps
<1>8. w.room \in Nat /\ w.found \in Findings /\ w.found.cpus \in Seq(Nat)
  BY <1>4 DEF Walks, Findings
<1>9. /\ w.ended \/ Breaks(w, e) => v = [ended |-> TRUE, room |-> w.room, found |-> w.found]
      /\ ~w.ended /\ ~Breaks(w, e) => v = [ended |-> FALSE, room |-> w.room - e.len, found |-> Noted(w.found, e)]
  BY <1>3, <1>4, ScanTyped
<1>10. Noted(w.found, e).cpus = IF EnabledCpu(e) /\ Len(w.found.cpus) < MAX_CPUS THEN Append(w.found.cpus, e.id) ELSE w.found.cpus
  BY <1>3, <1>8, NotedTyped
<1> HIDE DEF w, v, at, end
<1>11. WholeEntries(t, n + 1) <=> ~w.ended /\ ~Breaks(w, e)
  <2>1. CASE WholeEntries(t, n)
    <3>1. ~w.ended /\ w.room + at = t.room
      BY <1>7, <2>1
    <3>2. end <= t.room <=> e.len <= w.room
      <4>1. at + e.len <= t.room <=> e.len <= w.room
        <5> HIDE DEF e
        <5>1. at \in Nat /\ e.len \in Nat /\ w.room \in Nat /\ t.room \in Nat /\ w.room + at = t.room
          BY ONLY <1>1, <1>3, <1>5, <1>8, <3>1
        <5>2. QED BY ONLY <5>1, RoomLeft, Zenon
      <4>2. QED BY <1>5, <4>1
    <3>3. e.len >= 2 /\ e.len <= w.room <=> ~(e.len < 2 \/ e.len > w.room)
      BY <1>3, <1>8
    <3>4. QED BY <1>6, <2>1, <3>1, <3>2, <3>3 DEF Breaks
  <2>2. CASE ~WholeEntries(t, n)
    BY <1>6, <1>7, <2>2
  <2>3. QED BY <2>1, <2>2
<1>12. CASE ~WholeEntries(t, n + 1)
  <2>1. v.ended /\ v.found.cpus = w.found.cpus
    BY <1>9, <1>11, <1>12
  <2>2. EnabledIn(t, n + 1) = EnabledIn(t, n)
    BY <1>2, <1>12, OneMore
  <2>3. FoundIn(t, n + 1, v.found.cpus)
    BY <1>7, <2>1, <2>2 DEF FoundIn
  <2>4. QED BY <1>12, <2>1, <2>3 DEF WalkKeeps, v
<1>13. CASE WholeEntries(t, n + 1)
  <2>1. v = [ended |-> FALSE, room |-> w.room - e.len, found |-> Noted(w.found, e)]
    BY <1>9, <1>11, <1>13
  <2>2. ~v.ended /\ v.room = w.room - e.len /\ v.found.cpus = Noted(w.found, e).cpus
    BY <2>1
  <2>3. v.room + end = t.room
    BY <1>1, <1>3, <1>5, <1>6, <1>7, <1>8, <1>13, <2>2
  <2>4. FoundIn(t, n + 1, v.found.cpus)
    <3>1. CASE EnabledCpu(e)
      <4>1. v.found.cpus = IF Len(w.found.cpus) < MAX_CPUS THEN Append(w.found.cpus, e.id) ELSE w.found.cpus
        BY <1>10, <2>2, <3>1
      <4>2. QED BY <1>2, <1>3, <1>7, <1>8, <1>13, <3>1, <4>1, FoundMore
    <3>2. CASE ~EnabledCpu(e)
      <4>1. v.found.cpus = w.found.cpus
        BY <1>10, <2>2, <3>2
      <4>2. EnabledIn(t, n + 1) = EnabledIn(t, n)
        BY <1>2, <3>2, OneMore
      <4>3. QED BY <1>7, <4>1, <4>2 DEF FoundIn
    <3>3. QED BY <3>1, <3>2
  <2>5. QED BY <1>13, <2>2, <2>3, <2>4 DEF WalkKeeps, v, end
<1>14. QED BY <1>12, <1>13

(* parse_madt finds the processors of the sound part of any table. *)
LEMMA ParseFinds ==
    ASSUME NEW t \in MadtTables
    PROVE  FoundIn(t, Len(t.entries), parse_madt(t).cpus)
<1> DEFINE N == Len(t.entries)
           S == {n \in 0 .. N : WalkKeeps(t, n)}
<1>1. t.entries \in Seq(MadtEntry) /\ t.room \in Nat /\ N \in Nat
  BY SmpAssumption
<1>2. WalkKeeps(t, 0)
  <2>1. Walk(t)[0] = Start(t) /\ EntryEnds(t.entries)[0] = 0
    BY <1>1, WalkIs, EndsAre
  <2>2. 1 .. 0 = {}
    OBVIOUS
  <2>3. WholeEntries(t, 0) /\ EnabledIn(t, 0) = {}
    BY <2>2 DEF WholeEntries, EnabledIn
  <2>4. Cardinality(EnabledIn(t, 0)) = 0 /\ MAX_CPUS \in Nat
    BY <2>3, FS_EmptySet, SmpAssumption
  <2>5. FoundIn(t, 0, <<>>)
    BY <2>3, <2>4 DEF FoundIn
  <2>6. QED BY <1>1, <2>1, <2>3, <2>5 DEF WalkKeeps, Start
<1>3. \A n \in 0 .. N - 1 : n \in S => n + 1 \in S
  BY <1>1, WalkStep
<1>4. \A n \in 0 .. N : n \in S
  <2>1. 0 \in S
    BY <1>1, <1>2
  <2> HIDE DEF S
  <2>2. QED BY <1>1, <1>3, <2>1, Induct
<1>5. WalkKeeps(t, N)
  BY <1>1, <1>4
<1>6. QED BY <1>5 DEF WalkKeeps, parse_madt

(* What acpi_parse leaves. *)
ParsedInv == info = <<>> \/ \E t \in MadtTables : info = <<"error", t>> \/ info = <<"info", t, parse_madt(t)>>

LEMMA ParsedStep == ParsedInv /\ [SmpNext]_smp_vars => ParsedInv'
<1> SUFFICES ASSUME ParsedInv, [SmpNext]_smp_vars PROVE ParsedInv'
  OBVIOUS
<1>1. CASE info' = info
  <2> HIDE DEF parse_madt
  <2>1. QED BY <1>1 DEF ParsedInv
<1>2. ASSUME NEW t \in MadtTables, acpi_parse(t) PROVE ParsedInv'
  <2>1. info' = <<"error", t>> \/ info' = <<"info", t, parse_madt(t)>>
    BY <1>2 DEF acpi_parse
  <2>2. QED BY <2>1 DEF ParsedInv
<1>3. ASSUME NEW c \in Cpus,
             (\E l \in Locks : lock_cli(c, l) \/ Interrupt(c, l)) \/ lock_acquire(c) \/ lock_save(c)
             \/ unlock_release(c) \/ unlock_restore(c) \/ InterruptDone(c)
      PROVE  info' = info
  BY <1>3 DEF lock_cli, Interrupt, lock_acquire, lock_save, unlock_release, unlock_restore, InterruptDone, boot_state
<1>4. ASSUME send_init_ipi \/ send_sipi \/ wait_ready PROVE info' = info
  BY <1>4 DEF send_init_ipi, send_sipi, wait_ready
<1>5. ASSUME NEW a \in Aps, ap_count(a) \/ ap_ready(a) PROVE info' = info
  BY <1>5 DEF ap_count, ap_ready
<1>6. UNCHANGED smp_vars => info' = info
  BY DEF smp_vars, boot_state
<1>7. QED BY <1>1, <1>2, <1>3, <1>4, <1>5, <1>6 DEF SmpNext

(* Interrupts and processors, for any number of CPUs, mutexes and           *)
(* application processors, any timeout and any firmware table: IntMutex     *)
(* keeps the interrupt flag, parse_madt finds the enabled processors of the *)
(* sound part of the table in its order, at most MAX_CPUS, and every         *)
(* processor that starts takes an index of its own.                         *)
THEOREM ProcessorsAreSound == SmpSpec => []SmpSound
<1>1. SmpInit => ParsedInv
  BY DEF SmpInit, ParsedInv
<1>2. ParsedInv => ProcessorsFound
  <2> SUFFICES ASSUME ParsedInv, info # <<>>, info[1] = "info"
               PROVE  FoundIn(info[2], Len(info[2].entries), info[3].cpus)
    BY DEF ProcessorsFound
  <2>1. PICK t \in MadtTables : info = <<"error", t>> \/ info = <<"info", t, parse_madt(t)>>
    BY DEF ParsedInv
  <2>2. info[2] = t /\ info[3] = parse_madt(t)
    BY <2>1
  <2>3. FoundIn(t, Len(t.entries), parse_madt(t).cpus)
    BY ParseFinds
  <2>4. QED BY <2>2, <2>3
<1>3. SmpSpec => []ProcessorsFound
  BY <1>1, <1>2, ParsedStep, PTL DEF SmpSpec
<1>4. QED BY <1>3, InterruptsAreSafe, ProcessorsAreCounted, PTL DEF SmpSound

-----------------------------------------------------------------------------
(* Threads.  The locks of the pthreads library exclude and the stack of a  *)
(* thread outlives it, for every finite set of threads smaller than the    *)
(* writer bit, every use of the library and every number of TLS keys.      *)
(*                                                                         *)
(* PthreadsSound is not inductive: that a reader's exchange succeeds only  *)
(* when nobody writes needs the value it loaded before, that a key is new  *)
(* needs the increments that are still to be undone, and that an exited    *)
(* thread is not started again needs to know whom Creator is starting.     *)

Places == {"none", "idle", "lock", "mark", "critical", "spinning", "exchange", "reading", "writing",
           "initialising", "after", "release", "wait", "woken", "waking", "last", "check", "arrive",
           "left", "undo", "store_arg", "spawn", "spawned", "refused", "take_arg", "running", "exited"}

PtTypes ==
    /\ pc \in [Threads -> Places]
    /\ DOMAIN back = Threads /\ DOMAIN seen = Threads
    /\ DOMAIN keys = Threads /\ DOMAIN joined = Threads
    /\ next_key \in Nat /\ \A t \in Threads : keys[t] \subseteq Nat

(* Where Mutex::lock, Condvar::wait and broadcast return to. *)
Returning ==
    \A t \in Threads :
        /\ pc[t] \in {"lock", "mark"} => back[t] \in {"critical", "check", "left", "arrive"}
        /\ pc[t] \in {"release", "wait", "woken"} => back[t] \in {"critical", "check", "left"}
        /\ pc[t] = "waking" => back[t] \in {"idle", "left"}

MutexHeld ==
    \A t \in Inside : mutex # MUTEX_UNLOCKED /\ \A u \in Inside : u = t

SpinHeld ==
    \A t \in AtPc("spinning") : spin /\ \A u \in AtPc("spinning") : u = t

(* The word of the RwLock is the writer bit or counts the readers; a       *)
(* reader about to exchange did not load the writer bit.                   *)
RwWord ==
    /\ \A t \in AtPc("exchange") : seen[t] # Writer
    /\ \A t \in AtPc("writing") : /\ rw = Writer /\ AtPc("reading") = {}
                                  /\ \A u \in AtPc("writing") : u = t
    /\ AtPc("writing") = {} => rw = Cardinality(AtPc("reading"))

OnceRun == once = 2 \/ AtPc("after") # {} => initialised

(* A key is below the counter even when the increments that found no key   *)
(* left are undone.                                                        *)
KeysFresh ==
    /\ \A t \in Threads : \A k \in keys[t] : k < next_key /\ k < MAX_TLS_KEYS
    /\ \A t, u \in Threads : t # u => keys[t] \cap keys[u] = {}
    /\ AtPc("undo") # {} => next_key >= MAX_TLS_KEYS + Cardinality(AtPc("undo"))

(* Creator starts only a thread that has not been started. *)
Starting ==
    pc[Creator] \in {"store_arg", "spawn"} =>
        back[Creator] \in Threads /\ pc[back[Creator]] = "none"

(* The inductive invariant. *)
PtInv == /\ PtTypes /\ Returning /\ MutexHeld /\ SpinHeld /\ RwWord
         /\ OnceRun /\ KeysFresh /\ Starting /\ StackOutlivesThread

-----------------------------------------------------------------------------
(* The steps of a thread, by the interface they belong to. *)
MutexStep(t) == lock(t) \/ mark_waiters(t) \/ StartLock(t) \/ trylock(t) \/ unlock(t)
LockStep(t) == spin_lock(t) \/ spin_unlock(t) \/ load_read(t) \/ lock_read(t) \/ unlock_read(t) \/ lock_write(t) \/ unlock_write(t)
OnceStep(t) == call_once(t) \/ run_once(t) \/ once_complete(t)
CondStep(t) == cond_wait(t) \/ cond_unlock(t) \/ sys_event_wait(t) \/ cond_relock(t)
WakeStep(t) == signal(t) \/ broadcast(t) \/ broadcast_next(t)
BarrierStep(t) == barrier_wait(t) \/ barrier_arrive(t) \/ barrier_leave(t)
KeyStep(t) == key_create(t) \/ key_undo(t)
CreateStep(t) == pthread_create(t) \/ pthread_entry(t) \/ pthread_take_arg(t) \/ pthread_exit(t) \/ pthread_join(t)

LEMMA StepsOfThread ==
    ASSUME NEW t \in Threads, ThreadStep(t)
    PROVE  \/ MutexStep(t) \/ LockStep(t) \/ OnceStep(t) \/ CondStep(t) \/ WakeStep(t)
           \/ BarrierStep(t) \/ KeyStep(t) \/ CreateStep(t)
  BY DEF ThreadStep, MutexStep, LockStep, OnceStep, CondStep, WakeStep, BarrierStep, KeyStep, CreateStep

(* The threads at a place stay the same when the one that moves neither   *)
(* was nor will be there.                                                  *)
LEMMA PlaceKept ==
    ASSUME PtTypes, NEW t \in Threads, NEW w, NEW to,
           UNCHANGED pc \/ (pc' = [pc EXCEPT ![t] = to] /\ pc[t] # w /\ to # w)
    PROVE  AtPc(w)' = AtPc(w)
  BY DEF PtTypes, AtPc

(* A thread arrives at a place, or leaves it: the numbers there.           *)
LEMMA PlaceEntered ==
    ASSUME PtTypes, NEW t \in Threads, NEW w, pc' = [pc EXCEPT ![t] = w], pc[t] # w
    PROVE  /\ AtPc(w)' = AtPc(w) \cup {t} /\ t \notin AtPc(w)
           /\ IsFiniteSet(AtPc(w)) /\ Cardinality(AtPc(w)) \in Nat
           /\ Cardinality(AtPc(w)') = Cardinality(AtPc(w)) + 1
  <1>1. AtPc(w)' = AtPc(w) \cup {t} /\ t \notin AtPc(w)
    BY DEF PtTypes, AtPc
  <1>2. IsFiniteSet(AtPc(w)) /\ Cardinality(AtPc(w)) \in Nat
    BY PtAssumption, FS_Subset, FS_CardinalityType DEF AtPc
  <1> QED
    BY <1>1, <1>2, FS_AddElement

LEMMA PlaceLeft ==
    ASSUME PtTypes, NEW t \in Threads, NEW w, NEW to, pc' = [pc EXCEPT ![t] = to], pc[t] = w, to # w
    PROVE  /\ AtPc(w)' = AtPc(w) \ {t} /\ t \in AtPc(w)
           /\ IsFiniteSet(AtPc(w)) /\ Cardinality(AtPc(w)) \in Nat \ {0}
           /\ Cardinality(AtPc(w)') = Cardinality(AtPc(w)) - 1
  <1>1. AtPc(w)' = AtPc(w) \ {t} /\ t \in AtPc(w)
    BY DEF PtTypes, AtPc
  <1>2. IsFiniteSet(AtPc(w)) /\ Cardinality(AtPc(w)) \in Nat
    BY PtAssumption, FS_Subset, FS_CardinalityType DEF AtPc
  <1>3. Cardinality(AtPc(w)) # 0
    BY <1>1, <1>2, FS_EmptySet
  <1> QED
    BY <1>1, <1>2, <1>3, FS_RemoveElement

(* Types. *)
LEMMA TypesKept ==
    ASSUME PtInv, NEW t \in Threads, ThreadStep(t)
    PROVE  PtTypes'
  <1> USE DEF PtInv, PtTypes, Places, Returning, lock_vars, cond_vars, other_vars,
              thread_vars
  <1>1. CASE MutexStep(t)
    BY <1>1, PtAssumption DEF MutexStep, lock, mark_waiters, StartLock, trylock, unlock, Goto, CallLock, At
  <1>2. CASE LockStep(t)
    BY <1>2, PtAssumption DEF LockStep, spin_lock, spin_unlock, load_read, lock_read, unlock_read,
           lock_write, unlock_write, Goto, At
  <1>3. CASE OnceStep(t)
    BY <1>3, PtAssumption DEF OnceStep, call_once, run_once, once_complete, Goto, At
  <1>4. CASE CondStep(t)
    BY <1>4, PtAssumption DEF CondStep, cond_wait, cond_unlock, sys_event_wait, cond_relock, Goto,
           CallLock, At
  <1>5. CASE WakeStep(t)
    <2>1. CASE signal(t)
      BY <2>1, PtAssumption DEF signal, At, sys_event_signal
    <2>2. CASE broadcast(t)
      BY <2>2, PtAssumption DEF broadcast, Goto, At
    <2>3. CASE broadcast_next(t)
      <3>1. pc' \in [Threads -> Places]
        BY <2>3 DEF broadcast_next, Goto
      <3>2. DOMAIN back' = Threads /\ DOMAIN seen' = Threads
        BY <2>3 DEF broadcast_next
      <3>3. keys' = keys /\ joined' = joined /\ next_key' = next_key
        BY <2>3 DEF broadcast_next
      <3> QED
        BY <3>1, <3>2, <3>3
    <2> QED
      BY <1>5, <2>1, <2>2, <2>3 DEF WakeStep
  <1>6. CASE BarrierStep(t)
    BY <1>6, PtAssumption DEF BarrierStep, barrier_wait, barrier_arrive, barrier_leave, Goto, CallLock, At
  <1>7. CASE KeyStep(t)
    <2>1. CASE key_create(t)
      BY <2>1, PtAssumption DEF key_create, Goto, At
    <2>2. CASE key_undo(t)
      <3>1. AtPc("undo") # {} /\ IsFiniteSet(AtPc("undo"))
        BY <2>2, PtAssumption, FS_Subset DEF key_undo, AtPc
      <3>2. next_key - 1 \in Nat
        BY <3>1, PtAssumption, FS_CardinalityType, FS_EmptySet DEF KeysFresh
      <3> QED
        BY <2>2, <3>2 DEF key_undo, Goto
    <2> QED
      BY <1>7, <2>1, <2>2 DEF KeyStep
  <1>8. CASE CreateStep(t)
    BY <1>8, PtAssumption DEF CreateStep, pthread_create, pthread_entry, pthread_take_arg, pthread_exit,
           pthread_join, Goto, At, Joinable
  <1> QED
    BY <1>1, <1>2, <1>3, <1>4, <1>5, <1>6, <1>7, <1>8, StepsOfThread

(* The places to return to. *)
LEMMA ReturningKept ==
    ASSUME PtInv, NEW t \in Threads, ThreadStep(t)
    PROVE  Returning'
  <1> USE DEF PtInv, PtTypes, Returning, Places, lock_vars, cond_vars, other_vars,
              thread_vars
  <1>1. CASE MutexStep(t)
    BY <1>1 DEF MutexStep, lock, mark_waiters, StartLock, trylock, unlock, Goto, CallLock, At
  <1>2. CASE LockStep(t)
    BY <1>2 DEF LockStep, spin_lock, spin_unlock, load_read, lock_read, unlock_read,
           lock_write, unlock_write, Goto, At
  <1>3. CASE OnceStep(t)
    BY <1>3 DEF OnceStep, call_once, run_once, once_complete, Goto, At
  <1>4. CASE CondStep(t)
    BY <1>4 DEF CondStep, cond_wait, cond_unlock, sys_event_wait, cond_relock, Goto,
           CallLock, At
  <1>5. CASE WakeStep(t)
    <2>1. CASE signal(t)
      BY <2>1 DEF signal, At, sys_event_signal
    <2>2. CASE broadcast(t)
      BY <2>2 DEF broadcast, Goto, At
    <2>3. CASE broadcast_next(t)
      BY <2>3 DEF broadcast_next, Goto, sys_event_signal
    <2> QED
      BY <1>5, <2>1, <2>2, <2>3 DEF WakeStep
  <1>6. CASE BarrierStep(t)
    BY <1>6 DEF BarrierStep, barrier_wait, barrier_arrive, barrier_leave, Goto, CallLock, At
  <1>7. CASE KeyStep(t)
    BY <1>7 DEF KeyStep, key_create, key_undo, Goto, At
  <1>8. CASE CreateStep(t)
    BY <1>8 DEF CreateStep, pthread_create, pthread_entry, pthread_take_arg, pthread_exit,
           pthread_join, Goto, At, Joinable
  <1> QED
    BY <1>1, <1>2, <1>3, <1>4, <1>5, <1>6, <1>7, <1>8, StepsOfThread

(* The mutex. *)
LEMMA MutexKept ==
    ASSUME PtInv, NEW t \in Threads, ThreadStep(t)
    PROVE  MutexHeld'
  <1> USE DEF PtInv, PtTypes, Returning, MutexHeld, Inside, MUTEX_UNLOCKED,
              MUTEX_LOCKED, MUTEX_LOCKED_WAITERS, lock_vars, cond_vars, other_vars,
              thread_vars
  <1>1. CASE MutexStep(t)
    BY <1>1 DEF MutexStep, lock, mark_waiters, StartLock, trylock, unlock, Goto, CallLock, At
  <1>2. CASE LockStep(t)
    BY <1>2 DEF LockStep, spin_lock, spin_unlock, load_read, lock_read, unlock_read,
           lock_write, unlock_write, Goto, At
  <1>3. CASE OnceStep(t)
    BY <1>3 DEF OnceStep, call_once, run_once, once_complete, Goto, At
  <1>4. CASE CondStep(t)
    BY <1>4 DEF CondStep, cond_wait, cond_unlock, sys_event_wait, cond_relock, Goto,
           CallLock, At
  <1>5. CASE WakeStep(t)
    <2>1. CASE signal(t)
      BY <2>1 DEF signal, At, sys_event_signal
    <2>2. CASE broadcast(t)
      BY <2>2 DEF broadcast, Goto, At
    <2>3. CASE broadcast_next(t)
      BY <2>3 DEF broadcast_next, Goto, sys_event_signal
    <2> QED
      BY <1>5, <2>1, <2>2, <2>3 DEF WakeStep
  <1>6. CASE BarrierStep(t)
    BY <1>6 DEF BarrierStep, barrier_wait, barrier_arrive, barrier_leave, Goto, CallLock, At
  <1>7. CASE KeyStep(t)
    BY <1>7 DEF KeyStep, key_create, key_undo, Goto, At
  <1>8. CASE CreateStep(t)
    BY <1>8 DEF CreateStep, pthread_create, pthread_entry, pthread_take_arg, pthread_exit,
           pthread_join, Goto, At, Joinable
  <1> QED
    BY <1>1, <1>2, <1>3, <1>4, <1>5, <1>6, <1>7, <1>8, StepsOfThread

(* The spin lock. *)
LEMMA SpinKept ==
    ASSUME PtInv, NEW t \in Threads, ThreadStep(t)
    PROVE  SpinHeld'
  <1> USE DEF PtInv, PtTypes, Returning, SpinHeld, AtPc, lock_vars, cond_vars,
              other_vars, thread_vars
  <1>1. CASE MutexStep(t)
    BY <1>1 DEF MutexStep, lock, mark_waiters, StartLock, trylock, unlock, Goto, CallLock, At
  <1>2. CASE LockStep(t)
    BY <1>2 DEF LockStep, spin_lock, spin_unlock, load_read, lock_read, unlock_read,
           lock_write, unlock_write, Goto, At
  <1>3. CASE OnceStep(t)
    BY <1>3 DEF OnceStep, call_once, run_once, once_complete, Goto, At
  <1>4. CASE CondStep(t)
    BY <1>4 DEF CondStep, cond_wait, cond_unlock, sys_event_wait, cond_relock, Goto,
           CallLock, At
  <1>5. CASE WakeStep(t)
    <2>1. CASE signal(t) \/ broadcast(t)
      BY <2>1 DEF signal, broadcast, Goto, At
    <2>2. CASE broadcast_next(t)
      BY <2>2 DEF broadcast_next, Goto
    <2> QED
      BY <1>5, <2>1, <2>2 DEF WakeStep
  <1>6. CASE BarrierStep(t)
    BY <1>6 DEF BarrierStep, barrier_wait, barrier_arrive, barrier_leave, Goto, CallLock, At
  <1>7. CASE KeyStep(t)
    BY <1>7 DEF KeyStep, key_create, key_undo, Goto, At
  <1>8. CASE CreateStep(t)
    BY <1>8 DEF CreateStep, pthread_create, pthread_entry, pthread_take_arg, pthread_exit,
           pthread_join, Goto, At, Joinable
  <1> QED
    BY <1>1, <1>2, <1>3, <1>4, <1>5, <1>6, <1>7, <1>8, StepsOfThread

(* call_once. *)
LEMMA OnceKept ==
    ASSUME PtInv, NEW t \in Threads, ThreadStep(t)
    PROVE  OnceRun'
  <1> USE DEF PtInv, PtTypes, Returning, OnceRun, AtPc, lock_vars, cond_vars,
              other_vars, thread_vars
  <1>1. CASE MutexStep(t)
    BY <1>1 DEF MutexStep, lock, mark_waiters, StartLock, trylock, unlock, Goto, CallLock, At
  <1>2. CASE LockStep(t)
    BY <1>2 DEF LockStep, spin_lock, spin_unlock, load_read, lock_read, unlock_read,
           lock_write, unlock_write, Goto, At
  <1>3. CASE OnceStep(t)
    BY <1>3 DEF OnceStep, call_once, run_once, once_complete, Goto, At
  <1>4. CASE CondStep(t)
    BY <1>4 DEF CondStep, cond_wait, cond_unlock, sys_event_wait, cond_relock, Goto,
           CallLock, At
  <1>5. CASE WakeStep(t)
    <2>1. CASE signal(t)
      BY <2>1 DEF signal, At, sys_event_signal
    <2>2. CASE broadcast(t)
      BY <2>2 DEF broadcast, Goto, At
    <2>3. CASE broadcast_next(t)
      BY <2>3 DEF broadcast_next, Goto, sys_event_signal
    <2> QED
      BY <1>5, <2>1, <2>2, <2>3 DEF WakeStep
  <1>6. CASE BarrierStep(t)
    BY <1>6 DEF BarrierStep, barrier_wait, barrier_arrive, barrier_leave, Goto, CallLock, At
  <1>7. CASE KeyStep(t)
    BY <1>7 DEF KeyStep, key_create, key_undo, Goto, At
  <1>8. CASE CreateStep(t)
    BY <1>8 DEF CreateStep, pthread_create, pthread_entry, pthread_take_arg, pthread_exit,
           pthread_join, Goto, At, Joinable
  <1> QED
    BY <1>1, <1>2, <1>3, <1>4, <1>5, <1>6, <1>7, <1>8, StepsOfThread

(* The thread that is being started. *)
LEMMA StartingKept ==
    ASSUME PtInv, NEW t \in Threads, ThreadStep(t)
    PROVE  Starting'
  <1> USE DEF PtInv, PtTypes, Returning, Starting, lock_vars, cond_vars, other_vars,
              thread_vars
  <1>1. CASE MutexStep(t)
    BY <1>1, PtAssumption DEF MutexStep, lock, mark_waiters, StartLock, trylock, unlock, Goto, CallLock, At
  <1>2. CASE LockStep(t)
    BY <1>2, PtAssumption DEF LockStep, spin_lock, spin_unlock, load_read, lock_read, unlock_read,
           lock_write, unlock_write, Goto, At
  <1>3. CASE OnceStep(t)
    BY <1>3, PtAssumption DEF OnceStep, call_once, run_once, once_complete, Goto, At
  <1>4. CASE CondStep(t)
    BY <1>4, PtAssumption DEF CondStep, cond_wait, cond_unlock, sys_event_wait, cond_relock, Goto,
           CallLock, At
  <1>5. CASE WakeStep(t)
    <2>1. CASE signal(t)
      BY <2>1, PtAssumption DEF signal, At, sys_event_signal
    <2>2. CASE broadcast(t)
      BY <2>2, PtAssumption DEF broadcast, Goto, At
    <2>3. CASE broadcast_next(t)
      BY <2>3, PtAssumption DEF broadcast_next, Goto, sys_event_signal
    <2> QED
      BY <1>5, <2>1, <2>2, <2>3 DEF WakeStep
  <1>6. CASE BarrierStep(t)
    BY <1>6, PtAssumption DEF BarrierStep, barrier_wait, barrier_arrive, barrier_leave, Goto, CallLock, At
  <1>7. CASE KeyStep(t)
    BY <1>7, PtAssumption DEF KeyStep, key_create, key_undo, Goto, At
  <1>8. CASE CreateStep(t)
    BY <1>8, PtAssumption DEF CreateStep, pthread_create, pthread_entry, pthread_take_arg, pthread_exit,
           pthread_join, Goto, At, Joinable
  <1> QED
    BY <1>1, <1>2, <1>3, <1>4, <1>5, <1>6, <1>7, <1>8, StepsOfThread

(* The stacks. *)
LEMMA StackKept ==
    ASSUME PtInv, NEW t \in Threads, ThreadStep(t)
    PROVE  StackOutlivesThread'
  <1> USE DEF PtInv, PtTypes, Returning, StackOutlivesThread, lock_vars, cond_vars,
              other_vars, thread_vars
  <1>1. CASE MutexStep(t)
    BY <1>1 DEF MutexStep, lock, mark_waiters, StartLock, trylock, unlock, Goto, CallLock, At
  <1>2. CASE LockStep(t)
    BY <1>2 DEF LockStep, spin_lock, spin_unlock, load_read, lock_read, unlock_read,
           lock_write, unlock_write, Goto, At
  <1>3. CASE OnceStep(t)
    BY <1>3 DEF OnceStep, call_once, run_once, once_complete, Goto, At
  <1>4. CASE CondStep(t)
    BY <1>4 DEF CondStep, cond_wait, cond_unlock, sys_event_wait, cond_relock, Goto,
           CallLock, At
  <1>5. CASE WakeStep(t)
    <2>1. CASE signal(t)
      BY <2>1 DEF signal, At, sys_event_signal
    <2>2. CASE broadcast(t)
      BY <2>2 DEF broadcast, Goto, At
    <2>3. CASE broadcast_next(t)
      BY <2>3 DEF broadcast_next, Goto, sys_event_signal
    <2> QED
      BY <1>5, <2>1, <2>2, <2>3 DEF WakeStep
  <1>6. CASE BarrierStep(t)
    BY <1>6 DEF BarrierStep, barrier_wait, barrier_arrive, barrier_leave, Goto, CallLock, At
  <1>7. CASE KeyStep(t)
    BY <1>7 DEF KeyStep, key_create, key_undo, Goto, At
  <1>8. CASE CreateStep(t)
    BY <1>8 DEF CreateStep, pthread_create, pthread_entry, pthread_take_arg, pthread_exit,
           pthread_join, Goto, At, Joinable
  <1> QED
    BY <1>1, <1>2, <1>3, <1>4, <1>5, <1>6, <1>7, <1>8, StepsOfThread

(* Only the steps of a RwLock move its word, its readers and its writer. *)
LEMMA RwLockQuiet ==
    ASSUME PtInv, NEW t \in Threads, ThreadStep(t), ~LockStep(t)
    PROVE  /\ rw' = rw /\ AtPc("reading")' = AtPc("reading") /\ AtPc("writing")' = AtPc("writing")
           /\ AtPc("exchange")' = AtPc("exchange")
           /\ \A u \in AtPc("exchange") : seen'[u] = seen[u]
  <1> USE DEF PtInv, PtTypes, Returning, AtPc, lock_vars, cond_vars, other_vars,
              thread_vars
  <1>1. CASE MutexStep(t)
    BY <1>1 DEF MutexStep, lock, mark_waiters, StartLock, trylock, unlock, Goto, CallLock, At
  <1>2. CASE OnceStep(t)
    BY <1>2 DEF OnceStep, call_once, run_once, once_complete, Goto, At
  <1>3. CASE CondStep(t)
    BY <1>3 DEF CondStep, cond_wait, cond_unlock, sys_event_wait, cond_relock, Goto,
           CallLock, At
  <1>4. CASE WakeStep(t)
    <2>1. CASE signal(t)
      BY <2>1 DEF signal, At, sys_event_signal
    <2>2. CASE broadcast(t)
      BY <2>2 DEF broadcast, Goto, At
    <2>3. CASE broadcast_next(t)
      <3>1. pc[t] = "waking" /\ rw' = rw /\ back[t] \notin {"reading", "writing", "exchange"}
        BY <2>3 DEF broadcast_next
      <3>2. \A u \in Threads \ {t} : pc'[u] = pc[u] /\ seen'[u] = seen[u]
        BY <2>3 DEF broadcast_next, Goto
      <3>3. pc'[t] \notin {"reading", "writing", "exchange"}
        BY <2>3, <3>1 DEF broadcast_next, Goto
      <3> QED
        BY <3>1, <3>2, <3>3
    <2> QED
      BY <1>4, <2>1, <2>2, <2>3 DEF WakeStep
  <1>5. CASE BarrierStep(t)
    BY <1>5 DEF BarrierStep, barrier_wait, barrier_arrive, barrier_leave, Goto, CallLock, At
  <1>6. CASE KeyStep(t)
    BY <1>6 DEF KeyStep, key_create, key_undo, Goto, At
  <1>7. CASE CreateStep(t)
    BY <1>7 DEF CreateStep, pthread_create, pthread_entry, pthread_take_arg, pthread_exit,
           pthread_join, Goto, At, Joinable
  <1> QED
    BY <1>1, <1>2, <1>3, <1>4, <1>5, <1>6, <1>7, StepsOfThread

(* Only the steps of key_create move its counter and its keys. *)
LEMMA KeysQuiet ==
    ASSUME PtInv, NEW t \in Threads, ThreadStep(t), ~KeyStep(t)
    PROVE  /\ next_key' = next_key /\ keys' = keys /\ AtPc("undo")' = AtPc("undo")
  <1> USE DEF PtInv, PtTypes, Returning, AtPc, lock_vars, cond_vars, other_vars,
              thread_vars
  <1>1. CASE MutexStep(t)
    BY <1>1 DEF MutexStep, lock, mark_waiters, StartLock, trylock, unlock, Goto, CallLock, At
  <1>2. CASE LockStep(t)
    BY <1>2 DEF LockStep, spin_lock, spin_unlock, load_read, lock_read, unlock_read,
           lock_write, unlock_write, Goto, At
  <1>3. CASE OnceStep(t)
    BY <1>3 DEF OnceStep, call_once, run_once, once_complete, Goto, At
  <1>4. CASE CondStep(t)
    BY <1>4 DEF CondStep, cond_wait, cond_unlock, sys_event_wait, cond_relock, Goto,
           CallLock, At
  <1>5. CASE WakeStep(t)
    <2>1. CASE signal(t)
      BY <2>1 DEF signal, At, sys_event_signal
    <2>2. CASE broadcast(t)
      BY <2>2 DEF broadcast, Goto, At
    <2>3. CASE broadcast_next(t)
      BY <2>3 DEF broadcast_next, Goto, sys_event_signal
    <2> QED
      BY <1>5, <2>1, <2>2, <2>3 DEF WakeStep
  <1>6. CASE BarrierStep(t)
    BY <1>6 DEF BarrierStep, barrier_wait, barrier_arrive, barrier_leave, Goto, CallLock, At
  <1>7. CASE CreateStep(t)
    BY <1>7 DEF CreateStep, pthread_create, pthread_entry, pthread_take_arg, pthread_exit,
           pthread_join, Goto, At, Joinable
  <1> QED
    BY <1>1, <1>2, <1>3, <1>4, <1>5, <1>6, <1>7, StepsOfThread

(* The word of the RwLock. *)
LEMMA RwKept ==
    ASSUME PtInv, NEW t \in Threads, ThreadStep(t)
    PROVE  RwWord'
  <1>0. PtTypes /\ RwWord
    BY DEF PtInv
  <1>1. CASE ~LockStep(t)
    BY <1>0, <1>1, RwLockQuiet DEF RwWord
  <1>2. CASE spin_lock(t) \/ spin_unlock(t)
    <2>1. /\ rw' = rw /\ seen' = seen /\ AtPc("reading")' = AtPc("reading")
          /\ AtPc("writing")' = AtPc("writing") /\ AtPc("exchange")' = AtPc("exchange")
      BY <1>0, <1>2 DEF spin_lock, spin_unlock, Goto, At, PtTypes, AtPc
    <2> QED
      BY <1>0, <2>1 DEF RwWord
  <1>3. CASE load_read(t)
    <2>1. /\ rw' = rw /\ rw # Writer /\ pc[t] = "idle" /\ seen' = [seen EXCEPT ![t] = rw]
          /\ pc' = [pc EXCEPT ![t] = "exchange"]
      BY <1>3 DEF load_read, Goto, At, lock_vars
    <2>2. AtPc("reading")' = AtPc("reading") /\ AtPc("writing")' = AtPc("writing")
      BY <1>0, <2>1, PlaceKept
    <2>3. AtPc("exchange")' = AtPc("exchange") \cup {t}
      BY <1>0, <2>1, PlaceEntered
    <2>4. \A u \in AtPc("exchange")' : seen'[u] # Writer
      BY <1>0, <2>1, <2>3 DEF RwWord, PtTypes, AtPc
    <2> QED
      BY <1>0, <2>1, <2>2, <2>4 DEF RwWord
  <1>4. CASE lock_read(t)
    <2>1. pc[t] = "exchange" /\ seen' = seen /\ t \in AtPc("exchange")
      BY <1>4 DEF lock_read, AtPc
    <2>2. CASE rw # seen[t]
      <3>1. rw' = rw /\ pc' = [pc EXCEPT ![t] = "idle"]
        BY <1>4, <2>2 DEF lock_read, Goto
      <3>2. AtPc("reading")' = AtPc("reading") /\ AtPc("writing")' = AtPc("writing")
        BY <1>0, <2>1, <3>1, PlaceKept
      <3>3. AtPc("exchange")' = AtPc("exchange") \ {t}
        BY <1>0, <2>1, <3>1, PlaceLeft
      <3> QED
        BY <1>0, <2>1, <3>1, <3>2, <3>3 DEF RwWord
    <2>3. CASE rw = seen[t]
      <3>1. rw' = rw + 1 /\ pc' = [pc EXCEPT ![t] = "reading"]
        BY <1>4, <2>3 DEF lock_read, Goto
      <3>2. AtPc("writing") = {} /\ rw = Cardinality(AtPc("reading"))
        BY <1>0, <2>1, <2>3 DEF RwWord
      <3>3. AtPc("writing")' = AtPc("writing")
        BY <1>0, <2>1, <3>1, PlaceKept
      <3>4. AtPc("exchange")' = AtPc("exchange") \ {t}
        BY <1>0, <2>1, <3>1, PlaceLeft
      <3>5. Cardinality(AtPc("reading")') = Cardinality(AtPc("reading")) + 1
        BY <1>0, <2>1, <3>1, PlaceEntered
      <3> QED
        BY <1>0, <2>1, <3>1, <3>2, <3>3, <3>4, <3>5 DEF RwWord
    <2> QED
      BY <2>2, <2>3
  <1>5. CASE unlock_read(t)
    <2>1. /\ pc[t] = "reading" /\ rw' = rw - 1 /\ seen' = seen /\ pc' = [pc EXCEPT ![t] = "idle"]
      BY <1>5 DEF unlock_read, Goto
    <2>2. AtPc("exchange")' = AtPc("exchange") /\ AtPc("writing")' = AtPc("writing")
      BY <1>0, <2>1, PlaceKept
    <2>3. /\ t \in AtPc("reading")
          /\ Cardinality(AtPc("reading")') = Cardinality(AtPc("reading")) - 1
      BY <1>0, <2>1, PlaceLeft
    <2>4. AtPc("writing") = {}
      BY <1>0, <2>3 DEF RwWord
    <2> QED
      BY <1>0, <2>1, <2>2, <2>3, <2>4 DEF RwWord
  <1>6. CASE lock_write(t)
    <2>1. /\ pc[t] = "idle" /\ rw = 0 /\ rw' = Writer /\ seen' = seen
          /\ pc' = [pc EXCEPT ![t] = "writing"]
      BY <1>6 DEF lock_write, Goto, At
    <2>2. AtPc("exchange")' = AtPc("exchange") /\ AtPc("reading")' = AtPc("reading")
      BY <1>0, <2>1, PlaceKept
    <2>3. AtPc("writing")' = AtPc("writing") \cup {t}
      BY <1>0, <2>1, PlaceEntered
    <2>4. AtPc("writing") = {}
      BY <1>0, <2>1, PtAssumption, FS_CardinalityType DEF RwWord
    <2>5. IsFiniteSet(AtPc("reading"))
      BY PtAssumption, FS_Subset DEF AtPc
    <2>6. AtPc("reading") = {}
      BY <1>0, <2>1, <2>4, <2>5, FS_EmptySet DEF RwWord
    <2> QED
      BY <1>0, <2>1, <2>2, <2>3, <2>4, <2>6 DEF RwWord
  <1>7. CASE unlock_write(t)
    <2>1. /\ pc[t] = "writing" /\ rw' = 0 /\ seen' = seen /\ pc' = [pc EXCEPT ![t] = "idle"]
      BY <1>7 DEF unlock_write, Goto
    <2>2. AtPc("exchange")' = AtPc("exchange") /\ AtPc("reading")' = AtPc("reading")
      BY <1>0, <2>1, PlaceKept
    <2>3. AtPc("writing")' = AtPc("writing") \ {t} /\ t \in AtPc("writing")
      BY <1>0, <2>1, PlaceLeft
    <2>4. AtPc("writing")' = {} /\ AtPc("reading") = {}
      BY <1>0, <2>3 DEF RwWord
    <2> QED
      BY <1>0, <2>1, <2>2, <2>4, FS_EmptySet DEF RwWord
  <1> QED
    BY <1>1, <1>2, <1>3, <1>4, <1>5, <1>6, <1>7 DEF LockStep

(* The TLS keys. *)
LEMMA KeysKept ==
    ASSUME PtInv, NEW t \in Threads, ThreadStep(t)
    PROVE  KeysFresh'
  <1>0. PtTypes /\ KeysFresh /\ MAX_TLS_KEYS \in Nat
    BY PtAssumption DEF PtInv
  <1>1. CASE ~KeyStep(t)
    BY <1>0, <1>1, KeysQuiet DEF KeysFresh
  <1>2. CASE key_create(t) /\ next_key >= MAX_TLS_KEYS
    <2>1. /\ pc[t] = "idle" /\ next_key' = next_key + 1 /\ keys' = keys
          /\ pc' = [pc EXCEPT ![t] = "undo"]
      BY <1>2 DEF key_create, Goto, At
    <2>2. /\ Cardinality(AtPc("undo")') = Cardinality(AtPc("undo")) + 1
          /\ Cardinality(AtPc("undo")) \in Nat /\ IsFiniteSet(AtPc("undo"))
      BY <1>0, <2>1, PlaceEntered
    <2>3. next_key >= MAX_TLS_KEYS + Cardinality(AtPc("undo"))
      BY <1>0, <1>2, <2>2, FS_EmptySet DEF KeysFresh, PtTypes
    <2>4. next_key' >= MAX_TLS_KEYS + Cardinality(AtPc("undo")')
      BY <1>0, <2>1, <2>2, <2>3 DEF PtTypes
    <2>5. \A u \in Threads : \A k \in keys[u] : k \in Nat /\ k < next_key + 1 /\ k < MAX_TLS_KEYS
      BY <1>0 DEF KeysFresh, PtTypes
    <2> QED
      BY <1>0, <2>1, <2>4, <2>5 DEF KeysFresh
  <1>3. CASE key_create(t) /\ next_key < MAX_TLS_KEYS
    <2>1. /\ next_key' = next_key + 1 /\ keys' = [keys EXCEPT ![t] = @ \cup {next_key}] /\ pc' = pc
      BY <1>0, <1>3 DEF key_create, PtTypes
    <2>2. AtPc("undo")' = AtPc("undo")
      BY <2>1 DEF AtPc
    <2>3. AtPc("undo") = {}
      <3>1. IsFiniteSet(AtPc("undo"))
        BY PtAssumption, FS_Subset DEF AtPc
      <3>2. Cardinality(AtPc("undo")) \in Nat
        BY <3>1, FS_CardinalityType
      <3> QED
        BY <1>0, <1>3, <3>2 DEF KeysFresh, PtTypes
    <2>4. ASSUME NEW u \in Threads, NEW k \in keys'[u]
          PROVE  k < next_key' /\ k < MAX_TLS_KEYS
      <3>1. k = next_key \/ k \in keys[u]
        BY <1>0, <2>1, <2>4 DEF PtTypes
      <3>2. ASSUME k \in keys[u] PROVE k \in Nat /\ k < next_key /\ k < MAX_TLS_KEYS
        BY <1>0, <3>2 DEF KeysFresh, PtTypes
      <3> QED
        BY <1>0, <1>3, <2>1, <3>1, <3>2 DEF PtTypes
    <2>5. \A u \in Threads : next_key \notin keys[u]
      BY <1>0 DEF KeysFresh, PtTypes
    <2>6. \A u, v \in Threads : u # v => keys'[u] \cap keys'[v] = {}
      BY <1>0, <2>1, <2>5 DEF KeysFresh, PtTypes
    <2> QED
      BY <2>2, <2>3, <2>4, <2>6 DEF KeysFresh
  <1>4. CASE key_undo(t)
    <2>1. /\ pc[t] = "undo" /\ next_key' = next_key - 1 /\ keys' = keys
          /\ pc' = [pc EXCEPT ![t] = "idle"]
      BY <1>4 DEF key_undo, Goto
    <2>2. /\ Cardinality(AtPc("undo")') = Cardinality(AtPc("undo")) - 1 /\ t \in AtPc("undo")
          /\ Cardinality(AtPc("undo")) \in Nat \ {0}
      BY <1>0, <2>1, PlaceLeft
    <2>3. next_key >= MAX_TLS_KEYS + Cardinality(AtPc("undo")) /\ next_key \in Nat
      BY <1>0, <2>2 DEF KeysFresh, PtTypes
    <2>4. next_key' >= MAX_TLS_KEYS + Cardinality(AtPc("undo")') /\ next_key' >= MAX_TLS_KEYS
      BY <1>0, <2>1, <2>2, <2>3
    <2>5. \A u \in Threads : \A k \in keys[u] : k \in Nat /\ k < MAX_TLS_KEYS
      BY <1>0 DEF KeysFresh, PtTypes
    <2>6. \A u \in Threads : \A k \in keys'[u] : k < next_key' /\ k < MAX_TLS_KEYS
      BY <1>0, <2>1, <2>3, <2>4, <2>5
    <2> QED
      BY <1>0, <2>1, <2>4, <2>6 DEF KeysFresh
  <1> QED
    <2>1. next_key \in Nat
      BY <1>0 DEF PtTypes
    <2> QED
      BY <1>0, <1>1, <1>2, <1>3, <1>4, <2>1 DEF KeyStep

-----------------------------------------------------------------------------
(* The two steps of Creator that belong to no other thread. *)

LEMMA StoreArgKept == ASSUME PtInv, pthread_store_arg PROVE PtInv'
  <1>0. PtTypes /\ Creator \in Threads
    BY PtAssumption DEF PtInv
  <1>1. /\ pc[Creator] = "store_arg" /\ pc' = [pc EXCEPT ![Creator] = "spawn"]
        /\ UNCHANGED <<back, seen, mutex, spin, rw, once, initialised, next_key, keys, joined>>
    BY DEF pthread_store_arg, Goto, lock_vars
  <1>2. PtTypes'
    BY <1>0, <1>1 DEF PtTypes, Places
  <1>3. Returning' /\ Starting'
    BY <1>0, <1>1 DEF PtInv, PtTypes, Returning, Starting
  <1>4. Inside' = Inside
    BY <1>0, <1>1 DEF PtTypes, Inside
  <1>5. \A w \in {"spinning", "exchange", "reading", "writing", "after", "undo"} : AtPc(w)' = AtPc(w)
    BY <1>0, <1>1 DEF PtTypes, AtPc
  <1>6. MutexHeld' /\ SpinHeld'
    BY <1>1, <1>4, <1>5 DEF PtInv, MutexHeld, SpinHeld
  <1>7. RwWord'
    BY <1>1, <1>5 DEF PtInv, RwWord
  <1>8. OnceRun' /\ KeysFresh'
    BY <1>1, <1>5 DEF PtInv, OnceRun, KeysFresh
  <1>9. StackOutlivesThread'
    BY <1>0, <1>1 DEF PtInv, PtTypes, StackOutlivesThread
  <1> QED
    BY <1>2, <1>3, <1>6, <1>7, <1>8, <1>9 DEF PtInv

LEMMA SpawnKept == ASSUME PtInv, pthread_spawn PROVE PtInv'
  <1>0. PtTypes /\ Creator \in Threads
    BY PtAssumption DEF PtInv
  <1>1. PICK result \in {"spawned", "refused"} :
           pc' = [pc EXCEPT ![Creator] = "idle", ![back[Creator]] = result]
    BY DEF pthread_spawn
  <1>2. /\ pc[Creator] = "spawn"
        /\ UNCHANGED <<back, seen, mutex, spin, rw, once, initialised, next_key, keys, joined>>
    BY DEF pthread_spawn, lock_vars, other_vars
  <1>3. back[Creator] \in Threads /\ pc[back[Creator]] = "none" /\ back[Creator] # Creator
    BY <1>2 DEF PtInv, Starting
  <1>4. /\ pc' \in [Threads -> Places] /\ pc'[Creator] = "idle" /\ pc'[back[Creator]] = result
        /\ \A u \in Threads \ {Creator, back[Creator]} : pc'[u] = pc[u]
    BY <1>0, <1>1, <1>3 DEF PtTypes, Places
  <1>5. PtTypes'
    BY <1>0, <1>2, <1>4 DEF PtTypes
  <1>6. Returning' /\ Starting'
    BY <1>0, <1>2, <1>3, <1>4 DEF PtInv, Returning, Starting
  <1>7. Inside' = Inside
    BY <1>0, <1>2, <1>3, <1>4 DEF Inside
  <1>8. \A w \in {"spinning", "exchange", "reading", "writing", "after", "undo"} : AtPc(w)' = AtPc(w)
    BY <1>0, <1>2, <1>3, <1>4 DEF AtPc
  <1>9. MutexHeld' /\ SpinHeld'
    BY <1>2, <1>7, <1>8 DEF PtInv, MutexHeld, SpinHeld
  <1>10. RwWord'
    BY <1>2, <1>8 DEF PtInv, RwWord
  <1>11. OnceRun' /\ KeysFresh'
    BY <1>2, <1>8 DEF PtInv, OnceRun, KeysFresh
  <1>12. StackOutlivesThread'
    BY <1>0, <1>2, <1>3, <1>4 DEF PtInv, StackOutlivesThread
  <1> QED
    BY <1>5, <1>6, <1>9, <1>10, <1>11, <1>12 DEF PtInv

-----------------------------------------------------------------------------
LEMMA PtStart == ASSUME PtInit PROVE PtInv
  <1>1. /\ pc \in [Threads -> {"none", "idle"}] /\ mutex = MUTEX_UNLOCKED /\ spin = FALSE /\ rw = 0
        /\ once = 0 /\ next_key = 0 /\ keys = [t \in Threads |-> {}]
        /\ joined = [t \in Threads |-> 0]
        /\ back = [t \in Threads |-> Null] /\ seen = [t \in Threads |-> 0]
    BY DEF PtInit
  <1>2. PtTypes
    BY <1>1 DEF PtTypes, Places
  <1>3. Inside = {} /\ \A w \in Places \ {"none", "idle"} : AtPc(w) = {}
    BY <1>1 DEF Inside, AtPc
  <1>4. Returning /\ Starting /\ StackOutlivesThread
    BY <1>1, PtAssumption DEF Returning, Starting, StackOutlivesThread
  <1>5. MutexHeld /\ SpinHeld /\ OnceRun /\ KeysFresh
    BY <1>1, <1>3, PtAssumption DEF MutexHeld, SpinHeld, OnceRun, KeysFresh, Places
  <1>6. AtPc("exchange") = {} /\ AtPc("writing") = {} /\ AtPc("reading") = {}
    BY <1>3 DEF Places
  <1>7. RwWord
    BY <1>1, <1>6, FS_EmptySet DEF RwWord
  <1> QED
    BY <1>2, <1>4, <1>5, <1>7 DEF PtInv

LEMMA PtStep == ASSUME PtInv, [PtNext]_pt_vars PROVE PtInv'
  <1>1. ASSUME NEW t \in Threads, ThreadStep(t) PROVE PtInv'
    BY <1>1, TypesKept, ReturningKept, MutexKept, SpinKept, RwKept, OnceKept, KeysKept,
       StartingKept, StackKept DEF PtInv
  <1>2. CASE UNCHANGED pt_vars
    BY <1>2 DEF pt_vars, thread_vars, lock_vars, other_vars, PtInv, PtTypes, Returning, MutexHeld,
                SpinHeld, RwWord, OnceRun, KeysFresh, Starting, StackOutlivesThread, Inside, AtPc
  <1> QED
    BY <1>1, <1>2, StoreArgKept, SpawnKept DEF PtNext

(* A set whose members are all the same has at most one. *)
LEMMA AtMostOne ==
    ASSUME NEW S, \A t, u \in S : t = u
    PROVE  Cardinality(S) <= 1 /\ (S # {} => Cardinality(S) = 1)
  <1>1. CASE S = {}
    BY <1>1, FS_EmptySet
  <1>2. CASE S # {}
    <2> PICK x : x \in S
      BY <1>2
    <2>1. S = {x}
      OBVIOUS
    <2> QED
      BY <2>1, FS_Singleton
  <1> QED
    BY <1>1, <1>2

LEMMA PtInvIsEnough == ASSUME PtInv PROVE PthreadsSound
  <1>1. Cardinality(Inside) <= 1 /\ (Inside # {} => mutex # MUTEX_UNLOCKED)
    BY AtMostOne DEF PtInv, MutexHeld
  <1>2. Cardinality(AtPc("spinning")) <= 1
    BY AtMostOne DEF PtInv, SpinHeld
  <1>3. AtPc("writing") # {} => AtPc("reading") = {} /\ Cardinality(AtPc("writing")) = 1
    BY AtMostOne DEF PtInv, RwWord
  <1> QED
    BY <1>1, <1>2, <1>3
       DEF PthreadsSound, LocksExclude, PtInv, OnceRun, KeysFresh

(* For every finite set of threads (fewer than the writer bit counts), in  *)
(* every interleaving of the atomic steps of the library: what one thread  *)
(* holds no other has, call_once has run for whoever is past it, and a     *)
(* stack is unmapped only when its thread has exited.                      *)
THEOREM PthreadsAreSound == PtSpec => []PthreadsSound
  <1>1. PtInit => PtInv
    BY PtStart
  <1>2. PtInv /\ [PtNext]_pt_vars => PtInv'
    BY PtStep
  <1>3. PtInv => PthreadsSound
    BY PtInvIsEnough
  <1> QED
    BY <1>1, <1>2, <1>3, PTL DEF PtSpec

-----------------------------------------------------------------------------
(* Input.  What the two properties need beside themselves: where each byte *)
(* that is read or buffered stands among the typed ones, and that the      *)
(* event holds the position of the last scan code.                         *)

\* s is a part of t in the order of t.
Stands(s, t, pos) ==
    /\ pos \in [1 .. Len(s) -> 1 .. Len(t)]
    /\ \A i, j \in 1 .. Len(s) : i < j => pos[i] < pos[j]
    /\ \A i \in 1 .. Len(s) : s[i] = t[pos[i]]
Embeds(s, t) == \E pos : Stands(s, t, pos)

LEMMA Ranked ==
    ASSUME NEW n \in Nat, NEW m \in Nat, NEW pos \in [1 .. n -> 1 .. m], NEW k \in 0 .. n,
           \A i, j \in 1 .. n : i < j => pos[i] < pos[j]
    PROVE  Cardinality({pos[i] : i \in 1 .. k}) = k
<1> DEFINE T == {pos[i] : i \in 1 .. k}
           f == [i \in 1 .. k |-> pos[i]]
<1>1. f \in [1 .. k -> T]
  OBVIOUS
<1>2. \A i, j \in 1 .. k : i # j => pos[i] # pos[j]
  <2>1. \A i \in 1 .. k : i \in 1 .. n /\ pos[i] \in Nat
    OBVIOUS
  <2>2. SUFFICES ASSUME NEW i \in 1 .. k, NEW j \in 1 .. k, i # j PROVE pos[i] # pos[j]
    OBVIOUS
  <2>3. CASE i < j
    BY <2>1, <2>3
  <2>4. CASE j < i
    BY <2>1, <2>4
  <2>5. QED BY <2>2, <2>3, <2>4
<1>3. f \in Injection(1 .. k, T)
  BY <1>1, <1>2 DEF Injection, IsInjective
<1>4. f \in Surjection(1 .. k, T)
  BY <1>1 DEF Surjection
<1>5. ExistsBijection(1 .. k, T)
  BY <1>3, <1>4 DEF ExistsBijection, Bijection
<1>6. k \in Nat
  OBVIOUS
<1>7. QED BY <1>5, <1>6, FS_CountingElements

LEMMA EmbedsKeep ==
    ASSUME NEW U, NEW s \in Seq(U), NEW t \in Seq(U), Embeds(s, t)
    PROVE  \E keep \in SUBSET DOMAIN t :
              /\ Cardinality(keep) = Len(s)
              /\ \A i \in keep : s[Cardinality({j \in keep : j <= i})] = t[i]
<1>1. PICK pos : Stands(s, t, pos)
  BY DEF Embeds
<1>2. PICK n \in Nat, m \in Nat : n = Len(s) /\ m = Len(t)
  OBVIOUS
<1>3. /\ pos \in [1 .. n -> 1 .. m] /\ \A i, j \in 1 .. n : i < j => pos[i] < pos[j]
      /\ \A i \in 1 .. n : s[i] = t[pos[i]]
  BY <1>1, <1>2 DEF Stands
<1>4. PICK keep : keep = {pos[i] : i \in 1 .. n}
  OBVIOUS
<1>5. keep \in SUBSET DOMAIN t
  <2>1. DOMAIN t = 1 .. m
    BY <1>2
  <2>2. \A i \in 1 .. n : pos[i] \in 1 .. m
    BY <1>3
  <2>3. QED BY <1>4, <2>1, <2>2
<1>6. Cardinality(keep) = n
  <2>1. PICK k \in 0 .. n : k = n
    OBVIOUS
  <2>2. Cardinality({pos[i] : i \in 1 .. k}) = k
    BY <1>3, Ranked
  <2>3. QED BY <1>4, <2>1, <2>2
<1>7. ASSUME NEW i \in keep PROVE s[Cardinality({j \in keep : j <= i})] = t[i]
  <2>1. PICK k \in 1 .. n : i = pos[k]
    BY <1>4
  <2>2. \A l \in 1 .. n : pos[l] <= pos[k] <=> l <= k
    <3>1. \A l \in 1 .. n : pos[l] \in Nat /\ l \in Nat
      BY <1>3
    <3>2. QED BY <1>3, <3>1
  <2>3. {j \in keep : j <= i} = {pos[l] : l \in 1 .. k}
    <3>1. ASSUME NEW j \in keep, j <= i PROVE j \in {pos[l] : l \in 1 .. k}
      <4>1. PICK l \in 1 .. n : j = pos[l]
        BY <1>4
      <4>2. l \in 1 .. k
        BY <2>1, <2>2, <3>1, <4>1
      <4>3. QED BY <4>1, <4>2
    <3>2. ASSUME NEW l \in 1 .. k PROVE pos[l] \in keep /\ pos[l] <= i
      BY <1>4, <2>1, <2>2
    <3>3. QED BY <3>1, <3>2
  <2>4. k \in 0 .. n
    OBVIOUS
  <2>5. Cardinality({pos[l] : l \in 1 .. k}) = k
    BY <1>3, <2>4, Ranked
  <2>6. QED BY <1>3, <2>1, <2>3, <2>5
<1>8. QED BY <1>2, <1>5, <1>6, <1>7

\* Pushing x behind b when g has been read: what is lost is at the start of b.
Glues(s, t, u) ==
    /\ u = s \o t /\ Len(u) = Len(s) + Len(t)
    /\ \A i \in 1 .. Len(s) : u[i] = s[i]
    /\ \A i \in Len(s) + 1 .. Len(s) + Len(t) : u[i] = t[i - Len(s)]

LEMMA Joined ==
    ASSUME NEW U, NEW s \in Seq(U), NEW t \in Seq(U)
    PROVE  \E u \in Seq(U) : Glues(s, t, u)
<1>1. PICK u : u = s \o t
  OBVIOUS
<1>2. /\ u \in Seq(U) /\ Len(u) = Len(s) + Len(t)
      /\ \A i \in 1 .. Len(s) + Len(t) : u[i] = IF i <= Len(s) THEN s[i] ELSE t[i - Len(s)]
  BY <1>1, ConcatProperties
<1>3. PICK n \in Nat, m \in Nat : n = Len(s) /\ m = Len(t)
  OBVIOUS
<1>4. (\A i \in 1 .. n : u[i] = s[i]) /\ \A i \in n + 1 .. n + m : u[i] = t[i - n]
  BY <1>2, <1>3
<1>5. QED BY <1>1, <1>2, <1>3, <1>4 DEF Glues

LEMMA EmbedsMore ==
    ASSUME NEW U, NEW g \in Seq(U), NEW b \in Seq(U), NEW t \in Seq(U), NEW x \in Seq(U), NEW size \in Nat,
           Len(b) <= size, Embeds(g \o b, t), NEW c, c = Newest(b \o x, size)
    PROVE  c \in Seq(U) /\ Len(c) <= size /\ Embeds(g \o c, t \o x)
<1>1. PICK all \in Seq(U) : Glues(b, x, all)
  BY Joined
<1>2. PICK lg \in Nat, lb \in Nat, lt \in Nat, lx \in Nat : lg = Len(g) /\ lb = Len(b) /\ lt = Len(t) /\ lx = Len(x)
  OBVIOUS
<1>3. PICK d \in Nat : d = IF lb + lx <= size THEN 0 ELSE lb + lx - size
  <2>1. (IF lb + lx <= size THEN 0 ELSE lb + lx - size) \in Nat
    OBVIOUS
  <2>2. QED BY <2>1
<1>4. d <= lb + lx
  BY <1>3
<1>5. /\ c \in Seq(U) /\ Len(c) = lb + lx - d /\ Len(c) <= size
      /\ \A i \in 1 .. lb + lx - d : c[i] = IF i + d <= lb THEN b[i + d] ELSE x[i + d - lb]
  <2>1. c = Newest(all, size)
    BY <1>1 DEF Glues
  <2>2. /\ Len(all) = lb + lx /\ (\A i \in 1 .. lb : all[i] = b[i])
        /\ \A i \in lb + 1 .. lb + lx : all[i] = x[i - lb]
    BY <1>1, <1>2 DEF Glues
  <2>3. CASE lb + lx <= size
    <3>1. c = all
      BY <2>1, <2>2, <2>3 DEF Newest
    <3>2. d = 0
      BY <1>3, <2>3
    <3>3. ASSUME NEW i \in 1 .. lb + lx - d PROVE c[i] = IF i + d <= lb THEN b[i + d] ELSE x[i + d - lb]
      <4>1. i \in 1 .. lb + lx /\ i + d = i
        BY <3>2
      <4>2. all[i] = IF i <= lb THEN b[i] ELSE x[i - lb]
        BY <2>2, <4>1
      <4>3. QED BY ONLY <3>1, <4>1, <4>2
    <3>4. lb + lx - d = lb + lx
      BY <3>2
    <3>5. QED BY <2>2, <2>3, <3>1, <3>3, <3>4
  <2>4. CASE ~(lb + lx <= size)
    <3>1. d = lb + lx - size /\ Len(all) - size = d /\ d \in 0 .. Len(all)
      BY <1>3, <1>4, <2>2, <2>4
    <3>2. c = SubSeq(all, d + 1, Len(all))
      BY <2>1, <2>2, <2>4, <3>1 DEF Newest
    <3>3. /\ SubSeq(all, d + 1, Len(all)) \in Seq(U) /\ Len(SubSeq(all, d + 1, Len(all))) = Len(all) - d
          /\ \A i \in 1 .. Len(all) - d : SubSeq(all, d + 1, Len(all))[i] = all[d + i]
      BY <3>1, CutJoin
    <3>30. /\ c \in Seq(U) /\ Len(c) = lb + lx - d
           /\ \A i \in 1 .. lb + lx - d : c[i] = all[d + i]
      BY <2>2, <3>2, <3>3
    <3>4. \A i \in 1 .. lb + lx - d : d + i \in 1 .. lb + lx /\ d + i = i + d
      BY <1>4
    <3>5. ASSUME NEW i \in 1 .. lb + lx - d PROVE c[i] = IF i + d <= lb THEN b[i + d] ELSE x[i + d - lb]
      <4>1. PICK k \in 1 .. lb + lx : k = i + d /\ c[i] = all[k]
        BY <3>30, <3>4
      <4>2. all[k] = IF k <= lb THEN b[k] ELSE x[k - lb]
        BY <2>2
      <4>3. QED BY ONLY <4>1, <4>2
    <3>6. lb + lx - d <= size
      BY <3>1
    <3>7. QED BY <3>30, <3>5, <3>6
  <2>5. QED BY <2>3, <2>4
<1>60. PICK gb \in Seq(U) : Glues(g, b, gb)
  BY Joined
<1>6. /\ gb = g \o b /\ Len(gb) = lg + lb /\ (\A i \in 1 .. lg : gb[i] = g[i])
      /\ \A i \in lg + 1 .. lg + lb : gb[i] = b[i - lg]
  BY <1>2, <1>60 DEF Glues
<1>70. PICK tx \in Seq(U) : Glues(t, x, tx)
  BY Joined
<1>7. /\ tx = t \o x /\ Len(tx) = lt + lx /\ (\A i \in 1 .. lt : tx[i] = t[i])
      /\ \A i \in lt + 1 .. lt + lx : tx[i] = x[i - lt]
  BY <1>2, <1>70 DEF Glues
<1>8. PICK n \in Nat : n = lg + lb + lx - d
  BY <1>4
<1>90. PICK gc \in Seq(U) : Glues(g, c, gc)
  BY <1>5, Joined
<1>9. /\ gc = g \o c /\ Len(gc) = n /\ (\A i \in 1 .. lg : gc[i] = g[i])
      /\ \A i \in lg + 1 .. n : gc[i] = c[i - lg]
  <2>0. PICK lc : lc = Len(c) /\ lc = lb + lx - d
    BY ONLY <1>5
  <2>1. lg + Len(c) = n
    <3>1. lg + lc = n
      BY <1>4, <1>8, <2>0
    <3>2. QED BY ONLY <2>0, <3>1
  <2>2. QED BY <1>2, <1>90, <2>1 DEF Glues
<1>10. PICK pos : Stands(gb, t, pos)
  BY <1>6 DEF Embeds
<1>11. /\ pos \in [1 .. lg + lb -> 1 .. lt]
       /\ \A i, j \in 1 .. lg + lb : i < j => pos[i] < pos[j]
       /\ \A i \in 1 .. lg + lb : gb[i] = t[pos[i]]
  BY <1>2, <1>6, <1>10 DEF Stands
<1> DEFINE Spot(i) == IF i <= lg + lb THEN pos[i] ELSE lt + (i - lg - lb)
           Step(i) == IF i <= lg THEN i ELSE i + d
           new == [i \in 1 .. n |-> Spot(Step(i))]
<1>12. \A i \in 1 .. n : Step(i) \in 1 .. lg + lb + lx
  BY <1>4, <1>8
<1>13. \A i, j \in 1 .. n : i < j => Step(i) < Step(j)
  BY <1>4, <1>8
<1>14. \A i \in 1 .. lg + lb + lx : Spot(i) \in 1 .. lt + lx
  <2>1. SUFFICES ASSUME NEW i \in 1 .. lg + lb + lx PROVE Spot(i) \in 1 .. lt + lx
    OBVIOUS
  <2>2. CASE i <= lg + lb
    <3>1. i \in 1 .. lg + lb
      BY <2>2
    <3>2. pos[i] \in 1 .. lt
      BY ONLY <1>11, <3>1
    <3>3. QED BY <2>2, <3>2
  <2>3. CASE i > lg + lb
    BY <2>3
  <2>4. QED BY <2>2, <2>3
<1>15. \A i, j \in 1 .. lg + lb + lx : i < j => Spot(i) < Spot(j)
  <2>1. SUFFICES ASSUME NEW i \in 1 .. lg + lb + lx, NEW j \in 1 .. lg + lb + lx, i < j PROVE Spot(i) < Spot(j)
    OBVIOUS
  <2>2. CASE j <= lg + lb
    <3>1. i \in 1 .. lg + lb /\ j \in 1 .. lg + lb
      BY <2>1, <2>2
    <3>2. pos[i] < pos[j]
      BY ONLY <1>11, <2>1, <3>1
    <3>3. QED BY <2>1, <2>2, <3>2
  <2>3. CASE i <= lg + lb /\ j > lg + lb
    <3>1. pos[i] \in 1 .. lt
      BY <1>11, <2>3
    <3>2. QED BY <2>3, <3>1
  <2>4. CASE i > lg + lb
    BY <2>1, <2>4
  <2>5. QED BY <2>2, <2>3, <2>4
<1>16. ASSUME NEW i \in 1 .. n PROVE gc[i] = tx[Spot(Step(i))]
  <2>1. CASE i <= lg
    <3>1. i \in 1 .. lg + lb /\ gc[i] = g[i] /\ gb[i] = g[i]
      BY <1>6, <1>9, <2>1
    <3>2. Spot(Step(i)) = pos[i] /\ pos[i] \in 1 .. lt /\ gb[i] = t[pos[i]]
      BY <1>11, <2>1, <3>1
    <3>3. tx[pos[i]] = t[pos[i]]
      <4>1. PICK k \in 1 .. lt : k = pos[i]
        BY <3>2
      <4>2. QED BY <1>7, <4>1
    <3>4. QED BY <3>1, <3>2, <3>3
  <2>2. CASE i > lg /\ i + d <= lg + lb
    <3>1. PICK k \in lg + 1 .. lg + lb : k = i + d
      BY <2>2
    <3>10. PICK m \in 1 .. lb + lx - d : m = i - lg /\ m + d <= lb /\ m + d = k - lg
      BY <1>8, <2>2, <3>1
    <3>2. gc[i] = b[k - lg]
      <4>1. i \in lg + 1 .. n
        BY <2>2
      <4>10. gc[i] = c[i - lg]
        BY ONLY <1>9, <4>1
      <4>2. c[m] = b[m + d]
        BY <1>5, <3>10
      <4>3. gc[i] = c[m]
        BY ONLY <4>10, <3>10
      <4>4. QED BY <3>10, <4>2, <4>3
    <3>3. gb[k] = b[k - lg]
      BY ONLY <1>6, k \in lg + 1 .. lg + lb
    <3>4. Spot(Step(i)) = pos[k]
      BY <2>2, <3>1
    <3>5. k \in 1 .. lg + lb
      BY <1>4, <3>1
    <3>6. pos[k] \in 1 .. lt /\ gb[k] = t[pos[k]]
      BY ONLY <1>11, <3>5
    <3>7. tx[pos[k]] = t[pos[k]]
      <4>1. PICK q \in 1 .. lt : q = pos[k]
        BY <3>6
      <4>2. QED BY <1>7, <4>1
    <3>8. QED BY <3>2, <3>3, <3>4, <3>6, <3>7
  <2>3. CASE i > lg /\ i + d > lg + lb
    <3>1. i - lg \in 1 .. lb + lx - d /\ ~(i - lg + d <= lb) /\ i - lg + d - lb = i + d - lg - lb
          /\ i + d - lg - lb \in 1 .. lx
      BY <1>8, <2>3
    <3>2. gc[i] = x[i + d - lg - lb]
      <4>1. i \in lg + 1 .. n
        BY <2>3
      <4>10. gc[i] = c[i - lg]
        BY ONLY <1>9, <4>1
      <4>2. c[i - lg] = x[i - lg + d - lb]
        BY <1>5, <3>1
      <4>3. QED BY <3>1, <4>10, <4>2
    <3>3. PICK q : q = i + d - lg - lb /\ Spot(Step(i)) = lt + q /\ q \in 1 .. lx
      BY <2>3, <3>1
    <3>4. tx[lt + q] = x[q]
      <4>1. PICK k \in lt + 1 .. lt + lx : k = lt + q /\ k - lt = q
        BY <3>3
      <4>2. tx[k] = x[k - lt]
        BY <1>7
      <4>3. QED BY <4>1, <4>2
    <3>5. QED BY <3>2, <3>3, <3>4
  <2>4. QED BY <2>1, <2>2, <2>3
<1> HIDE DEF Spot, Step
<1>17. new \in [1 .. n -> 1 .. lt + lx] /\ \A i \in 1 .. n : new[i] = Spot(Step(i))
  BY <1>12, <1>14
<1>18. \A i, j \in 1 .. n : i < j => new[i] < new[j]
  BY <1>12, <1>13, <1>15, <1>17
<1> HIDE DEF new
<1>19. Stands(gc, tx, new)
  <2>1. \A i \in 1 .. n : gc[i] = tx[new[i]]
    BY ONLY <1>16, <1>17
  <2>2. PICK m : m = Len(tx) /\ m = lt + lx
    BY ONLY <1>7
  <2>3. new \in [1 .. n -> 1 .. m]
    BY ONLY <1>17, <2>2
  <2>4. Len(gc) = n
    BY ONLY <1>9
  <2>5. QED BY ONLY <1>18, <2>1, <2>2, <2>3, <2>4 DEF Stands
<1>20. QED BY <1>5, <1>7, <1>9, <1>19 DEF Embeds

\* The bytes that keys make.
Typable == Keys \cup {"newline", "esc", "[", "A", "3", "~"}

TextInv ==
    /\ buffer \in Seq(Typable) /\ got \in Seq(Typable) /\ typed \in Seq(Typable) /\ erased \in Nat
    /\ Len(buffer) <= INPUT_BUFFER_SIZE
    /\ erased = 0 => Embeds(Given, typed)
    /\ erased = 0 /\ Len(typed) <= INPUT_BUFFER_SIZE => Given = typed

HeldInv == held_key # NoKey => held_key.code \in Keys

EventInv ==
    /\ codes \in Seq(Keys) /\ irq \in [signaled : BOOLEAN, last_data : Nat] /\ answered \in Seq(Nat)
    /\ irq.last_data = Len(codes)
    /\ \A i \in DOMAIN answered : answered[i] <= irq.last_data /\ (irq.signaled => answered[i] < irq.last_data)
    /\ \A i, j \in DOMAIN answered : i < j => answered[i] < answered[j]

ShiftInv == /\ DOMAIN driver = {"shift", "caps_lock", "out"}
            /\ driver.shift <=> "shift" \in down

InputInv == TextInv /\ HeldInv /\ EventInv /\ ShiftInv

LEMMA BytesType == ASSUME NEW k \in Keys PROVE Bytes(k) \in Seq(Typable)
<1>1. PICK a \in Typable, b \in Typable, c \in Typable, d \in Typable, e \in Typable, f \in Typable :
        a = "newline" /\ b = "esc" /\ c = "[" /\ d = "A" /\ e = "3" /\ f = "~"
  BY DEF Typable
<1>2. <<a>> \in Seq(Typable) /\ <<b, c, d>> \in Seq(Typable) /\ <<b, c, e, f>> \in Seq(Typable) /\ <<>> \in Seq(Typable)
  OBVIOUS
<1>3. k \in Typable
  BY DEF Typable
<1>4. <<k>> \in Seq(Typable)
  BY <1>3
<1>5. CASE k = "enter"
  <2>1. k # "up" /\ k # "delete" /\ k \notin {"backspace"} \cup Modifiers
    BY <1>5 DEF Modifiers
  <2>2. Bytes(k) = <<"newline">>
    BY <1>5, <2>1, Zenon DEF Bytes
  <2>3. QED BY <1>1, <1>2, <2>2
<1>6. CASE k = "up"
  <2>1. k # "enter" /\ k # "delete" /\ k \notin {"backspace"} \cup Modifiers
    BY <1>6 DEF Modifiers
  <2>2. Bytes(k) = <<"esc", "[", "A">>
    BY <1>6, <2>1, Zenon DEF Bytes
  <2>3. QED BY <1>1, <1>2, <2>2
<1>7. CASE k = "delete"
  <2>1. k # "enter" /\ k # "up" /\ k \notin {"backspace"} \cup Modifiers
    BY <1>7 DEF Modifiers
  <2>2. Bytes(k) = <<"esc", "[", "3", "~">>
    BY <1>7, <2>1, Zenon DEF Bytes
  <2>3. QED BY <1>1, <1>2, <2>2
<1>8. CASE k \in {"backspace"} \cup Modifiers
  <2>1. k # "enter" /\ k # "up" /\ k # "delete"
    BY <1>8 DEF Modifiers
  <2>2. Bytes(k) = <<>>
    BY <1>8, <2>1, Zenon DEF Bytes
  <2>3. QED BY <1>2, <2>2
<1>9. CASE k # "enter" /\ k # "up" /\ k # "delete" /\ k \notin {"backspace"} \cup Modifiers
  <2>1. Bytes(k) = <<k>>
    BY <1>9, Zenon DEF Bytes
  <2>2. QED BY <1>4, <2>1
<1>10. QED BY <1>5, <1>6, <1>7, <1>8, <1>9

LEMMA RegroupTypable == \A a, b, c \in Seq(Typable) : (a \o b) \o c = a \o (b \o c)
<1>1. ASSUME NEW a \in Seq(Typable), NEW b \in Seq(Typable), NEW c \in Seq(Typable) PROVE (a \o b) \o c = a \o (b \o c)
  <2>1. Regroups(a, b, c)
    BY AllRegroup
  <2>2. QED BY <2>1 DEF Regroups
<1>2. QED BY <1>1

\* A key's bytes go into the buffer.
Types(k) == buffer' = push_raw_key(buffer, k) /\ typed' = typed \o Bytes(k) /\ UNCHANGED <<got, erased>>

LEMMA TypesInv == ASSUME TextInv, NEW k \in Keys, Types(k) PROVE TextInv'
<1>1. PICK x \in Seq(Typable) : x = Bytes(k)
  BY BytesType
<1>2. /\ buffer \in Seq(Typable) /\ got \in Seq(Typable) /\ typed \in Seq(Typable)
      /\ Len(buffer) <= INPUT_BUFFER_SIZE /\ INPUT_BUFFER_SIZE \in Nat
      /\ got' = got /\ erased' = erased /\ erased \in Nat
  BY InputAssumption DEF TextInv, Types
<1>3. PICK size \in Nat : size = INPUT_BUFFER_SIZE
  BY <1>2
<1>4. buffer' = Newest(buffer \o x, size) /\ typed' = typed \o x
  BY <1>1, <1>3 DEF Types, push_raw_key, PushAll
<1>5. typed' \in Seq(Typable)
  BY <1>2, <1>4, ConcatProperties
<1>6. buffer' \in Seq(Typable) /\ Len(buffer') <= size
  <2>1. PICK all \in Seq(Typable) : all = buffer \o x
    BY <1>2, ConcatProperties
  <2>2. buffer' = Newest(all, size)
    BY <1>4, <2>1
  <2>3. CASE Len(all) <= size
    BY <2>2, <2>3 DEF Newest
  <2>4. CASE ~(Len(all) <= size)
    <3>0. PICK n \in Nat : n = Len(all)
      OBVIOUS
    <3>1. PICK d \in 0 .. Len(all) : d = Len(all) - size
      <4>1. n - size \in 0 .. n
        BY <2>4, <3>0
      <4>2. QED BY <3>0, <4>1
    <3>2. buffer' = SubSeq(all, d + 1, Len(all))
      BY <2>2, <2>4, <3>1 DEF Newest
    <3>3. SubSeq(all, d + 1, Len(all)) \in Seq(Typable) /\ Len(SubSeq(all, d + 1, Len(all))) = Len(all) - d
      BY CutJoin
    <3>4. Len(all) - d = size
      BY <3>1
    <3>5. QED BY <3>2, <3>3, <3>4
  <2>5. QED BY <2>3, <2>4
<1>7. ASSUME erased = 0 PROVE Embeds(Given', typed')
  <2>1. Embeds(got \o buffer, typed)
    BY <1>7 DEF TextInv, Given
  <2>2. PICK c : c = Newest(buffer \o x, size)
    OBVIOUS
  <2>3. Embeds(got \o c, typed \o x)
    BY <1>2, <1>3, <2>1, <2>2, EmbedsMore
  <2>4. Given' = got \o c /\ typed' = typed \o x
    BY <1>2, <1>4, <2>2 DEF Given
  <2>5. QED BY <2>3, <2>4
<1>8. ASSUME erased = 0, Len(typed') <= size PROVE Given' = typed'
  <2>1. Len(typed') = Len(typed) + Len(x)
    BY <1>2, <1>4, ConcatProperties
  <2>2. got \o buffer = typed
    BY <1>2, <1>3, <1>8, <2>1 DEF TextInv, Given
  <2>3. Len(typed) = Len(got) + Len(buffer)
    BY <1>2, <2>2, ConcatProperties
  <2>4. Len(buffer \o x) = Len(buffer) + Len(x)
    BY <1>2, ConcatProperties
  <2>5. Len(buffer \o x) <= size
    BY <1>2, <1>8, <2>1, <2>3, <2>4
  <2>6. buffer' = buffer \o x
    BY <1>4, <2>5 DEF Newest
  <2>7. got \o (buffer \o x) = (got \o buffer) \o x
    BY <1>1, <1>2, RegroupTypable
  <2>8. QED BY <1>2, <1>4, <2>2, <2>6, <2>7 DEF Given
<1>9. QED BY <1>2, <1>3, <1>5, <1>6, <1>7, <1>8 DEF TextInv

\* Reading moves bytes from the buffer to what was read.
LEMMA ReadsInv == ASSUME TextInv, NEW len \in {1, 2}, read(len), UNCHANGED <<typed, erased>> PROVE TextInv'
<1>1. /\ buffer \in Seq(Typable) /\ got \in Seq(Typable) /\ typed \in Seq(Typable)
      /\ Len(buffer) <= INPUT_BUFFER_SIZE /\ INPUT_BUFFER_SIZE \in Nat
      /\ typed' = typed /\ erased' = erased
  BY InputAssumption DEF TextInv
<1>2. PICK n \in 0 .. Len(buffer) : n = IF Len(buffer) < len THEN Len(buffer) ELSE len
  BY <1>1
<1>3. got' = got \o SubSeq(buffer, 1, n) /\ buffer' = SubSeq(buffer, n + 1, Len(buffer))
  BY <1>2 DEF read
<1>4. PICK a, b : a = SubSeq(buffer, 1, n) /\ b = SubSeq(buffer, n + 1, Len(buffer))
  OBVIOUS
<1>5. /\ a \in Seq(Typable) /\ b \in Seq(Typable) /\ Len(b) = Len(buffer) - n /\ buffer = a \o b
  BY <1>1, <1>4, CutJoin
<1>6. got' \in Seq(Typable) /\ buffer' \in Seq(Typable)
  BY <1>1, <1>3, <1>4, <1>5, ConcatProperties
<1>7. Given' = Given
  <2>0. got \in Seq(Typable) /\ a \in Seq(Typable) /\ b \in Seq(Typable)
    BY <1>1, <1>5
  <2>1. (got \o a) \o b = got \o (a \o b)
    BY ONLY <2>0, RegroupTypable
  <2>2. QED BY <1>3, <1>4, <1>5, <2>1 DEF Given
<1>8. Len(buffer') <= INPUT_BUFFER_SIZE
  <2>1. PICK l \in Nat, size \in Nat : l = Len(buffer) /\ size = INPUT_BUFFER_SIZE
    BY <1>1
  <2>2. l <= size /\ n \in 0 .. l
    BY <1>1, <2>1
  <2>3. Len(b) = l - n /\ b = buffer'
    BY <1>3, <1>4, <1>5, <2>1
  <2>4. l - n <= size
    BY <2>2
  <2>5. QED BY <2>1, <2>3, <2>4
<1>9. QED BY <1>1, <1>6, <1>7, <1>8 DEF TextInv

\* Backspace takes the newest byte out of the buffer.
LEMMA ErasesInv ==
    ASSUME TextInv, buffer # <<>>, buffer' = SubSeq(buffer, 1, Len(buffer) - 1), erased' = erased + 1,
           UNCHANGED <<typed, got>>
    PROVE  TextInv'
<1>1. /\ buffer \in Seq(Typable) /\ got \in Seq(Typable) /\ typed \in Seq(Typable) /\ erased \in Nat
      /\ Len(buffer) <= INPUT_BUFFER_SIZE /\ INPUT_BUFFER_SIZE \in Nat
      /\ got' = got /\ typed' = typed
  BY InputAssumption DEF TextInv
<1>2. PICK l \in Nat, size \in Nat : l = Len(buffer) /\ size = INPUT_BUFFER_SIZE
  BY <1>1
<1>3. l # 0
  BY <1>1, <1>2
<1>4. PICK n \in 0 .. Len(buffer) : n = l - 1
  <2>1. l - 1 \in 0 .. l
    BY <1>3
  <2>2. QED BY <1>2, <2>1
<1>5. SubSeq(buffer, 1, n) \in Seq(Typable) /\ Len(SubSeq(buffer, 1, n)) = n
  BY <1>1, CutJoin
<1>6. buffer' = SubSeq(buffer, 1, n)
  BY <1>2, <1>4
<1>7. n <= size
  BY <1>1, <1>2, <1>4
<1>8. erased' \in Nat /\ erased' # 0
  BY <1>1
<1>9. buffer' \in Seq(Typable) /\ Len(buffer') <= INPUT_BUFFER_SIZE
  BY <1>2, <1>5, <1>6, <1>7
<1>10. QED BY <1>1, <1>8, <1>9 DEF TextInv

LEMMA ShiftStep ==
    ASSUME ShiftInv, NEW k \in Keys, driver' = process_scancode(driver, k, k \in down),
           down' = IF k \in down THEN down \ {k} ELSE down \cup {k}
    PROVE  ShiftInv'
<1>1. DOMAIN driver = {"shift", "caps_lock", "out"} /\ (driver.shift <=> "shift" \in down)
  BY DEF ShiftInv
<1>2. CASE k \in down
  <2>1. driver' = [driver EXCEPT !.shift = IF k = "shift" THEN FALSE ELSE @, !.out = "none"]
    BY <1>2, Zenon DEF process_scancode
  <2>2. DOMAIN driver' = DOMAIN driver
    BY <2>1
  <2>3. k = "shift" => ~driver'.shift
    BY <1>1, <2>1
  <2>4. k # "shift" => driver'.shift = driver.shift
    BY <1>1, <2>1
  <2>5. down' = down \ {k}
    BY <1>2
  <2>6. CASE k = "shift"
    BY <1>1, <2>2, <2>3, <2>5, <2>6 DEF ShiftInv
  <2>7. CASE k # "shift"
    <3>1. "shift" \in down' <=> "shift" \in down
      BY <2>5, <2>7
    <3>2. QED BY <1>1, <2>2, <2>4, <2>7, <3>1 DEF ShiftInv
  <2>8. QED BY <2>6, <2>7
<1>3. CASE k \notin down /\ k = "shift"
  <2>1. driver' = [driver EXCEPT !.shift = TRUE, !.out = "none"]
    <3>1. k # "caps" /\ k \notin Repeatable
      BY <1>3 DEF Repeatable
    <3>2. QED BY <1>3, <3>1, Zenon DEF process_scancode
  <2>2. DOMAIN driver' = DOMAIN driver /\ driver'.shift
    BY <1>1, <2>1
  <2>3. "shift" \in down'
    BY <1>3
  <2>4. QED BY <1>1, <2>2, <2>3 DEF ShiftInv
<1>4. CASE k \notin down /\ k # "shift"
  <2>1. \E o, c : driver' = [driver EXCEPT !.out = o] \/ driver' = [driver EXCEPT !.caps_lock = c, !.out = o]
    <3>1. CASE k = "caps"
      <4>1. k \notin Repeatable
        BY <3>1 DEF Repeatable
      <4>2. driver' = [driver EXCEPT !.caps_lock = ~@, !.out = "none"]
        BY <1>4, <3>1, <4>1, Zenon DEF process_scancode
      <4>3. QED BY <4>2
    <3>2. CASE k # "caps" /\ k \in Repeatable
      <4>1. driver' = [driver EXCEPT !.out = "none"]
        BY <1>4, <3>2, Zenon DEF process_scancode
      <4>2. QED BY <4>1
    <3>3. CASE k # "caps" /\ k \notin Repeatable
      <4>1. driver' = [driver EXCEPT !.out = IF (IF k \in Lower THEN driver.shift # driver.caps_lock ELSE driver.shift)
                                             THEN "upper" ELSE "lower"]
        BY <1>4, <3>3, Zenon DEF process_scancode
      <4>2. QED BY <4>1
    <3>4. QED BY <3>1, <3>2, <3>3
  <2>2. DOMAIN driver' = DOMAIN driver /\ driver'.shift = driver.shift
    BY <1>1, <2>1
  <2>3. "shift" \in down' <=> "shift" \in down
    BY <1>4
  <2>4. QED BY <1>1, <2>2, <2>3 DEF ShiftInv
<1>5. QED BY <1>2, <1>3, <1>4

\* The event takes the position of the new code.
LEMMA RaisesInv ==
    ASSUME EventInv, NEW k \in Keys, codes' = Append(codes, k), UNCHANGED answered,
           irq' = [signaled |-> TRUE, last_data |-> Len(codes) + 1]
    PROVE  EventInv'
<1>1. /\ codes \in Seq(Keys) /\ answered \in Seq(Nat) /\ irq.last_data = Len(codes)
      /\ \A i \in DOMAIN answered : answered[i] <= irq.last_data
      /\ \A i, j \in DOMAIN answered : i < j => answered[i] < answered[j]
  BY DEF EventInv
<1>2. PICK n \in Nat : n = Len(codes)
  BY <1>1
<1>3. codes' \in Seq(Keys) /\ Len(codes') = n + 1
  BY <1>1, <1>2
<1>4. irq' \in [signaled : BOOLEAN, last_data : Nat] /\ irq'.last_data = n + 1
  BY <1>2
<1>5. \A i \in DOMAIN answered : answered[i] \in Nat /\ answered[i] <= n
  BY <1>1, <1>2
<1>6. \A i \in DOMAIN answered : answered[i] <= n + 1 /\ answered[i] < n + 1
  BY <1>5
<1>7. answered' = answered
  OBVIOUS
<1>8. QED BY <1>1, <1>3, <1>4, <1>6, <1>7 DEF EventInv

LEMMA KeyInv == ASSUME InputInv, NEW k \in Keys, keyboard_interrupt_handler(k) PROVE InputInv'
<1>1. TextInv /\ HeldInv /\ EventInv /\ ShiftInv
  BY DEF InputInv
<1>2. EventInv'
  BY <1>1, RaisesInv DEF keyboard_interrupt_handler
<1>3. ShiftInv'
  BY <1>1, ShiftStep DEF keyboard_interrupt_handler
<1>4. CASE k \in down
  <2>1. /\ held_key' = IF held_key # NoKey /\ held_key.code = k THEN NoKey ELSE held_key
        /\ UNCHANGED <<buffer, typed, erased, got>>
    BY <1>4 DEF keyboard_interrupt_handler
  <2>2. HeldInv'
    BY <1>1, <2>1 DEF HeldInv
  <2>3. TextInv'
    BY <1>1, <2>1 DEF TextInv, Given
  <2>4. QED BY <1>2, <1>3, <2>2, <2>3 DEF InputInv
<1>5. CASE k \notin down
  <2>1. /\ held_key' = IF k \in Repeatable THEN [code |-> k, pressed |-> ticks, last |-> ticks] ELSE held_key
        /\ got' = got
    BY <1>5 DEF keyboard_interrupt_handler
  <2>2. HeldInv'
    BY <1>1, <2>1 DEF HeldInv
  <2>3. TextInv'
    <3>1. CASE k = "backspace" /\ buffer = <<>>
      <4>1. UNCHANGED <<buffer, typed, erased, got>>
        BY <1>5, <3>1 DEF keyboard_interrupt_handler
      <4>2. QED BY <1>1, <4>1 DEF TextInv, Given
    <3>2. CASE k = "backspace" /\ buffer # <<>>
      <4>1. buffer' = SubSeq(buffer, 1, Len(buffer) - 1) /\ erased' = erased + 1 /\ UNCHANGED <<typed, got>>
        BY <1>5, <3>2 DEF keyboard_interrupt_handler
      <4>2. QED BY <1>1, <3>2, <4>1, ErasesInv
    <3>3. CASE k # "backspace"
      <4>1. Types(k)
        BY <1>5, <3>3 DEF keyboard_interrupt_handler, Types
      <4>2. QED BY <1>1, <4>1, TypesInv
    <3>4. QED BY <3>1, <3>2, <3>3
  <2>4. QED BY <1>2, <1>3, <2>2, <2>3 DEF InputInv
<1>6. QED BY <1>4, <1>5

LEMMA ConsoleReadInv == ASSUME InputInv, NEW len \in {1, 2}, sys_console_read(len) PROVE InputInv'
<1>1. TextInv /\ HeldInv /\ EventInv /\ ShiftInv
  BY DEF InputInv
<1>2. CASE read(len) /\ UNCHANGED <<held_key, down, ticks, irq, typed, erased, codes, answered, driver>>
  <2>1. TextInv'
    BY <1>1, <1>2, ReadsInv
  <2>2. HeldInv' /\ EventInv' /\ ShiftInv'
    BY <1>1, <1>2 DEF HeldInv, EventInv, ShiftInv
  <2>3. QED BY <2>1, <2>2 DEF InputInv
<1>3. CASE check_and_repeat /\ UNCHANGED <<down, ticks, irq, got, erased, codes, answered, driver>>
  <2>1. PICK k \in Keys : k = held_key.code
    BY <1>1, <1>3 DEF HeldInv, check_and_repeat, Due
  <2>2. Types(k) /\ held_key' = [code |-> k, pressed |-> ticks, last |-> ticks]
    BY <1>3, <2>1 DEF check_and_repeat, Types
  <2>3. TextInv'
    BY <1>1, <2>2, TypesInv
  <2>4. HeldInv'
    BY <2>2 DEF HeldInv
  <2>5. EventInv' /\ ShiftInv'
    BY <1>1, <1>3 DEF EventInv, ShiftInv
  <2>6. QED BY <2>3, <2>4, <2>5 DEF InputInv
<1>4. QED BY <1>2, <1>3 DEF sys_console_read

\* An answer is the last code, which no earlier answer was while the event was set.
LEMMA WaitInv == ASSUME InputInv, sys_irq_wait PROVE InputInv'
<1>1. TextInv /\ HeldInv /\ EventInv /\ ShiftInv
  BY DEF InputInv
<1>2. TextInv' /\ HeldInv' /\ ShiftInv'
  BY <1>1 DEF TextInv, HeldInv, ShiftInv, Given, sys_irq_wait
<1>3. /\ codes \in Seq(Keys) /\ irq \in [signaled : BOOLEAN, last_data : Nat] /\ answered \in Seq(Nat)
      /\ irq.last_data = Len(codes) /\ codes' = codes /\ irq.signaled
      /\ \A i, j \in DOMAIN answered : i < j => answered[i] < answered[j]
  BY <1>1 DEF EventInv, sys_irq_wait
<1>4. PICK x \in Nat : x = irq.last_data
  BY <1>3
<1>5. \A i \in DOMAIN answered : answered[i] \in Nat /\ answered[i] < x
  BY <1>1, <1>3, <1>4 DEF EventInv
<1>6. answered' = Append(answered, x)
  BY <1>4 DEF sys_irq_wait
<1>7. PICK n \in Nat : n = Len(answered)
  BY <1>3
<1>8. /\ answered' \in Seq(Nat) /\ DOMAIN answered' = 1 .. n + 1 /\ answered'[n + 1] = x
      /\ \A i \in 1 .. n : answered'[i] = answered[i]
  BY <1>3, <1>6, <1>7
<1>9. DOMAIN answered = 1 .. n
  BY <1>3, <1>7
<1>10. irq' = [irq EXCEPT !.signaled = FALSE]
  BY DEF sys_irq_wait
<1>11. irq' \in [signaled : BOOLEAN, last_data : Nat] /\ irq'.last_data = x /\ ~irq'.signaled
  BY <1>3, <1>4, <1>10
<1>12. \A i \in 1 .. n + 1 : i \in 1 .. n \/ i = n + 1
  OBVIOUS
<1>13. \A i \in 1 .. n + 1 : answered'[i] <= x
  BY <1>5, <1>8, <1>9, <1>12
<1>14. \A i, j \in 1 .. n + 1 : i < j => answered'[i] < answered'[j]
  <2>1. SUFFICES ASSUME NEW i \in 1 .. n + 1, NEW j \in 1 .. n + 1, i < j PROVE answered'[i] < answered'[j]
    OBVIOUS
  <2>2. i \in 1 .. n
    BY <2>1
  <2>3. CASE j \in 1 .. n
    BY <1>3, <1>8, <1>9, <2>1, <2>2, <2>3
  <2>4. CASE j = n + 1
    BY <1>5, <1>8, <1>9, <2>2, <2>4
  <2>5. QED BY <1>12, <2>3, <2>4
<1>15. EventInv'
  <2>1. codes' \in Seq(Keys) /\ irq'.last_data = Len(codes')
    BY <1>3, <1>4, <1>11
  <2>2. QED BY <1>8, <1>11, <1>13, <1>14, <2>1 DEF EventInv
<1>16. QED BY <1>2, <1>15 DEF InputInv

LEMMA InputFirst == InputInit => InputInv
<1>1. SUFFICES ASSUME InputInit PROVE InputInv
  OBVIOUS
<1>2. /\ buffer = <<>> /\ got = <<>> /\ typed = <<>> /\ erased = 0 /\ codes = <<>> /\ answered = <<>>
      /\ irq = [signaled |-> FALSE, last_data |-> 0] /\ held_key = NoKey /\ down = {}
      /\ driver = [shift |-> FALSE, caps_lock |-> FALSE, out |-> "none"]
  BY <1>1 DEF InputInit
<1>3. PICK e : e = <<>>
  OBVIOUS
<1>4. e \in Seq(Typable) /\ Len(e) = 0 /\ e \o e = e
  BY <1>3
<1>5. Embeds(e, e)
  <2>1. PICK pos : pos = [i \in 1 .. Len(e) |-> 1]
    OBVIOUS
  <2>2. 1 .. Len(e) = {}
    BY <1>4
  <2>3. Stands(e, e, pos)
    BY <2>1, <2>2 DEF Stands
  <2>4. QED BY <2>3 DEF Embeds
<1>6. TextInv
  <2>1. Given = e
    BY <1>2, <1>3, <1>4 DEF Given
  <2>2. INPUT_BUFFER_SIZE \in Nat
    BY InputAssumption
  <2>3. QED BY <1>2, <1>3, <1>4, <1>5, <2>1, <2>2 DEF TextInv
<1>7. HeldInv
  BY <1>2 DEF HeldInv
<1>8. EventInv
  BY <1>2 DEF EventInv
<1>9. ShiftInv
  BY <1>2 DEF ShiftInv
<1>10. QED BY <1>6, <1>7, <1>8, <1>9 DEF InputInv

LEMMA InputHolds == InputInv => InputSound
<1>1. SUFFICES ASSUME InputInv PROVE InputSound
  OBVIOUS
<1>2. TextInv /\ EventInv /\ ShiftInv
  BY <1>1 DEF InputInv
<1>3. DriverInStep
  BY <1>2 DEF DriverInStep, EventInv, ShiftInv
<1>4. PICK g \in Seq(Typable) : g = Given
  BY <1>2, ConcatProperties DEF TextInv, Given
<1>5. ASSUME erased = 0
      PROVE  \E keep \in SUBSET DOMAIN typed :
                /\ Cardinality(keep) = Len(Given)
                /\ \A i \in keep : Given[Cardinality({j \in keep : j <= i})] = typed[i]
  <2>1. Embeds(g, typed) /\ typed \in Seq(Typable)
    BY <1>2, <1>4, <1>5 DEF TextInv
  <2>2. \E keep \in SUBSET DOMAIN typed :
                /\ Cardinality(keep) = Len(g)
                /\ \A i \in keep : g[Cardinality({j \in keep : j <= i})] = typed[i]
    BY <2>1, EmbedsKeep
  <2>3. QED BY <1>4, <2>2
<1>6. InTypedOrder
  BY <1>2, <1>5 DEF InTypedOrder, TextInv
<1>7. QED BY <1>3, <1>6 DEF InputSound

\* Input.InputSound, for any keys and any buffer size: what has been read and
\* what is buffered is what was typed, in order, less what a full buffer dropped
\* and backspace took out (push_byte, read, check_and_repeat), and the driver's
\* waits return codes in the order they were raised, none twice, with its shift
\* state that of the key (irq_signal, sys_irq_wait, process_scancode).
THEOREM InputIsSound == InputSpec => []InputSound
<1>1. InputInit => InputInv
  BY InputFirst
<1>2. InputInv /\ [InputNext]_input_vars => InputInv'
  <2>1. SUFFICES ASSUME InputInv, [InputNext]_input_vars PROVE InputInv'
    OBVIOUS
  <2>2. CASE UNCHANGED input_vars
    BY <2>1, <2>2 DEF input_vars, InputInv, TextInv, HeldInv, EventInv, ShiftInv, Given
  <2>3. CASE \E k \in Keys : keyboard_interrupt_handler(k)
    BY <2>1, <2>3, KeyInv
  <2>4. CASE \E len \in {1, 2} : sys_console_read(len)
    BY <2>1, <2>4, ConsoleReadInv
  <2>5. CASE sys_irq_wait
    BY <2>1, <2>5, WaitInv
  <2>6. CASE InputTick
    BY <2>1, <2>6 DEF InputTick, InputInv, TextInv, HeldInv, EventInv, ShiftInv, Given
  <2>7. QED BY <2>1, <2>2, <2>3, <2>4, <2>5, <2>6 DEF InputNext
<1>3. InputInv => InputSound
  BY InputHolds
<1>4. QED BY <1>1, <1>2, <1>3, PTL DEF InputSpec
=============================================================================
