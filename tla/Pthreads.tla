------------------------------ MODULE Pthreads ------------------------------
(* The user library pthreads and the kernel events under its condition        *)
(* variables.  Each atomic instruction or system call of a thread is a step;  *)
(* a spin that finds nothing to do is no step.  Handles belong to one task,   *)
(* and a thread is a task: an event resolves only in the thread that made it. *)
EXTENDS Naturals, FiniteSets

CONSTANTS Threads,        \* the threads of one process, Creator among them
          Creator,        \* the thread that made the condition variable
          MAX_TLS_KEYS,
          PtUses,         \* the interfaces a behaviour may use, one each
          Writer,         \* bit 63 of the RwLock word, above every count of readers
          Null

ASSUME PtAssumption ==
    /\ IsFiniteSet(Threads) /\ Creator \in Threads
    /\ Writer \in Nat /\ Cardinality(Threads) < Writer
    /\ MAX_TLS_KEYS \in Nat

MUTEX_UNLOCKED == 0
MUTEX_LOCKED == 1
MUTEX_LOCKED_WAITERS == 2

VARIABLES pt_use,
          pc,             \* where each thread is
          back,           \* where Mutex::lock returns to
          seen,           \* the value a thread read last
          mutex, spin, rw, once, initialised,
          event, waiters, arrived, generation,
          next_key, keys, \* NEXT_TLS_KEY and what each thread was given
          entry,          \* THREAD_ENTRY and THREAD_ARG
          ran,            \* which routine and argument each thread ran with
          joined          \* 0 none, 1 joining, 2 stack unmapped
thread_vars == <<pc, back, seen>>
lock_vars == <<mutex, spin, rw, once, initialised>>
cond_vars == <<event, waiters, arrived, generation>>
other_vars == <<next_key, keys, entry, ran, joined>>
pt_vars == <<pt_use, thread_vars, lock_vars, cond_vars, other_vars>>

PtInit ==
    /\ pt_use \in PtUses
    /\ pc = [t \in Threads |-> IF pt_use = "create" /\ t # Creator THEN "none" ELSE "idle"]
    /\ back = [t \in Threads |-> Null] /\ seen = [t \in Threads |-> 0]
    /\ mutex = MUTEX_UNLOCKED /\ spin = FALSE /\ rw = 0 /\ once = 0 /\ initialised = FALSE
    /\ event = FALSE /\ waiters = 0 /\ arrived = 0 /\ generation = 0
    /\ next_key = 0 /\ keys = [t \in Threads |-> {}]
    /\ entry = [routine |-> Null, arg |-> Null]
    /\ ran = [t \in Threads |-> Null] /\ joined = [t \in Threads |-> 0]

Goto(t, to) == pc' = [pc EXCEPT ![t] = to]
At(t, use, where) == pt_use = use /\ pc[t] = where

(* ------------------------------------------------------------------ Mutex *)
CallLock(t, to) == pc' = [pc EXCEPT ![t] = "lock"] /\ back' = [back EXCEPT ![t] = to]
lock(t) ==
    /\ pc[t] = "lock"
    /\ \/ mutex = MUTEX_UNLOCKED /\ mutex' = MUTEX_LOCKED /\ Goto(t, back[t])
       \/ mutex = MUTEX_LOCKED /\ Goto(t, "mark") /\ UNCHANGED mutex
    /\ UNCHANGED <<pt_use, back, seen, spin, rw, once, initialised, cond_vars, other_vars>>
mark_waiters(t) ==
    /\ pc[t] = "mark" /\ Goto(t, "lock")
    /\ mutex' = IF mutex = MUTEX_LOCKED THEN MUTEX_LOCKED_WAITERS ELSE mutex
    /\ UNCHANGED <<pt_use, back, seen, spin, rw, once, initialised, cond_vars, other_vars>>
StartLock(t) ==
    /\ pt_use \in {"mutex", "cond"} /\ pc[t] = "idle" /\ CallLock(t, "critical")
    /\ UNCHANGED <<pt_use, seen, lock_vars, cond_vars, other_vars>>
trylock(t) ==
    /\ At(t, "mutex", "idle") /\ mutex = MUTEX_UNLOCKED
    /\ mutex' = MUTEX_LOCKED /\ Goto(t, "critical")
    /\ UNCHANGED <<pt_use, back, seen, spin, rw, once, initialised, cond_vars, other_vars>>
unlock(t) ==
    /\ pc[t] = "critical" /\ mutex' = MUTEX_UNLOCKED /\ Goto(t, "idle")
    /\ UNCHANGED <<pt_use, back, seen, spin, rw, once, initialised, cond_vars, other_vars>>

(* ------------------------------------------------- Spinlock, RwLock, Once *)
spin_lock(t) ==
    /\ At(t, "spin", "idle") /\ ~spin /\ spin' = TRUE /\ Goto(t, "spinning")
    /\ UNCHANGED <<pt_use, back, seen, mutex, rw, once, initialised, cond_vars, other_vars>>
spin_unlock(t) ==
    /\ pc[t] = "spinning" /\ spin' = FALSE /\ Goto(t, "idle")
    /\ UNCHANGED <<pt_use, back, seen, mutex, rw, once, initialised, cond_vars, other_vars>>
\* lock_read and try_lock_read: load, then exchange what was loaded.
load_read(t) ==
    /\ At(t, "rw", "idle") /\ rw # Writer
    /\ seen' = [seen EXCEPT ![t] = rw] /\ Goto(t, "exchange")
    /\ UNCHANGED <<pt_use, back, lock_vars, cond_vars, other_vars>>
\* Fault: the loaded count is stored whatever the word has become.
lock_read_Store(t) ==
    /\ pc[t] = "exchange" /\ rw' = seen[t] + 1 /\ Goto(t, "reading")
    /\ UNCHANGED <<pt_use, back, seen, mutex, spin, once, initialised, cond_vars, other_vars>>
lock_read(t) ==
    /\ pc[t] = "exchange"
    /\ \/ rw = seen[t] /\ rw' = seen[t] + 1 /\ Goto(t, "reading")
       \/ rw # seen[t] /\ Goto(t, "idle") /\ UNCHANGED rw
    /\ UNCHANGED <<pt_use, back, seen, mutex, spin, once, initialised, cond_vars, other_vars>>
unlock_read(t) ==
    /\ pc[t] = "reading" /\ rw' = rw - 1 /\ Goto(t, "idle")
    /\ UNCHANGED <<pt_use, back, seen, mutex, spin, once, initialised, cond_vars, other_vars>>
lock_write(t) ==
    /\ At(t, "rw", "idle") /\ rw = 0 /\ rw' = Writer /\ Goto(t, "writing")
    /\ UNCHANGED <<pt_use, back, seen, mutex, spin, once, initialised, cond_vars, other_vars>>
unlock_write(t) ==
    /\ pc[t] = "writing" /\ rw' = 0 /\ Goto(t, "idle")
    /\ UNCHANGED <<pt_use, back, seen, mutex, spin, once, initialised, cond_vars, other_vars>>
\* call_once: 0 incomplete, 1 in progress, 2 complete.
call_once(t) ==
    /\ At(t, "once", "idle")
    /\ \/ once = 0 /\ once' = 1 /\ Goto(t, "initialising")
       \/ once = 2 /\ Goto(t, "after") /\ UNCHANGED once
    /\ UNCHANGED <<pt_use, back, seen, mutex, spin, rw, initialised, cond_vars, other_vars>>
run_once(t) ==
    /\ pc[t] = "initialising" /\ ~initialised /\ initialised' = TRUE
    /\ UNCHANGED <<pt_use, thread_vars, mutex, spin, rw, once, cond_vars, other_vars>>
once_complete(t) ==
    /\ pc[t] = "initialising" /\ initialised /\ once' = 2 /\ Goto(t, "after")
    /\ UNCHANGED <<pt_use, back, seen, mutex, spin, rw, initialised, cond_vars, other_vars>>

(* ------------------------------------------------------ Condvar, Barrier *)
\* Condvar::wait is entered from the caller's critical section and from the
\* loop of Barrier::wait; back says where it returns to.
cond_wait(t) ==
    /\ \/ At(t, "cond", "critical") /\ back' = [back EXCEPT ![t] = "critical"]
       \/ pc[t] = "check" /\ generation = seen[t] /\ back' = [back EXCEPT ![t] = "check"]
    /\ waiters' = waiters + 1 /\ Goto(t, "release")
    /\ UNCHANGED <<pt_use, seen, lock_vars, event, arrived, generation, other_vars>>
cond_unlock(t) ==
    /\ pc[t] = "release" /\ mutex' = MUTEX_UNLOCKED /\ Goto(t, "wait")
    /\ UNCHANGED <<pt_use, back, seen, spin, rw, once, initialised, cond_vars, other_vars>>
\* SYS_EVENT_WAIT: a handle that is not in the caller's table is an error.
sys_event_wait(t) ==
    /\ pc[t] = "wait"
    /\ \/ t = Creator /\ event /\ event' = FALSE /\ UNCHANGED back
       \/ /\ t # Creator /\ UNCHANGED event
          /\ back' = [back EXCEPT ![t] = IF @ = "check" THEN "left" ELSE @]
    /\ Goto(t, "woken")
    /\ UNCHANGED <<pt_use, seen, lock_vars, waiters, arrived, generation, other_vars>>
cond_relock(t) ==
    /\ pc[t] = "woken" /\ waiters' = waiters - 1 /\ CallLock(t, back[t])
    /\ UNCHANGED <<pt_use, seen, lock_vars, event, arrived, generation, other_vars>>
sys_event_signal(t) == event' = IF t = Creator THEN TRUE ELSE event
signal(t) ==
    /\ At(t, "cond", "idle") /\ sys_event_signal(t)
    /\ UNCHANGED <<pt_use, thread_vars, lock_vars, waiters, arrived, generation, other_vars>>
broadcast(t) ==
    /\ \/ At(t, "cond", "idle") /\ back' = [back EXCEPT ![t] = "idle"]
       \/ pc[t] = "last" /\ back' = [back EXCEPT ![t] = "left"]
    /\ seen' = [seen EXCEPT ![t] = waiters] /\ Goto(t, "waking")
    /\ UNCHANGED <<pt_use, lock_vars, cond_vars, other_vars>>
broadcast_next(t) ==
    /\ pc[t] = "waking"
    /\ \/ seen[t] > 0 /\ t = Creator /\ sys_event_signal(t)
          /\ seen' = [seen EXCEPT ![t] = @ - 1] /\ UNCHANGED pc
       \/ (seen[t] = 0 \/ t # Creator) /\ Goto(t, back[t]) /\ UNCHANGED <<seen, event>>
    /\ UNCHANGED <<pt_use, back, lock_vars, waiters, arrived, generation, other_vars>>
barrier_wait(t) ==
    /\ At(t, "barrier", "idle") /\ CallLock(t, "arrive")
    /\ UNCHANGED <<pt_use, seen, lock_vars, cond_vars, other_vars>>
barrier_arrive(t) ==
    /\ pc[t] = "arrive" /\ seen' = [seen EXCEPT ![t] = generation]
    /\ \/ /\ arrived + 1 >= Cardinality(Threads)
          /\ arrived' = 0 /\ generation' = generation + 1 /\ mutex' = MUTEX_UNLOCKED
          /\ Goto(t, "last")
       \/ /\ arrived + 1 < Cardinality(Threads) /\ arrived' = arrived + 1
          /\ Goto(t, "check") /\ UNCHANGED <<generation, mutex>>
    /\ UNCHANGED <<pt_use, back, spin, rw, once, initialised, event, waiters, other_vars>>
barrier_leave(t) ==
    /\ pc[t] = "check" /\ generation # seen[t] /\ mutex' = MUTEX_UNLOCKED /\ Goto(t, "left")
    /\ UNCHANGED <<pt_use, back, seen, spin, rw, once, initialised, cond_vars, other_vars>>

(* ------------------------------------------------------ keys and threads *)
key_create(t) ==
    /\ At(t, "keys", "idle") /\ next_key' = next_key + 1
    /\ IF next_key >= MAX_TLS_KEYS
       THEN Goto(t, "undo") /\ UNCHANGED keys
       ELSE keys' = [keys EXCEPT ![t] = @ \cup {next_key}] /\ UNCHANGED pc
    /\ UNCHANGED <<pt_use, back, seen, lock_vars, cond_vars, entry, ran, joined>>
key_undo(t) ==
    /\ pc[t] = "undo" /\ next_key' = next_key - 1 /\ Goto(t, "idle")
    /\ UNCHANGED <<pt_use, back, seen, lock_vars, cond_vars, keys, entry, ran, joined>>

\* Creator starts u: store the routine, store the argument, SYS_THREAD_CREATE.
pthread_create(u) ==
    /\ At(Creator, "create", "idle") /\ pc[u] = "none"
    /\ entry' = [entry EXCEPT !.routine = u]
    /\ Goto(Creator, "store_arg") /\ back' = [back EXCEPT ![Creator] = u]
    /\ UNCHANGED <<pt_use, seen, lock_vars, cond_vars, next_key, keys, ran, joined>>
pthread_store_arg ==
    /\ pc[Creator] = "store_arg"
    /\ entry' = [entry EXCEPT !.arg = back[Creator]] /\ Goto(Creator, "spawn")
    /\ UNCHANGED <<pt_use, back, seen, lock_vars, cond_vars, next_key, keys, ran, joined>>
pthread_spawn ==
    /\ pc[Creator] = "spawn"
    /\ \E result \in {"spawned", "refused"} :
           pc' = [pc EXCEPT ![Creator] = "idle", ![back[Creator]] = result]
    /\ UNCHANGED <<pt_use, back, seen, lock_vars, cond_vars, other_vars>>
pthread_entry(u) ==
    /\ pc[u] = "spawned" /\ ran' = [ran EXCEPT ![u] = [routine |-> entry.routine, arg |-> Null]]
    /\ entry' = [entry EXCEPT !.routine = Null] /\ Goto(u, "take_arg")
    /\ UNCHANGED <<pt_use, back, seen, lock_vars, cond_vars, next_key, keys, joined>>
pthread_take_arg(u) ==
    /\ pc[u] = "take_arg" /\ ran' = [ran EXCEPT ![u].arg = entry.arg]
    /\ entry' = [entry EXCEPT !.arg = Null] /\ Goto(u, "running")
    /\ UNCHANGED <<pt_use, back, seen, lock_vars, cond_vars, next_key, keys, joined>>
pthread_exit(u) ==
    /\ pc[u] = "running" /\ Goto(u, "exited")
    /\ UNCHANGED <<pt_use, back, seen, lock_vars, cond_vars, other_vars>>
Joinable == {"spawned", "take_arg", "running", "exited"}
\* The exchange of joined, then SYS_PROCESS_WAIT and the unmapping of the stack.
pthread_join(u) ==
    /\ At(Creator, "create", "idle") /\ pc[u] \in Joinable
    /\ \/ joined[u] = 0 /\ joined' = [joined EXCEPT ![u] = 1]
       \/ joined[u] = 1 /\ pc[u] = "exited" /\ joined' = [joined EXCEPT ![u] = 2]
    /\ UNCHANGED <<pt_use, thread_vars, lock_vars, cond_vars, next_key, keys, entry, ran>>

ThreadStep(t) ==
    \/ lock(t) \/ mark_waiters(t) \/ StartLock(t) \/ trylock(t) \/ unlock(t)
    \/ spin_lock(t) \/ spin_unlock(t)
    \/ load_read(t) \/ lock_read(t) \/ unlock_read(t) \/ lock_write(t) \/ unlock_write(t)
    \/ call_once(t) \/ run_once(t) \/ once_complete(t)
    \/ cond_wait(t) \/ cond_unlock(t) \/ sys_event_wait(t) \/ cond_relock(t)
    \/ signal(t) \/ broadcast(t) \/ broadcast_next(t)
    \/ barrier_wait(t) \/ barrier_arrive(t) \/ barrier_leave(t)
    \/ key_create(t) \/ key_undo(t)
    \/ pthread_create(t) \/ pthread_entry(t) \/ pthread_take_arg(t) \/ pthread_exit(t)
    \/ pthread_join(t)
PtNext == (\E t \in Threads : ThreadStep(t)) \/ pthread_store_arg \/ pthread_spawn
PtSpec == PtInit /\ [][PtNext]_pt_vars
\* Fairness: the scheduler runs every thread in turn.
PtFairness == \A t \in Threads : WF_pt_vars(ThreadStep(t))

(* ------------------------------------------------------------ properties *)
Inside == {t \in Threads : pc[t] \in {"critical", "check", "arrive", "release"}}
AtPc(where) == {t \in Threads : pc[t] = where}

\* What one thread holds no other has: the mutex (through Condvar::wait and
\* its error path too), the spin lock, the write side of a RwLock against its
\* readers, and a TLS key; and nobody is past call_once before it has run.
LocksExclude ==
    /\ Cardinality(Inside) <= 1 /\ (Inside # {} => mutex # MUTEX_UNLOCKED)
    /\ Cardinality(AtPc("spinning")) <= 1
    /\ AtPc("writing") # {} => AtPc("reading") = {} /\ Cardinality(AtPc("writing")) = 1
    /\ AtPc("after") # {} => initialised
    /\ \A t, u \in Threads : t # u => keys[t] \cap keys[u] = {}

\* The stack of a thread is unmapped once, and only when the thread has ended.
StackOutlivesThread == \A u \in Threads : joined[u] = 2 => pc[u] = "exited"

\* The library's locks exclude, and no stack goes while its thread runs.
PthreadsSound == LocksExclude /\ StackOutlivesThread

\* "Protected by the fact that each thread runs exactly once": every thread
\* runs the routine and the argument it was created with.
RunsItsOwn == \A u \in Threads : pc[u] \in {"running", "exited"} =>
                 ran[u] = [routine |-> u, arg |-> u]

\* "Block until all count threads have called wait": a barrier that all its
\* threads have reached lets all of them go.
BarrierReleases == \A t \in Threads : (At(t, "barrier", "lock") ~> pc[t] = "left")
=============================================================================
