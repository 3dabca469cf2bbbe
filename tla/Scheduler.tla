----------------------------- MODULE Scheduler -----------------------------
(***************************************************************************)
(* The scheduler's queues (task/scheduler.rs) and the system calls that    *)
(* move tasks between them, as the processor that runs user tasks executes *)
(* them.  Application processors only ever reach their HLT loop            *)
(* (ap_start.rs), and SYSCALL masks interrupts, so CPU 0 runs a whole      *)
(* system call without interruption: one system call is one step, from the *)
(* preemption check of handle_syscall_raw to the context-switch stub.      *)
(* A loop that waits with HLT inside a system call never sees an interrupt *)
(* again: the processor is halted for good.                                *)
(*                                                                         *)
(* A running task stays in its ready queue; `current' names it.            *)
(***************************************************************************)
EXTENDS Integers, Sequences, FiniteSets, SequencesExt

CONSTANTS
    MaxId,      \* bound: task ids handed out in one behaviour
    MaxTables,  \* bound: page tables made in one behaviour
    SchedUses        \* machines and the system calls made on them; a behaviour is
                \* one: cpus is MAX_CPUS, the number of run queues,
                \* tasks is MAX_TASKS, ids <= MaxId bounds the task ids

ASSUME SchedulerAssumption ==
    /\ \A u \in SchedUses : u.cpus \in Nat \ {0} /\ u.tasks \in Nat \ {0, 1} /\ u.ids \in 0 .. MaxId
    /\ MaxId \in Nat \ {0}
    /\ MaxTables \in Nat \ {0}

NoId == -1
Idle == 0        \* the idle task, created by init
First == 1       \* the first user task, created by launch_from_initrd
Ids == 0 .. MaxId
Tables == 0 .. MaxTables - 1

VARIABLES
    sched_use,      \* the machine, and the system calls user code makes
    s,        \* the scheduler's statics, a record (see Boot)
    exe,      \* the task whose code CPU 0 executes
    halted,   \* "no", or how CPU 0 came to wait in HLT for good
    resched,  \* NEED_RESCHEDULE
    nextId,   \* TaskId::new's counter
    parent,   \* parent_id of each task, None if it has none
    table,    \* page_table of each task, None if it has none
    freed,    \* page tables free_user_page_table has given back
    exited    \* tasks terminate_current has removed

sched_vars == <<sched_use, s, exe, halted, resched, nextId, parent, table, freed, exited>>

QueueCpus == 0 .. sched_use.cpus - 1

(* After init and launch_from_initrd: idle and the first task are on CPU 0 *)
(* and the first task runs.                                                *)
BootQueues ==
    [ready   |-> [c \in QueueCpus |-> IF c = 0 THEN <<Idle, First>> ELSE <<>>],
     current |-> [c \in QueueCpus |-> IF c = 0 THEN First ELSE NoId],
     blocked |-> <<>>,                           \* BLOCKED_QUEUE
     cpuOf   |-> [t \in Ids |-> NoId],           \* BLOCKED_CPU_MAP
     context |-> [t \in Ids |-> IF t <= First THEN t ELSE NoId],
                    \* Task.context: whose registers are saved in it, or None
     curId   |-> First,                          \* CURRENT_TASK_ID
     switch  |-> NoId,      \* the registers SWITCH_CONTEXT points to, or None
     switched |-> FALSE]                         \* result of block_and_switch

SchedInit ==
    /\ sched_use \in SchedUses
    /\ s = BootQueues
    /\ exe = First
    /\ halted = "no"
    /\ resched = FALSE
    /\ nextId = 2
    /\ parent = [t \in Ids |-> NoId]
    /\ table = [t \in Ids |-> IF t = First THEN 0 ELSE NoId]
    /\ freed = {}
    /\ exited = {}

InQueues(q, t) ==
    (\E c \in QueueCpus : Contains(q.ready[c], t)) \/ Contains(q.blocked, t)

-----------------------------------------------------------------------------
(* The scheduler's functions, as state transformers. *)

(* Fault: the task found in the ready queue is copied, not removed. *)
block_and_switch_Copies(q) ==
    LET cur == q.current[0]
        n   == Head(q.ready[0])
    IN  [q EXCEPT !.blocked = Append(@, cur), !.cpuOf[cur] = 0,
                  !.ready[0] = Append(Tail(@), n), !.current[0] = n, !.curId = n,
                  !.switched = q.context[n] # NoId,
                  !.switch = IF q.context[n] # NoId THEN q.context[n] ELSE @]

(* The captured registers are saved in the current task, which moves to    *)
(* the blocked queue; the head of the ready queue goes to its back and     *)
(* becomes current.  Only a task with a context is switched to, but        *)
(* current is changed either way.  The captured registers are those of the *)
(* code that made the system call, whoever is current.                     *)
block_and_switch(q) ==
    LET cur   == q.current[0]
        found == Contains(q.ready[0], cur)
        rest  == IF found THEN RemoveFirst(q.ready[0], cur) ELSE q.ready[0]
        p     == IF ~found THEN q
                 ELSE [q EXCEPT !.ready[0] = rest, !.blocked = Append(@, cur),
                                !.cpuOf[cur] = 0, !.context[cur] = exe]
        n     == Head(rest)
        has   == p.context[n] # NoId
    IN  IF rest = <<>> THEN [p EXCEPT !.switched = FALSE]
        ELSE [p EXCEPT !.ready[0] = Append(Tail(rest), n),
                       !.current[0] = n, !.curId = n,
                       !.switched = has,
                       !.switch = IF has THEN p.context[n] ELSE @]

(* Fault: the task is queued on the waking processor. *)
wake_task_by_id_Here(q, t) ==
    IF ~Contains(q.blocked, t) THEN q
    ELSE [q EXCEPT !.blocked = RemoveFirst(@, t), !.cpuOf[t] = NoId, !.ready[Max(QueueCpus)] = Append(@, t)]

wake_task_by_id(q, t) ==
    IF ~Contains(q.blocked, t) THEN q
    ELSE LET target == IF q.cpuOf[t] = NoId THEN 0 ELSE q.cpuOf[t] IN
         [q EXCEPT !.blocked = RemoveFirst(@, t), !.cpuOf[t] = NoId,
                   !.ready[target] = Append(@, t)]

unblock_current(q) ==
    LET cur == q.current[0] IN
    IF ~Contains(q.blocked, cur) THEN q
    ELSE [q EXCEPT !.blocked = RemoveFirst(@, cur), !.ready[0] = Append(@, cur)]

task_count(q, c) == Len(q.ready[c]) + (IF q.current[c] = NoId THEN 0 ELSE 1)

(* The loop's total after each queue.  The migration queue adds nothing:   *)
(* nothing is ever pushed on it.                                           *)
Totals(q) ==
    LET total[n \in 0 .. sched_use.cpus] == IF n = 0 THEN 0 ELSE total[n - 1] + task_count(q, n - 1)
    IN  total
total_task_count(q) == Totals(q)[sched_use.cpus] + Len(q.blocked)

least_loaded_cpu(q) ==
    CHOOSE c \in QueueCpus : \A d \in QueueCpus :
        \/ task_count(q, c) < task_count(q, d)
        \/ task_count(q, c) = task_count(q, d) /\ c <= d

spawn(q, t, ctx) ==
    [q EXCEPT !.ready[least_loaded_cpu(q)] = Append(@, t),
              !.context[t] = IF ctx THEN t ELSE NoId]

(* The queues after terminate_current: the task's record is dropped and    *)
(* its parent woken.                                                       *)
Terminated(q) ==
    LET cur == q.current[0]
        p   == [q EXCEPT !.ready[0] = RemoveFirst(@, cur)]
    IN  IF ~Contains(q.ready[0], cur) THEN q
        ELSE IF parent[cur] = NoId THEN p ELSE wake_task_by_id(p, parent[cur])

(* What get_exit_status finds: the status field of a task that is still in *)
(* a queue.  A terminated task is in none.                                 *)
get_exit_status(q, t) ==
    IF InQueues(q, t) /\ t \in exited THEN "status" ELSE "none"

-----------------------------------------------------------------------------
(* handle_syscall_raw: the preemption check comes first, and the call is   *)
(* then carried out for whatever task is current.                          *)
Entered == IF resched THEN block_and_switch(s) ELSE s

(* The end of the entry stub: a pending switch replaces the running code.  *)
Returns(q) ==
    /\ s' = [q EXCEPT !.switch = NoId]
    /\ exe' = IF q.switch # NoId THEN q.switch ELSE exe
    /\ halted' = "no"

Halts(q, why) ==
    /\ s' = q
    /\ halted' = why
    /\ UNCHANGED exe

Calls(name) ==
    /\ halted = "no" /\ exe # Idle /\ name \in sched_use.calls
    /\ resched' = FALSE

sys_thread_yield ==
    /\ Calls("yield")
    /\ Returns(block_and_switch(Entered))
    /\ UNCHANGED <<sched_use, nextId, parent, table, freed, exited>>

(* channel_receive with no message: block, or, when no switch happened,    *)
(* requeue the current task and wait in HLT.                               *)
sys_channel_receive ==
    /\ Calls("receive")
    /\ LET q == block_and_switch(Entered) IN
       IF q.switched THEN Returns(q) ELSE Halts(unblock_current(q), "receive")
    /\ UNCHANGED <<sched_use, nextId, parent, table, freed, exited>>

(* sleep and poll: the loop calls block_and_switch again whether or not it *)
(* switched, until the tick count is reached or no switch happens; the     *)
(* handler does not return in between.  Ticks are counted by the timer     *)
(* interrupt, which is masked: only a deadline that has passed when the    *)
(* call is made is ever seen, otherwise the loop ends in HLT.              *)
Rounds(q) ==
    LET round[k \in 0 .. MaxId + 2] == IF k = 0 THEN q ELSE block_and_switch(round[k - 1])
    IN  round
Drained(q) == Rounds(q)[Min({k \in 1 .. MaxId + 2 : ~Rounds(q)[k].switched})]

sleep_until_tick ==
    /\ Calls("sleep")
    /\ Returns(Entered) \/ Halts(Drained(Entered), "sleep")
    /\ UNCHANGED <<sched_use, nextId, parent, table, freed, exited>>

(* process_wait returns the status it finds, or WouldBlock when its timeout *)
(* is zero; otherwise it waits in HLT.                                      *)
sys_process_wait ==
    /\ Calls("wait")
    /\ \E t \in Ids, nonblocking \in BOOLEAN :
          IF nonblocking \/ get_exit_status(Entered, t) # "none"
          THEN Returns(Entered) ELSE Halts(Entered, "wait")
    /\ UNCHANGED <<sched_use, nextId, parent, table, freed, exited>>

(* channel_send, channel_reply and kill wake a task by id. *)
kill_task ==
    /\ Calls("wake")
    /\ \E t \in Ids : t < nextId /\ Returns(wake_task_by_id(Entered, t))
    /\ UNCHANGED <<sched_use, nextId, parent, table, freed, exited>>

(* process_create: a task with no context and no page table, whose parent  *)
(* is the current task.  thread_create: the parent must have a page table, *)
(* which the thread shares.  The id is used up even when the table is full.*)
Spawns(name, thread) ==
    /\ Calls(name)
    /\ nextId <= sched_use.ids
    /\ LET q == Entered IN
       IF thread /\ table[q.curId] = NoId
       THEN Returns(q) /\ UNCHANGED <<nextId, parent, table>>
       ELSE /\ nextId' = nextId + 1
            /\ IF total_task_count(q) >= sched_use.tasks
               THEN Returns(q) /\ UNCHANGED <<parent, table>>
               ELSE /\ Returns(spawn(q, nextId, thread))
                    /\ parent' = [parent EXCEPT ![nextId] = q.curId]
                    /\ table' = [table EXCEPT ![nextId] = IF thread THEN table[q.curId] ELSE NoId]
    /\ UNCHANGED <<sched_use, freed, exited>>

sys_process_create == Spawns("create", FALSE)

sys_thread_create == Spawns("thread", TRUE)

Unused == Tables \ (freed \cup {table[t] : t \in Ids})

(* process_start gives a task that is found a new page table and context;  *)
(* when the ELF file cannot be loaded, only the page table and the parent  *)
(* have changed.  A bad name fails before anything changes.                *)
sys_process_start ==
    /\ Calls("start")
    /\ \E t \in Ids, loads \in BOOLEAN :
          IF ~InQueues(Entered, t)
          THEN Returns(Entered) /\ UNCHANGED <<parent, table>>
          ELSE /\ Unused # {}
               /\ Returns(IF loads THEN [Entered EXCEPT !.context[t] = t] ELSE Entered)
               /\ parent' = [parent EXCEPT ![t] = Entered.curId]
               /\ table' = [table EXCEPT ![t] = Min(Unused)]
    /\ UNCHANGED <<sched_use, nextId, freed, exited>>

(* terminate_current does nothing when the current task is not found in   *)
(* the ready queue; otherwise it frees the task's page table.              *)
terminate_current(q) ==
    LET cur   == q.current[0]
        found == Contains(q.ready[0], cur)
    IN  /\ exited' = IF found THEN exited \cup {cur} ELSE exited
        /\ freed' = IF found /\ table[cur] # NoId THEN freed \cup {table[cur]} ELSE freed
        /\ UNCHANGED <<sched_use, nextId, parent, table>>

sys_thread_exit ==
    /\ Calls("thread_exit")
    /\ terminate_current(Entered)
    /\ LET q == block_and_switch(Terminated(Entered)) IN
       IF q.switched THEN Returns(q) ELSE Halts(q, "exit")

sys_process_exit ==
    /\ Calls("exit")
    /\ terminate_current(Entered)
    /\ Halts(Terminated(Entered), "exit")

(* A fault in user code terminates the task and halts the processor.  This *)
(* is an exception, not a system call: no preemption check.                *)
user_fault_halt ==
    /\ halted = "no" /\ exe # Idle /\ "fault" \in sched_use.calls
    /\ terminate_current(s)
    /\ Halts(Terminated(s), "fault")
    /\ UNCHANGED resched

(* The timer only sets a flag; interrupts are enabled in user code and in  *)
(* the idle loop.                                                          *)
timer_interrupt_handler ==
    /\ halted = "no" /\ ~resched /\ "timer" \in sched_use.calls
    /\ resched' = TRUE
    /\ UNCHANGED <<sched_use, s, exe, halted, nextId, parent, table, freed, exited>>

SchedNext ==
    \/ sys_thread_yield \/ sys_channel_receive \/ sleep_until_tick \/ kill_task
    \/ sys_process_wait
    \/ sys_process_create \/ sys_thread_create \/ sys_process_start
    \/ sys_thread_exit \/ sys_process_exit \/ user_fault_halt
    \/ timer_interrupt_handler

SchedSpec == SchedInit /\ [][SchedNext]_sched_vars

-----------------------------------------------------------------------------
Created == {t \in Ids : t < nextId}
Queues == QueueCpus \cup {NoId}                 \* NoId stands for the blocked queue
Queue(q, c) == IF c = NoId THEN q.blocked ELSE q.ready[c]

(* Types of the scheduler's statics. *)
SchedTypeOK ==
    /\ \A c \in QueueCpus : s.ready[c] \in Seq(Ids) /\ s.current[c] \in Ids \cup {NoId}
    /\ s.blocked \in Seq(Ids)
    /\ s.cpuOf \in [Ids -> QueueCpus \cup {NoId}]
    /\ s.context \in [Ids -> Created \cup {NoId}] /\ s.curId \in Ids
    /\ (halted = "no" => s.switch = NoId)
    /\ table \in [Ids -> Tables \cup {NoId}] /\ freed \subseteq Tables
    /\ exe \in Created /\ resched \in BOOLEAN /\ exited \subseteq Created
    /\ halted \in {"no", "receive", "wait", "sleep", "exit", "fault"}

(* A task is in one place of the queues at most. *)
NoTwins(q) ==
    \A c, d \in Queues : \A i \in 1 .. Len(Queue(q, c)), j \in 1 .. Len(Queue(q, d)) :
        Queue(q, c)[i] = Queue(q, d)[j] => c = d /\ i = j

(* It was spawned and has not terminated. *)
Unfinished(t) == t \in Created \ exited /\ (t <= First \/ parent[t] # NoId)

(* No task is lost and none is scheduled twice: a task that was spawned    *)
(* and has not terminated is in exactly one queue, once, and a terminated  *)
(* task is in none, whatever mix of blocking, waking, requeueing after a   *)
(* failed switch and preemption happened ("double-scheduling" in the       *)
(* comment of channel_receive).                                            *)
Conservation == NoTwins(s) /\ \A t \in Ids : InQueues(s, t) <=> Unfinished(t)

(* A task stays on the processor it was queued on: the wake-up of a task   *)
(* that blocked on CPU 0 puts it back on CPU 0 (BLOCKED_CPU_MAP), and      *)
(* nothing that runs on CPU 0 moves the tasks of another queue.            *)
StaysHome ==
    [][\A c \in QueueCpus \ {0} :
          /\ IsPrefix(s.ready[c], s'.ready[c])
          /\ ToSet(s'.ready[c]) \subseteq ToSet(s.ready[c]) \cup {nextId}]_sched_vars

(* A system call always finds a task to act for: while CPU 0 is not        *)
(* halted, CURRENT_TASK_ID and the queue's current agree and name a task   *)
(* of CPU 0's ready queue or of the blocked queue, the two places where    *)
(* with_current_task looks.                                                *)
CurrentIsKnown ==
    halted = "no" => /\ s.curId = s.current[0]
                     /\ Contains(s.ready[0] \o s.blocked, s.curId)

(* MAX_TASKS is never exceeded, however tasks are spread over the queues. *)
AtMostMaxTasks ==
    Cardinality({t \in Created : InQueues(s, t)}) <= sched_use.tasks
(* The queues at any time: every task in its one place, the current one    *)
(* where calls look for it, and no more tasks than the machine takes.      *)
SchedulerSound == SchedTypeOK /\ Conservation /\ CurrentIsKnown /\ AtMostMaxTasks

-----------------------------------------------------------------------------
(* What comments of the code say and the code does not do. *)

(* CURRENT_TASK_ID: "ID of the task currently running on the calling CPU". *)
CallsActForTheCaller ==
    (halted = "no" /\ exe # Idle) => Entered.curId = exe

(* terminate_current: "The task is being terminated, so its page table is  *)
(* no longer in use" (scheduler.rs:731): a table that was given back is    *)
(* not one that another task, a thread of the same process, runs on.       *)
FreedTablesUnused ==
    \A t \in Created \ exited : table[t] # NoId => table[t] \notin freed
=============================================================================
