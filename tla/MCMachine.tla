----------------------------- MODULE MCMachine ------------------------------
(* The scheduler, address spaces, threads, system call entry, processors,     *)
(* keyboard input and signals side by side: a behaviour is of one of them.    *)
EXTENDS Scheduler, AddressSpace, Pthreads, SyscallEntry, Smp, Input, Signals
VARIABLE machine_part

Entry(kind, len, enabled, id) == [kind |-> kind, len |-> len, full |-> 2, enabled |-> enabled, id |-> id]
MCEntries == {Entry("lapic", 2, TRUE, 1), Entry("lapic", 2, FALSE, 2), Entry("ioapic", 2, TRUE, 3),
              Entry("override", 3, TRUE, 4), Entry("lapic", 1, TRUE, 5), Entry("lapic", 3, TRUE, 6)}
MCTables == [entries : UNION {[1..n -> MCEntries] : n \in 0..3}, room : {4, 5, 7},
             rsdp_ok : {TRUE}, list_ok : BOOLEAN, present : {TRUE}, madt_ok : {TRUE}]
MCParentOf == [t \in SigTasks |-> IF t = 2 THEN 1 ELSE NoTask]

(* -------------------------------------------------------------- Scheduler *)
(* Two run queues and every system call: new tasks go to the second queue. *)
TwoQueues == [cpus |-> 2, tasks |-> 4, ids |-> 4,
              calls |-> {"yield", "receive", "sleep", "wait", "wake", "create", "thread",
                         "start", "thread_exit", "exit", "fault", "timer"}]

(* One run queue: every thread competes for CPU 0. *)
OneQueue == [cpus |-> 1, tasks |-> 6, ids |-> 2,
             calls |-> {"yield", "receive", "sleep", "wait", "wake", "thread", "thread_exit", "exit", "fault", "timer"}]
ManyThreads == [cpus |-> 1, tasks |-> 6, ids |-> 3, calls |-> {"wake", "thread", "thread_exit", "timer"}]
(* One run queue and processes with tables of their own. *)
Processes == [cpus |-> 1, tasks |-> 6, ids |-> 2,
              calls |-> {"yield", "receive", "wake", "create", "start", "exit", "timer"}]
(* One run queue, tasks that wake others, and timer ticks. *)
Ticks == [cpus |-> 1, tasks |-> 6, ids |-> 2, calls |-> {"wake", "timer"}]
MCSchedUses == {TwoQueues, OneQueue, ManyThreads, Processes, Ticks}

(* ----------------------------------------------------------- AddressSpace *)
MCAsUses == {{"start", "mmap"}, {"start", "kernel", "mmio"}, {"mmap", "brk"}, {"mmap", "protect"}}

machine_vars == <<machine_part, sched_vars, as_vars, pt_vars, entry_vars, smp_vars, input_vars, signals_vars>>
Of(part, all, one) == IF machine_part = part THEN all ELSE {one}
InitOf(parts, scheds) ==
    /\ machine_part \in parts
    /\ sched_use \in Of("scheduler", scheds, OneQueue)
    /\ as_use \in Of("memory", AsUses, {"start", "mmap"})
    /\ pt_use \in Of("threads", PtUses, "mutex")
    /\ smp_use \in Of("smp", SmpUses, "acpi")
    /\ SchedInit /\ AsInit /\ PtInit /\ EntryInit /\ SmpInit /\ InputInit /\ SignalsInit
    /\ machine_part # "entry" => /\ running = CHOOSE t \in EntryTasks : TRUE
                                 /\ \A u \in EntryTasks : saved[u] \in {NoContext, user_mode(u)}
Next ==
    /\ UNCHANGED machine_part
    /\ \/ machine_part = "scheduler" /\ SchedNext
          /\ UNCHANGED <<as_vars, pt_vars, entry_vars, smp_vars, input_vars, signals_vars>>
       \/ machine_part = "memory" /\ AsNext
          /\ UNCHANGED <<sched_vars, pt_vars, entry_vars, smp_vars, input_vars, signals_vars>>
       \/ machine_part = "threads" /\ PtNext
          /\ UNCHANGED <<sched_vars, as_vars, entry_vars, smp_vars, input_vars, signals_vars>>
       \/ machine_part = "entry" /\ EntryNext
          /\ UNCHANGED <<sched_vars, as_vars, pt_vars, smp_vars, input_vars, signals_vars>>
       \/ machine_part = "smp" /\ SmpNext
          /\ UNCHANGED <<sched_vars, as_vars, pt_vars, entry_vars, input_vars, signals_vars>>
       \/ machine_part = "input" /\ InputNext
          /\ UNCHANGED <<sched_vars, as_vars, pt_vars, entry_vars, smp_vars, signals_vars>>
       \/ machine_part = "signals" /\ SignalStep
          /\ UNCHANGED <<sched_vars, as_vars, pt_vars, entry_vars, smp_vars, input_vars>>
       \/ machine_part = "poll" /\ PollStep
          /\ UNCHANGED <<sched_vars, as_vars, pt_vars, entry_vars, smp_vars, input_vars>>
Spec == InitOf({"scheduler", "memory", "threads", "entry", "smp", "input", "signals", "poll"}, {TwoQueues, OneQueue, ManyThreads, Processes})
        /\ [][Next]_machine_vars
TicksSpec == InitOf({"scheduler"}, {Ticks}) /\ [][Next]_machine_vars
ThreadsSpec == InitOf({"scheduler"}, {OneQueue}) /\ [][Next]_machine_vars
=============================================================================
