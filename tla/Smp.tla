-------------------------------- MODULE Smp ---------------------------------
(* Several processors: the interrupt-safe mutex, the processors the firmware *)
(* tables name, and their start-up by the boot processor.                     *)
EXTENDS Naturals, Sequences, FiniteSets

CONSTANTS Cpus,           \* CPUs that contend for the mutexes
          Locks,          \* IntMutex objects
          Aps,            \* application processors, numbered from 1
          MAX_CPUS,       \* the length of cpu_lapic_ids
          MadtTables,     \* tables the firmware may have left
          ReadyTimeout,   \* rounds the boot processor waits for AP_READY
          SmpUses

MadtEntry == [kind : STRING, len : Nat, full : Nat, enabled : BOOLEAN, id : Nat]
ASSUME SmpAssumption ==
    /\ 0 \notin Cpus /\ Aps = 1..Cardinality(Aps) /\ Cardinality(Aps) \in Nat /\ MAX_CPUS \in Nat
    /\ \A t \in MadtTables : t.entries \in Seq(MadtEntry) /\ t.room \in Nat

VARIABLES smp_use,
          holder,         \* [Locks -> CPU or 0]: IntMutex.lock
          saved_if,       \* [Locks -> BOOLEAN]: IntMutex.saved_if
          if_flag,        \* the interrupt flag of each CPU
          if_before,      \* history: the flag outside all critical sections
          held,           \* the mutexes of each CPU's guards, outermost first
          entering,       \* lock() in progress: the mutex and the flag it read
          isr,            \* what a CPU's interrupt handler is doing: "none", or the lock it wants
          info,           \* the AcpiInfo that parse returns
          ap,             \* state of every AP
          ap_index,       \* the index each AP took
          started,        \* AP_STARTED_COUNT
          ready,          \* AP_READY
          bsp             \* the boot processor in start_aps: the AP, step and rounds left
lock_state == <<holder, saved_if, if_flag, if_before, held, entering, isr>>
boot_state == <<info, ap, ap_index, started, ready, bsp>>
smp_vars == <<smp_use, lock_state, boot_state>>

SmpNone == "none"
SmpInit ==
    /\ smp_use \in SmpUses
    /\ holder = [l \in Locks |-> 0] /\ saved_if = [l \in Locks |-> FALSE]
    /\ if_flag \in [Cpus -> BOOLEAN] /\ (smp_use # "mutex" => \A c \in Cpus : if_flag[c])
    /\ if_before = if_flag
    /\ held = [c \in Cpus |-> <<>>] /\ entering = [c \in Cpus |-> <<>>]
    /\ isr = [c \in Cpus |-> SmpNone]
    /\ info = <<>>
    /\ ap = [a \in Aps |-> "off"] /\ ap_index = [a \in Aps |-> 0] /\ started = 0
    /\ ready = [a \in 1..Cardinality(Aps) |-> FALSE]
    /\ bsp = [ap |-> 1, step |-> "init", rounds |-> 0]

(* --------------------------------------------------------------- IntMutex *)
Holds(c) == {held[c][i] : i \in DOMAIN held[c]}
\* lock(): read IF, CLI; spin until the exchange succeeds; store the flag read.
lock_cli(c, l) ==
    /\ smp_use = "mutex" /\ isr[c] = SmpNone /\ entering[c] = <<>> /\ l \notin Holds(c)
    /\ entering' = [entering EXCEPT ![c] = <<l, if_flag[c], "spin">>]
    /\ if_flag' = [if_flag EXCEPT ![c] = FALSE]
    /\ UNCHANGED <<smp_use, if_before, holder, saved_if, held, isr, boot_state>>
lock_acquire(c) ==
    /\ entering[c] # <<>> /\ entering[c][3] = "spin" /\ holder[entering[c][1]] = 0
    /\ holder' = [holder EXCEPT ![entering[c][1]] = c]
    /\ entering' = [entering EXCEPT ![c][3] = "save"]
    /\ UNCHANGED <<smp_use, if_before, saved_if, if_flag, held, isr, boot_state>>
lock_save(c) ==
    /\ entering[c] # <<>> /\ entering[c][3] = "save"
    /\ saved_if' = [saved_if EXCEPT ![entering[c][1]] = entering[c][2]]
    /\ held' = [held EXCEPT ![c] = Append(@, entering[c][1])]
    /\ entering' = [entering EXCEPT ![c] = <<>>]
    /\ UNCHANGED <<smp_use, if_before, holder, if_flag, isr, boot_state>>
\* The guard on top is dropped: read the saved flag, release, then STI.
\* A release that has read its flag is entering[c] with "restore".
unlock_release(c) ==
    /\ held[c] # <<>> /\ entering[c] = <<>> /\ isr[c] = SmpNone
    /\ LET l == held[c][Len(held[c])] IN
       /\ entering' = [entering EXCEPT ![c] = <<l, saved_if[l], "restore">>]
       /\ holder' = [holder EXCEPT ![l] = 0]
    /\ held' = [held EXCEPT ![c] = SubSeq(@, 1, Len(@) - 1)]
    /\ UNCHANGED <<smp_use, if_before, saved_if, if_flag, isr, boot_state>>
\* Fault: the saved flag is read after the release, when the next holder may
\* have stored its own.
unlock_restore_Late(c) ==
    /\ entering[c] # <<>> /\ entering[c][3] = "restore"
    /\ if_flag' = [if_flag EXCEPT ![c] = @ \/ saved_if[entering[c][1]]]
    /\ entering' = [entering EXCEPT ![c] = <<>>]
    /\ UNCHANGED <<smp_use, if_before, holder, saved_if, held, isr, boot_state>>
unlock_restore(c) ==
    /\ entering[c] # <<>> /\ entering[c][3] = "restore"
    /\ if_flag' = [if_flag EXCEPT ![c] = @ \/ entering[c][2]]
    /\ entering' = [entering EXCEPT ![c] = <<>>]
    /\ UNCHANGED <<smp_use, if_before, holder, saved_if, held, isr, boot_state>>
\* An interrupt whose handler takes one of the mutexes.
Interrupt(c, l) ==
    /\ smp_use = "mutex" /\ if_flag[c] /\ isr[c] = SmpNone
    /\ isr' = [isr EXCEPT ![c] = l]
    /\ UNCHANGED <<smp_use, if_before, holder, saved_if, if_flag, held, entering, boot_state>>
InterruptDone(c) ==
    /\ isr[c] # SmpNone /\ holder[isr[c]] = 0 /\ isr' = [isr EXCEPT ![c] = SmpNone]
    /\ UNCHANGED <<smp_use, if_before, holder, saved_if, if_flag, held, entering, boot_state>>

(* ------------------------------------------------------------------- ACPI *)
\* A table entry is its length, kind and contents; full is the length a
\* well-formed entry of its kind has.  room is what is left of the table.
\* The walk ends at the first entry that is broken or leaves the table.
Noted(found, e) ==
    CASE e.kind = "lapic" /\ e.len >= e.full /\ e.enabled /\ Len(found.cpus) < MAX_CPUS ->
             [found EXCEPT !.cpus = Append(@, e.id)]
      [] e.kind = "ioapic" /\ e.len >= e.full /\ found.ioapic = 0 -> [found EXCEPT !.ioapic = e.id]
      [] e.kind = "override" /\ e.len >= e.full -> [found EXCEPT !.overrides = Append(@, e.id)]
      [] OTHER -> found
Scan(walk, e) ==
    IF walk.ended \/ walk.room < 2 \/ e.len < 2 \/ e.len > walk.room THEN [walk EXCEPT !.ended = TRUE]
    ELSE [walk EXCEPT !.room = @ - e.len, !.found = Noted(@, e)]
Walk(t) ==
    LET walk[n \in 0..Len(t.entries)] ==
            IF n = 0 THEN [ended |-> FALSE, room |-> t.room,
                           found |-> [cpus |-> <<>>, ioapic |-> 0, overrides |-> <<>>]]
            ELSE Scan(walk[n - 1], t.entries[n])
    IN walk
parse_madt(t) == Walk(t)[Len(t.entries)].found
\* parse: the RSDP, then the table list, then the MADT; the first error ends it.
acpi_parse(t) ==
    /\ smp_use = "acpi" /\ info = <<>>
    /\ info' = IF ~t.rsdp_ok \/ ~t.list_ok \/ ~t.present \/ ~t.madt_ok THEN <<"error", t>>
               ELSE <<"info", t, parse_madt(t)>>
    /\ UNCHANGED <<smp_use, lock_state, ap, ap_index, started, ready, bsp>>

(* --------------------------------------------------------------- start_aps *)
Boot == smp_use = "boot" /\ bsp.ap <= Cardinality(Aps)
send_init_ipi ==
    /\ Boot /\ bsp.step = "init" /\ ready' = [ready EXCEPT ![bsp.ap] = FALSE]
    /\ bsp' = [bsp EXCEPT !.step = "sipi"]
    /\ \E state \in {"waiting", "dead"} : ap' = [ap EXCEPT ![bsp.ap] = state]
    /\ UNCHANGED <<smp_use, lock_state, info, ap_index, started>>
\* Twice, a millisecond apart; a processor that runs ignores the second.
send_sipi ==
    /\ Boot /\ bsp.step \in {"sipi", "again"}
    /\ ap' = [ap EXCEPT ![bsp.ap] = IF @ = "waiting" THEN "trampoline" ELSE @]
    /\ bsp' = [bsp EXCEPT !.step = IF @ = "sipi" THEN "again" ELSE "wait", !.rounds = ReadyTimeout]
    /\ UNCHANGED <<smp_use, lock_state, info, ap_index, started, ready>>
wait_ready ==
    /\ Boot /\ bsp.step = "wait"
    /\ bsp' = IF ready[bsp.ap] \/ bsp.rounds = 0
              THEN [ap |-> bsp.ap + 1, step |-> "init", rounds |-> 0]
              ELSE [bsp EXCEPT !.rounds = @ - 1]
    /\ UNCHANGED <<smp_use, lock_state, info, ap, ap_index, started, ready>>
\* ap_main: take an index, initialise, announce it and idle.
ap_count(a) ==
    /\ ap[a] = "trampoline" /\ ap' = [ap EXCEPT ![a] = "running"]
    /\ started' = started + 1 /\ ap_index' = [ap_index EXCEPT ![a] = started + 1]
    /\ UNCHANGED <<smp_use, lock_state, info, ready, bsp>>
ap_ready(a) ==
    /\ ap[a] = "running" /\ ap' = [ap EXCEPT ![a] = "idle"]
    /\ ready' = [ready EXCEPT ![ap_index[a]] = TRUE]
    /\ UNCHANGED <<smp_use, lock_state, info, ap_index, started, bsp>>

SmpNext ==
    \/ \E c \in Cpus :
         \/ \E l \in Locks : lock_cli(c, l) \/ Interrupt(c, l)
         \/ lock_acquire(c) \/ lock_save(c) \/ unlock_release(c) \/ unlock_restore(c) \/ InterruptDone(c)
    \/ \E t \in MadtTables : acpi_parse(t)
    \/ send_init_ipi \/ send_sipi \/ wait_ready
    \/ \E a \in Aps : ap_count(a) \/ ap_ready(a)

SmpSpec == SmpInit /\ [][SmpNext]_smp_vars

(* ------------------------------------------------------------ properties *)
\* A CPU that holds an IntMutex takes no interrupt, so no handler waits for a
\* mutex of the CPU it interrupted, and when its guards are dropped the
\* interrupt flag is what it was before, whatever other CPUs did meanwhile.
InterruptSafe ==
    \A c \in Cpus :
        /\ held[c] # <<>> => ~if_flag[c]
        /\ isr[c] # SmpNone => holder[isr[c]] # c
        /\ held[c] = <<>> /\ entering[c] = <<>> => if_flag[c] = if_before[c]

\* Where each entry ends, and whether the first n are sound: whole, and inside the table.
EntryEnds(entries) ==
    LET sum[n \in 0..Len(entries)] == IF n = 0 THEN 0 ELSE sum[n - 1] + entries[n].len IN sum
WholeEntries(t, n) == \A i \in 1..n : t.entries[i].len >= 2 /\ EntryEnds(t.entries)[i] <= t.room
EnabledCpu(e) == e.kind = "lapic" /\ e.enabled /\ e.len >= e.full
EnabledIn(t, n) == {i \in 1..n : WholeEntries(t, i) /\ EnabledCpu(t.entries[i])}
\* The processors found are the enabled ones of the sound part of the table, in
\* its order, and the first MAX_CPUS of them when there are more.
FoundIn(t, n, cpus) ==
    /\ Len(cpus) = (IF Cardinality(EnabledIn(t, n)) < MAX_CPUS THEN Cardinality(EnabledIn(t, n)) ELSE MAX_CPUS)
    /\ \A i \in EnabledIn(t, n) : Cardinality(EnabledIn(t, i)) <= MAX_CPUS =>
          cpus[Cardinality(EnabledIn(t, i))] = t.entries[i].id
ProcessorsFound ==
    info # <<>> /\ info[1] = "info" => FoundIn(info[2], Len(info[2].entries), info[3].cpus)
\* Every processor that starts, early or late, takes an index of its own and is
\* announced under that index only.
ProcessorsCounted ==
    /\ \A a, b \in Aps : a # b /\ ap_index[a] > 0 => ap_index[a] # ap_index[b]
    /\ \A i \in DOMAIN ready : ready[i] => \E a \in Aps : ap_index[a] = i /\ ap[a] = "idle"

\* Interrupts and processors: the flag of IntMutex is kept, and every processor
\* is counted once.
SmpSound == InterruptSafe /\ ProcessorsFound /\ ProcessorsCounted
=============================================================================
