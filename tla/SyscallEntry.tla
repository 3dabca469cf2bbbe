---------------------------- MODULE SyscallEntry ----------------------------
(* The system call stub, the contexts it saves and restores, and the user    *)
(* exception handlers.  A register's value is the pair of the task it belongs *)
(* to and its name, so a word that ends in the wrong register shows.          *)
EXTENDS Naturals, Sequences, SequencesExt, FiniteSets

CONSTANTS EntryTasks,     \* tasks that may run; two or more
          NoContext       \* a null pointer

\* SavedContext: the fields in the order of their offsets.
Fields == <<"r9", "r8", "rdx", "rsi", "rdi", "rax", "r15", "r14", "r13", "r12", "rbx",
            "rbp", "r11", "rcx", "rsp", "is_kernel", "cr3">>
\* Words that are no task's register.
Word(w) == <<"word", w>>
Zero == Word("0")
\* What the stub pushes, first to last.
Pushes == <<"rcx", "r11", "rbp", "rbx", "r12", "r13", "r14", "r15", "rax", "rdi", "rsi",
            "rdx", "r8", "r9", "is_kernel", "cr3">>
\* What SYSCALL and the System V calling convention preserve across a call.
Preserved == {"r15", "r14", "r13", "r12", "rbx", "rbp", "r11", "rcx", "rsp"}

VARIABLES cpu,            \* the registers, a function of the field names
          running,        \* the task on the CPU, or NoContext when it is halted
          in_call,        \* a system call is being handled
          frame,          \* the stack from the stub's RSP upwards
          current_ctx,    \* CURRENT_CONTEXT: a frame or null
          switch_ctx,     \* SWITCH_CONTEXT: a context or null
          saved,          \* the context of every task that is not running
          resumed         \* how the running task came to run last
entry_vars == <<cpu, running, in_call, frame, current_ctx, switch_ctx, saved, resumed>>

FieldSet == Range(Fields)
Own(t) == [r \in FieldSet |-> CASE r \in {"is_kernel", "cr3"} -> Zero [] OTHER -> <<t, r>>]
\* SavedContext::user_mode: entry point, stack, flags, page table; the rest is 0.
user_mode(t) == [r \in FieldSet |-> IF r \in {"rcx", "rsp", "r11", "cr3"} THEN <<t, r>> ELSE Zero]
kernel_mode(t) == [user_mode(t) EXCEPT !.cr3 = Zero, !.is_kernel = Word("1")]

EntryInit ==
    \E t \in EntryTasks, kernel \in SUBSET EntryTasks :
    /\ t \notin kernel
    /\ cpu = Own(t) /\ running = t /\ in_call = FALSE /\ frame = <<>>
    /\ current_ctx = NoContext /\ switch_ctx = NoContext
    /\ saved = [u \in EntryTasks |-> IF u = t THEN NoContext
                                     ELSE IF u \in kernel THEN kernel_mode(u) ELSE user_mode(u)]
    /\ resumed = "entry"

\* Fault: the two extra words are pushed first instead of last.
Frame_Early(registers) ==
    LET pushes == <<"is_kernel", "cr3">> \o SubSeq(Pushes, 1, 14)
    IN Reverse([i \in DOMAIN pushes |-> registers[pushes[i]]]) \o <<Word("stack")>>
\* The pushed words from the lowest address up; above them is the caller's stack.
Frame(registers) ==
    Reverse([i \in DOMAIN Pushes |-> IF Pushes[i] \in {"is_kernel", "cr3"} THEN Zero
                                     ELSE registers[Pushes[i]]]) \o <<Word("stack")>>

\* syscall_entry up to the call of the handler.
syscall_entry ==
    /\ running # NoContext /\ ~in_call /\ cpu.is_kernel = Zero
    /\ in_call' = TRUE /\ frame' = Frame(cpu) /\ current_ctx' = Frame(cpu)
    /\ UNCHANGED <<cpu, running, switch_ctx, saved, resumed>>

\* Field by field from the address in CURRENT_CONTEXT.
capture_current_context == [r \in FieldSet |-> current_ctx[CHOOSE i \in DOMAIN Fields : Fields[i] = r]]

\* A handler that blocks: the captured context is stored and another one chosen.
entry_block_and_switch(u) ==
    /\ in_call /\ switch_ctx = NoContext /\ u # running /\ saved[u] # NoContext
    /\ saved' = [saved EXCEPT ![running] = capture_current_context, ![u] = NoContext]
    /\ switch_ctx' = [task |-> u, ctx |-> saved[u]]
    /\ UNCHANGED <<cpu, running, in_call, frame, current_ctx, resumed>>

\* Return without a switch: skip the two words and the six argument registers,
\* then pop the rest in order; RSP is where it was before the pushes.
Popped == <<"r15", "r14", "r13", "r12", "rbx", "rbp", "r11", "rcx">>
PoppedAt(r) == CHOOSE i \in DOMAIN Popped : Popped[i] = r
return_fast ==
    /\ in_call /\ switch_ctx = NoContext
    /\ cpu' = [r \in FieldSet |-> CASE r \in Range(Popped) -> frame[8 + PoppedAt(r)]
                                    [] r = "rax" -> Word("result")
                                    [] r \in {"rsp", "cr3", "is_kernel"} -> cpu[r]
                                    [] OTHER -> Word("scratch")]
    /\ in_call' = FALSE /\ frame' = <<>> /\ current_ctx' = NoContext /\ resumed' = "call"
    /\ UNCHANGED <<running, switch_ctx, saved>>
\* .Lswitch: page table first, then SYSRETQ or, for a kernel task, IRETQ.
return_switch ==
    /\ in_call /\ switch_ctx # NoContext
    /\ cpu' = [switch_ctx.ctx EXCEPT !.cr3 = IF @ = Zero THEN cpu.cr3 ELSE @]
    /\ running' = switch_ctx.task /\ switch_ctx' = NoContext
    /\ in_call' = FALSE /\ frame' = <<>> /\ current_ctx' = NoContext
    /\ resumed' = IF switch_ctx.ctx \in {user_mode(switch_ctx.task), kernel_mode(switch_ctx.task)}
                  THEN "entry" ELSE "switch"
    /\ UNCHANGED saved

\* A user exception that cannot be resolved: the task is terminated and the CPU
\* halts in the handler; a fault in a mapped file's region is filled and resumed.
entry_user_fault_halt ==
    /\ running # NoContext /\ ~in_call /\ running' = NoContext
    /\ UNCHANGED <<cpu, in_call, frame, current_ctx, switch_ctx, saved, resumed>>
\* User code changes its argument registers between calls.
Compute ==
    /\ running # NoContext /\ ~in_call /\ cpu.is_kernel = Zero /\ resumed = "call"
    /\ cpu' = [cpu EXCEPT !.rax = <<running, "rax">>, !.rdi = <<running, "rdi">>,
                          !.rsi = <<running, "rsi">>, !.rdx = <<running, "rdx">>,
                          !.r8 = <<running, "r8">>, !.r9 = <<running, "r9">>]
    /\ UNCHANGED <<running, in_call, frame, current_ctx, switch_ctx, saved, resumed>>

EntryNext ==
    \/ syscall_entry \/ (\E u \in EntryTasks : entry_block_and_switch(u)) \/ return_fast \/ return_switch
    \/ entry_user_fault_halt \/ Compute
EntrySpec == EntryInit /\ [][EntryNext]_entry_vars

(* ------------------------------------------------------------ properties *)
\* A system call that does not block gives the caller back the registers the
\* calling convention preserves, as a task that never blocked has them; and a
\* new task starts with its own entry point, stack and flags.
CallsKeepRegisters ==
    [][/\ return_fast => \A r \in Preserved : cpu'[r] = cpu[r]
       /\ (return_switch /\ resumed' = "entry" =>
              \A r \in {"rcx", "rsp", "r11"} : cpu'[r] = <<running', r>>)]_entry_vars

\* "Layout matches SavedContext": a task that blocked in a call has, when it
\* runs again, the instruction pointer, flags, stack and registers it had.
ResumesAsItLeft ==
    running # NoContext /\ ~in_call /\ resumed = "switch" =>
        \A r \in {"rcx", "rsp"} : cpu[r] = <<running, r>>
=============================================================================
