------------------------------- MODULE Input --------------------------------
(* Keyboard input: the interrupt handler, the decoder's results, the kernel's *)
(* byte buffer with key repeat, the IRQ event a user driver waits on, the     *)
(* console read call, and the translation of the user-space driver.           *)
EXTENDS Naturals, Sequences, FiniteSets

CONSTANTS Keys,               \* keys of the keyboard: see Bytes
          INPUT_BUFFER_SIZE,
          REPEAT_DELAY_TICKS, REPEAT_INTERVAL_TICKS,
          MaxPresses, MaxTicks,   \* bounds of a behaviour
          NoKey

ASSUME InputAssumption == INPUT_BUFFER_SIZE \in Nat \ {0}

VARIABLES buffer,             \* the kernel's input buffer
          held_key,           \* NoKey, or the held key with its two ticks
          down,               \* the keys that are down
          ticks,
          irq,                \* IrqEvent: signaled and last_data
          typed,              \* history: every byte pushed, in order
          got,                \* history: every byte a reader was given
          erased,             \* history: bytes that backspace took out
          codes,              \* history: scan codes the controller has raised
          answered,           \* history: what irq_wait has returned, as positions in codes
          driver              \* the user driver's shift and caps lock, and its last character
input_vars == <<buffer, held_key, down, ticks, irq, typed, got, erased, codes, answered, driver>>

\* What process_keyevent makes of a key: a character, a control, or the escape
\* sequence of a key without a character.
Repeatable == {"up", "delete"}
Modifiers == {"shift", "caps"}
Bytes(k) == CASE k = "enter" -> <<"newline">>
              [] k = "up" -> <<"esc", "[", "A">>
              [] k = "delete" -> <<"esc", "[", "3", "~">>
              [] k \in {"backspace"} \cup Modifiers -> <<>>
              [] OTHER -> <<k>>

InputInit ==
    /\ buffer = <<>> /\ held_key = NoKey /\ down = {} /\ ticks = 0
    /\ irq = [signaled |-> FALSE, last_data |-> 0]
    /\ typed = <<>> /\ got = <<>> /\ erased = 0 /\ codes = <<>> /\ answered = <<>>
    /\ driver = [shift |-> FALSE, caps_lock |-> FALSE, out |-> "none"]

\* push for every byte: a full buffer loses its oldest byte, which leaves the
\* last bytes of what was there and what came.
Newest(s, n) == IF Len(s) <= n THEN s ELSE SubSeq(s, Len(s) - n + 1, Len(s))
\* Fault: the oldest byte goes only when the buffer is over its size.
PushAll_OneTooMany(b, bytes) == Newest(b \o bytes, INPUT_BUFFER_SIZE + 1)
PushAll(b, bytes) == Newest(b \o bytes, INPUT_BUFFER_SIZE)
push_raw_key(b, k) == PushAll(b, Bytes(k))

\* The user driver translates the same scan code with its own tables.
Lower == {"a"}
process_scancode(d, k, up) ==
    IF up THEN [d EXCEPT !.shift = IF k = "shift" THEN FALSE ELSE @, !.out = "none"]
    ELSE CASE k = "shift" -> [d EXCEPT !.shift = TRUE, !.out = "none"]
           [] k = "caps" -> [d EXCEPT !.caps_lock = ~@, !.out = "none"]
           [] k \in Repeatable -> [d EXCEPT !.out = "none"]
           [] OTHER -> [d EXCEPT !.out = IF (IF k \in Lower THEN d.shift # d.caps_lock ELSE d.shift)
                                         THEN "upper" ELSE "lower"]

\* IRQ 1: decode into the buffer, signal the event with the code, end of interrupt.
keyboard_interrupt_handler(k) ==
    /\ Len(codes) < MaxPresses /\ codes' = Append(codes, k)
    /\ irq' = [signaled |-> TRUE, last_data |-> Len(codes) + 1]
    /\ LET up == k \in down IN
       /\ down' = IF up THEN down \ {k} ELSE down \cup {k}
       /\ driver' = process_scancode(driver, k, up)
       /\ IF up
          THEN /\ held_key' = IF held_key # NoKey /\ held_key.code = k THEN NoKey ELSE held_key
               /\ UNCHANGED <<buffer, typed, erased>>
          ELSE /\ held_key' = IF k \in Repeatable
                              THEN [code |-> k, pressed |-> ticks, last |-> ticks] ELSE held_key
               /\ IF k = "backspace"
                  THEN /\ buffer' = IF buffer = <<>> THEN buffer ELSE SubSeq(buffer, 1, Len(buffer) - 1)
                       /\ erased' = IF buffer = <<>> THEN erased ELSE erased + 1
                       /\ UNCHANGED typed
                  ELSE /\ buffer' = push_raw_key(buffer, k) /\ typed' = typed \o Bytes(k)
                       /\ UNCHANGED erased
    /\ UNCHANGED <<ticks, got, answered>>

\* check_and_repeat, called on every turn of a blocking read: push_raw_key starts
\* the key anew, so the delay is counted again.
Due == /\ held_key # NoKey
       /\ ticks - held_key.pressed >= REPEAT_DELAY_TICKS
       /\ ticks - held_key.last >= REPEAT_INTERVAL_TICKS
check_and_repeat ==
    /\ Due /\ buffer' = push_raw_key(buffer, held_key.code)
    /\ typed' = typed \o Bytes(held_key.code)
    /\ held_key' = [code |-> held_key.code, pressed |-> ticks, last |-> ticks]
\* read takes up to len bytes; a blocking read waits until there is one.
read(len) ==
    /\ buffer # <<>>
    /\ LET n == IF Len(buffer) < len THEN Len(buffer) ELSE len IN
       /\ got' = got \o SubSeq(buffer, 1, n) /\ buffer' = SubSeq(buffer, n + 1, Len(buffer))
\* sys_console_read: a serial byte first, which the keyboard does not see; then
\* the keyboard.  A blocking call that finds the buffer empty repeats a held key.
sys_console_read(len) ==
    \/ /\ buffer # <<>> /\ read(len)
       /\ UNCHANGED <<held_key, down, ticks, irq, typed, erased, codes, answered, driver>>
    \/ /\ buffer = <<>> /\ Len(typed) < MaxPresses * 2 /\ check_and_repeat
       /\ UNCHANGED <<down, ticks, irq, got, erased, codes, answered, driver>>

\* The code is returned and the event cleared; without one the call waits.
sys_irq_wait ==
    /\ irq.signaled /\ answered' = Append(answered, irq.last_data)
    /\ irq' = [irq EXCEPT !.signaled = FALSE]
    /\ UNCHANGED <<buffer, held_key, down, ticks, typed, got, erased, codes, driver>>
InputTick ==
    /\ ticks < MaxTicks /\ ticks' = ticks + 1
    /\ UNCHANGED <<buffer, held_key, down, irq, typed, got, erased, codes, answered, driver>>

InputNext ==
    \/ \E k \in Keys : keyboard_interrupt_handler(k)
    \/ \E len \in {1, 2} : sys_console_read(len)
    \/ sys_irq_wait \/ InputTick

InputSpec == InputInit /\ [][InputNext]_input_vars

(* ------------------------------------------------------------ properties *)
\* What was read, then what is buffered, is what was typed in the order it was
\* typed, less the bytes a full buffer dropped and the ones backspace took out;
\* and when neither happened nothing is missing.
Given == got \o buffer
InTypedOrder ==
    /\ Len(buffer) <= INPUT_BUFFER_SIZE
    /\ erased = 0 => \E keep \in SUBSET DOMAIN typed :
           /\ Cardinality(keep) = Len(Given)
           /\ \A i \in keep : Given[Cardinality({j \in keep : j <= i})] = typed[i]
    /\ erased = 0 /\ Len(typed) <= INPUT_BUFFER_SIZE => Given = typed

\* The driver keeps step with the keyboard: its waits return scan codes in the
\* order they were raised, none twice (codes between two waits are lost), and
\* its shift state is that of the shift key.
DriverInStep ==
    /\ \A i, j \in DOMAIN answered : i < j => answered[i] < answered[j]
    /\ driver.shift <=> "shift" \in down

\* Key presses reach both readers, the console and the driver, in order.
InputSound == InTypedOrder /\ DriverInStep
=============================================================================
