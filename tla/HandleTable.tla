---------------------------- MODULE HandleTable ----------------------------
(***************************************************************************)
(* The handle table of one task (handle.rs) and the system calls on it     *)
(* (syscall/mod.rs).  Tables are per task and no call reads another task's *)
(* table, so one table shows everything.                                   *)
(*                                                                         *)
(* The widths of the three fields of a handle are parameters: in the code  *)
(* SlotSpan = 2^28, GenSpan = 2^26 and a result is an i64 whose sign bit   *)
(* is the top bit of the generation.  `next_slot' and `generation' are     *)
(* u32 and start equal; MaxInserts stays below 2^32, where they wrap.      *)
(* User code passes handles the kernel gave it, stale ones included.       *)
(***************************************************************************)
EXTENDS Integers, Sequences, FiniteSets

CONSTANTS
    SlotSpan,             \* values of the slot_id field
    GenSpan,              \* values of the generation field
    MaxInserts,           \* bound: insertions into the table
    AllRights,            \* Rights::ALL
    MAX_PENDING_HANDLES,  \* handles in transit in one channel
    Names                 \* service names

ASSUME HandleAssumption ==
    /\ SlotSpan \in Nat \ {0} /\ GenSpan \in Nat \ {0} /\ MaxInserts \in Nat \ {0}
    /\ MAX_PENDING_HANDLES \in Nat
    /\ "DUPLICATE" \in AllRights

Keys == 0 .. MaxInserts - 1      \* keys of the BTreeMap: whole u32 values
Handle == [slot : 0 .. SlotSpan - 1, rights : SUBSET AllRights, gen : 0 .. GenSpan - 1]

(* A KernelObject: its kind and the number of the Arc it holds.            *)
Nothing == <<"none", 0>>
Object == {"event", "endA", "endB"} \X (1 .. MaxInserts)
IsChannel(o) == o[1] \in {"endA", "endB"}

VARIABLES
    slots,      \* slots[k]: the object stored under k, or Nothing
    stored,     \* stored[k]: the handle kept in that entry
    next,       \* next_slot, and generation, which moves with it
    made,       \* objects created so far
    pending,    \* pending[n]: pending_handles of channel n, with their objects
    alive,      \* the task has not terminated
    namespace,  \* names registered, and the handle each stands for
    known,      \* history: <<handle, object>> given to user code and not closed
    stale       \* history: handles closed or given away

vars == <<slots, stored, next, made, pending, alive, namespace, known, stale>>

Init ==
    /\ slots = [k \in Keys |-> Nothing]
    /\ stored = [k \in Keys |-> [slot |-> 0, rights |-> {}, gen |-> 0]]
    /\ next = 0
    /\ made = 0
    /\ pending = [n \in 1 .. MaxInserts |-> <<>>]
    /\ alive = TRUE
    /\ namespace = {}
    /\ known = {}
    /\ stale = {}

-----------------------------------------------------------------------------
(* Fault: the field is one bit short. *)
New_Narrow(n, r) ==
    [slot |-> n % ((SlotSpan + 1) \div 2), rights |-> r, gen |-> n % GenSpan]

(* Handle::new, for the n-th insertion: every field is cut to its width. *)
New(n, r) == [slot |-> n % SlotSpan, rights |-> r, gen |-> n % GenSpan]

(* The entry a handle leads to is live and of the same generation. *)
Valid(h) ==
    /\ h.slot \in Keys
    /\ slots[h.slot] # Nothing
    /\ stored[h.slot].gen = h.gen

(* HandleTable::get *)
get(h) == IF Valid(h) THEN slots[h.slot] ELSE Nothing

(* The handles user code has, or had. *)
Held == {p[1] : p \in known} \cup stale

(* HandleTable::insert of object o; fields written for key `next'. *)
Inserted(n, r, o) ==
    /\ slots' = [slots EXCEPT ![n] = o]
    /\ stored' = [stored EXCEPT ![n] = New(n, r)]
    /\ next' = n + 1

-----------------------------------------------------------------------------
sys_event_create ==
    /\ alive
    /\ next < MaxInserts
    /\ Inserted(next, AllRights, <<"event", made + 1>>)
    /\ made' = made + 1
    /\ known' = known \cup {<<New(next, AllRights), <<"event", made + 1>>>>}
    /\ UNCHANGED <<pending, alive, namespace, stale>>

(* Both ends go into the table; only end A's handle is returned. *)
sys_channel_create ==
    /\ alive
    /\ next + 1 < MaxInserts
    /\ slots' = [slots EXCEPT ![next] = <<"endA", made + 1>>, ![next + 1] = <<"endB", made + 1>>]
    /\ stored' = [stored EXCEPT ![next] = New(next, AllRights),
                                ![next + 1] = New(next + 1, AllRights)]
    /\ next' = next + 2
    /\ made' = made + 1
    /\ known' = known \cup {<<New(next, AllRights), <<"endA", made + 1>>>>}
    /\ UNCHANGED <<pending, alive, namespace, stale>>

(* Fault: the requested rights are taken as they are. *)
Narrowed_Not(r, wanted) == wanted

(* Rights::intersect *)
Narrowed(r, wanted) == r \cap wanted

(* HandleTable::duplicate: rights come from the handle value, the object   *)
(* from the entry.                                                         *)
sys_handle_duplicate(h, wanted) ==
    /\ alive
    /\ next < MaxInserts
    /\ "DUPLICATE" \in h.rights
    /\ Valid(h)
    /\ Inserted(next, Narrowed(h.rights, wanted), get(h))
    /\ known' = known \cup {<<New(next, Narrowed(h.rights, wanted)), get(h)>>}
    /\ UNCHANGED <<made, pending, alive, namespace, stale>>

(* Fault: the entry stays in the table. *)
Closed_Kept(h) ==
    /\ Valid(h)
    /\ known' = {p \in known : p[1] # h}
    /\ stale' = stale \cup {h}
    /\ UNCHANGED slots

(* HandleTable::close, when it answers true. *)
Closed(h) ==
    /\ Valid(h)
    /\ slots' = [slots EXCEPT ![h.slot] = Nothing]
    /\ known' = {p \in known : p[1] # h}
    /\ stale' = stale \cup {h}

(* sys_handle_close, and sys_event_destroy, which is the same code. *)
sys_handle_close(h) ==
    /\ alive
    /\ Closed(h)
    /\ UNCHANGED <<stored, next, made, pending, alive, namespace>>

(* Channel::push_handle: a full list stays as it is. *)
push_handle(n, entry) ==
    IF Len(pending[n]) >= MAX_PENDING_HANDLES THEN pending
    ELSE [pending EXCEPT ![n] = Append(@, entry)]

(* sys_handle_transfer: the handle leaves the table first; push_handle may *)
(* then find the channel's list full, and the handle is in neither place.  *)
sys_handle_transfer(h, c) ==
    /\ alive
    /\ IsChannel(get(c))
    /\ Closed(h)
    /\ pending' = push_handle(get(c)[2], <<h, get(h)>>)
    /\ UNCHANGED <<stored, next, made, alive, namespace>>

(* Whatever number it is given is filed under the name. *)
sys_endpoint_register(name, h) ==
    /\ alive
    /\ namespace' = {b \in namespace : b[1] # name} \cup {<<name, h>>}
    /\ UNCHANGED <<slots, stored, next, made, pending, alive, known, stale>>

(* HandleTable::close_all, when the task terminates. *)
close_all ==
    /\ alive
    /\ alive' = FALSE
    /\ slots' = [k \in Keys |-> Nothing]
    /\ stale' = stale \cup {p[1] : p \in known}
    /\ known' = {}
    /\ UNCHANGED <<stored, next, made, pending, namespace>>

Next ==
    \/ sys_event_create
    \/ sys_channel_create
    \/ \E h \in Held, wanted \in SUBSET AllRights : sys_handle_duplicate(h, wanted)
    \/ \E h \in Held : sys_handle_close(h)
    \/ \E h, c \in Held : sys_handle_transfer(h, c)
    \/ \E name \in Names, h \in Held : sys_endpoint_register(name, h)
    \/ close_all

Spec == Init /\ [][Next]_vars

-----------------------------------------------------------------------------
(* The table stores one entry per insertion, pending lists are bounded and *)
(* every handle given out has its three fields in range.                   *)
TypeOK ==
    /\ slots \in [Keys -> Object \cup {Nothing}]
    /\ stored \in [Keys -> Handle]
    /\ next \in 0 .. MaxInserts /\ made \in 0 .. next
    /\ pending \in [1 .. MaxInserts -> Seq(Handle \X Object)]
    /\ \A n \in 1 .. MaxInserts : Len(pending[n]) <= MAX_PENDING_HANDLES
    /\ alive \in BOOLEAN
    /\ namespace \subseteq (Names \X Handle)
    /\ known \subseteq (Handle \X Object)
    /\ stale \subseteq Handle

(* A handle the kernel gave out and nobody closed leads to the object it   *)
(* was made for, whatever was inserted, duplicated and closed since.       *)
OpenHandlesResolve == \A p \in known : get(p[1]) = p[2]

(* A closed handle never leads anywhere again: later insertions do not     *)
(* bring it back to life (handle.rs calls this preventing use-after-close).*)
StaleHandlesDie == \A h \in stale : ~Valid(h)

(* No sequence of duplications gives a handle a right its object's earlier *)
(* handles did not have: a new handle to an old object has no more rights  *)
(* than some handle to it known before.                                    *)
RightsOnlyNarrow ==
    [][\A p \in known' \ known :
          \/ p[2][2] = made'  /\ made' # made
          \/ \E q \in known : q[2] = p[2] /\ p[1].rights \subseteq q[1].rights]_vars
=============================================================================
