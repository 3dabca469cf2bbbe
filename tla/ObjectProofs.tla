---------------------------- MODULE ObjectProofs ----------------------------
(***************************************************************************)
(* The objects a task holds: its handle table, its pipes and its shared    *)
(* memory segments.                                                        *)
(*                                                                         *)
(* The handle table is sound for every field width, as long as a task      *)
(* inserts no more handles than slot_id has values.  That hypothesis is    *)
(* needed: one insertion later a new handle carries the key of an old one. *)
(*                                                                         *)
(* A pipe is a stream, for every capacity, limit of descriptors and number *)
(* of pipes and bytes.                                                     *)
(*                                                                         *)
(* A shared segment is counted and never taken away under a task, for any  *)
(* number of tasks, frames, pages, keys and segments.                      *)
(***************************************************************************)
EXTENDS HandleTable, Pipe, Shm, ProofLemmas, FiniteSetTheorems, SequenceTheorems, FunctionTheorems, TLAPS

(* ----------------------------------------------------------- handle table *)
(* A remainder is in range, and is the number itself when it is small. *)
LEMMA Remainder ==
    ASSUME NEW n \in Nat, NEW m \in Nat \ {0}
    PROVE  n % m \in 0 .. m - 1 /\ (n < m => n % m = n)
  OBVIOUS

(* Handle::new puts every field in its range. *)
LEMMA NewInRange ==
    ASSUME NEW n \in Nat, NEW r \in SUBSET AllRights
    PROVE  New(n, r) \in Handle
  BY Remainder, HandleAssumption DEF New, Handle

-----------------------------------------------------------------------------
(* The inductive invariant.  Insertion n is filed under key n, so keys not *)
(* yet used are empty ...                                                  *)
Fresh == \A k \in Keys : k >= next => slots[k] = Nothing

(* ... and an entry's generation is a function of its key. *)
Filed == \A k \in Keys : k < next => stored[k].gen = k % GenSpan

(* An open handle carries the key of its own entry. *)
KnownFiled ==
    \A p \in known : /\ p[1].slot < next
                     /\ p[1].gen = p[1].slot % GenSpan
                     /\ slots[p[1].slot] = p[2]

(* No entry has two open handles, so closing one closes no other. *)
OneHandlePerSlot == \A p, q \in known : p[1].slot = q[1].slot => p = q

(* The entry of a closed handle is gone, and its key is behind next_slot. *)
StaleGone == \A h \in stale : h.slot < next /\ slots[h.slot] = Nothing

HandleInv == TypeOK /\ Fresh /\ Filed /\ KnownFiled /\ OneHandlePerSlot /\ StaleGone

-----------------------------------------------------------------------------
(* An object is something: no entry that holds one counts as empty. *)
LEMMA ObjectIsNotNothing == Nothing \notin Object
  BY DEF Nothing, Object

(* The handle of insertion n, while n is a value of slot_id. *)
LEMMA NewFiled ==
    ASSUME MaxInserts <= SlotSpan, NEW n \in Keys, NEW r \in SUBSET AllRights
    PROVE  /\ New(n, r) \in Handle
           /\ New(n, r).slot = n
           /\ New(n, r).gen = n % GenSpan
           /\ New(n, r).rights = r
  <1>1. n \in Nat /\ n < SlotSpan
    BY HandleAssumption DEF Keys
  <1>2. n % SlotSpan = n
    BY <1>1, Remainder, HandleAssumption
  <1>. QED
    BY <1>1, <1>2, NewInRange DEF New

(* The slot of an open handle is a key in use. *)
LEMMA KnownKeys ==
    ASSUME HandleInv, NEW p \in known
    PROVE  /\ p[1] \in Handle /\ p[2] \in Object
           /\ p[1].slot \in Keys /\ p[1].slot < next
           /\ p[1].gen = p[1].slot % GenSpan /\ slots[p[1].slot] = p[2]
  <1>1. p[1] \in Handle /\ p[2] \in Object
    BY DEF HandleInv, TypeOK
  <1>2. p[1].slot < next /\ p[1].gen = p[1].slot % GenSpan /\ slots[p[1].slot] = p[2]
    BY DEF HandleInv, KnownFiled
  <1>3. next \in 0 .. MaxInserts
    BY DEF HandleInv, TypeOK
  <1>4. p[1].slot \in Keys
    BY <1>1, <1>2, <1>3, HandleAssumption DEF Keys, Handle
  <1>. QED
    BY <1>1, <1>2, <1>4

(* A handle that user code has and that still leads somewhere is open. *)
LEMMA ValidIsKnown ==
    ASSUME HandleInv, NEW h \in Held, Valid(h)
    PROVE  /\ h \in Handle /\ h.slot \in Keys /\ h.slot < next
           /\ slots[h.slot] \in Object /\ get(h) = slots[h.slot]
           /\ <<h, slots[h.slot]>> \in known
  <1>1. h \notin stale
    BY DEF HandleInv, StaleGone, Valid
  <1>2. PICK p \in known : h = p[1]
    BY <1>1 DEF Held
  <1>3. p \in Handle \X Object /\ p = <<p[1], p[2]>>
    BY <1>2 DEF HandleInv, TypeOK
  <1>4. h.slot < next /\ slots[h.slot] = p[2]
    BY <1>2 DEF HandleInv, KnownFiled
  <1>. QED
    BY <1>2, <1>3, <1>4 DEF Valid, get

(* The invariant gives both safety properties at once. *)
LEMMA InvariantIsEnough ==
    ASSUME HandleInv
    PROVE  OpenHandlesResolve /\ StaleHandlesDie
  <1>1. ASSUME NEW p \in known PROVE get(p[1]) = p[2]
    <2>1. /\ p[2] \in Object /\ p[1].slot \in Keys /\ p[1].slot < next
          /\ p[1].gen = p[1].slot % GenSpan /\ slots[p[1].slot] = p[2]
      BY KnownKeys
    <2>2. stored[p[1].slot].gen = p[1].gen
      BY <2>1 DEF HandleInv, Filed
    <2>. QED
      BY <2>1, <2>2, ObjectIsNotNothing DEF get, Valid
  <1>2. ASSUME NEW h \in stale PROVE ~Valid(h)
    BY DEF HandleInv, StaleGone, Valid
  <1>. QED
    BY <1>1, <1>2 DEF OpenHandlesResolve, StaleHandlesDie

(* An empty table satisfies the invariant. *)
LEMMA InitHandleInv == Init => HandleInv
  <1>. SUFFICES ASSUME Init PROVE HandleInv
    OBVIOUS
  <1>1. TypeOK
    BY HandleAssumption DEF Init, TypeOK, Keys, Handle, Object, Nothing
  <1>2. Fresh /\ Filed /\ KnownFiled /\ OneHandlePerSlot /\ StaleGone
    BY HandleAssumption DEF Init, Keys, Fresh, Filed, KnownFiled, OneHandlePerSlot, StaleGone
  <1>. QED
    BY <1>1, <1>2 DEF HandleInv

-----------------------------------------------------------------------------
(* What one insertion under `next' does, whatever the object: used for     *)
(* event_create and duplicate, which differ only in what they insert.      *)
LEMMA InsertStep ==
    ASSUME MaxInserts <= SlotSpan, HandleInv, next < MaxInserts,
           NEW r \in SUBSET AllRights, NEW o \in Object,
           Inserted(next, r, o), made' \in 0 .. next + 1,
           known' = known \cup {<<New(next, r), o>>},
           pending' = pending, alive' = alive, namespace' = namespace, stale' = stale
    PROVE  HandleInv'
  <1>. DEFINE h == New(next, r)
  <1>1. next \in Keys
    BY HandleAssumption DEF HandleInv, TypeOK, Keys
  <1>2. h \in Handle /\ h.slot = next /\ h.gen = next % GenSpan
    BY <1>1, NewFiled
  <1>3. /\ slots' = [slots EXCEPT ![next] = o]
        /\ stored' = [stored EXCEPT ![next] = h]
        /\ next' = next + 1
    BY DEF Inserted
  <1>. HIDE DEF h
  <1>4. TypeOK'
    BY <1>1, <1>2, <1>3, HandleAssumption DEF HandleInv, TypeOK, h
  <1>5. Fresh'
    BY <1>1, <1>3, HandleAssumption DEF HandleInv, TypeOK, Fresh, Keys
  <1>6. Filed'
    <2>. SUFFICES ASSUME NEW k \in Keys, k < next'
                  PROVE  stored'[k].gen = k % GenSpan
      BY DEF Filed
    <2>1. CASE k = next
      BY <1>1, <1>2, <1>3, <2>1 DEF HandleInv, TypeOK
    <2>2. CASE k # next
      <3>1. k < next
        BY <1>1, <1>3, <2>2 DEF Keys
      <3>. QED
        BY <1>1, <1>3, <2>2, <3>1 DEF HandleInv, TypeOK, Filed
    <2>. QED
      BY <2>1, <2>2
  <1>7. KnownFiled'
    <2>. SUFFICES ASSUME NEW p \in known'
                  PROVE  p[1].slot < next' /\ p[1].gen = p[1].slot % GenSpan
                         /\ slots'[p[1].slot] = p[2]
      BY DEF KnownFiled
    <2>1. CASE p \in known
      <3>1. /\ p[1].slot \in Keys /\ p[1].slot < next
            /\ p[1].gen = p[1].slot % GenSpan /\ slots[p[1].slot] = p[2]
        BY <2>1, KnownKeys
      <3>2. slots'[p[1].slot] = slots[p[1].slot]
        BY <1>1, <1>3, <3>1, HandleAssumption DEF HandleInv, TypeOK, Keys
      <3>3. p[1].slot < next'
        BY <1>1, <1>3, <3>1, HandleAssumption DEF HandleInv, TypeOK, Keys
      <3>. QED
        BY ONLY <3>1, <3>2, <3>3
    <2>2. CASE p = <<h, o>>
      BY <1>1, <1>2, <1>3, <2>2, HandleAssumption DEF HandleInv, TypeOK, Keys
    <2>. QED
      BY <2>1, <2>2 DEF h
  <1>8. OneHandlePerSlot'
    <2>1. \A p \in known : p[1].slot # next
      BY <1>1, KnownKeys DEF Keys
    <2>. QED
      BY <1>2, <2>1 DEF HandleInv, OneHandlePerSlot, h
  <1>9. StaleGone'
    <2>. SUFFICES ASSUME NEW g \in stale PROVE g.slot < next' /\ slots'[g.slot] = Nothing
      BY DEF StaleGone
    <2>1. g.slot < next /\ slots[g.slot] = Nothing /\ g \in Handle
      BY DEF HandleInv, StaleGone, TypeOK
    <2>2. g.slot \in Keys
      BY <1>1, <2>1, HandleAssumption DEF Keys, Handle, HandleInv, TypeOK
    <2>. QED
      BY <1>1, <1>3, <2>1, <2>2, HandleAssumption DEF HandleInv, TypeOK, Keys
  <1>. QED
    BY <1>4, <1>5, <1>6, <1>7, <1>8, <1>9 DEF HandleInv

(* What closing an entry does; what else the call changes is left open. *)
LEMMA CloseStep ==
    ASSUME HandleInv, NEW h \in Held, Closed(h),
           stored' = stored, next' = next, made' = made, alive' = alive,
           namespace' = namespace,
           pending' \in [1 .. MaxInserts -> Seq(Handle \X Object)],
           \A n \in 1 .. MaxInserts : Len(pending'[n]) <= MAX_PENDING_HANDLES
    PROVE  HandleInv'
  <1>1. Valid(h) /\ slots' = [slots EXCEPT ![h.slot] = Nothing]
        /\ known' = {p \in known : p[1] # h} /\ stale' = stale \cup {h}
    BY DEF Closed
  <1>2. h \in Handle /\ h.slot \in Keys /\ h.slot < next /\ <<h, slots[h.slot]>> \in known
    BY <1>1, ValidIsKnown
  <1>3. TypeOK'
    BY <1>1, <1>2 DEF HandleInv, TypeOK
  <1>4. Fresh' /\ Filed'
    BY <1>1, <1>2 DEF HandleInv, TypeOK, Fresh, Filed, Keys
  <1>5. KnownFiled'
    <2>. SUFFICES ASSUME NEW p \in known, p[1] # h
                  PROVE  p[1].slot < next /\ p[1].gen = p[1].slot % GenSpan
                         /\ slots'[p[1].slot] = p[2]
      BY <1>1 DEF KnownFiled
    <2>1. /\ p[1].slot \in Keys /\ p[1].slot < next
          /\ p[1].gen = p[1].slot % GenSpan /\ slots[p[1].slot] = p[2]
      BY KnownKeys
    <2>2. p[1].slot # h.slot
      BY <1>2 DEF HandleInv, OneHandlePerSlot
    <2>. QED
      BY <1>1, <1>2, <2>1, <2>2 DEF HandleInv, TypeOK
  <1>6. OneHandlePerSlot'
    BY <1>1 DEF HandleInv, OneHandlePerSlot
  <1>7. StaleGone'
    <2>. SUFFICES ASSUME NEW g \in stale' PROVE g.slot < next /\ slots'[g.slot] = Nothing
      BY DEF StaleGone
    <2>1. CASE g = h
      BY <1>1, <1>2, <2>1 DEF HandleInv, TypeOK
    <2>2. CASE g \in stale
      <3>1. g.slot < next /\ slots[g.slot] = Nothing /\ g \in Handle
        BY <2>2 DEF HandleInv, StaleGone, TypeOK
      <3>2. g.slot \in Keys
        BY <3>1, HandleAssumption DEF Keys, Handle, HandleInv, TypeOK
      <3>. QED
        BY <1>1, <1>2, <3>1, <3>2 DEF HandleInv, TypeOK
    <2>. QED
      BY <1>1, <2>1, <2>2
  <1>. QED
    BY <1>3, <1>4, <1>5, <1>6, <1>7 DEF HandleInv

-----------------------------------------------------------------------------
(* channel_create is two insertions in one step. *)
LEMMA ChannelStep ==
    ASSUME MaxInserts <= SlotSpan, HandleInv, sys_channel_create
    PROVE  HandleInv'
  <1>. DEFINE a == <<"endA", made + 1>>
              b == <<"endB", made + 1>>
              ha == New(next, AllRights)
              hb == New(next + 1, AllRights)
  <1>1. /\ slots' = [slots EXCEPT ![next] = a, ![next + 1] = b]
        /\ stored' = [stored EXCEPT ![next] = ha, ![next + 1] = hb]
        /\ next' = next + 2 /\ made' = made + 1 /\ known' = known \cup {<<ha, a>>}
        /\ UNCHANGED <<pending, alive, namespace, stale>> /\ next + 1 < MaxInserts
    BY DEF sys_channel_create
  <1>2. next \in Keys /\ next + 1 \in Keys /\ made + 1 \in 1 .. MaxInserts
    BY <1>1, HandleAssumption DEF HandleInv, TypeOK, Keys
  <1>3. a \in Object /\ b \in Object
    BY <1>2 DEF Object
  <1>4. /\ ha \in Handle /\ ha.slot = next /\ ha.gen = next % GenSpan
        /\ hb \in Handle /\ hb.gen = (next + 1) % GenSpan
    BY <1>2, NewFiled
  <1>. HIDE DEF a, b, ha, hb
  <1>5. TypeOK'
    <2>1. slots' \in [Keys -> Object \cup {Nothing}] /\ stored' \in [Keys -> Handle]
      BY <1>1, <1>2, <1>3, <1>4 DEF HandleInv, TypeOK
    <2>2. next' \in 0 .. MaxInserts /\ made' \in 0 .. next'
      BY <1>1, <1>2, HandleAssumption DEF HandleInv, TypeOK, Keys
    <2>3. known' \subseteq (Handle \X Object)
      BY <1>1, <1>3, <1>4 DEF HandleInv, TypeOK
    <2>4. pending' = pending /\ alive' = alive /\ namespace' = namespace /\ stale' = stale
      BY <1>1
    <2>. QED
      BY <2>1, <2>2, <2>3, <2>4 DEF HandleInv, TypeOK
  <1>6. Fresh'
    BY <1>1, <1>2, HandleAssumption DEF HandleInv, TypeOK, Fresh, Keys
  <1>7. Filed'
    <2>. SUFFICES ASSUME NEW k \in Keys, k < next'
                  PROVE  stored'[k].gen = k % GenSpan
      BY DEF Filed
    <2>1. CASE k = next
      BY <1>1, <1>2, <1>4, <2>1 DEF HandleInv, TypeOK, Keys
    <2>2. CASE k = next + 1
      BY <1>1, <1>2, <1>4, <2>2 DEF HandleInv, TypeOK
    <2>3. CASE k < next
      BY <1>1, <1>2, <2>3 DEF HandleInv, TypeOK, Filed, Keys
    <2>. QED
      BY <1>1, <1>2, <2>1, <2>2, <2>3 DEF Keys
  <1>8. KnownFiled'
    <2>. SUFFICES ASSUME NEW p \in known'
                  PROVE  p[1].slot < next' /\ p[1].gen = p[1].slot % GenSpan
                         /\ slots'[p[1].slot] = p[2]
      BY DEF KnownFiled
    <2>1. CASE p \in known
      <3>1. /\ p[1].slot \in Keys /\ p[1].slot < next
            /\ p[1].gen = p[1].slot % GenSpan /\ slots[p[1].slot] = p[2]
        BY <2>1, KnownKeys
      <3>. QED
        BY <1>1, <1>2, <3>1 DEF HandleInv, TypeOK, Keys
    <2>2. CASE p = <<ha, a>>
      BY <1>1, <1>2, <1>4, <2>2 DEF HandleInv, TypeOK, Keys
    <2>. QED
      BY <1>1, <2>1, <2>2
  <1>9. OneHandlePerSlot'
    <2>1. \A p \in known : p[1].slot # next
      BY <1>2, KnownKeys DEF Keys
    <2>. QED
      BY <1>1, <1>4, <2>1 DEF HandleInv, OneHandlePerSlot
  <1>10. StaleGone'
    <2>. SUFFICES ASSUME NEW g \in stale PROVE g.slot < next' /\ slots'[g.slot] = Nothing
      BY <1>1 DEF StaleGone
    <2>1. g.slot < next /\ slots[g.slot] = Nothing /\ g \in Handle
      BY DEF HandleInv, StaleGone, TypeOK
    <2>2. g.slot \in Keys
      BY <1>2, <2>1, HandleAssumption DEF Keys, Handle, HandleInv, TypeOK
    <2>. QED
      BY <1>1, <1>2, <2>1, <2>2 DEF HandleInv, TypeOK, Keys
  <1>. QED
    BY <1>5, <1>6, <1>7, <1>8, <1>9, <1>10 DEF HandleInv

(* A queued handle keeps the pending lists well formed and bounded. *)
LEMMA PushStep ==
    ASSUME TypeOK, NEW n \in 1 .. MaxInserts, NEW e \in Handle \X Object,
           pending' = push_handle(n, e)
    PROVE  /\ pending' \in [1 .. MaxInserts -> Seq(Handle \X Object)]
           /\ \A m \in 1 .. MaxInserts : Len(pending'[m]) <= MAX_PENDING_HANDLES
  <1>1. pending[n] \in Seq(Handle \X Object)
    BY DEF TypeOK
  <1>2. CASE Len(pending[n]) >= MAX_PENDING_HANDLES
    BY <1>2 DEF TypeOK, push_handle
  <1>3. CASE ~(Len(pending[n]) >= MAX_PENDING_HANDLES)
    <2>1. pending' = [pending EXCEPT ![n] = Append(pending[n], e)]
      BY <1>3 DEF push_handle
    <2>2. /\ Append(pending[n], e) \in Seq(Handle \X Object)
          /\ Len(Append(pending[n], e)) = Len(pending[n]) + 1
          /\ Len(pending[n]) \in Nat
      BY <1>1
    <2>. QED
      BY <1>3, <2>1, <2>2, HandleAssumption DEF TypeOK
  <1>. QED
    BY <1>2, <1>3

-----------------------------------------------------------------------------
(* Every step keeps the invariant: one case per system call. *)
LEMMA NextHandleInv ==
    ASSUME MaxInserts <= SlotSpan, HandleInv, [Next]_vars
    PROVE  HandleInv'
  <1>1. CASE sys_event_create
    <2>1. made + 1 \in 1 .. MaxInserts /\ made + 1 \in 0 .. next + 1
      BY <1>1, HandleAssumption DEF sys_event_create, HandleInv, TypeOK
    <2>2. <<"event", made + 1>> \in Object
      BY <2>1 DEF Object
    <2>. QED
      BY <1>1, <2>1, <2>2, InsertStep DEF sys_event_create
  <1>2. CASE sys_channel_create
    BY <1>2, ChannelStep
  <1>3. ASSUME NEW h \in Held, NEW wanted \in SUBSET AllRights,
               sys_handle_duplicate(h, wanted)
        PROVE  HandleInv'
    <2>1. h \in Handle /\ get(h) \in Object
      BY <1>3, ValidIsKnown DEF sys_handle_duplicate
    <2>2. Narrowed(h.rights, wanted) \in SUBSET AllRights
      BY <2>1 DEF Narrowed, Handle
    <2>3. made' \in 0 .. next + 1
      BY <1>3 DEF sys_handle_duplicate, HandleInv, TypeOK
    <2>. QED
      BY <1>3, <2>1, <2>2, <2>3, InsertStep DEF sys_handle_duplicate
  <1>4. ASSUME NEW h \in Held, sys_handle_close(h) PROVE HandleInv'
    <2>1. pending' = pending /\ Closed(h)
      BY <1>4 DEF sys_handle_close
    <2>. QED
      BY <1>4, <2>1, CloseStep DEF sys_handle_close, HandleInv, TypeOK
  <1>5. ASSUME NEW h \in Held, NEW c \in Held, sys_handle_transfer(h, c)
        PROVE  HandleInv'
    <2>1. Closed(h) /\ Valid(h) /\ IsChannel(get(c))
      BY <1>5 DEF sys_handle_transfer, Closed
    <2>2. Valid(c)
      BY <2>1 DEF get, IsChannel, Nothing
    <2>3. h \in Handle /\ get(h) \in Object /\ get(c) \in Object
      BY <2>1, <2>2, ValidIsKnown
    <2>4. get(c)[2] \in 1 .. MaxInserts /\ <<h, get(h)>> \in Handle \X Object
      BY <2>3 DEF Object
    <2>5. pending' = push_handle(get(c)[2], <<h, get(h)>>)
      BY <1>5 DEF sys_handle_transfer
    <2>6. /\ pending' \in [1 .. MaxInserts -> Seq(Handle \X Object)]
          /\ \A m \in 1 .. MaxInserts : Len(pending'[m]) <= MAX_PENDING_HANDLES
      BY <2>4, <2>5, PushStep DEF HandleInv
    <2>. QED
      BY <1>5, <2>1, <2>6, CloseStep DEF sys_handle_transfer
  <1>6. ASSUME NEW name \in Names, NEW h \in Held, sys_endpoint_register(name, h)
        PROVE  HandleInv'
    <2>1. h \in Handle
      BY DEF Held, HandleInv, TypeOK
    <2>2. namespace' \subseteq (Names \X Handle)
      BY <1>6, <2>1 DEF sys_endpoint_register, HandleInv, TypeOK
    <2>3. UNCHANGED <<slots, stored, next, made, pending, alive, known, stale>>
      BY <1>6 DEF sys_endpoint_register
    <2>. QED
      BY <2>2, <2>3 DEF HandleInv, TypeOK, Fresh, Filed, KnownFiled, OneHandlePerSlot, StaleGone
  <1>7. CASE close_all
    <2>1. /\ slots' = [k \in Keys |-> Nothing] /\ known' = {}
          /\ stale' = stale \cup {p[1] : p \in known} /\ alive' = FALSE
          /\ UNCHANGED <<stored, next, made, pending, namespace>>
      BY <1>7 DEF close_all
    <2>2. \A h \in stale' : h \in Handle /\ h.slot < next
      BY <2>1, KnownKeys DEF HandleInv, TypeOK, StaleGone
    <2>3. TypeOK'
      BY <2>1, <2>2 DEF HandleInv, TypeOK
    <2>4. StaleGone'
      <3>. SUFFICES ASSUME NEW h \in stale' PROVE h.slot < next' /\ slots'[h.slot] = Nothing
        BY DEF StaleGone
      <3>1. h.slot \in Keys
        BY <2>2, HandleAssumption DEF HandleInv, TypeOK, Handle, Keys
      <3>. QED
        BY <2>1, <2>2, <3>1
    <2>. QED
      BY <2>1, <2>3, <2>4 DEF HandleInv, Fresh, Filed, KnownFiled, OneHandlePerSlot
  <1>8. CASE UNCHANGED vars
    BY <1>8 DEF vars, HandleInv, TypeOK, Fresh, Filed, KnownFiled, OneHandlePerSlot, StaleGone,
                Keys, Handle, Object
  <1>. QED
    BY <1>1, <1>2, <1>3, <1>4, <1>5, <1>6, <1>7, <1>8 DEF Next

(* For every field width: a table that takes no more insertions than       *)
(* slot_id has values resolves every open handle to its own object, no     *)
(* closed handle to anything, and keeps its types.                         *)
THEOREM HandlesAreSound ==
    ASSUME MaxInserts <= SlotSpan
    PROVE  Spec => [](TypeOK /\ OpenHandlesResolve /\ StaleHandlesDie)
  <1>1. Init => HandleInv
    BY InitHandleInv
  <1>2. HandleInv /\ [Next]_vars => HandleInv'
    BY NextHandleInv
  <1>3. HandleInv => TypeOK /\ OpenHandlesResolve /\ StaleHandlesDie
    BY InvariantIsEnough DEF HandleInv
  <1>. QED
    BY <1>1, <1>2, <1>3, PTL DEF Spec

(* For every field width, under the same bound: a handle that was closed   *)
(* resolves to nothing for ever, although its slot id and generation come  *)
(* from the same counter and are cut to their fields.                      *)
THEOREM ClosedHandlesStayDead ==
    ASSUME MaxInserts <= SlotSpan
    PROVE  Spec => []StaleHandlesDie
  <1>1. Spec => [](TypeOK /\ OpenHandlesResolve /\ StaleHandlesDie)
    BY HandlesAreSound
  <1>. QED
    BY <1>1, PTL

(* For every field width, under the same bound: no step hands out a handle *)
(* to an existing object with a right that no earlier open handle to it    *)
(* had, although duplicate reads the rights from the caller's value and    *)
(* not from the table.                                                     *)
THEOREM RightsNarrow ==
    ASSUME MaxInserts <= SlotSpan
    PROVE  Spec => RightsOnlyNarrow
  <1>. DEFINE Narrow ==
          \A p \in known' \ known :
             \/ p[2][2] = made' /\ made' # made
             \/ \E q \in known : q[2] = p[2] /\ p[1].rights \subseteq q[1].rights
  <1>1. HandleInv /\ [Next]_vars => [Narrow]_vars
    <2>. SUFFICES ASSUME HandleInv, Next PROVE Narrow
      OBVIOUS
    <2>0. made \in Nat
      BY HandleAssumption DEF HandleInv, TypeOK
    <2>1. CASE sys_event_create
      BY <2>0, <2>1 DEF sys_event_create
    <2>2. CASE sys_channel_create
      BY <2>0, <2>2 DEF sys_channel_create
    <2>3. ASSUME NEW h \in Held, NEW wanted \in SUBSET AllRights,
                 sys_handle_duplicate(h, wanted)
          PROVE  Narrow
      <3>1. h \in Handle /\ <<h, get(h)>> \in known
        BY <2>3, ValidIsKnown DEF sys_handle_duplicate
      <3>2. known' = known \cup {<<New(next, Narrowed(h.rights, wanted)), get(h)>>}
        BY <2>3 DEF sys_handle_duplicate
      <3>3. New(next, Narrowed(h.rights, wanted)).rights \subseteq h.rights
        BY DEF New, Narrowed
      <3>. QED
        BY <3>1, <3>2, <3>3
    <2>4. ASSUME NEW h \in Held, sys_handle_close(h) PROVE Narrow
      BY <2>4 DEF sys_handle_close, Closed
    <2>5. ASSUME NEW h \in Held, NEW c \in Held, sys_handle_transfer(h, c) PROVE Narrow
      BY <2>5 DEF sys_handle_transfer, Closed
    <2>6. ASSUME NEW name \in Names, NEW h \in Held, sys_endpoint_register(name, h) PROVE Narrow
      BY <2>6 DEF sys_endpoint_register
    <2>7. CASE close_all
      BY <2>7 DEF close_all
    <2>. QED
      BY <2>1, <2>2, <2>3, <2>4, <2>5, <2>6, <2>7 DEF Next
  <1>2. Init => HandleInv
    BY InitHandleInv
  <1>3. HandleInv /\ [Next]_vars => HandleInv'
    BY NextHandleInv
  <1>. QED
    BY <1>1, <1>2, <1>3, PTL DEF Spec, RightsOnlyNarrow

-----------------------------------------------------------------------------
(* Pipes.  PipesSound is not inductive: that the bytes read and the bytes  *)
(* buffered are in order says nothing of a byte that is appended or of a   *)
(* buffer cut in two.  The invariant that is: a buffer holds the last      *)
(* bytes accepted, without a gap, and every byte delivered is older than   *)
(* all of these.                                                           *)

(* The bytes of one pipe: b in the buffer, d delivered, u unreported, w    *)
(* accepted.                                                               *)
Stream(b, d, u, w) ==
    /\ b \in Seq(1 .. MaxBytes) /\ d \in Seq(1 .. MaxBytes)
    /\ w \in 0 .. MaxBytes /\ u \in 0 .. MaxBytes
    /\ Len(b) <= Capacity /\ Len(d) + Len(b) + u = w
    /\ \A i \in 1 .. Len(b) : b[i] = (w - Len(b)) + i
    /\ \A i \in 1 .. Len(d) : d[i] <= w - Len(b)
    /\ \A i \in 1 .. Len(d) - 1 : d[i] < d[i + 1]

PipeTypes ==
    /\ fd_table \in [Fds -> Entry \cup {NoEntry}]
    /\ \A fd \in Fds : PipeOf(fd) <= pipes_made
    /\ pipes_made \in 0 .. MaxPipes
    /\ buffer = [p \in Pipes |-> buffer[p]] /\ delivered = [p \in Pipes |-> delivered[p]]
    /\ written = [p \in Pipes |-> written[p]] /\ unreported = [p \in Pipes |-> unreported[p]]
    /\ open \in [Pipes -> SUBSET {"r", "w"}]
    /\ panicked \in BOOLEAN

Streams == \A p \in Pipes : Stream(buffer[p], delivered[p], unreported[p], written[p])

(* The inductive invariant. *)
PipeInv == PipeTypes /\ Streams
-----------------------------------------------------------------------------
(* n more bytes are accepted. *)
LEMMA StreamGrows ==
    ASSUME NEW b, NEW d, NEW u, NEW w, Stream(b, d, u, w), NEW n \in Nat,
           Len(b) + n <= Capacity, w + n <= MaxBytes
    PROVE  Stream(b \o [i \in 1 .. n |-> w + i], d, u, w + n)
<1> DEFINE more == [i \in 1 .. n |-> w + i]
           c == b \o more
           B == Len(b)
           D == Len(d)
<1>1. /\ MaxBytes \in Nat /\ w \in Nat /\ w <= MaxBytes /\ u \in Nat /\ Capacity \in Nat
      /\ B \in Nat /\ D \in Nat /\ b \in Seq(1 .. MaxBytes) /\ D + B + u = w
      /\ B + n <= Capacity
  BY PipeAssumption DEF Stream
<1>2. /\ \A i \in 1 .. B : b[i] = (w - B) + i
      /\ \A i \in 1 .. D : d[i] <= w - B
  BY DEF Stream
<1>3. \A i \in 1 .. n : w + i \in 1 .. MaxBytes
  BY <1>1
<1>4. more \in Seq(1 .. MaxBytes) /\ Len(more) = n /\ \A i \in 1 .. n : more[i] = w + i
  BY <1>1, <1>3
<1> HIDE DEF more
<1>5. /\ c \in Seq(1 .. MaxBytes) /\ Len(c) = B + n
      /\ \A i \in 1 .. B + n : c[i] = IF i <= B THEN b[i] ELSE more[i - B]
  BY <1>1, <1>4, ConcatProperties
<1> HIDE DEF B, D, c
<1>6. \A i \in 1 .. B + n : c[i] = (w - B) + i
  <2>1. SUFFICES ASSUME NEW i \in 1 .. B + n PROVE c[i] = (w - B) + i
    OBVIOUS
  <2>2. CASE i <= B
    <3>1. i \in 1 .. B
      BY <2>2, <1>1
    <3>2. QED BY <2>2, <3>1, <1>2, <1>5
  <2>3. CASE i > B
    <3>1. i - B \in 1 .. n /\ ~(i <= B)
      BY <2>3, <1>1
    <3>2. c[i] = more[i - B]
      BY <3>1, <1>5
    <3>3. c[i] = w + (i - B)
      BY <3>1, <3>2, <1>4
    <3>4. QED BY <3>3, <1>1
  <2>4. QED BY <2>2, <2>3, <1>1
<1>7. /\ (w + n) - (B + n) = w - B /\ w + n \in 0 .. MaxBytes
      /\ D + (B + n) + u = w + n
  BY <1>1
<1>8. /\ \A i \in 1 .. Len(c) : c[i] = ((w + n) - Len(c)) + i
      /\ \A i \in 1 .. D : d[i] <= (w + n) - Len(c)
      /\ Len(c) <= Capacity /\ D + Len(c) + u = w + n
  BY <1>1, <1>2, <1>5, <1>6, <1>7
<1>9. QED BY <1>5, <1>7, <1>8 DEF Stream, D, c, more

(* The first n bytes leave the buffer, and arrive or do not. *)
LEMMA StreamMoves ==
    ASSUME NEW b, NEW d, NEW u, NEW w, Stream(b, d, u, w), NEW n \in 0 .. Len(b)
    PROVE  /\ Stream(SubSeq(b, n + 1, Len(b)), d \o SubSeq(b, 1, n), u, w)
           /\ Stream(SubSeq(b, n + 1, Len(b)), d, u + n, w)
<1> DEFINE B == Len(b)
           D == Len(d)
           front == SubSeq(b, 1, n)
           c == SubSeq(b, n + 1, B)
           e == d \o front
<1>1. /\ MaxBytes \in Nat /\ w \in Nat /\ w <= MaxBytes /\ u \in Nat /\ B \in Nat
      /\ D \in Nat /\ b \in Seq(1 .. MaxBytes) /\ d \in Seq(1 .. MaxBytes)
      /\ D + B + u = w /\ B <= Capacity /\ Capacity \in Nat
  BY PipeAssumption DEF Stream
<1>2. n \in Nat /\ n <= B
  BY <1>1
<1>30. \A i \in 1 .. B : b[i] = (w - B) + i
  BY DEF Stream
<1>31. \A i \in 1 .. B : b[i] \in 1 .. MaxBytes
  BY ONLY <1>1
<1>3. \A i \in 1 .. B : b[i] = (w - B) + i /\ b[i] \in 1 .. MaxBytes
  BY ONLY <1>30, <1>31
<1>4. \A i \in 1 .. D : d[i] <= w - B /\ d[i] \in 1 .. MaxBytes
  BY <1>1 DEF Stream
<1>5. \A i \in 1 .. D - 1 : d[i] < d[i + 1]
  BY DEF Stream
<1>6. /\ c \in Seq(1 .. MaxBytes) /\ Len(c) = B - n
      /\ \A i \in 1 .. B - n : c[i] = b[n + i]
  BY <1>1, <1>2, <1>3
<1>7. /\ front \in Seq(1 .. MaxBytes) /\ Len(front) = n
      /\ \A i \in 1 .. n : front[i] = b[i]
  BY <1>1, <1>2, <1>3
<1> HIDE DEF front
<1>8. /\ e \in Seq(1 .. MaxBytes) /\ Len(e) = D + n
      /\ \A i \in 1 .. D + n : e[i] = IF i <= D THEN d[i] ELSE front[i - D]
  BY <1>1, <1>7, ConcatProperties
<1> HIDE DEF B, D, c, e
<1>9. \A i \in 1 .. B - n : c[i] = (w - (B - n)) + i
  <2>1. SUFFICES ASSUME NEW i \in 1 .. B - n PROVE c[i] = (w - (B - n)) + i
    OBVIOUS
  <2>2. n + i \in 1 .. B
    BY <1>1, <1>2
  <2>3. c[i] = (w - B) + (n + i)
    BY <1>3, <1>6, <2>2
  <2>4. QED BY <2>3, <1>1, <1>2
<1>10. \A i \in 1 .. D : e[i] = d[i]
  BY <1>1, <1>2, <1>8
<1>11. \A i \in D + 1 .. D + n : e[i] = (w - B) + (i - D)
  <2>1. SUFFICES ASSUME NEW i \in D + 1 .. D + n PROVE e[i] = (w - B) + (i - D)
    OBVIOUS
  <2>2. i - D \in 1 .. n /\ i - D \in 1 .. B /\ i \in 1 .. D + n /\ ~(i <= D)
    BY <1>1, <1>2
  <2>3. e[i] = front[i - D] /\ front[i - D] = b[i - D]
    BY <2>2, <1>7, <1>8
  <2>4. QED BY <2>2, <2>3, <1>3
<1>12. \A i \in 1 .. D + n : e[i] <= w - (B - n)
  <2>1. SUFFICES ASSUME NEW i \in 1 .. D + n PROVE e[i] <= w - (B - n)
    OBVIOUS
  <2>2. CASE i <= D
    <3>1. e[i] <= w - B /\ e[i] \in Nat
      BY <2>2, <1>1, <1>4, <1>10
    <3>2. QED BY <3>1, <1>1, <1>2
  <2>3. CASE i > D
    <3>1. e[i] = (w - B) + (i - D)
      BY <2>3, <1>1, <1>2, <1>11
    <3>2. QED BY <3>1, <1>1, <1>2
  <2>4. QED BY <2>2, <2>3, <1>1
<1>13. \A i \in 1 .. (D + n) - 1 : e[i] < e[i + 1]
  <2>1. SUFFICES ASSUME NEW i \in 1 .. (D + n) - 1 PROVE e[i] < e[i + 1]
    OBVIOUS
  <2>2. CASE i < D
    <3>1. i \in 1 .. D /\ i + 1 \in 1 .. D /\ i \in 1 .. D - 1
      BY <2>2, <1>1
    <3>2. QED BY <3>1, <1>5, <1>10
  <2>3. CASE i = D
    <3>1. i \in 1 .. D /\ i + 1 \in D + 1 .. D + n
      BY <2>3, <1>1, <1>2
    <3>2. e[i] <= w - B /\ e[i] \in Nat /\ e[i + 1] = (w - B) + ((i + 1) - D)
      BY <3>1, <1>4, <1>10, <1>11
    <3>3. QED BY <2>3, <3>2, <1>1
  <2>4. CASE i > D
    <3>1. i \in D + 1 .. D + n /\ i + 1 \in D + 1 .. D + n
      BY <2>4, <1>1, <1>2
    <3>2. e[i] = (w - B) + (i - D) /\ e[i + 1] = (w - B) + ((i + 1) - D)
      BY <3>1, <1>11
    <3>3. QED BY <3>2, <1>1
  <2>5. QED BY <2>2, <2>3, <2>4, <1>1
<1>14. /\ B - n <= Capacity /\ (D + n) + (B - n) + u = w /\ D + (B - n) + (u + n) = w
       /\ u + n \in 0 .. MaxBytes /\ w \in 0 .. MaxBytes /\ u \in 0 .. MaxBytes
  BY <1>1, <1>2
<1>15. \A i \in 1 .. D : d[i] <= w - (B - n)
  <2>1. SUFFICES ASSUME NEW i \in 1 .. D PROVE d[i] <= w - (B - n)
    OBVIOUS
  <2>2. d[i] <= w - B /\ d[i] \in Nat
    BY <1>4, <1>1
  <2>3. QED BY <2>2, <1>1, <1>2
<1>16. Stream(c, e, u, w)
  BY <1>6, <1>8, <1>9, <1>12, <1>13, <1>14 DEF Stream
<1>17. Stream(c, d, u + n, w)
  <2>1. d \in Seq(1 .. MaxBytes) /\ D = Len(d)
    BY <1>1 DEF D
  <2>2. QED BY <2>1, <1>5, <1>6, <1>9, <1>14, <1>15 DEF Stream
<1>18. QED BY <1>16, <1>17 DEF c, e, front, B

-----------------------------------------------------------------------------
(* What a descriptor of a pipe stands for. *)
LEMMA EndOfPipe ==
    ASSUME PipeTypes, NEW fd \in Fds, NEW kind \in {"r", "w"}, IsEnd(fd, kind)
    PROVE  PipeOf(fd) \in Pipes
<1>1. fd_table[fd] \in Entry \cup {NoEntry} /\ fd_table[fd][1] = kind
  BY DEF PipeTypes, IsEnd
<1>2. fd_table[fd] # NoEntry /\ fd_table[fd] # <<"file", 0>>
  BY <1>1 DEF NoEntry
<1>3. fd_table[fd] \in {"r", "w"} \X Pipes
  BY <1>1, <1>2 DEF Entry
<1>4. QED BY <1>3 DEF PipeOf

(* The entries a table may hold. *)
LEMMA Entries ==
    /\ <<"file", 0>> \in Entry /\ <<"file", 0>>[2] = 0 /\ NoEntry[2] = 0
    /\ \A k \in {"r", "w"}, p \in Pipes : <<k, p>> \in Entry /\ <<k, p>>[2] = p
BY DEF Entry, NoEntry

(* A step that changes descriptors and leaves the bytes alone. *)
LEMMA StreamsKept == Streams /\ UNCHANGED streams => Streams'
BY DEF Streams, streams

LEMMA AcceptsStep ==
    ASSUME PipeInv, NEW p \in Pipes, NEW n \in Nat, Len(buffer[p]) + n <= Capacity,
           written[p] + n <= MaxBytes, Accepts(p, n)
    PROVE  PipeInv'
<1>1. PipeTypes /\ Streams
  BY DEF PipeInv
<1>2. /\ buffer' = [buffer EXCEPT ![p] = @ \o [i \in 1 .. n |-> written[p] + i]]
      /\ written' = [written EXCEPT ![p] = @ + n]
      /\ fd_table' = fd_table /\ pipes_made' = pipes_made /\ open' = open /\ panicked' = panicked
      /\ delivered' = delivered /\ unreported' = unreported
  BY DEF Accepts
<1>3. PipeTypes'
  BY <1>1, <1>2 DEF PipeTypes, PipeOf
<1>4. /\ buffer'[p] = buffer[p] \o [i \in 1 .. n |-> written[p] + i]
      /\ written'[p] = written[p] + n
      /\ \A q \in Pipes : q # p => buffer'[q] = buffer[q] /\ written'[q] = written[q]
  BY <1>1, <1>2 DEF PipeTypes
<1>5. Stream(buffer'[p], delivered'[p], unreported'[p], written'[p])
  <2>1. Stream(buffer[p], delivered[p], unreported[p], written[p])
    BY <1>1 DEF Streams
  <2>2. Stream(buffer[p] \o [i \in 1 .. n |-> written[p] + i], delivered[p], unreported[p],
               written[p] + n)
    BY <2>1, StreamGrows
  <2>3. QED BY <2>2, <1>2, <1>4
<1>6. Streams'
  BY <1>1, <1>2, <1>4, <1>5 DEF Streams
<1>7. QED BY <1>3, <1>6 DEF PipeInv

LEMMA TakesStep ==
    ASSUME PipeInv, NEW p \in Pipes, NEW n \in 0 .. Len(buffer[p]), NEW told \in BOOLEAN,
           Takes(p, n, told)
    PROVE  PipeInv'
<1>1. PipeTypes /\ Streams
  BY DEF PipeInv
<1>2. /\ buffer' = [buffer EXCEPT ![p] = SubSeq(@, n + 1, Len(@))]
      /\ delivered' = [delivered EXCEPT ![p] = IF told THEN @ \o SubSeq(buffer[p], 1, n) ELSE @]
      /\ unreported' = [unreported EXCEPT ![p] = IF told THEN @ ELSE @ + n]
      /\ fd_table' = fd_table /\ pipes_made' = pipes_made /\ open' = open /\ panicked' = panicked
      /\ written' = written
  BY DEF Takes
<1>3. PipeTypes'
  BY <1>1, <1>2 DEF PipeTypes, PipeOf
<1>4. /\ buffer'[p] = SubSeq(buffer[p], n + 1, Len(buffer[p]))
      /\ delivered'[p] = IF told THEN delivered[p] \o SubSeq(buffer[p], 1, n) ELSE delivered[p]
      /\ unreported'[p] = IF told THEN unreported[p] ELSE unreported[p] + n
      /\ \A q \in Pipes : q # p => /\ buffer'[q] = buffer[q] /\ delivered'[q] = delivered[q]
                                   /\ unreported'[q] = unreported[q]
  BY <1>1, <1>2 DEF PipeTypes
<1>5. Stream(buffer'[p], delivered'[p], unreported'[p], written'[p])
  <2>1. Stream(buffer[p], delivered[p], unreported[p], written[p])
    BY <1>1 DEF Streams
  <2>2. /\ Stream(SubSeq(buffer[p], n + 1, Len(buffer[p])),
                  delivered[p] \o SubSeq(buffer[p], 1, n), unreported[p], written[p])
        /\ Stream(SubSeq(buffer[p], n + 1, Len(buffer[p])),
                  delivered[p], unreported[p] + n, written[p])
    BY <2>1, StreamMoves
  <2>3. CASE told
    BY <2>2, <2>3, <1>2, <1>4
  <2>4. CASE ~told
    BY <2>2, <2>4, <1>2, <1>4
  <2>5. QED BY <2>3, <2>4
<1>6. Streams'
  BY <1>1, <1>2, <1>4, <1>5 DEF Streams
<1>7. QED BY <1>3, <1>6 DEF PipeInv

(* No write accepts more than there is room for, and no vector either. *)
LEMMA WriteStep ==
    ASSUME PipeInv, NEW fd \in Fds, NEW l1 \in 0 .. MaxLen, NEW l2 \in 0 .. MaxLen,
           NEW bad \in BOOLEAN, sys_fs_write(fd, l1) \/ sys_writev(fd, l1, l2, bad)
    PROVE  PipeInv'
<1> DEFINE p == PipeOf(fd)
           n == write(p, l1)
           room == Capacity - Len(buffer[p])
           m == IF n < l1 \/ bad THEN n ELSE n + Min2(l2, room - n)
<1>1. PipeTypes /\ Streams
  BY DEF PipeInv
<1>2. p \in Pipes
  BY <1>1, EndOfPipe DEF sys_fs_write, sys_writev
<1>3. Stream(buffer[p], delivered[p], unreported[p], written[p])
  BY <1>1, <1>2 DEF Streams
<1>4. Len(buffer[p]) \in Nat /\ Len(buffer[p]) <= Capacity /\ written[p] \in Nat
  BY <1>3 DEF Stream
<1>5. l1 \in Nat /\ l2 \in Nat /\ Capacity \in Nat /\ MaxBytes \in Nat
  BY PipeAssumption
<1>6. n = Min2(l1, room)
  BY DEF write
<1> HIDE DEF p, n
<1>7. room \in Nat /\ Len(buffer[p]) + room = Capacity
  BY <1>4, <1>5
<1> HIDE DEF room
<1>8. n \in Nat /\ n <= room /\ n <= l1
  BY <1>5, <1>6, <1>7 DEF Min2
<1>9. m \in Nat /\ m <= room /\ m <= l1 + l2
  BY <1>5, <1>7, <1>8 DEF Min2
<1>10. CASE sys_fs_write(fd, l1)
  <2>1. written[p] + l1 <= MaxBytes /\ Accepts(p, n)
    BY <1>10 DEF sys_fs_write, p, n
  <2>2. Len(buffer[p]) + n <= Capacity /\ written[p] + n <= MaxBytes
    BY <2>1, <1>4, <1>5, <1>7, <1>8
  <2>3. QED BY <1>2, <1>8, <2>1, <2>2, AcceptsStep
<1>11. CASE sys_writev(fd, l1, l2, bad)
  <2>1. written[p] + l1 + l2 <= MaxBytes /\ Accepts(p, m)
    BY <1>11 DEF sys_writev, p, n, room
  <2> HIDE DEF m
  <2>2. Len(buffer[p]) + m <= Capacity /\ written[p] + m <= MaxBytes
    BY <2>1, <1>4, <1>5, <1>7, <1>9
  <2>3. QED BY <1>2, <1>9, <2>1, <2>2, AcceptsStep
<1>12. QED BY <1>10, <1>11

LEMMA ReadStep ==
    ASSUME PipeInv, NEW fd \in Fds, NEW l1 \in 0 .. MaxLen, NEW l2 \in 0 .. MaxLen,
           NEW bad \in BOOLEAN, sys_fs_read(fd, l1, bad) \/ sys_readv(fd, l1, l2, bad)
    PROVE  PipeInv'
<1> DEFINE p == PipeOf(fd)
<1>1. PipeTypes /\ Streams
  BY DEF PipeInv
<1>2. p \in Pipes
  BY <1>1, EndOfPipe DEF sys_fs_read, sys_readv
<1>3. Stream(buffer[p], delivered[p], unreported[p], written[p])
  BY <1>1, <1>2 DEF Streams
<1>4. Len(buffer[p]) \in Nat
  BY <1>3 DEF Stream
<1>5. \A len \in Nat : read(p, len) \in 0 .. Len(buffer[p])
  BY <1>4 DEF read, Min2
<1>6. l1 \in Nat /\ l1 + l2 \in Nat
  BY PipeAssumption
<1> HIDE DEF p
<1>7. CASE sys_fs_read(fd, l1, bad)
  <2>1. Takes(p, read(p, l1), read(p, l1) = 0 \/ ~bad)
    BY <1>7 DEF sys_fs_read, p
  <2>2. QED BY <1>2, <1>5, <1>6, <2>1, TakesStep
<1>8. CASE sys_readv(fd, l1, l2, bad)
  <2>1. \/ Takes(p, read(p, l1), read(p, l1) = 0)
        \/ Takes(p, read(p, l1 + l2), TRUE)
        \/ Takes(p, read(p, l1), TRUE)
    BY <1>8 DEF sys_readv, p
  <2>2. QED BY <1>2, <1>5, <1>6, <2>1, TakesStep
<1>9. QED BY <1>7, <1>8

(* The table after an entry was put at fd, or taken away. *)
LEMMA EntryStep ==
    ASSUME PipeInv, NEW fd \in Fds, NEW x \in Entry \cup {NoEntry}, x[2] <= pipes_made,
           fd_table' = [fd_table EXCEPT ![fd] = x], panicked' \in BOOLEAN,
           UNCHANGED <<pipes_made, streams, open>>
    PROVE  PipeInv'
<1>1. PipeTypes /\ Streams
  BY DEF PipeInv
<1>2. Streams'
  BY <1>1, StreamsKept
<1>3. /\ fd_table' \in [Fds -> Entry \cup {NoEntry}]
      /\ \A g \in Fds : fd_table'[g] = IF g = fd THEN x ELSE fd_table[g]
  BY <1>1 DEF PipeTypes
<1>4. \A g \in Fds : fd_table'[g][2] <= pipes_made'
  BY <1>1, <1>3 DEF PipeTypes, PipeOf
<1>5. PipeTypes'
  BY <1>1, <1>3, <1>4 DEF PipeTypes, PipeOf, streams
<1>6. QED BY <1>2, <1>5 DEF PipeInv

(* Both descriptors of a new pipe name it, whether or not there was a      *)
(* place for the second.                                                   *)
LEMMA MakeStep ==
    ASSUME PipeInv, sys_pipe PROVE PipeInv'
<1> DEFINE p == pipes_made + 1
           r == FreeFrom(FD_FIRST_USABLE)
           w == UNION {FreeFrom(fd + 1) : fd \in r}
<1>1. PipeTypes /\ Streams
  BY DEF PipeInv
<1>2. /\ pipes_made < MaxPipes /\ pipes_made' = p /\ UNCHANGED <<streams, panicked>>
      /\ open' = [open EXCEPT ![p] = {"r", "w"}]
      /\ fd_table' = [fd \in Fds |-> IF fd \in r THEN <<"r", p>>
                                     ELSE IF fd \in w THEN <<"w", p>> ELSE fd_table[fd]]
  BY DEF sys_pipe
<1>3. pipes_made \in Nat /\ MaxPipes \in Nat /\ p \in Pipes /\ p \in 0 .. MaxPipes /\ pipes_made < p
  BY <1>1, <1>2, PipeAssumption DEF PipeTypes, Pipes
<1> HIDE DEF p, r, w
<1>4. Streams'
  BY <1>1, <1>2, StreamsKept
<1>5. /\ <<"r", p>> \in Entry /\ <<"r", p>>[2] = p
      /\ <<"w", p>> \in Entry /\ <<"w", p>>[2] = p
  BY <1>3, Entries
<1>6. fd_table' \in [Fds -> Entry \cup {NoEntry}]
  BY <1>1, <1>2, <1>5 DEF PipeTypes
<1>7. \A fd \in Fds : fd_table'[fd][2] <= p
  <2>1. SUFFICES ASSUME NEW fd \in Fds PROVE fd_table'[fd][2] <= p
    OBVIOUS
  <2>2. fd_table'[fd] \in {<<"r", p>>, <<"w", p>>, fd_table[fd]}
    BY <1>2
  <2>3. fd_table[fd][2] <= pipes_made /\ fd_table[fd][2] \in Int
    <3>1. fd_table[fd] \in Entry \cup {NoEntry} /\ fd_table[fd][2] <= pipes_made
      BY <1>1 DEF PipeTypes, PipeOf
    <3>2. \A x \in Entry \cup {NoEntry} : x[2] \in Int
      BY <1>3 DEF Entry, NoEntry, Pipes
    <3>3. QED BY <3>1, <3>2
  <2>4. fd_table[fd][2] <= p /\ p <= p
    BY <2>3, <1>3
  <2>5. QED BY <2>2, <2>4, <1>5
<1>8. open' \in [Pipes -> SUBSET {"r", "w"}]
  BY <1>1, <1>2 DEF PipeTypes
<1>9. PipeTypes'
  BY <1>1, <1>2, <1>3, <1>6, <1>7, <1>8 DEF PipeTypes, PipeOf, streams
<1>10. QED BY <1>4, <1>9 DEF PipeInv

LEMMA CloseAllStep ==
    ASSUME PipeInv, fd_close_all PROVE PipeInv'
<1>1. PipeTypes /\ Streams
  BY DEF PipeInv
<1>2. Streams'
  BY <1>1, StreamsKept DEF fd_close_all
<1>3. \A fd \in Fds : fd_table'[fd] = NoEntry
  BY DEF fd_close_all
<1>4. pipes_made' = pipes_made /\ pipes_made \in Nat
  BY <1>1 DEF fd_close_all, PipeTypes
<1>5. \A fd \in Fds : fd_table'[fd][2] <= pipes_made'
  BY <1>3, <1>4, Entries
<1>6. QED BY <1>1, <1>2, <1>4, <1>5 DEF PipeInv, PipeTypes, PipeOf, fd_close_all, streams

LEMMA PipeStart == PipeInit => PipeInv
<1>1. SUFFICES ASSUME PipeInit PROVE PipeInv
  OBVIOUS
<1>2. MaxBytes \in Nat /\ MaxPipes \in Nat /\ Capacity \in Nat
  BY PipeAssumption
<1>3. \A fd \in Fds : fd_table[fd] = NoEntry
  BY <1>1 DEF PipeInit
<1>4. \A fd \in Fds : PipeOf(fd) <= pipes_made
  BY <1>1, <1>3, Entries DEF PipeInit, PipeOf
<1>5. PipeTypes
  <2>1. /\ buffer = [p \in Pipes |-> buffer[p]] /\ delivered = [p \in Pipes |-> delivered[p]]
        /\ written = [p \in Pipes |-> written[p]] /\ unreported = [p \in Pipes |-> unreported[p]]
    BY <1>1 DEF PipeInit
  <2>2. open \in [Pipes -> SUBSET {"r", "w"}] /\ panicked \in BOOLEAN
    BY <1>1 DEF PipeInit
  <2>3. fd_table \in [Fds -> Entry \cup {NoEntry}] /\ pipes_made \in 0 .. MaxPipes
    BY <1>1, <1>2 DEF PipeInit
  <2>4. QED BY <1>4, <2>1, <2>2, <2>3 DEF PipeTypes
<1>6. Stream(<<>>, <<>>, 0, 0)
  BY <1>2 DEF Stream
<1>7. Streams
  BY <1>1, <1>6 DEF Streams, PipeInit
<1>8. QED BY <1>5, <1>7 DEF PipeInv

LEMMA PipeStep == PipeInv /\ [PipeNext]_pipe_vars => PipeInv'
<1>1. SUFFICES ASSUME PipeInv, [PipeNext]_pipe_vars PROVE PipeInv'
  OBVIOUS
<1>2. PipeTypes
  BY <1>1 DEF PipeInv
<1>3. CASE UNCHANGED pipe_vars
  BY <1>1, <1>3, StreamsKept DEF PipeInv, PipeTypes, PipeOf, pipe_vars, streams
<1>4. CASE sys_fs_open
  <2>1. PICK fd \in FreeFrom(FD_FIRST_USABLE) : fd_table' = [fd_table EXCEPT ![fd] = <<"file", 0>>]
    BY <1>4 DEF sys_fs_open
  <2>2. fd \in Fds
    BY PipeAssumption DEF FreeFrom, Fds, FD_FIRST_USABLE
  <2>3. panicked' \in BOOLEAN /\ UNCHANGED <<pipes_made, streams, open>> /\ 0 <= pipes_made
    BY <1>2, <1>4 DEF sys_fs_open, PipeTypes
  <2>4. QED BY <1>1, <2>1, <2>2, <2>3, Entries, EntryStep
<1>5. ASSUME NEW old \in Fds, NEW new \in Fds, sys_dup2(old, new) PROVE PipeInv'
  <2>1. /\ fd_table' = [fd_table EXCEPT ![new] = fd_table[old]]
        /\ UNCHANGED <<pipes_made, streams, open>> /\ panicked' = panicked
    BY <1>5 DEF sys_dup2
  <2>2. /\ fd_table[old] \in Entry \cup {NoEntry} /\ fd_table[old][2] <= pipes_made
        /\ panicked' \in BOOLEAN
    BY <1>2, <2>1 DEF PipeTypes, PipeOf
  <2>3. QED BY <1>1, <2>1, <2>2, EntryStep
<1>6. ASSUME NEW fd \in Fds, sys_fs_close(fd) PROVE PipeInv'
  <2>1. /\ fd_table' = [fd_table EXCEPT ![fd] = NoEntry]
        /\ UNCHANGED <<pipes_made, streams, open>> /\ panicked' \in BOOLEAN
    BY <1>6 DEF sys_fs_close
  <2>2. 0 <= pipes_made
    BY <1>2 DEF PipeTypes
  <2>3. QED BY <1>1, <2>1, <2>2, Entries, EntryStep
<1>7. 0 \in 0 .. MaxLen
  BY PipeAssumption
<1>8. ASSUME NEW fd \in Fds, NEW len \in 0 .. MaxLen, sys_fs_write(fd, len) PROVE PipeInv'
  BY <1>1, <1>7, <1>8, WriteStep
<1>9. ASSUME NEW fd \in Fds, NEW l1 \in 0 .. MaxLen, NEW l2 \in 0 .. MaxLen, NEW bad \in BOOLEAN,
             sys_writev(fd, l1, l2, bad)
      PROVE  PipeInv'
  BY <1>1, <1>9, WriteStep
<1>10. ASSUME NEW fd \in Fds, NEW len \in 0 .. MaxLen, NEW bad \in BOOLEAN, sys_fs_read(fd, len, bad)
       PROVE  PipeInv'
  BY <1>1, <1>7, <1>10, ReadStep
<1>11. ASSUME NEW fd \in Fds, NEW l1 \in 0 .. MaxLen, NEW l2 \in 0 .. MaxLen, NEW bad \in BOOLEAN,
              sys_readv(fd, l1, l2, bad)
       PROVE  PipeInv'
  BY <1>1, <1>11, ReadStep
<1>12. CASE PipeNext
  BY <1>1, <1>4, <1>5, <1>6, <1>8, <1>9, <1>10, <1>11, <1>12, MakeStep, CloseAllStep DEF PipeNext
<1>13. QED BY <1>1, <1>3, <1>12

(* What was delivered, then what is buffered, is in order. *)
LEMMA StreamOrdered ==
    ASSUME NEW b, NEW d, NEW u, NEW w, Stream(b, d, u, w)
    PROVE  /\ Increasing(d \o b) /\ Len(d \o b) + u = w
           /\ b # <<>> => b[Len(b)] = w
<1> DEFINE B == Len(b)
           D == Len(d)
           s == d \o b
<1>1. /\ MaxBytes \in Nat /\ w \in Nat /\ u \in Nat /\ B \in Nat /\ D \in Nat
      /\ b \in Seq(1 .. MaxBytes) /\ d \in Seq(1 .. MaxBytes) /\ D + B + u = w
  BY PipeAssumption DEF Stream
<1>2. /\ \A i \in 1 .. B : b[i] = (w - B) + i
      /\ \A i \in 1 .. D : d[i] <= w - B /\ d[i] \in Nat
      /\ \A i \in 1 .. D - 1 : d[i] < d[i + 1]
  BY <1>1 DEF Stream
<1>3. /\ Len(s) = D + B
      /\ \A i \in 1 .. D + B : s[i] = IF i <= D THEN d[i] ELSE b[i - D]
  BY <1>1, ConcatProperties
<1>4. b # <<>> => B \in 1 .. B
  BY <1>1, EmptySeq
<1> HIDE DEF B, D, s
<1>5. b # <<>> => b[B] = w
  BY <1>1, <1>2, <1>4
<1>6. ASSUME NEW i \in 1 .. (D + B) - 1 PROVE s[i] < s[i + 1]
  <2>1. CASE i < D
    <3>1. i \in 1 .. D - 1 /\ i \in 1 .. D + B /\ i + 1 \in 1 .. D + B /\ i <= D /\ i + 1 <= D
      BY <2>1, <1>1
    <3>2. QED BY <3>1, <1>2, <1>3
  <2>2. CASE i = D
    <3>1. /\ i \in 1 .. D + B /\ i + 1 \in 1 .. D + B /\ i <= D /\ ~(i + 1 <= D)
          /\ (i + 1) - D = 1 /\ 1 \in 1 .. B /\ i \in 1 .. D
      BY <2>2, <1>1
    <3>2. s[i] = d[i] /\ s[i + 1] = b[1]
      BY <3>1, <1>3
    <3>3. d[i] <= w - B /\ d[i] \in Nat /\ b[1] = (w - B) + 1
      BY <3>1, <1>2
    <3>4. QED BY <3>2, <3>3, <1>1
  <2>3. CASE i > D
    <3>1. /\ i \in 1 .. D + B /\ i + 1 \in 1 .. D + B /\ ~(i <= D) /\ ~(i + 1 <= D)
          /\ i - D \in 1 .. B /\ (i + 1) - D \in 1 .. B
      BY <2>3, <1>1
    <3>2. s[i] = b[i - D] /\ s[i + 1] = b[(i + 1) - D]
      BY <3>1, <1>3
    <3>3. b[i - D] = (w - B) + (i - D) /\ b[(i + 1) - D] = (w - B) + ((i + 1) - D)
      BY <3>1, <1>2
    <3>4. QED BY <3>2, <3>3, <1>1
  <2>4. QED BY <2>1, <2>2, <2>3, <1>1
<1>7. QED BY <1>1, <1>3, <1>5, <1>6 DEF Increasing, B, s

LEMMA PipeEnough == PipeInv => PipesSound
<1>1. SUFFICES ASSUME PipeInv PROVE PipesSound
  OBVIOUS
<1>2. PipeTypes /\ \A p \in Pipes : Stream(buffer[p], delivered[p], unreported[p], written[p])
  BY <1>1 DEF PipeInv, Streams
<1>3. \A p \in Pipes : /\ buffer[p] \in Seq(1 .. MaxBytes) /\ delivered[p] \in Seq(1 .. MaxBytes)
                       /\ written[p] \in 0 .. MaxBytes /\ unreported[p] \in 0 .. MaxBytes
                       /\ Len(buffer[p]) <= Capacity
  BY <1>2 DEF Stream
<1>4. BytesInOrder
  BY <1>2, StreamOrdered DEF BytesInOrder
<1>5. PipeTypeOK
  <2>1. /\ buffer \in [Pipes -> Seq(1 .. MaxBytes)] /\ delivered \in [Pipes -> Seq(1 .. MaxBytes)]
        /\ written \in [Pipes -> 0 .. MaxBytes] /\ unreported \in [Pipes -> 0 .. MaxBytes]
    BY <1>2, <1>3 DEF PipeTypes
  <2>2. QED BY <1>2, <1>3, <2>1 DEF PipeTypes, PipeTypeOK
<1>6. QED BY <1>4, <1>5 DEF PipesSound

(* Buffers stay within their capacity, descriptors name pipes that exist,  *)
(* and bytes arrive in the order they were written, none twice, all but    *)
(* those a failed read took, whatever mix of partial writes, vectors,      *)
(* short reads, duplicated and closed descriptors the task makes.          *)
THEOREM PipesAreStreams == PipeSpec => []PipesSound
<1>1. PipeInit => PipeInv
  BY PipeStart
<1>2. PipeInv /\ [PipeNext]_pipe_vars => PipeInv'
  BY PipeStep
<1>3. PipeInv => PipesSound
  BY PipeEnough
<1>4. QED BY <1>1, <1>2, <1>3, PTL DEF PipeSpec

(* ---------------------------------------------------------- shared memory *)
(* ShmSound is not inductive: that unmapping one attachment leaves the     *)
(* others alone needs their page ranges to be apart, that freeing a        *)
(* segment harms nobody needs every attachment to name a live segment of   *)
(* the size it was attached with, and a new segment has no attachments     *)
(* because its number is new.                                              *)

Attachment == [id : Nat, at : ShmPages, size : Nat]
Page == ShmFrames \cup {ShmNone}

(* The attachments of segment i in the tasks' lists A. *)
AttachmentsIn(A, i) ==
    UNION {{<<t, k>> : k \in {m \in 1 .. Len(A[t]) : A[t][m].id = i}} : t \in ShmTasks}

(* What attaching and detaching do to the lists, and attaching to the      *)
(* pages.                                                                  *)
WithAttachment(A, t, a) == [A EXCEPT ![t] = Append(A[t], a)]
LessAttachment(A, t, k) == [A EXCEPT ![t] = RemoveAt(A[t], k)]
WithPages(m, at, pages) ==
    [p \in ShmPages |-> IF p \in at .. at + Len(pages) - 1 THEN pages[p - at + 1] ELSE m[p]]

ShmTypes ==
    /\ ShmTypeOK
    /\ att \in [ShmTasks -> Seq(Attachment)]
    /\ \A t \in ShmTasks : \A k \in 1 .. Len(att[t]) : att[t][k].id < nextId

(* refcount, with what makes the count a number. *)
Counted ==
    /\ \A i \in Nat : IsFiniteSet(Attachments(i))
    /\ RefcountCovers

(* The segments' frames are in use, by one segment each. *)
FramesApart(bits, tab) ==
    \A i \in DOMAIN tab :
        /\ ToSet(tab[i].pages) \subseteq bits
        /\ \A j \in DOMAIN tab \ {i} : ToSet(tab[i].pages) \cap ToSet(tab[j].pages) = {}

(* The pages of an attachment. *)
Covers(a) == a.at .. a.at + a.size - 1

(* Each attachment of a list A maps its whole segment, in order; two       *)
(* attachments share no page; and no other page is mapped.                 *)
WholeSegments(tab, m, A) ==
    \A k \in 1 .. Len(A) :
        /\ A[k].id \in DOMAIN tab /\ A[k].size = Len(tab[A[k].id].pages)
        /\ Covers(A[k]) \subseteq ShmPages
        /\ \A p \in Covers(A[k]) : m[p] = tab[A[k].id].pages[p - A[k].at + 1]
PagesApart(A) ==
    \A k, n \in 1 .. Len(A) : k # n => Covers(A[k]) \cap Covers(A[n]) = {}
NothingElse(m, A) ==
    \A p \in ShmPages : m[p] # ShmNone => \E k \in 1 .. Len(A) : p \in Covers(A[k])
MapsAttached(tab, m, A) == WholeSegments(tab, m, A) /\ PagesApart(A) /\ NothingElse(m, A)

Mapped ==
    shm_alive = ShmTasks =>
        FramesApart(bitmap, table) /\ \A t \in ShmTasks : MapsAttached(table, map[t], att[t])

(* The inductive invariant. *)
ShmInv == ShmTypes /\ Counted /\ Mapped
-----------------------------------------------------------------------------
(* A finite set of numbers has a member with k - 1 members below it, for   *)
(* every k up to its size.                                                 *)
LEMMA KthMember ==
    ASSUME NEW S \in SUBSET Nat, IsFiniteSet(S)
    PROVE  \A k \in 1 .. Cardinality(S) : \E f \in S : Cardinality({g \in S : g < f}) = k - 1
<1> DEFINE Below(f) == {g \in S : g < f}
           Bad == {k \in 1 .. Cardinality(S) : ~\E f \in S : Cardinality(Below(f)) = k - 1}
<1>1. Cardinality(S) \in Nat
  BY FS_CardinalityType
<1>2. \A f : IsFiniteSet(Below(f))
  BY FS_Subset, \A f : Below(f) \subseteq S
<1>3. SUFFICES ASSUME Bad # {} PROVE FALSE
  OBVIOUS
<1>4. Bad \in SUBSET Nat
  BY <1>1
<1>5. PICK k \in Bad : \A m \in Bad : k <= m
  BY <1>3, <1>4, LeastMember
<1>6. k \in 1 .. Cardinality(S) /\ k \in Nat
  BY <1>1
<1>7. S # {}
  BY <1>6, FS_EmptySet
<1>8. CASE k = 1
  <2>1. PICK f \in S : \A g \in S : f <= g
    BY <1>7, LeastMember
  <2>2. Below(f) = {}
    <3>1. SUFFICES ASSUME NEW g \in S, g < f PROVE FALSE
      OBVIOUS
    <3>2. g \in Nat /\ f \in Nat /\ f <= g
      BY <2>1
    <3>3. QED BY <3>1, <3>2
  <2>3. Cardinality(Below(f)) = 0
    BY <2>2, FS_EmptySet
  <2>4. k - 1 = 0
    BY <1>8
  <2>5. Cardinality(Below(f)) = k - 1
    BY <2>3, <2>4
  <2>6. QED BY <1>5, <2>1, <2>5
<1>9. CASE k # 1
  <2>1. k - 1 \in 1 .. Cardinality(S) /\ k - 1 \notin Bad
    <3>1. k - 1 \in 1 .. Cardinality(S) /\ ~(k <= k - 1)
      BY <1>1, <1>6, <1>9
    <3>2. QED BY <3>1, <1>5
  <2>2. PICK f \in S : Cardinality(Below(f)) = (k - 1) - 1
    BY <2>1 DEF Bad
  <2> DEFINE Upto == Below(f) \cup {f}
             Rest == S \ Upto
  <2>3. f \notin Below(f) /\ IsFiniteSet(Below(f)) /\ Upto \subseteq S
    <3>1. f \in Nat /\ ~(f < f)
      OBVIOUS
    <3>2. f \notin Below(f)
      BY <3>1
    <3>3. QED BY <3>2, <1>2
  <2>4. Cardinality(Upto) = k - 1 /\ IsFiniteSet(Upto)
    <3>1. IsFiniteSet(Upto) /\ Cardinality(Upto) = Cardinality(Below(f)) + 1
      BY <2>3, FS_AddElement
    <3>2. QED BY <3>1, <2>2, <1>6
  <2>5. Rest # {}
    <3>1. SUFFICES ASSUME S = Upto PROVE FALSE
      BY <2>3
    <3>2. Cardinality(S) = k - 1
      BY <3>1, <2>4
    <3>3. QED BY <3>2, <1>1, <1>6
  <2>6. PICK h \in Rest : \A g \in Rest : h <= g
    BY <2>5, LeastMember
  <2>7. Below(h) = Upto
    <3>1. f \in Nat /\ h \in Nat /\ h \in S /\ h \notin Upto /\ \A g \in S : g \in Nat
      OBVIOUS
    <3>2. f < h
      <4>1. ~(h < f) /\ h # f
        BY <3>1
      <4>2. QED BY <3>1, <4>1
    <3>3. ASSUME NEW g \in Below(h) PROVE g \in Upto
      <4>1. g \in Nat /\ g < h /\ g \in S
        BY <3>1
      <4>2. g \notin Rest
        BY <4>1, <3>1, <2>6
      <4>3. QED BY <4>1, <4>2
    <3>4. ASSUME NEW g \in Upto PROVE g \in Below(h)
      <4>1. g \in S /\ g \in Nat /\ (g < f \/ g = f)
        BY <2>3, <3>1
      <4>2. g < h
        BY <4>1, <3>1, <3>2
      <4>3. QED BY <4>1, <4>2
    <3>5. QED BY <3>3, <3>4
  <2>8. h \in S /\ Cardinality(Below(h)) = k - 1
    BY <2>4, <2>7
  <2>9. QED BY <2>8
<1>10. QED BY <1>8, <1>9

(* alloc_frame finds free frames while there are any. *)
LEMMA AllocatedShape ==
    ASSUME bitmap \subseteq ShmFrames, NEW n \in Nat, ~(Cardinality(Free) < n)
    PROVE  /\ Allocated(n) \in Seq(ShmFrames) /\ Len(Allocated(n)) = n
           /\ ToSet(Allocated(n)) \subseteq Free
<1>1. Free \in SUBSET Nat /\ Free \subseteq ShmFrames
  BY ShmAssumption DEF Free, ShmFrames
<1>2. IsFiniteSet(Free)
  <2>1. IsFiniteSet(ShmFrames)
    BY ShmAssumption, FS_Interval DEF ShmFrames
  <2>2. QED BY <1>1, <2>1, FS_Subset
<1>3. Cardinality(Free) \in Nat
  BY <1>2, FS_CardinalityType
<1>4. \A k \in 1 .. n : alloc_frame(k) \in Free
  <2>1. SUFFICES ASSUME NEW k \in 1 .. n PROVE alloc_frame(k) \in Free
    OBVIOUS
  <2>2. k \in 1 .. Cardinality(Free)
    BY <1>3
  <2>3. \E f \in Free : Cardinality({g \in Free : g < f}) = k - 1
    BY <1>1, <1>2, <2>2, KthMember
  <2>4. QED BY <2>3 DEF alloc_frame
<1>5. Allocated(n) \in [1 .. n -> Free] /\ Allocated(n) \in [1 .. n -> ShmFrames]
  BY <1>1, <1>4 DEF Allocated
<1>6. Allocated(n) \in Seq(ShmFrames) /\ Len(Allocated(n)) = n
  BY <1>5
<1>7. QED BY <1>5, <1>6 DEF ToSet

LEMMA Removed ==
    ASSUME NEW S, NEW s \in Seq(S), NEW k \in 1 .. Len(s)
    PROVE  /\ RemoveAt(s, k) \in Seq(S) /\ Len(RemoveAt(s, k)) = Len(s) - 1
           /\ \A m \in 1 .. Len(s) - 1 : RemoveAt(s, k)[m] = IF m < k THEN s[m] ELSE s[m + 1]
<1> DEFINE L == Len(s)
           a == SubSeq(s, 1, k - 1)
           b == SubSeq(s, k + 1, L)
<1>1. L \in Nat /\ k \in Nat /\ 1 <= k /\ k <= L /\ \A i \in 1 .. L : s[i] \in S
  OBVIOUS
<1>2. a \in Seq(S) /\ Len(a) = k - 1 /\ \A i \in 1 .. k - 1 : a[i] = s[i]
  BY <1>1
<1>3. b \in Seq(S) /\ Len(b) = L - k /\ \A i \in 1 .. L - k : b[i] = s[k + i]
  BY <1>1
<1>4. RemoveAt(s, k) = a \o b
  BY DEF RemoveAt
<1> HIDE DEF a, b
<1>5. /\ a \o b \in Seq(S) /\ Len(a \o b) = (k - 1) + (L - k)
      /\ \A m \in 1 .. (k - 1) + (L - k) : (a \o b)[m] = IF m <= k - 1 THEN a[m] ELSE b[m - (k - 1)]
  <2>1. /\ a \o b \in Seq(S) /\ Len(a \o b) = Len(a) + Len(b)
        /\ \A m \in 1 .. Len(a) + Len(b) : (a \o b)[m] = IF m <= Len(a) THEN a[m] ELSE b[m - Len(a)]
    BY <1>2, <1>3, ConcatProperties
  <2> HIDE DEF L
  <2>2. QED BY <2>1, <1>2, <1>3
<1> DEFINE c == a \o b
<1> HIDE DEF L, c
<1>6. ASSUME NEW m \in 1 .. L - 1 PROVE c[m] = IF m < k THEN s[m] ELSE s[m + 1]
  <2>1. m \in 1 .. (k - 1) + (L - k)
    BY <1>1
  <2>2. CASE m < k
    <3>1. m <= k - 1 /\ m \in 1 .. k - 1
      BY <2>2, <1>1
    <3>2. c[m] = a[m]
      BY <2>1, <3>1, <1>5 DEF c
    <3>3. QED BY <2>2, <3>1, <3>2, <1>2
  <2>3. CASE ~(m < k)
    <3>1. ~(m <= k - 1) /\ m - (k - 1) \in 1 .. L - k /\ k + (m - (k - 1)) = m + 1
      BY <2>3, <1>1
    <3>2. c[m] = b[m - (k - 1)]
      BY <2>1, <3>1, <1>5 DEF c
    <3>3. c[m] = s[k + (m - (k - 1))]
      BY <3>1, <3>2, <1>3
    <3>4. QED BY <2>3, <3>1, <3>3
  <2>4. QED BY <2>2, <2>3
<1>7. (k - 1) + (L - k) = L - 1
  BY <1>1
<1>8. QED BY <1>4, <1>5, <1>6, <1>7 DEF L, c
-----------------------------------------------------------------------------
LEMMA AttachmentsMember ==
    ASSUME NEW A, NEW i
    PROVE  /\ \A x \in AttachmentsIn(A, i) :
                 \E t \in ShmTasks : \E k \in 1 .. Len(A[t]) : A[t][k].id = i /\ x = <<t, k>>
           /\ \A t \in ShmTasks : \A k \in 1 .. Len(A[t]) : A[t][k].id = i => <<t, k>> \in AttachmentsIn(A, i)
           /\ \A t, k : <<t, k>> \in AttachmentsIn(A, i) => t \in ShmTasks /\ k \in 1 .. Len(A[t]) /\ A[t][k].id = i
  BY DEF AttachmentsIn

(* One attachment more is counted once, in its own segment. *)
LEMMA AttachCounts ==
    ASSUME NEW A \in [ShmTasks -> Seq(Attachment)], NEW t \in ShmTasks, NEW a \in Attachment,
           NEW i \in Nat, IsFiniteSet(AttachmentsIn(A, i)),
           NEW B, B = WithAttachment(A, t, a)
    PROVE  /\ IsFiniteSet(AttachmentsIn(B, i))
           /\ Cardinality(AttachmentsIn(B, i)) =
                 Cardinality(AttachmentsIn(A, i)) + (IF a.id = i THEN 1 ELSE 0)
<1> DEFINE n == Len(A[t])
           x == <<t, n + 1>>
<1>0. /\ \A y \in AttachmentsIn(B, i) :
            \E u \in ShmTasks : \E m \in 1 .. Len(B[u]) : B[u][m].id = i /\ y = <<u, m>>
      /\ \A u \in ShmTasks : \A m \in 1 .. Len(B[u]) : B[u][m].id = i => <<u, m>> \in AttachmentsIn(B, i)
      /\ \A u, m : <<u, m>> \in AttachmentsIn(B, i) => B[u][m].id = i
  BY ONLY AttachmentsMember
<1>1. n \in Nat /\ A[t] \in Seq(Attachment)
  OBVIOUS
<1>2. /\ B[t] = Append(A[t], a) /\ Len(B[t]) = n + 1 /\ B[t][n + 1] = a
      /\ \A k \in 1 .. n : B[t][k] = A[t][k]
      /\ \A u \in ShmTasks : u # t => B[u] = A[u]
  BY <1>1 DEF WithAttachment
<1> HIDE DEF n
<1>3. ASSUME NEW u \in ShmTasks, NEW k \in 1 .. Len(A[u])
      PROVE  k \in 1 .. Len(B[u]) /\ B[u][k] = A[u][k]
  <2>1. CASE u # t
    BY <2>1, <1>2
  <2>2. CASE u = t
    <3>1. k \in 1 .. n
      BY <2>2 DEF n
    <3>2. k \in 1 .. n + 1
      BY <3>1, <1>1
    <3>3. QED BY <2>2, <3>1, <3>2, <1>2
  <2>3. QED BY <2>1, <2>2
<1>4. ASSUME NEW u \in ShmTasks, NEW k \in 1 .. Len(B[u]), <<u, k>> # x
      PROVE  k \in 1 .. Len(A[u]) /\ B[u][k] = A[u][k]
  <2>1. CASE u # t
    BY <2>1, <1>2
  <2>2. CASE u = t
    <3>1. k # n + 1 /\ k \in 1 .. n + 1
      BY <1>4, <2>2, <1>2
    <3>2. k \in 1 .. n
      BY <3>1, <1>1
    <3>3. QED BY <2>2, <3>2, <1>2 DEF n
  <2>3. QED BY <2>1, <2>2
<1>5. x \notin AttachmentsIn(A, i)
  <2>1. ~(n + 1 \in 1 .. n)
    BY <1>1
  <2>2. QED BY <2>1, AttachmentsMember DEF n
<1>6. AttachmentsIn(A, i) \subseteq AttachmentsIn(B, i)
  <2>1. SUFFICES ASSUME NEW y \in AttachmentsIn(A, i) PROVE y \in AttachmentsIn(B, i)
    OBVIOUS
  <2>2. PICK u \in ShmTasks : \E k \in 1 .. Len(A[u]) : A[u][k].id = i /\ y = <<u, k>>
    BY AttachmentsMember
  <2>3. PICK k \in 1 .. Len(A[u]) : A[u][k].id = i /\ y = <<u, k>>
    BY <2>2
  <2>4. QED BY <1>3, <2>3, <1>0
<1>7. AttachmentsIn(B, i) \subseteq AttachmentsIn(A, i) \cup {x}
  <2>1. SUFFICES ASSUME NEW y \in AttachmentsIn(B, i), y # x PROVE y \in AttachmentsIn(A, i)
    OBVIOUS
  <2>2. PICK u \in ShmTasks : \E k \in 1 .. Len(B[u]) : B[u][k].id = i /\ y = <<u, k>>
    BY <1>0
  <2>3. PICK k \in 1 .. Len(B[u]) : B[u][k].id = i /\ y = <<u, k>>
    BY <2>2
  <2>4. QED BY <1>4, <2>1, <2>3, AttachmentsMember
<1>8. x \in AttachmentsIn(B, i) <=> a.id = i
  <2>1. n + 1 \in 1 .. Len(B[t])
    BY <1>1, <1>2
  <2>2. a.id = i => x \in AttachmentsIn(B, i)
    BY <2>1, <1>2, <1>0
  <2>3. x \in AttachmentsIn(B, i) => a.id = i
    BY <1>2, <1>0
  <2>4. QED BY <2>2, <2>3
<1>9. CASE a.id = i
  <2>1. AttachmentsIn(B, i) = AttachmentsIn(A, i) \cup {x}
    BY <1>6, <1>7, <1>8, <1>9
  <2>2. /\ IsFiniteSet(AttachmentsIn(A, i) \cup {x})
        /\ Cardinality(AttachmentsIn(A, i) \cup {x}) = Cardinality(AttachmentsIn(A, i)) + 1
    BY <1>5, FS_AddElement
  <2>3. QED BY <1>9, <2>1, <2>2
<1>10. CASE a.id # i
  <2>1. AttachmentsIn(B, i) = AttachmentsIn(A, i)
    BY <1>6, <1>7, <1>8, <1>10
  <2>2. QED BY <1>10, <2>1, FS_CardinalityType
<1>11. QED BY <1>9, <1>10

(* Where an attachment goes when the k-th one of task t is removed. *)
Moves(t, k, x) == IF x[1] = t /\ x[2] > k THEN <<t, x[2] - 1>> ELSE x

(* One attachment less is counted down once, in its own segment. *)
LEMMA DetachCounts ==
    ASSUME NEW A \in [ShmTasks -> Seq(Attachment)], NEW t \in ShmTasks, NEW k \in 1 .. Len(A[t]),
           NEW i \in Nat, IsFiniteSet(AttachmentsIn(A, i)),
           NEW B, B = LessAttachment(A, t, k)
    PROVE  /\ IsFiniteSet(AttachmentsIn(B, i))
           /\ Cardinality(AttachmentsIn(B, i)) =
                 Cardinality(AttachmentsIn(A, i)) - (IF A[t][k].id = i THEN 1 ELSE 0)
<1> DEFINE n == Len(A[t])
           Old == AttachmentsIn(A, i) \ {<<t, k>>}
           Rest == AttachmentsIn(B, i)
           f == [x \in Old |-> Moves(t, k, x)]
<1>0. /\ \A y \in AttachmentsIn(B, i) :
            \E u \in ShmTasks : \E m \in 1 .. Len(B[u]) : B[u][m].id = i /\ y = <<u, m>>
      /\ \A u \in ShmTasks : \A m \in 1 .. Len(B[u]) : B[u][m].id = i => <<u, m>> \in AttachmentsIn(B, i)
      /\ \A u, m : <<u, m>> \in AttachmentsIn(B, i) => B[u][m].id = i
  BY ONLY AttachmentsMember
<1>1. n \in Nat /\ A[t] \in Seq(Attachment) /\ k \in Nat /\ 1 <= k /\ k <= n
  OBVIOUS
<1>2. /\ Len(B[t]) = n - 1
      /\ \A m \in 1 .. n - 1 : B[t][m] = IF m < k THEN A[t][m] ELSE A[t][m + 1]
      /\ \A u \in ShmTasks : u # t => B[u] = A[u]
  BY <1>1, Removed DEF LessAttachment
<1> HIDE DEF n, Old, Rest, f
<1>3. ASSUME NEW x \in Old
      PROVE  \E u \in ShmTasks : \E m \in 1 .. Len(A[u]) :
                A[u][m].id = i /\ x = <<u, m>> /\ m \in Nat /\ ~(u = t /\ m = k)
  <2>1. x \in AttachmentsIn(A, i) /\ x # <<t, k>>
    BY DEF Old
  <2>2. PICK u \in ShmTasks : \E m \in 1 .. Len(A[u]) : A[u][m].id = i /\ x = <<u, m>>
    BY <2>1, AttachmentsMember
  <2>3. PICK m \in 1 .. Len(A[u]) : A[u][m].id = i /\ x = <<u, m>>
    BY <2>2
  <2>4. m \in Nat
    OBVIOUS
  <2>5. QED BY <2>1, <2>3, <2>4
<1>4. ASSUME NEW u \in ShmTasks, NEW m \in Nat, u = t => m # k
      PROVE  /\ (u = t /\ m > k) => Moves(t, k, <<u, m>>) = <<t, m - 1>>
             /\ ~(u = t /\ m > k) => Moves(t, k, <<u, m>>) = <<u, m>>
  <2>1. <<u, m>>[1] = u /\ <<u, m>>[2] = m
    OBVIOUS
  <2>2. QED BY <2>1 DEF Moves
<1>5. ASSUME NEW x \in Old PROVE Moves(t, k, x) \in Rest
  <2>1. PICK u \in ShmTasks : \E m \in 1 .. Len(A[u]) :
              A[u][m].id = i /\ x = <<u, m>> /\ m \in Nat /\ ~(u = t /\ m = k)
    BY <1>3
  <2>2. PICK m \in 1 .. Len(A[u]) : A[u][m].id = i /\ x = <<u, m>> /\ m \in Nat /\ ~(u = t /\ m = k)
    BY <2>1
  <2>3. CASE u = t /\ m > k
    <3>1. m - 1 \in 1 .. n - 1 /\ ~(m - 1 < k) /\ (m - 1) + 1 = m
      BY <1>1, <2>2, <2>3 DEF n
    <3>2. B[t][m - 1] = A[t][m] /\ m - 1 \in 1 .. Len(B[t])
      BY <3>1, <1>2
    <3>3. <<t, m - 1>> \in Rest
      BY <3>2, <2>2, <2>3, <1>0 DEF Rest
    <3>4. QED BY <3>3, <2>2, <2>3, <1>4
  <2>4. CASE u = t /\ ~(m > k)
    <3>1. m \in 1 .. n - 1 /\ m < k
      BY <1>1, <2>2, <2>4 DEF n
    <3>2. B[t][m] = A[t][m] /\ m \in 1 .. Len(B[t])
      BY <3>1, <1>2
    <3>3. <<t, m>> \in Rest
      BY <3>2, <2>2, <2>4, <1>0 DEF Rest
    <3>4. QED BY <3>3, <2>2, <2>4, <1>4
  <2>5. CASE u # t
    <3>1. <<u, m>> \in Rest
      BY <2>2, <2>5, <1>2, <1>0 DEF Rest
    <3>2. QED BY <3>1, <2>2, <2>5, <1>4
  <2>6. QED BY <2>3, <2>4, <2>5
<1>6. ASSUME NEW x \in Old, NEW y \in Old, Moves(t, k, x) = Moves(t, k, y) PROVE x = y
  <2>1. PICK u \in ShmTasks, m \in Nat : x = <<u, m>> /\ ~(u = t /\ m = k)
    BY <1>3
  <2>2. PICK v \in ShmTasks, j \in Nat : y = <<v, j>> /\ ~(v = t /\ j = k)
    BY <1>3
  <2>3. CASE (u = t /\ m > k) /\ (v = t /\ j > k)
    <3>1. <<t, m - 1>> = <<t, j - 1>>
      BY <1>4, <1>6, <2>1, <2>2, <2>3
    <3>2. m = j
      BY <3>1
    <3>3. QED BY <3>2, <2>1, <2>2, <2>3
  <2>4. CASE ~(u = t /\ m > k) /\ ~(v = t /\ j > k)
    BY <1>4, <1>6, <2>1, <2>2, <2>4
  <2>5. CASE (u = t /\ m > k) /\ ~(v = t /\ j > k)
    <3>1. <<t, m - 1>> = <<v, j>>
      BY <1>4, <1>6, <2>1, <2>2, <2>5
    <3>2. v = t /\ m - 1 = j
      BY <3>1
    <3>3. QED BY <3>2, <2>2, <2>5, <1>1
  <2>6. CASE ~(u = t /\ m > k) /\ (v = t /\ j > k)
    <3>1. <<u, m>> = <<t, j - 1>>
      BY <1>4, <1>6, <2>1, <2>2, <2>6
    <3>2. u = t /\ m = j - 1
      BY <3>1
    <3>3. QED BY <3>2, <2>1, <2>6, <1>1
  <2>7. QED BY <2>3, <2>4, <2>5, <2>6
<1>7. ASSUME NEW y \in Rest PROVE \E x \in Old : Moves(t, k, x) = y
  <2>1. PICK u \in ShmTasks : \E m \in 1 .. Len(B[u]) : B[u][m].id = i /\ y = <<u, m>>
    BY <1>0 DEF Rest
  <2>2. PICK m \in 1 .. Len(B[u]) : B[u][m].id = i /\ y = <<u, m>>
    BY <2>1
  <2>3. CASE u = t /\ ~(m < k)
    <3>1. /\ m \in 1 .. n - 1 /\ m + 1 \in 1 .. n /\ m + 1 > k /\ (m + 1) - 1 = m
          /\ m + 1 # k /\ m + 1 \in Nat
      BY <1>1, <1>2, <2>2, <2>3
    <3>2. A[t][m + 1].id = i
      BY <3>1, <1>2, <2>2, <2>3
    <3>3. <<t, m + 1>> \in Old
      BY <3>1, <3>2, AttachmentsMember DEF n, Old
    <3>4. Moves(t, k, <<t, m + 1>>) = <<t, m>>
      BY <3>1, <1>4
    <3>5. QED BY <3>3, <3>4, <2>2, <2>3
  <2>4. CASE u = t /\ m < k
    <3>1. m \in 1 .. n - 1 /\ m \in 1 .. n /\ ~(m > k) /\ m # k /\ m \in Nat
      BY <1>1, <1>2, <2>2, <2>4
    <3>2. A[t][m].id = i
      BY <3>1, <1>2, <2>2, <2>4
    <3>3. <<t, m>> \in Old
      BY <3>1, <3>2, AttachmentsMember DEF n, Old
    <3>4. Moves(t, k, <<t, m>>) = <<t, m>>
      BY <3>1, <1>4
    <3>5. QED BY <3>3, <3>4, <2>2, <2>4
  <2>5. CASE u # t
    <3>1. <<u, m>> \in Old /\ m \in Nat
      BY <1>2, <2>2, <2>5, AttachmentsMember DEF Old
    <3>2. Moves(t, k, <<u, m>>) = <<u, m>>
      BY <3>1, <2>5, <1>4
    <3>3. QED BY <3>1, <3>2, <2>2
  <2>6. QED BY <2>3, <2>4, <2>5
<1>8. f \in Bijection(Old, Rest)
  <2>1. f \in [Old -> Rest] /\ \A x \in Old : f[x] = Moves(t, k, x)
    BY <1>5 DEF f
  <2>2. \A x, y \in Old : f[x] = f[y] => x = y
    BY <2>1, <1>6
  <2>3. \A y \in Rest : \E x \in Old : f[x] = y
    BY <2>1, <1>7
  <2>4. QED BY <2>1, <2>2, <2>3, Fun_IsBij
<1>9. /\ IsFiniteSet(Old)
      /\ Cardinality(Old) = Cardinality(AttachmentsIn(A, i)) - (IF A[t][k].id = i THEN 1 ELSE 0)
  <2>1. <<t, k>> \in AttachmentsIn(A, i) <=> A[t][k].id = i
    BY AttachmentsMember
  <2>2. Cardinality(AttachmentsIn(A, i)) \in Nat
    BY FS_CardinalityType
  <2>3. /\ IsFiniteSet(Old)
        /\ Cardinality(Old) = IF <<t, k>> \in AttachmentsIn(A, i)
                              THEN Cardinality(AttachmentsIn(A, i)) - 1
                              ELSE Cardinality(AttachmentsIn(A, i))
    BY FS_RemoveElement DEF Old
  <2>4. QED BY <2>1, <2>2, <2>3
<1>10. IsFiniteSet(Rest) /\ Cardinality(Rest) = Cardinality(Old)
  BY <1>8, <1>9, FS_Bijection DEF ExistsBijection
<1>11. QED BY <1>9, <1>10 DEF Rest
-----------------------------------------------------------------------------
(* Attaching at unmapped pages maps one whole segment more. *)
LEMMA AttachMaps ==
    ASSUME NEW tab, \A j \in DOMAIN tab : tab[j].pages \in Seq(ShmFrames),
           NEW m \in [ShmPages -> Page], NEW A \in Seq(Attachment), MapsAttached(tab, m, A),
           NEW i \in DOMAIN tab, NEW at \in ShmPages, NEW size \in Nat, size = Len(tab[i].pages),
           at + size - 1 <= NumPages, \A p \in at .. at + size - 1 : m[p] = ShmNone,
           NEW a \in Attachment, a.id = i, a.at = at, a.size = size,
           NEW m2, m2 = WithPages(m, at, tab[i].pages),
           NEW B, B = Append(A, a)
    PROVE  MapsAttached(tab, m2, B)
<1> DEFINE n == Len(A)
<1>1. /\ n \in Nat /\ Len(B) = n + 1 /\ B[n + 1] = a
      /\ \A k \in 1 .. n : B[k] = A[k] /\ A[k] \in Attachment
  OBVIOUS
<1> HIDE DEF n
<1>2. Covers(a) = at .. at + size - 1 /\ at \in Nat /\ 1 <= at
  BY ShmAssumption DEF Covers, ShmPages
<1>3. Covers(a) \subseteq ShmPages
  BY <1>2, ShmAssumption DEF ShmPages
<1>4. /\ \A p \in Covers(a) : m2[p] = tab[i].pages[p - at + 1] /\ m[p] = ShmNone
      /\ \A p \in ShmPages \ Covers(a) : m2[p] = m[p]
  BY <1>2, <1>3 DEF WithPages
<1>5. ASSUME NEW k \in 1 .. n
      PROVE  /\ A[k].id \in DOMAIN tab /\ A[k].size = Len(tab[A[k].id].pages)
             /\ Covers(A[k]) \subseteq ShmPages
             /\ \A p \in Covers(A[k]) : m[p] = tab[A[k].id].pages[p - A[k].at + 1]
  BY DEF MapsAttached, WholeSegments, n
<1>6. ASSUME NEW k \in 1 .. n, NEW p \in Covers(A[k]) PROVE m[p] # ShmNone /\ p \notin Covers(a)
  <2>1. m[p] = tab[A[k].id].pages[p - A[k].at + 1] /\ A[k].id \in DOMAIN tab /\ A[k].size = Len(tab[A[k].id].pages)
    BY <1>5
  <2>2. A[k].at \in Nat /\ A[k].size \in Nat
    <3>1. A[k] \in Attachment
      BY <1>1
    <3>2. A[k].at \in ShmPages /\ A[k].size \in Nat
      BY <3>1 DEF Attachment
    <3>3. QED BY <3>2, ShmAssumption DEF ShmPages
  <2>3. p - A[k].at + 1 \in 1 .. A[k].size
    <3>1. p \in A[k].at .. A[k].at + A[k].size - 1
      BY DEF Covers
    <3>2. ASSUME NEW u \in Nat, NEW z \in Nat, p \in u .. u + z - 1 PROVE p - u + 1 \in 1 .. z
      BY <3>2
    <3>3. QED BY <2>2, <3>1, <3>2
  <2>4. m[p] \in ShmFrames
    BY <2>1, <2>3
  <2>5. m[p] # ShmNone
    BY <2>4, ShmAssumption DEF ShmFrames, ShmNone
  <2>6. QED BY <2>5, <1>4
<1> HIDE DEF MapsAttached
<1>7. \A k \in 1 .. n + 1 : k \in 1 .. n \/ k = n + 1
  BY <1>1
<1>8. WholeSegments(tab, m2, B)
  <2>1. SUFFICES ASSUME NEW k \in 1 .. n + 1
                 PROVE  /\ B[k].id \in DOMAIN tab /\ B[k].size = Len(tab[B[k].id].pages)
                        /\ Covers(B[k]) \subseteq ShmPages
                        /\ \A p \in Covers(B[k]) : m2[p] = tab[B[k].id].pages[p - B[k].at + 1]
    BY <1>1 DEF WholeSegments
  <2>2. CASE k = n + 1
    <3>1. PICK c : c = B[k] /\ c = a
      BY <2>2, <1>1
    <3>2. /\ c.id \in DOMAIN tab /\ c.size = Len(tab[c.id].pages)
          /\ Covers(c) \subseteq ShmPages
          /\ \A p \in Covers(c) : m2[p] = tab[c.id].pages[p - c.at + 1]
      BY <3>1, <1>3, <1>4
    <3>3. QED BY <3>1, <3>2
  <2>3. CASE k \in 1 .. n
    <3>1. \A p \in Covers(A[k]) : m2[p] = m[p]
      BY <2>3, <1>4, <1>5, <1>6
    <3>2. PICK c : c = B[k] /\ c = A[k]
      BY <2>3, <1>1
    <3>3. /\ c.id \in DOMAIN tab /\ c.size = Len(tab[c.id].pages)
          /\ Covers(c) \subseteq ShmPages
          /\ \A p \in Covers(c) : m2[p] = tab[c.id].pages[p - c.at + 1]
      BY <2>3, <3>1, <3>2, <1>5
    <3>4. QED BY <3>2, <3>3
  <2>4. QED BY <2>2, <2>3, <1>7
<1>9. PagesApart(B)
  <2>1. SUFFICES ASSUME NEW k \in 1 .. n + 1, NEW j \in 1 .. n + 1, k # j
                 PROVE  Covers(B[k]) \cap Covers(B[j]) = {}
    BY <1>1 DEF PagesApart
  <2>2. CASE k \in 1 .. n /\ j \in 1 .. n
    BY <2>1, <2>2, <1>1 DEF MapsAttached, PagesApart, n
  <2>3. CASE k = n + 1 /\ j \in 1 .. n
    BY <2>3, <1>1, <1>6
  <2>4. CASE k \in 1 .. n /\ j = n + 1
    BY <2>4, <1>1, <1>6
  <2>5. QED BY <2>1, <2>2, <2>3, <2>4, <1>7
<1>10. NothingElse(m2, B)
  <2>1. SUFFICES ASSUME NEW p \in ShmPages, m2[p] # ShmNone
                 PROVE  \E k \in 1 .. n + 1 : p \in Covers(B[k])
    BY <1>1 DEF NothingElse
  <2>2. CASE p \in Covers(a)
    <3>1. n + 1 \in 1 .. n + 1
      BY <1>1
    <3>2. QED BY <2>2, <3>1, <1>1
  <2>3. CASE p \notin Covers(a)
    <3>1. m[p] # ShmNone
      BY <2>1, <2>3, <1>4
    <3>2. PICK k \in 1 .. n : p \in Covers(A[k])
      BY <3>1 DEF MapsAttached, NothingElse, n
    <3>3. k \in 1 .. n + 1
      BY <1>1
    <3>4. QED BY <3>2, <3>3, <1>1
  <2>4. QED BY <2>2, <2>3
<1>11. QED BY <1>8, <1>9, <1>10 DEF MapsAttached

(* Detaching unmaps the pages of one attachment and leaves the others. *)
LEMMA DetachUnmaps ==
    ASSUME NEW tab, NEW m \in [ShmPages -> Page], NEW A \in Seq(Attachment), MapsAttached(tab, m, A),
           NEW x \in 1 .. Len(A),
           NEW m2, m2 = [p \in ShmPages |-> IF p \in Covers(A[x]) THEN ShmNone ELSE m[p]],
           NEW B, B = RemoveAt(A, x)
    PROVE  MapsAttached(tab, m2, B)
<1> DEFINE n == Len(A)
           Was(k) == IF k < x THEN k ELSE k + 1
<1>1. n \in Nat /\ x \in Nat /\ 1 <= x /\ x <= n
  OBVIOUS
<1>2. Len(B) = n - 1 /\ \A k \in 1 .. n - 1 : B[k] = A[Was(k)]
  <2>1. Len(B) = n - 1 /\ \A k \in 1 .. n - 1 : B[k] = IF k < x THEN A[k] ELSE A[k + 1]
    BY Removed
  <2>2. QED BY <2>1
<1> HIDE DEF n
<1>3. \A k \in 1 .. n - 1 : Was(k) \in 1 .. n /\ Was(k) # x
  BY <1>1
<1>4. \A k, j \in 1 .. n - 1 : k # j => Was(k) # Was(j)
  BY <1>1
<1>5. \A k \in 1 .. n : k # x => \E j \in 1 .. n - 1 : Was(j) = k
  <2>1. SUFFICES ASSUME NEW k \in 1 .. n, k # x PROVE \E j \in 1 .. n - 1 : Was(j) = k
    OBVIOUS
  <2>2. CASE k < x
    <3>1. k \in 1 .. n - 1 /\ Was(k) = k
      BY <1>1, <2>2
    <3>2. QED BY <3>1
  <2>3. CASE ~(k < x)
    <3>1. k - 1 \in 1 .. n - 1 /\ Was(k - 1) = k
      BY <1>1, <2>1, <2>3
    <3>2. QED BY <3>1
  <2>4. QED BY <2>2, <2>3
<1> HIDE DEF Was
<1>6. \A k, j \in 1 .. n : k # j => Covers(A[k]) \cap Covers(A[j]) = {}
  BY DEF MapsAttached, PagesApart, n
<1>7. WholeSegments(tab, m2, B)
  <2>1. SUFFICES ASSUME NEW k \in 1 .. n - 1
                 PROVE  /\ B[k].id \in DOMAIN tab /\ B[k].size = Len(tab[B[k].id].pages)
                        /\ Covers(B[k]) \subseteq ShmPages
                        /\ \A p \in Covers(B[k]) : m2[p] = tab[B[k].id].pages[p - B[k].at + 1]
    BY <1>2 DEF WholeSegments
  <2>2. PICK j \in 1 .. n : j # x /\ B[k] = A[j]
    BY <1>2, <1>3
  <2>3. /\ A[j].id \in DOMAIN tab /\ A[j].size = Len(tab[A[j].id].pages)
        /\ Covers(A[j]) \subseteq ShmPages
        /\ \A p \in Covers(A[j]) : m[p] = tab[A[j].id].pages[p - A[j].at + 1]
    BY DEF MapsAttached, WholeSegments, n
  <2>4. \A p \in Covers(A[j]) : m2[p] = m[p]
    BY <2>2, <2>3, <1>6 DEF n
  <2>5. QED BY <2>2, <2>3, <2>4
<1>8. PagesApart(B)
  <2>1. SUFFICES ASSUME NEW k \in 1 .. n - 1, NEW j \in 1 .. n - 1, k # j
                 PROVE  Covers(B[k]) \cap Covers(B[j]) = {}
    BY <1>2 DEF PagesApart
  <2>2. B[k] = A[Was(k)] /\ B[j] = A[Was(j)]
    BY <1>2
  <2>3. Covers(A[Was(k)]) \cap Covers(A[Was(j)]) = {}
    BY <2>1, <1>3, <1>4, <1>6
  <2>4. QED BY <2>2, <2>3
<1>9. NothingElse(m2, B)
  <2>1. SUFFICES ASSUME NEW p \in ShmPages, m2[p] # ShmNone
                 PROVE  \E k \in 1 .. n - 1 : p \in Covers(B[k])
    BY <1>2 DEF NothingElse
  <2>2. p \notin Covers(A[x]) /\ m[p] # ShmNone
    BY <2>1
  <2>3. PICK k \in 1 .. n : p \in Covers(A[k])
    BY <2>2 DEF MapsAttached, NothingElse, n
  <2>4. k # x
    BY <2>2, <2>3
  <2>5. QED BY <2>3, <2>4, <1>2, <1>5
<1>10. QED BY <1>7, <1>8, <1>9 DEF MapsAttached

(* Only the pages of the segments a task has attached matter to it. *)
LEMMA SamePagesMap ==
    ASSUME NEW tab, NEW tab2, NEW m, NEW A, MapsAttached(tab, m, A),
           \A k \in 1 .. Len(A) : A[k].id \in DOMAIN tab =>
               A[k].id \in DOMAIN tab2 /\ tab2[A[k].id].pages = tab[A[k].id].pages
    PROVE  MapsAttached(tab2, m, A)
<1>1. WholeSegments(tab2, m, A)
  BY DEF MapsAttached, WholeSegments
<1>2. QED BY <1>1 DEF MapsAttached
-----------------------------------------------------------------------------
(* The parts of the invariant that the table takes part in, of a table, a  *)
(* bitmap, page tables and attachment lists.                               *)
TableOK(tab, n) ==
    DOMAIN tab \subseteq 1 .. n - 1 /\ \A i \in DOMAIN tab : tab[i] \in Segment
CountsCover(tab, A, all) ==
    \A i \in DOMAIN tab :
        /\ tab[i].refcount >= Cardinality(AttachmentsIn(A, i))
        /\ all => tab[i].refcount = Cardinality(AttachmentsIn(A, i))
MapsAll(bits, tab, M, A) ==
    FramesApart(bits, tab) /\ \A t \in ShmTasks : MapsAttached(tab, M[t], A[t])

Parts ==
    /\ bitmap \subseteq ShmFrames /\ nextId \in 1 .. MaxId + 1
    /\ TableOK(table, nextId)
    /\ map \in [ShmTasks -> [ShmPages -> Page]]
    /\ shm_alive \subseteq ShmTasks /\ shm_panicked \in BOOLEAN
    /\ att \in [ShmTasks -> Seq(Attachment)]
    /\ \A t \in ShmTasks : \A k \in 1 .. Len(att[t]) : att[t][k].id < nextId
    /\ \A i \in Nat : IsFiniteSet(AttachmentsIn(att, i))
    /\ CountsCover(table, att, shm_alive = ShmTasks)
    /\ shm_alive = ShmTasks => MapsAll(bitmap, table, map, att)

LEMMA InvParts == ShmInv <=> Parts
<1>1. \A i : Attachments(i) = AttachmentsIn(att, i)
  BY DEF Attachments, AttachmentsIn
<1>2. ShmTypeOK <=> /\ bitmap \subseteq ShmFrames /\ nextId \in 1 .. MaxId + 1
                    /\ TableOK(table, nextId)
                    /\ map \in [ShmTasks -> [ShmPages -> Page]]
                    /\ shm_alive \subseteq ShmTasks /\ shm_panicked \in BOOLEAN
  BY DEF ShmTypeOK, TableOK, Page
<1>3. RefcountCovers <=> CountsCover(table, att, shm_alive = ShmTasks)
  BY <1>1 DEF RefcountCovers, CountsCover
<1>4. Mapped <=> (shm_alive = ShmTasks => MapsAll(bitmap, table, map, att))
  BY DEF Mapped, MapsAll
<1>5. QED BY <1>1, <1>2, <1>3, <1>4 DEF ShmInv, ShmTypes, Counted, Parts

LEMMA InvPartsNext == ShmInv' <=> Parts'
  BY InvParts, PTL

(* Freeing a segment that nobody has attached harms nobody. *)
LEMMA SettledTable ==
    ASSUME bitmap \subseteq ShmFrames, shm_panicked \in BOOLEAN,
           NEW n, NEW tab, TableOK(tab, n), NEW i \in DOMAIN tab, Settles(tab, i),
           NEW A \in [ShmTasks -> Seq(Attachment)], NEW M, NEW all \in BOOLEAN,
           IsFiniteSet(AttachmentsIn(A, i)), CountsCover(tab, A, all),
           all => MapsAll(bitmap, tab, M, A)
    PROVE  /\ bitmap' \subseteq ShmFrames /\ shm_panicked' \in BOOLEAN
           /\ TableOK(table', n) /\ CountsCover(table', A, all)
           /\ all => MapsAll(bitmap', table', M, A)
<1>1. CASE ~Released(tab, i)
  <2>1. table' = tab /\ bitmap' = bitmap /\ shm_panicked' = shm_panicked
    BY <1>1 DEF Settles
  <2>2. QED BY <2>1
<1>2. CASE Released(tab, i)
  <2>1. /\ table' = Without(tab, i) /\ bitmap' = bitmap \ ToSet(tab[i].pages)
        /\ shm_panicked' \in BOOLEAN
    BY <1>2 DEF Settles, FreesAll
  <2>2. DOMAIN table' = DOMAIN tab \ {i} /\ \A j \in DOMAIN table' : table'[j] = tab[j]
    BY <2>1 DEF Without
  <2>3. bitmap' \subseteq ShmFrames
    BY <2>1
  <2>4. TableOK(table', n)
    BY <2>2 DEF TableOK
  <2>5. CountsCover(table', A, all)
    BY <2>2 DEF CountsCover
  <2>6. AttachmentsIn(A, i) = {}
    <3>1. Cardinality(AttachmentsIn(A, i)) \in Nat
      BY FS_CardinalityType
    <3>2. tab[i].refcount >= Cardinality(AttachmentsIn(A, i)) /\ tab[i].refcount = 0
      BY <1>2 DEF CountsCover, Released
    <3>3. Cardinality(AttachmentsIn(A, i)) = 0
      BY <3>1, <3>2
    <3>4. QED BY <3>3, FS_EmptySet
  <2>7. ASSUME all PROVE MapsAll(bitmap', table', M, A)
    <3>1. FramesApart(bitmap, tab) /\ \A t \in ShmTasks : MapsAttached(tab, M[t], A[t])
      BY <2>7 DEF MapsAll
    <3>2. FramesApart(bitmap', table')
      <4>1. SUFFICES ASSUME NEW j \in DOMAIN table'
                     PROVE  /\ ToSet(table'[j].pages) \subseteq bitmap'
                            /\ \A h \in DOMAIN table' \ {j} :
                                  ToSet(table'[j].pages) \cap ToSet(table'[h].pages) = {}
        BY DEF FramesApart
      <4>2. j \in DOMAIN tab /\ j # i /\ table'[j] = tab[j]
        BY <2>2
      <4>3. ToSet(tab[j].pages) \subseteq bitmap /\ ToSet(tab[j].pages) \cap ToSet(tab[i].pages) = {}
        BY <3>1, <4>2 DEF FramesApart
      <4>4. ToSet(table'[j].pages) \subseteq bitmap'
        BY <4>2, <4>3, <2>1
      <4>5. ASSUME NEW h \in DOMAIN table' \ {j}
            PROVE  ToSet(table'[j].pages) \cap ToSet(table'[h].pages) = {}
        <5>1. h \in DOMAIN tab \ {j} /\ table'[h] = tab[h]
          BY <2>2
        <5>2. QED BY <5>1, <4>2, <3>1 DEF FramesApart
      <4>6. QED BY <4>4, <4>5
    <3>3. ASSUME NEW t \in ShmTasks PROVE MapsAttached(table', M[t], A[t])
      <4>1. \A k \in 1 .. Len(A[t]) : A[t][k].id # i
        BY <2>6, AttachmentsMember
      <4>2. \A k \in 1 .. Len(A[t]) : A[t][k].id \in DOMAIN tab =>
               A[t][k].id \in DOMAIN table' /\ table'[A[t][k].id].pages = tab[A[t][k].id].pages
        BY <4>1, <2>2
      <4>3. QED BY <3>1, <4>2, SamePagesMap
    <3>4. QED BY <3>2, <3>3 DEF MapsAll
  <2>8. QED BY <2>1, <2>3, <2>4, <2>5, <2>7
<1>3. QED BY <1>1, <1>2

(* shmctl(IPC_RMID). *)
LEMMA RemovalStep ==
    ASSUME ShmInv, NEW i \in DOMAIN table, shm_mark_removal(i)
    PROVE  ShmInv'
<1> DEFINE tab == [table EXCEPT ![i].marked = TRUE]
<1>1. /\ Settles(tab, i) /\ nextId' = nextId /\ map' = map /\ att' = att /\ shm_alive' = shm_alive
  BY DEF shm_mark_removal
<1>2. /\ DOMAIN tab = DOMAIN table
      /\ \A j \in DOMAIN table : tab[j].pages = table[j].pages /\ tab[j].refcount = table[j].refcount
      /\ \A j \in DOMAIN table : tab[j] \in Segment
  <2>1. table[i] \in Segment /\ \A j \in DOMAIN table : table[j] \in Segment
    BY InvParts DEF Parts, TableOK
  <2>2. tab[i] = [table[i] EXCEPT !.marked = TRUE] /\ \A j \in DOMAIN table \ {i} : tab[j] = table[j]
    OBVIOUS
  <2>3. tab[i] \in Segment /\ tab[i].pages = table[i].pages /\ tab[i].refcount = table[i].refcount
    BY <2>1, <2>2 DEF Segment
  <2>4. QED BY <2>1, <2>2, <2>3
<1> HIDE DEF tab
<1>3. TableOK(tab, nextId) /\ CountsCover(tab, att, shm_alive = ShmTasks)
  BY <1>2, InvParts DEF Parts, TableOK, CountsCover
<1>4. ASSUME shm_alive = ShmTasks PROVE MapsAll(bitmap, tab, map, att)
  <2>1. FramesApart(bitmap, table) /\ \A t \in ShmTasks : MapsAttached(table, map[t], att[t])
    BY <1>4, InvParts DEF Parts, MapsAll
  <2>2. FramesApart(bitmap, tab)
    BY <1>2, <2>1 DEF FramesApart
  <2>3. \A t \in ShmTasks : MapsAttached(tab, map[t], att[t])
    BY <1>2, <2>1, SamePagesMap
  <2>4. QED BY <2>2, <2>3 DEF MapsAll
<1>5. i \in DOMAIN tab /\ i \in Nat
  BY <1>2, InvParts DEF Parts, TableOK
<1>6. /\ bitmap' \subseteq ShmFrames /\ shm_panicked' \in BOOLEAN
      /\ TableOK(table', nextId) /\ CountsCover(table', att, shm_alive = ShmTasks)
      /\ shm_alive = ShmTasks => MapsAll(bitmap', table', map, att)
  BY <1>1, <1>3, <1>4, <1>5, InvParts, SettledTable DEF Parts
<1>7. QED BY <1>1, <1>6, InvParts, InvPartsNext DEF Parts

LEMMA SegmentRefcount ==
    ASSUME NEW r \in Segment, NEW c \in Nat, NEW q, q = [r EXCEPT !.refcount = c]
    PROVE  q \in Segment /\ q.pages = r.pages /\ q.refcount = c
  BY DEF Segment

LEMMA AttachmentNamed ==
    ASSUME NEW A \in Seq(Attachment), NEW k \in 1 .. Len(A)
    PROVE  A[k] \in Attachment /\ A[k].id \in Nat
<1>1. A[k] \in Attachment
  OBVIOUS
<1>2. QED BY <1>1 DEF Attachment

LEMMA GetStep ==
    ASSUME ShmInv, NEW t \in ShmTasks, NEW key \in ShmKeys, NEW size \in 1 .. MaxSize,
           NEW create \in BOOLEAN, shmget(t, key, size, create)
    PROVE  ShmInv'
<1> USE InvParts, InvPartsNext DEF Parts
<1>1. map' = map /\ att' = att /\ shm_alive' = shm_alive /\ shm_panicked' = shm_panicked /\ nextId <= MaxId
  BY DEF shmget
<1>2. nextId \in Nat /\ MaxId \in Nat /\ size \in Nat
  BY ShmAssumption
<1>3. CASE Cardinality(Free) < size
  <2>1. bitmap' = ShmFrames /\ table' = table /\ nextId' = nextId
    BY <1>3 DEF shmget
  <2>2. ASSUME shm_alive = ShmTasks PROVE MapsAll(bitmap', table, map, att)
    <3>1. MapsAll(bitmap, table, map, att) /\ bitmap \subseteq bitmap'
      BY <2>1, <2>2
    <3>2. QED BY <3>1 DEF MapsAll, FramesApart
  <2>3. QED BY <1>1, <2>1, <2>2
<1>4. CASE ~(Cardinality(Free) < size)
  <2> DEFINE new == [key |-> key, refcount |-> 0, pages |-> Allocated(size), marked |-> FALSE]
             fs == ToSet(Allocated(size))
  <2>1. /\ bitmap' = bitmap \cup fs /\ nextId' = nextId + 1
        /\ table' = [i \in DOMAIN table \cup {nextId} |-> IF i = nextId THEN new ELSE table[i]]
    BY <1>4 DEF shmget
  <2>2. DOMAIN table \subseteq 1 .. nextId - 1 /\ nextId \notin DOMAIN table
    BY <1>2 DEF TableOK
  <2>3. /\ DOMAIN table' = DOMAIN table \cup {nextId} /\ table'[nextId] = new
        /\ \A i \in DOMAIN table : table'[i] = table[i]
    BY <2>1, <2>2
  <2>4. Allocated(size) \in Seq(ShmFrames) /\ fs \subseteq Free
    BY <1>2, <1>4, AllocatedShape
  <2>5. new \in Segment /\ new.refcount = 0 /\ new.pages = Allocated(size)
    BY <2>4 DEF Segment
  <2> HIDE DEF new
  <2>6. fs \cap bitmap = {} /\ fs \subseteq ShmFrames
    BY <2>4 DEF Free
  <2>7. bitmap' \subseteq ShmFrames /\ nextId' \in 1 .. MaxId + 1 /\ nextId < nextId'
    BY <1>1, <1>2, <2>1, <2>6
  <2>8. TableOK(table', nextId')
    <3>1. DOMAIN table' \subseteq 1 .. nextId' - 1
      BY <1>2, <2>1, <2>2, <2>3
    <3>2. \A i \in DOMAIN table' : table'[i] \in Segment
      BY <2>3, <2>5 DEF TableOK
    <3>3. QED BY <3>1, <3>2 DEF TableOK
  <2>9. \A u \in ShmTasks : \A k \in 1 .. Len(att[u]) : att[u][k].id < nextId /\ att[u][k].id \in Nat
    <3>1. ASSUME NEW u \in ShmTasks, NEW k \in 1 .. Len(att[u]) PROVE att[u][k].id \in Nat
      <4>1. att[u] \in Seq(Attachment)
        OBVIOUS
      <4>2. QED BY <4>1, AttachmentNamed
    <3>2. QED BY <3>1
  <2>10. \A u \in ShmTasks : \A k \in 1 .. Len(att[u]) : att[u][k].id < nextId' /\ att[u][k].id # nextId
    <3>1. ASSUME NEW i \in Nat, i < nextId PROVE i < nextId' /\ i # nextId
      BY <1>2, <2>1, <3>1
    <3>2. QED BY ONLY <2>9, <3>1
  <2>11. AttachmentsIn(att, nextId) = {}
    BY <2>10, AttachmentsMember
  <2>12. CountsCover(table', att, shm_alive = ShmTasks)
    <3>1. Cardinality(AttachmentsIn(att, nextId)) = 0
      BY <2>11, FS_EmptySet
    <3>2. QED BY <2>3, <2>5, <3>1 DEF CountsCover
  <2>13. ASSUME shm_alive = ShmTasks PROVE MapsAll(bitmap', table', map, att)
    <3>1. FramesApart(bitmap, table) /\ \A u \in ShmTasks : MapsAttached(table, map[u], att[u])
      BY <2>13 DEF MapsAll
    <3>2. FramesApart(bitmap', table')
      <4>1. ASSUME NEW i \in DOMAIN table PROVE ToSet(table'[i].pages) \subseteq bitmap
        BY <2>3, <3>1 DEF FramesApart
      <4>2. ToSet(table'[nextId].pages) = fs
        BY <2>3, <2>5
      <4>3. ASSUME NEW i \in DOMAIN table, NEW j \in DOMAIN table, i # j
            PROVE  ToSet(table'[i].pages) \cap ToSet(table'[j].pages) = {}
        BY <2>3, <3>1, <4>3 DEF FramesApart
      <4> HIDE DEF fs
      <4>4. ASSUME NEW i \in DOMAIN table
            PROVE  ToSet(table'[i].pages) \cap ToSet(table'[nextId].pages) = {}
        BY ONLY <4>1, <4>2, <2>6
      <4>5. ASSUME NEW i \in DOMAIN table', NEW j \in DOMAIN table' \ {i}
            PROVE  ToSet(table'[i].pages) \cap ToSet(table'[j].pages) = {}
        <5>1. CASE i \in DOMAIN table /\ j \in DOMAIN table
          BY ONLY <4>3, <4>5, <5>1
        <5>2. CASE i = nextId /\ j \in DOMAIN table
          BY ONLY <4>4, <5>2
        <5>3. CASE i \in DOMAIN table /\ j = nextId
          BY ONLY <4>4, <5>3
        <5>4. QED BY ONLY <2>3, <4>5, <5>1, <5>2, <5>3
      <4>6. ASSUME NEW i \in DOMAIN table' PROVE ToSet(table'[i].pages) \subseteq bitmap'
        BY ONLY <2>1, <2>3, <4>1, <4>2, <4>6
      <4>7. QED BY ONLY <4>5, <4>6 DEF FramesApart
    <3>3. \A u \in ShmTasks : MapsAttached(table', map[u], att[u])
      BY <2>3, <3>1, SamePagesMap
    <3>4. QED BY <3>2, <3>3 DEF MapsAll
  <2>14. QED BY <1>1, <2>7, <2>8, <2>10, <2>12, <2>13
<1>5. QED BY <1>3, <1>4

LEMMA AttachStep ==
    ASSUME ShmInv, NEW t \in ShmTasks, NEW i \in DOMAIN table, shmat(t, i)
    PROVE  ShmInv'
<1> USE InvParts, InvPartsNext DEF Parts
<1> DEFINE pages == table[i].pages
           n == Len(pages)
           room == shm_find_free_range(t, n)
           at == CHOOSE p \in room : \A q \in room : p <= q
           a == [id |-> i, at |-> at, size |-> n]
           m2 == [p \in ShmPages |-> IF p \in at .. at + n - 1 THEN pages[p - at + 1] ELSE map[t][p]]
<1>1. /\ room # {} /\ map' = [map EXCEPT ![t] = m2] /\ table' = [table EXCEPT ![i].refcount = @ + 1]
      /\ att' = [att EXCEPT ![t] = Append(att[t], a)]
      /\ bitmap' = bitmap /\ nextId' = nextId /\ shm_alive' = shm_alive /\ shm_panicked' = shm_panicked
  BY DEF shmat
<1>2. /\ table[i] \in Segment /\ pages \in Seq(ShmFrames) /\ n \in Nat /\ i \in Nat /\ i < nextId
      /\ \A j \in DOMAIN table : table[j].pages \in Seq(ShmFrames) /\ table[j].refcount \in Nat /\ j \in Nat
  BY DEF TableOK, Segment
<1>3. at \in room
  <2>1. room \in SUBSET Nat
    BY DEF shm_find_free_range, ShmPages
  <2>2. QED BY <1>1, <2>1, LeastMember
<1> HIDE DEF at, n, room, pages
<1>4. at \in ShmPages /\ at + n - 1 <= NumPages /\ \A p \in at .. at + n - 1 : map[t][p] = ShmNone
  BY <1>3 DEF room, shm_find_free_range
<1>5. a \in Attachment /\ a.id = i /\ a.at = at /\ a.size = n
  BY <1>2, <1>4 DEF Attachment
<1>6. m2 \in [ShmPages -> Page]
  <2>1. SUFFICES ASSUME NEW p \in ShmPages, p \in at .. at + n - 1 PROVE pages[p - at + 1] \in ShmFrames
    BY DEF Page
  <2>2. at \in Nat /\ p \in Nat
    BY <1>4, ShmAssumption DEF ShmPages
  <2>3. p - at + 1 \in 1 .. n
    BY <1>2, <2>1, <2>2
  <2>4. QED BY <1>2, <2>3 DEF n
<1>7. map' \in [ShmTasks -> [ShmPages -> Page]] /\ map'[t] = m2 /\ \A u \in ShmTasks \ {t} : map'[u] = map[u]
  BY <1>1, <1>6
<1> HIDE DEF a, m2
<1>8. /\ att' \in [ShmTasks -> Seq(Attachment)] /\ att'[t] = Append(att[t], a)
      /\ \A u \in ShmTasks \ {t} : att'[u] = att[u]
  BY <1>1, <1>5
<1>9. \A u \in ShmTasks : \A k \in 1 .. Len(att'[u]) : att'[u][k].id < nextId
  <2>1. ASSUME NEW k \in 1 .. Len(att'[t]) PROVE att'[t][k].id < nextId
    <3>1. att[t] \in Seq(Attachment)
      OBVIOUS
    <3>2. (k \in 1 .. Len(att[t]) /\ att'[t][k] = att[t][k]) \/ att'[t][k] = a
      BY <3>1, <1>8
    <3>3. QED BY <3>2, <1>2, <1>5
  <2>2. QED BY <2>1, <1>8
<1>10. /\ DOMAIN table' = DOMAIN table
       /\ \A j \in DOMAIN table : table'[j].pages = table[j].pages /\ table'[j] \in Segment
       /\ table'[i].refcount = table[i].refcount + 1
       /\ \A j \in DOMAIN table \ {i} : table'[j] = table[j]
  <2>1. /\ DOMAIN table' = DOMAIN table /\ table'[i] = [table[i] EXCEPT !.refcount = @ + 1]
        /\ \A j \in DOMAIN table \ {i} : table'[j] = table[j]
    BY <1>1
  <2>2. /\ table'[i].pages = table[i].pages /\ table'[i] \in Segment
        /\ table'[i].refcount = table[i].refcount + 1
    <3>1. table[i].refcount + 1 \in Nat /\ table'[i] = [table[i] EXCEPT !.refcount = table[i].refcount + 1]
      BY <1>2, <2>1
    <3>2. QED BY ONLY <3>1, <1>2, SegmentRefcount
  <2>3. QED BY <2>1, <2>2 DEF TableOK
<1>11. TableOK(table', nextId)
  BY <1>10 DEF TableOK
<1>12. \A j \in Nat :
         /\ IsFiniteSet(AttachmentsIn(att', j))
         /\ Cardinality(AttachmentsIn(att', j)) = Cardinality(AttachmentsIn(att, j)) + (IF i = j THEN 1 ELSE 0)
  <2>1. ASSUME NEW j \in Nat
        PROVE  /\ IsFiniteSet(AttachmentsIn(att', j))
               /\ Cardinality(AttachmentsIn(att', j)) = Cardinality(AttachmentsIn(att, j)) + (IF a.id = j THEN 1 ELSE 0)
    <3>1. att \in [ShmTasks -> Seq(Attachment)] /\ IsFiniteSet(AttachmentsIn(att, j))
      OBVIOUS
    <3>2. att' = WithAttachment(att, t, a)
      BY <1>1 DEF WithAttachment
    <3>3. QED BY ONLY j \in Nat, t \in ShmTasks, <3>1, <3>2, <1>5, AttachCounts
  <2>2. QED BY ONLY <2>1, <1>5
<1>13. CountsCover(table', att', shm_alive = ShmTasks)
  <2>1. SUFFICES ASSUME NEW j \in DOMAIN table
                 PROVE  /\ table'[j].refcount >= Cardinality(AttachmentsIn(att', j))
                        /\ shm_alive = ShmTasks => table'[j].refcount = Cardinality(AttachmentsIn(att', j))
    BY <1>10 DEF CountsCover
  <2>2. /\ table[j].refcount >= Cardinality(AttachmentsIn(att, j))
        /\ shm_alive = ShmTasks => table[j].refcount = Cardinality(AttachmentsIn(att, j))
    BY DEF CountsCover
  <2>3. j \in Nat /\ Cardinality(AttachmentsIn(att, j)) \in Nat /\ table[j].refcount \in Nat
    BY <1>2, FS_CardinalityType
  <2>4. Cardinality(AttachmentsIn(att', j)) = Cardinality(AttachmentsIn(att, j)) + (IF i = j THEN 1 ELSE 0)
    BY <1>12, <2>3
  <2>5. table'[j].refcount = table[j].refcount + (IF i = j THEN 1 ELSE 0)
    BY <1>10, <2>3
  <2>6. QED BY <2>2, <2>3, <2>4, <2>5
<1>14. ASSUME shm_alive = ShmTasks PROVE MapsAll(bitmap, table', map', att')
  <2>1. FramesApart(bitmap, table) /\ \A u \in ShmTasks : MapsAttached(table, map[u], att[u])
    BY <1>14 DEF MapsAll
  <2>2. FramesApart(bitmap, table')
    BY <2>1, <1>10 DEF FramesApart
  <2>3. MapsAttached(table, map'[t], att'[t])
    <3>1. map[t] \in [ShmPages -> Page] /\ att[t] \in Seq(Attachment) /\ MapsAttached(table, map[t], att[t])
      BY <2>1
    <3>2. MapsAttached(table, m2, Append(att[t], a))
      <4>1. /\ n = Len(table[i].pages) /\ \A j \in DOMAIN table : table[j].pages \in Seq(ShmFrames)
            /\ m2 = WithPages(map[t], at, table[i].pages)
        BY <1>2 DEF m2, n, pages, WithPages
      <4>2. PICK B : B = Append(att[t], a)
        OBVIOUS
      <4>3. n \in Nat
        BY <1>2
      <4>4. MapsAttached(table, m2, B)
        BY ONLY i \in DOMAIN table, <4>1, <4>2, <4>3, <3>1, <1>4, <1>5, AttachMaps
      <4>5. QED BY <4>2, <4>4
    <3>3. QED BY <3>2, <1>7, <1>8
  <2>4. \A u \in ShmTasks : MapsAttached(table, map'[u], att'[u])
    BY <2>1, <2>3, <1>7, <1>8
  <2>5. \A u \in ShmTasks : MapsAttached(table', map'[u], att'[u])
    BY <2>4, <1>10, SamePagesMap
  <2>6. QED BY <2>2, <2>5 DEF MapsAll
<1>15. QED BY <1>1, <1>7, <1>8, <1>9, <1>11, <1>12, <1>13, <1>14

LEMMA DetachStep ==
    ASSUME ShmInv, NEW t \in ShmTasks, NEW x \in 1 .. Len(att[t]), shmdt(t, x)
    PROVE  ShmInv'
<1> USE InvParts, InvPartsNext DEF Parts
<1> DEFINE a == att[t][x]
           i == a.id
           tab == [table EXCEPT ![i].refcount = IF @ = 0 THEN 0 ELSE @ - 1]
           m2 == [p \in ShmPages |-> IF p \in Covers(a) THEN ShmNone ELSE map[t][p]]
           all == shm_alive = ShmTasks
<1>1. /\ att' = [att EXCEPT ![t] = RemoveAt(att[t], x)] /\ map' = [map EXCEPT ![t] = m2]
      /\ nextId' = nextId /\ shm_alive' = shm_alive
      /\ IF i \in DOMAIN table THEN Settles(tab, i) ELSE UNCHANGED <<table, bitmap, shm_panicked>>
  BY DEF shmdt, Unmapped, Covers
<1>2. att[t] \in Seq(Attachment) /\ a \in Attachment /\ i \in Nat
  <2>1. att[t] \in Seq(Attachment)
    OBVIOUS
  <2>2. QED BY ONLY <2>1, x \in 1 .. Len(att[t]), AttachmentNamed
<1>3. m2 \in [ShmPages -> Page]
  BY DEF Page
<1>4. map' \in [ShmTasks -> [ShmPages -> Page]] /\ map'[t] = m2 /\ \A u \in ShmTasks \ {t} : map'[u] = map[u]
  BY <1>1, <1>3
<1>5. /\ RemoveAt(att[t], x) \in Seq(Attachment) /\ Len(RemoveAt(att[t], x)) = Len(att[t]) - 1
      /\ \A k \in 1 .. Len(att[t]) - 1 :
            RemoveAt(att[t], x)[k] = IF k < x THEN att[t][k] ELSE att[t][k + 1]
  BY <1>2, Removed
<1>6. /\ att' \in [ShmTasks -> Seq(Attachment)] /\ att'[t] = RemoveAt(att[t], x)
      /\ \A u \in ShmTasks \ {t} : att'[u] = att[u]
  BY <1>1, <1>5
<1>7. \A u \in ShmTasks : \A k \in 1 .. Len(att'[u]) : att'[u][k].id < nextId
  <2>1. ASSUME NEW k \in 1 .. Len(att'[t]) PROVE att'[t][k].id < nextId
    <3>1. Len(att[t]) \in Nat /\ k \in 1 .. Len(att[t]) - 1
      BY <1>2, <1>5, <1>6
    <3>2. k \in 1 .. Len(att[t]) /\ k + 1 \in 1 .. Len(att[t])
      BY <3>1
    <3>3. att'[t][k] = att[t][k] \/ att'[t][k] = att[t][k + 1]
      BY <3>1, <1>5, <1>6
    <3>4. QED BY <3>2, <3>3
  <2>2. QED BY <2>1, <1>6
<1>8. \A j \in Nat :
         /\ IsFiniteSet(AttachmentsIn(att', j))
         /\ Cardinality(AttachmentsIn(att', j)) = Cardinality(AttachmentsIn(att, j)) - (IF i = j THEN 1 ELSE 0)
  <2>1. ASSUME NEW j \in Nat
        PROVE  /\ IsFiniteSet(AttachmentsIn(att', j))
               /\ Cardinality(AttachmentsIn(att', j)) = Cardinality(AttachmentsIn(att, j)) - (IF att[t][x].id = j THEN 1 ELSE 0)
    <3>1. att \in [ShmTasks -> Seq(Attachment)] /\ IsFiniteSet(AttachmentsIn(att, j))
      OBVIOUS
    <3>2. att' = LessAttachment(att, t, x)
      BY <1>1 DEF LessAttachment
    <3>3. QED BY ONLY j \in Nat, t \in ShmTasks, x \in 1 .. Len(att[t]), <3>1, <3>2, DetachCounts
  <2>2. QED BY ONLY <2>1
<1>9. \A j \in DOMAIN table :
         /\ j \in Nat /\ table[j] \in Segment /\ table[j].refcount \in Nat
         /\ Cardinality(AttachmentsIn(att, j)) \in Nat
         /\ table[j].refcount >= Cardinality(AttachmentsIn(att, j))
         /\ all => table[j].refcount = Cardinality(AttachmentsIn(att, j))
  BY FS_CardinalityType DEF TableOK, Segment, CountsCover
<1>10. ASSUME all PROVE MapsAll(bitmap, table, map', att')
  <2>1. FramesApart(bitmap, table) /\ \A u \in ShmTasks : MapsAttached(table, map[u], att[u])
    BY <1>10 DEF MapsAll
  <2>2. map[t] \in [ShmPages -> Page] /\ att[t] \in Seq(Attachment) /\ MapsAttached(table, map[t], att[t])
    BY <2>1
  <2>3. MapsAttached(table, m2, RemoveAt(att[t], x))
    BY <2>2, DetachUnmaps
  <2> HIDE DEF m2
  <2>4. QED BY <2>1, <2>3, <1>4, <1>6 DEF MapsAll
<1> HIDE DEF a, i, m2
<1>11. CASE i \notin DOMAIN table
  <2>1. table' = table /\ bitmap' = bitmap /\ shm_panicked' = shm_panicked
    BY <1>1, <1>11
  <2>2. CountsCover(table, att', all)
    <3>1. \A j \in DOMAIN table : Cardinality(AttachmentsIn(att', j)) = Cardinality(AttachmentsIn(att, j))
      BY <1>8, <1>9, <1>11
    <3>2. QED BY <3>1, <1>9 DEF CountsCover
  <2>3. QED BY <1>1, <1>4, <1>6, <1>7, <1>8, <1>10, <2>1, <2>2
<1>12. CASE i \in DOMAIN table
  <2>1. table[i].refcount # 0
    <3>1. <<t, x>> \in AttachmentsIn(att, i)
      BY AttachmentsMember DEF a, i
    <3>2. Cardinality(AttachmentsIn(att, i)) # 0
      BY <3>1, <1>2, FS_EmptySet
    <3>3. QED BY <3>2, <1>9, <1>12
  <2>2. /\ DOMAIN tab = DOMAIN table
        /\ \A j \in DOMAIN table : tab[j].pages = table[j].pages /\ tab[j] \in Segment
        /\ tab[i].refcount = table[i].refcount - 1
        /\ \A j \in DOMAIN table \ {i} : tab[j] = table[j]
    <3>1. /\ DOMAIN tab = DOMAIN table /\ tab[i] = [table[i] EXCEPT !.refcount = IF @ = 0 THEN 0 ELSE @ - 1]
          /\ \A j \in DOMAIN table \ {i} : tab[j] = table[j]
      BY <1>12
    <3>2. /\ tab[i].pages = table[i].pages /\ tab[i] \in Segment
          /\ tab[i].refcount = table[i].refcount - 1
      <4>1. /\ table[i].refcount - 1 \in Nat /\ table[i] \in Segment
            /\ tab[i] = [table[i] EXCEPT !.refcount = table[i].refcount - 1]
        BY <3>1, <2>1, <1>9, <1>12
      <4>2. QED BY ONLY <4>1, SegmentRefcount
    <3>3. QED BY <3>1, <3>2, <1>9
  <2> HIDE DEF tab
  <2>3. TableOK(tab, nextId)
    BY <2>2 DEF TableOK
  <2>4. CountsCover(tab, att', all)
    <3>1. SUFFICES ASSUME NEW j \in DOMAIN table
                   PROVE  /\ tab[j].refcount >= Cardinality(AttachmentsIn(att', j))
                          /\ all => tab[j].refcount = Cardinality(AttachmentsIn(att', j))
      BY <2>2 DEF CountsCover
    <3>2. Cardinality(AttachmentsIn(att', j)) = Cardinality(AttachmentsIn(att, j)) - (IF i = j THEN 1 ELSE 0)
      BY <1>8, <1>9
    <3>3. tab[j].refcount = table[j].refcount - (IF i = j THEN 1 ELSE 0)
      BY <2>2, <1>9
    <3>4. QED BY <3>2, <3>3, <1>9
  <2>5. ASSUME all PROVE MapsAll(bitmap, tab, map', att')
    <3>1. FramesApart(bitmap, table) /\ \A u \in ShmTasks : MapsAttached(table, map'[u], att'[u])
      BY <2>5, <1>10 DEF MapsAll
    <3>2. FramesApart(bitmap, tab)
      BY <3>1, <2>2 DEF FramesApart
    <3>3. \A u \in ShmTasks : MapsAttached(tab, map'[u], att'[u])
      BY <3>1, <2>2, SamePagesMap
    <3>4. QED BY <3>2, <3>3 DEF MapsAll
  <2>6. Settles(tab, i) /\ i \in DOMAIN tab /\ IsFiniteSet(AttachmentsIn(att', i)) /\ all \in BOOLEAN
    BY <1>1, <1>2, <1>8, <1>12, <2>2
  <2>7. /\ bitmap' \subseteq ShmFrames /\ shm_panicked' \in BOOLEAN
        /\ TableOK(table', nextId) /\ CountsCover(table', att', all)
        /\ all => MapsAll(bitmap', table', map', att')
    BY <2>3, <2>4, <2>5, <2>6, <1>6, SettledTable
  <2>8. QED BY <1>1, <1>4, <1>6, <1>7, <1>8, <2>7
<1>13. QED BY <1>11, <1>12

LEMMA TerminateStep ==
    ASSUME ShmInv, NEW t \in ShmTasks, terminate_current(t)
    PROVE  ShmInv'
<1> USE InvParts, InvPartsNext DEF Parts
<1>1. /\ shm_alive' = shm_alive \ {t} /\ bitmap' \subseteq bitmap /\ shm_panicked' \in BOOLEAN
      /\ map' = [map EXCEPT ![t] = [p \in ShmPages |-> ShmNone]]
      /\ att' = [att EXCEPT ![t] = <<>>] /\ table' = table /\ nextId' = nextId
  BY DEF terminate_current, FreesAll
<1>2. shm_alive' \subseteq ShmTasks /\ shm_alive' # ShmTasks
  BY <1>1
<1>3. map' \in [ShmTasks -> [ShmPages -> Page]]
  BY <1>1 DEF Page
<1>4. /\ att' \in [ShmTasks -> Seq(Attachment)] /\ att'[t] = <<>> /\ Len(att'[t]) = 0
      /\ \A u \in ShmTasks \ {t} : att'[u] = att[u]
  BY <1>1
<1>5. \A u \in ShmTasks : \A k \in 1 .. Len(att'[u]) : att'[u][k].id < nextId
  <2>1. ASSUME NEW k \in 1 .. Len(att'[t]) PROVE FALSE
    BY <1>4
  <2>2. ASSUME NEW u \in ShmTasks \ {t}, NEW k \in 1 .. Len(att'[u]) PROVE att'[u][k].id < nextId
    BY <1>4
  <2>3. QED BY <2>1, <2>2
<1>6. ASSUME NEW i \in Nat
      PROVE  /\ IsFiniteSet(AttachmentsIn(att', i))
             /\ Cardinality(AttachmentsIn(att', i)) <= Cardinality(AttachmentsIn(att, i))
  <2>1. AttachmentsIn(att', i) \subseteq AttachmentsIn(att, i)
    <3>1. SUFFICES ASSUME NEW y \in AttachmentsIn(att', i) PROVE y \in AttachmentsIn(att, i)
      OBVIOUS
    <3>2. PICK u \in ShmTasks : \E k \in 1 .. Len(att'[u]) : att'[u][k].id = i /\ y = <<u, k>>
      BY AttachmentsMember
    <3>3. PICK k \in 1 .. Len(att'[u]) : att'[u][k].id = i /\ y = <<u, k>>
      BY <3>2
    <3>4. u # t
      BY <1>4
    <3>5. QED BY <3>3, <3>4, <1>4, AttachmentsMember
  <2>2. QED BY <2>1, FS_Subset
<1>7. CountsCover(table', att', FALSE)
  <2>1. SUFFICES ASSUME NEW i \in DOMAIN table PROVE table[i].refcount >= Cardinality(AttachmentsIn(att', i))
    BY <1>1 DEF CountsCover
  <2>2. i \in Nat /\ table[i].refcount \in Nat /\ table[i].refcount >= Cardinality(AttachmentsIn(att, i))
    BY DEF TableOK, Segment, CountsCover
  <2>3. Cardinality(AttachmentsIn(att, i)) \in Nat /\ Cardinality(AttachmentsIn(att', i)) \in Nat
    BY <2>2, <1>6, FS_CardinalityType
  <2>4. QED BY <2>2, <2>3, <1>6
<1>8. CountsCover(table', att', shm_alive' = ShmTasks)
  BY <1>2, <1>7 DEF CountsCover
<1>9. QED BY <1>1, <1>2, <1>3, <1>4, <1>5, <1>6, <1>8
-----------------------------------------------------------------------------
LEMMA ShmStart == ShmInit => ShmInv
<1>1. SUFFICES ASSUME ShmInit PROVE Parts
  BY InvParts
<1>2. /\ bitmap = {} /\ DOMAIN table = {} /\ nextId = 1 /\ shm_alive = ShmTasks /\ shm_panicked = FALSE
      /\ map = [t \in ShmTasks |-> [p \in ShmPages |-> ShmNone]] /\ att = [t \in ShmTasks |-> <<>>]
  BY <1>1 DEF ShmInit
<1>3. /\ bitmap \subseteq ShmFrames /\ nextId \in 1 .. MaxId + 1 /\ TableOK(table, nextId)
      /\ map \in [ShmTasks -> [ShmPages -> Page]] /\ att \in [ShmTasks -> Seq(Attachment)]
  BY <1>2, ShmAssumption DEF TableOK, Page
<1>4. \A t \in ShmTasks : att[t] = <<>> /\ \A k \in 1 .. Len(att[t]) : FALSE
  BY <1>2
<1>5. \A i \in Nat : AttachmentsIn(att, i) = {}
  BY <1>4, AttachmentsMember
<1>6. \A i \in Nat : IsFiniteSet(AttachmentsIn(att, i))
  BY <1>5, FS_EmptySet
<1>7. CountsCover(table, att, shm_alive = ShmTasks)
  BY <1>2 DEF CountsCover
<1>8. FramesApart(bitmap, table)
  BY <1>2 DEF FramesApart
<1>9. ASSUME NEW t \in ShmTasks PROVE MapsAttached(table, map[t], att[t])
  <2>1. \A p \in ShmPages : map[t][p] = ShmNone
    BY <1>2
  <2>2. QED BY <2>1, <1>4 DEF MapsAttached, WholeSegments, PagesApart, NothingElse
<1>10. MapsAll(bitmap, table, map, att)
  BY <1>8, <1>9 DEF MapsAll
<1>11. QED BY <1>2, <1>3, <1>4, <1>6, <1>7, <1>10 DEF Parts

LEMMA ShmStep == ShmInv /\ [ShmNext]_shm_vars => ShmInv'
<1>1. SUFFICES ASSUME ShmInv, [ShmNext]_shm_vars PROVE ShmInv'
  OBVIOUS
<1>2. CASE UNCHANGED shm_vars
  <2>1. /\ bitmap' = bitmap /\ table' = table /\ nextId' = nextId /\ map' = map /\ att' = att
        /\ shm_alive' = shm_alive /\ shm_panicked' = shm_panicked
    BY <1>2 DEF shm_vars
  <2>2. QED BY <1>1, <2>1, InvParts, InvPartsNext DEF Parts
<1>3. CASE \E t \in ShmTasks, key \in ShmKeys, size \in 1 .. MaxSize, create \in BOOLEAN :
               shmget(t, key, size, create)
  BY <1>1, <1>3, GetStep
<1>4. CASE \E t \in ShmTasks : \E i \in DOMAIN table : shmat(t, i)
  BY <1>1, <1>4, AttachStep
<1>5. CASE \E t \in ShmTasks : \E k \in 1 .. Len(att[t]) : shmdt(t, k)
  BY <1>1, <1>5, DetachStep
<1>6. CASE \E t \in ShmTasks : terminate_current(t)
  BY <1>1, <1>6, TerminateStep
<1>7. CASE \E i \in DOMAIN table : shm_mark_removal(i)
  BY <1>1, <1>7, RemovalStep
<1>8. QED BY <1>1, <1>2, <1>3, <1>4, <1>5, <1>6, <1>7 DEF ShmNext

(* What a task maps is what its attachments say: from left to right a page *)
(* that is mapped lies in an attachment, and from right to left an         *)
(* attachment maps its segment's frames, none of which is ShmNone.         *)
LEMMA ShmInvIsEnough == ShmInv => ShmSound
<1>1. SUFFICES ASSUME ShmInv, shm_alive = ShmTasks PROVE NoUseAfterFree
  BY DEF ShmInv, ShmTypes, Counted, ShmSound, NoUseAfterFree
<1>2. FramesApart(bitmap, table) /\ \A t \in ShmTasks : MapsAttached(table, map[t], att[t])
  BY <1>1, InvParts DEF Parts, MapsAll
<1>3. \A i \in DOMAIN table : table[i].pages \in Seq(ShmFrames)
  BY <1>1, InvParts DEF Parts, TableOK, Segment
<1>4. ASSUME NEW t \in ShmTasks, NEW p \in ShmPages
      PROVE  map[t][p] # ShmNone <=>
                \E k \in 1 .. Len(att[t]) :
                   /\ p \in att[t][k].at .. att[t][k].at + att[t][k].size - 1
                   /\ att[t][k].id \in DOMAIN table
                   /\ table[att[t][k].id].pages[p - att[t][k].at + 1] = map[t][p]
  <2>1. ASSUME NEW k \in 1 .. Len(att[t])
        PROVE  /\ att[t][k].id \in DOMAIN table /\ att[t][k].size = Len(table[att[t][k].id].pages)
               /\ \A q \in Covers(att[t][k]) : map[t][q] = table[att[t][k].id].pages[q - att[t][k].at + 1]
    BY <1>2 DEF MapsAttached, WholeSegments
  <2>2. ASSUME map[t][p] # ShmNone
        PROVE  \E k \in 1 .. Len(att[t]) : p \in Covers(att[t][k])
    BY <1>2, <2>2 DEF MapsAttached, NothingElse
  <2>3. ASSUME NEW k \in 1 .. Len(att[t]), p \in Covers(att[t][k]) PROVE map[t][p] # ShmNone
    <3>1. att[t] \in Seq(Attachment)
      BY <1>1, InvParts DEF Parts
    <3>2. att[t][k] \in Attachment
      BY <3>1, AttachmentNamed
    <3>3. att[t][k].at \in Nat /\ att[t][k].size \in Nat
      BY <3>2, ShmAssumption DEF Attachment, ShmPages
    <3>4. p \in att[t][k].at .. att[t][k].at + att[t][k].size - 1
      BY <2>3 DEF Covers
    <3>5. ASSUME NEW u \in Nat, NEW z \in Nat, p \in u .. u + z - 1 PROVE p - u + 1 \in 1 .. z
      BY <3>5
    <3>6. p - att[t][k].at + 1 \in 1 .. Len(table[att[t][k].id].pages)
      BY <3>3, <3>4, <3>5, <2>1
    <3>7. map[t][p] \in ShmFrames
      BY <3>6, <2>1, <2>3, <1>3
    <3>8. QED BY <3>7, ShmAssumption DEF ShmFrames, ShmNone
  <2>4. QED BY <2>1, <2>2, <2>3 DEF Covers
<1>5. QED BY <1>2, <1>4 DEF NoUseAfterFree, FramesApart

(* Shared memory (ipc/shm.rs): for any number of tasks, frames, pages and  *)
(* keys, in every reachable state refcount covers the attachments that     *)
(* exist, and until a task terminates it counts them exactly, no segment   *)
(* uses a free frame or another one's, and every task maps precisely the   *)
(* frames of the segments it has attached.                                 *)
THEOREM SegmentsAreSound == ShmSpec => []ShmSound
<1>1. ShmInit => ShmInv
  BY ShmStart
<1>2. ShmInv /\ [ShmNext]_shm_vars => ShmInv'
  BY ShmStep
<1>3. ShmInv => ShmSound
  BY ShmInvIsEnough
<1>4. QED BY <1>1, <1>2, <1>3, PTL DEF ShmSpec
=============================================================================
