----------------------------- MODULE TaskProofs -----------------------------
(***************************************************************************)
(* Theorems about tasks.  The scheduler loses no task and schedules none   *)
(* twice, for every number of processors, tasks and page tables and every  *)
(* mix of system calls; the calls on a task's attributes and on vectors of *)
(* buffers do what they report; and the calls on its memory give a frame   *)
(* one use, for any number of processes, frames and pages.                 *)
(***************************************************************************)
EXTENDS Scheduler, TaskCalls, AddressSpace, ProofLemmas, SequenceTheorems, FiniteSetTheorems,
        FunctionTheorems, TLAPS

LEMMA Indices ==
    ASSUME NEW n \in Nat, NEW i \in 1 .. n, i # n
    PROVE  i \in 1 .. n - 1 /\ i + 1 \in 1 .. n /\ i + 1 # 1
  OBVIOUS

LEMMA MinIsMember ==
    ASSUME NEW S \in SUBSET Nat, S # {}
    PROVE  Min(S) \in S /\ \A m \in S : Min(S) <= m
  BY LeastMember DEF Min

-----------------------------------------------------------------------------
(* Queues: what removing, appending and turning does to their members. *)
Distinct(l) == \A i, j \in 1 .. Len(l) : l[i] = l[j] => i = j

LEMMA FirstRemoved ==
    ASSUME NEW l, NEW e, Contains(l, e), Len(l) \in Nat
    PROVE  \E i \in 1 .. Len(l) : l[i] = e /\ RemoveFirst(l, e) = RemoveAt(l, i)
<1> DEFINE I == {i \in 1 .. Len(l) : l[i] = e}
<1>1. I \in SUBSET Nat /\ I # {}
  BY DEF Contains
<1>2. Min(I) \in I
  BY <1>1, MinIsMember
<1>3. RemoveFirst(l, e) = RemoveAt(l, Min(I))
  BY <1>1 DEF RemoveFirst, SelectInSeq, Contains
<1>4. QED BY <1>2, <1>3

LEMMA RemovedAt ==
    ASSUME NEW S, NEW l \in Seq(S), NEW k \in 1 .. Len(l)
    PROVE  /\ RemoveAt(l, k) \in Seq(S) /\ Len(RemoveAt(l, k)) = Len(l) - 1
           /\ \A i \in 1 .. Len(l) - 1 : RemoveAt(l, k)[i] = IF i < k THEN l[i] ELSE l[i + 1]
<1>1. /\ SubSeq(l, 1, k - 1) \in Seq(S) /\ Len(SubSeq(l, 1, k - 1)) = k - 1
      /\ \A i \in 1 .. k - 1 : SubSeq(l, 1, k - 1)[i] = l[i]
  OBVIOUS
<1>2. /\ SubSeq(l, k + 1, Len(l)) \in Seq(S) /\ Len(SubSeq(l, k + 1, Len(l))) = Len(l) - k
      /\ \A i \in 1 .. Len(l) - k : SubSeq(l, k + 1, Len(l))[i] = l[k + i]
  OBVIOUS
<1> DEFINE a == SubSeq(l, 1, k - 1)
           b == SubSeq(l, k + 1, Len(l))
<1>3. RemoveAt(l, k) = a \o b
  BY DEF RemoveAt
<1>4. k \in Nat /\ Len(l) \in Nat /\ a \in Seq(S) /\ b \in Seq(S)
  BY <1>1, <1>2
<1>5. Len(a) = k - 1 /\ Len(b) = Len(l) - k /\ (\A i \in 1 .. k - 1 : a[i] = l[i])
      /\ \A i \in 1 .. Len(l) - k : b[i] = l[k + i]
  BY <1>1, <1>2
<1> HIDE DEF a, b
<1>6. a \o b \in Seq(S) /\ Len(a \o b) = Len(a) + Len(b)
  BY ONLY <1>4, ConcatProperties
<1>7. \A i \in 1 .. Len(a) + Len(b) : (a \o b)[i] = IF i <= Len(a) THEN a[i] ELSE b[i - Len(a)]
  BY ONLY <1>4, ConcatProperties
<1>8. Len(a) + Len(b) = Len(l) - 1
  BY ONLY <1>4, <1>5
<1>9. ASSUME NEW i \in 1 .. Len(l) - 1 PROVE (a \o b)[i] = IF i < k THEN l[i] ELSE l[i + 1]
  <2>1. CASE i < k
    <3>1. i \in 1 .. k - 1 /\ i <= Len(a) /\ i \in 1 .. Len(a) + Len(b)
      BY ONLY <2>1, <1>4, <1>5, <1>8, i \in 1 .. Len(l) - 1
    <3>2. QED BY ONLY <2>1, <3>1, <1>5, <1>7
  <2>2. CASE ~(i < k)
    <3>1. /\ i - Len(a) \in 1 .. Len(l) - k /\ ~(i <= Len(a)) /\ i \in 1 .. Len(a) + Len(b)
          /\ k + (i - Len(a)) = i + 1
      BY ONLY <2>2, <1>4, <1>5, <1>8, i \in 1 .. Len(l) - 1
    <3>2. (a \o b)[i] = b[i - Len(a)]
      BY ONLY <3>1, <1>7
    <3>3. b[i - Len(a)] = l[k + (i - Len(a))]
      BY ONLY <3>1, <1>5
    <3>4. QED BY ONLY <2>2, <3>1, <3>2, <3>3
  <2>3. QED BY <2>1, <2>2
<1>10. QED BY <1>3, <1>6, <1>8, <1>9

LEMMA Removed ==
    ASSUME NEW S, NEW l \in Seq(S), NEW e, Contains(l, e), Distinct(l), NEW r, r = RemoveFirst(l, e)
    PROVE  /\ r \in Seq(S) /\ Len(r) = Len(l) - 1 /\ Distinct(r)
           /\ \A x : Contains(r, x) <=> Contains(l, x) /\ x # e
<1>1. Len(l) \in Nat
  OBVIOUS
<1>2. PICK k \in 1 .. Len(l) : l[k] = e /\ r = RemoveAt(l, k)
  BY <1>1, FirstRemoved
<1>3. r \in Seq(S) /\ Len(r) = Len(l) - 1
  BY <1>2, RemovedAt
<1>4. \A i \in 1 .. Len(l) - 1 : r[i] = IF i < k THEN l[i] ELSE l[i + 1]
  BY <1>2, RemovedAt
<1>5. Distinct(r)
  <2>1. SUFFICES ASSUME NEW i \in 1 .. Len(l) - 1, NEW j \in 1 .. Len(l) - 1, r[i] = r[j] PROVE i = j
    BY <1>3 DEF Distinct
  <2>2. PICK a \in 1 .. Len(l) : r[i] = l[a] /\ a = IF i < k THEN i ELSE i + 1
    BY <1>1, <1>4
  <2>3. PICK b \in 1 .. Len(l) : r[j] = l[b] /\ b = IF j < k THEN j ELSE j + 1
    BY <1>1, <1>4
  <2>4. a = b
    BY <2>1, <2>2, <2>3 DEF Distinct
  <2>5. QED BY ONLY <1>1, <2>2, <2>3, <2>4, i \in 1 .. Len(l) - 1, j \in 1 .. Len(l) - 1, k \in 1 .. Len(l)
<1>6. ASSUME NEW x, Contains(r, x) PROVE Contains(l, x) /\ x # e
  BY <1>1, <1>2, <1>3, <1>4, <1>6 DEF Contains, Distinct
<1>7. ASSUME NEW x, Contains(l, x), x # e PROVE Contains(r, x)
  <2>1. PICK i \in 1 .. Len(l) : l[i] = x
    BY <1>7 DEF Contains
  <2>2. CASE i < k
    BY <1>1, <1>2, <1>3, <1>4, <2>1, <2>2 DEF Contains
  <2>3. CASE i > k
    <3>1. i - 1 \in 1 .. Len(l) - 1 /\ ~(i - 1 < k) /\ (i - 1) + 1 = i
      BY <1>1, <2>3
    <3>2. r[i - 1] = x
      BY <1>4, <2>1, <3>1
    <3>3. QED BY <1>3, <3>1, <3>2 DEF Contains
  <2>4. QED BY <1>1, <1>2, <1>7, <2>1, <2>2, <2>3
<1>8. QED BY <1>3, <1>5, <1>6, <1>7

Pushed(l, e) == Append(l, e)                    \* named so that facts about it can be cited
Rotated(l) == Append(Tail(l), Head(l))

LEMMA Appended ==
    ASSUME NEW S, NEW l \in Seq(S), NEW e \in S, ~Contains(l, e), Distinct(l), NEW r, r = Pushed(l, e)
    PROVE  /\ r \in Seq(S) /\ Len(r) = Len(l) + 1 /\ Distinct(r)
           /\ \A x : Contains(r, x) <=> Contains(l, x) \/ x = e
<1>1. /\ Len(l) \in Nat /\ r \in Seq(S) /\ Len(r) = Len(l) + 1 /\ r[Len(l) + 1] = e
      /\ \A i \in 1 .. Len(l) : r[i] = l[i]
  BY DEF Pushed
<1>2. Distinct(r)
  BY <1>1 DEF Distinct, Contains
<1>3. \A x : Contains(r, x) <=> Contains(l, x) \/ x = e
  BY <1>1 DEF Contains
<1>4. QED BY <1>1, <1>2, <1>3

LEMMA Turned ==
    ASSUME NEW S, NEW l \in Seq(S), l # <<>>, Distinct(l), NEW r, r = Rotated(l)
    PROVE  /\ r \in Seq(S) /\ Len(r) = Len(l) /\ Distinct(r) /\ Head(l) \in S
           /\ Contains(l, Head(l)) /\ \A x : Contains(r, x) <=> Contains(l, x)
<1>1. /\ Len(l) \in Nat /\ Len(l) >= 1 /\ Head(l) = l[1] /\ Head(l) \in S
      /\ Tail(l) \in Seq(S) /\ Len(Tail(l)) = Len(l) - 1 /\ \A i \in 1 .. Len(l) - 1 : Tail(l)[i] = l[i + 1]
  OBVIOUS
<1>2. /\ r \in Seq(S) /\ Len(r) = Len(l) /\ r[Len(l)] = l[1]
      /\ \A i \in 1 .. Len(l) - 1 : r[i] = l[i + 1]
  BY <1>1 DEF Rotated
<1>3. Distinct(r)
  <2>1. \A i, j \in 1 .. Len(l) : l[i] = l[j] => i = j
    BY DEF Distinct
  <2>2. \A i \in 1 .. Len(l) : i = Len(l) \/ (i \in 1 .. Len(l) - 1 /\ i + 1 \in 1 .. Len(l) /\ i + 1 # 1)
    BY ONLY <1>1, Indices
  <2>3. ASSUME NEW i \in 1 .. Len(l), NEW j \in 1 .. Len(l), r[i] = r[j] PROVE i = j
    <3>1. CASE i = Len(l) /\ j # Len(l)
      BY ONLY <3>1, <2>1, <2>2, <2>3, <1>1, <1>2, i \in 1 .. Len(l), j \in 1 .. Len(l)
    <3>2. CASE j = Len(l) /\ i # Len(l)
      BY ONLY <3>2, <2>1, <2>2, <2>3, <1>1, <1>2, i \in 1 .. Len(l), j \in 1 .. Len(l)
    <3>3. CASE i # Len(l) /\ j # Len(l)
      <4>1. l[i + 1] = l[j + 1] /\ i + 1 \in 1 .. Len(l) /\ j + 1 \in 1 .. Len(l)
        BY ONLY <3>3, <2>2, <2>3, <1>2, i \in 1 .. Len(l), j \in 1 .. Len(l)
      <4>2. i + 1 = j + 1
        BY ONLY <4>1, <2>1
      <4>3. QED BY <4>2
    <3>4. QED BY <3>1, <3>2, <3>3
  <2>4. QED BY <1>2, <2>3 DEF Distinct
<1>4. Contains(l, Head(l))
  BY <1>1 DEF Contains
<1>5. ASSUME NEW x, Contains(r, x) PROVE Contains(l, x)
  <2>1. PICK i \in 1 .. Len(l) : r[i] = x
    BY <1>2, <1>5 DEF Contains
  <2>2. CASE i = Len(l)
    BY ONLY <2>1, <2>2, <1>1, <1>2 DEF Contains
  <2>3. CASE i # Len(l)
    <3>1. i \in 1 .. Len(l) - 1 /\ i + 1 \in 1 .. Len(l)
      BY ONLY <1>1, <2>3, i \in 1 .. Len(l), Indices
    <3>2. l[i + 1] = x
      BY ONLY <2>1, <3>1, <1>2
    <3>3. QED BY ONLY <3>1, <3>2 DEF Contains
  <2>4. QED BY <2>2, <2>3
<1>6. ASSUME NEW x, Contains(l, x) PROVE Contains(r, x)
  <2>1. PICK i \in 1 .. Len(l) : l[i] = x
    BY <1>6 DEF Contains
  <2>2. CASE i = 1
    <3>1. Len(l) \in 1 .. Len(r)
      BY <1>1, <1>2
    <3>2. QED BY ONLY <1>2, <2>1, <2>2, <3>1 DEF Contains
  <2>3. CASE i # 1
    <3>1. i - 1 \in 1 .. Len(l) - 1 /\ (i - 1) + 1 = i /\ i - 1 \in 1 .. Len(r)
      BY <1>1, <1>2, <2>3
    <3>2. r[i - 1] = x
      BY ONLY <1>2, <2>1, <3>1
    <3>3. QED BY ONLY <3>1, <3>2 DEF Contains
  <2>4. QED BY <2>2, <2>3
<1>7. QED BY <1>1, <1>2, <1>3, <1>4, <1>5, <1>6

-----------------------------------------------------------------------------
(* The scheduler's statics when the tasks of C have been created. *)
Statics(C) ==
    [ready : [QueueCpus -> Seq(Ids)], current : [QueueCpus -> Ids \cup {NoId}], blocked : Seq(Ids),
     cpuOf : [Ids -> {0, NoId}], context : [Ids -> C \cup {NoId}], curId : Ids,
     switch : C \cup {NoId}, switched : BOOLEAN]

(* No queue holds a task twice and no two queues hold one task. *)
Apart(q) ==
    /\ \A c \in Queues : Distinct(Queue(q, c))
    /\ \A c, d \in Queues : \A x \in Ids : Contains(Queue(q, c), x) /\ Contains(Queue(q, d), x) => c = d

Tidy(q, C) == q \in Statics(C) /\ q.current[0] \in Ids /\ Apart(q)

(* What a step on CPU 0 that creates and ends no task keeps. *)
Same(q, p) ==
    /\ \A t \in Ids : InQueues(p, t) <=> InQueues(q, t)
    /\ \A c \in QueueCpus \ {0} : p.ready[c] = q.ready[c]

(* CURRENT_TASK_ID names a task where with_current_task looks. *)
Known(q) == q.curId = q.current[0] /\ (Contains(q.ready[0], q.curId) \/ Contains(q.blocked, q.curId))

LEMMA Homes ==
    ASSUME sched_use \in SchedUses
    PROVE  /\ 0 \in QueueCpus /\ NoId \notin QueueCpus /\ 0 # NoId /\ 0 \in Queues /\ NoId \in Queues
           /\ QueueCpus \subseteq Nat /\ \A c \in Queues : c \in QueueCpus \/ c = NoId
           /\ \A c \in QueueCpus : c \in Queues
  BY SchedulerAssumption DEF QueueCpus, NoId, Queues

LEMMA QueueOf ==
    ASSUME sched_use \in SchedUses, NEW q
    PROVE  Queue(q, NoId) = q.blocked /\ \A c \in QueueCpus : Queue(q, c) = q.ready[c]
  BY Homes DEF Queue

LEMMA InSome ==
    ASSUME sched_use \in SchedUses, NEW q, NEW t
    PROVE  InQueues(q, t) <=> \E c \in Queues : Contains(Queue(q, c), t)
<1>1. ASSUME InQueues(q, t) PROVE \E c \in Queues : Contains(Queue(q, c), t)
  BY <1>1, Homes, QueueOf DEF InQueues
<1>2. ASSUME NEW c \in Queues, Contains(Queue(q, c), t) PROVE InQueues(q, t)
  <2>1. CASE c \in QueueCpus
    BY <1>2, <2>1, QueueOf DEF InQueues
  <2>2. CASE c = NoId
    BY <1>2, <2>2, QueueOf DEF InQueues
  <2>3. QED BY <2>1, <2>2, Homes
<1>3. QED BY <1>1, <1>2

LEMMA QueueTypes ==
    ASSUME sched_use \in SchedUses, NEW C, NEW q \in Statics(C), NEW c \in Queues
    PROVE  Queue(q, c) \in Seq(Ids) /\ \A x : Contains(Queue(q, c), x) => x \in Ids
<1>1. Queue(q, c) \in Seq(Ids)
  <2>1. CASE c \in QueueCpus
    BY <2>1, QueueOf DEF Statics
  <2>2. CASE c = NoId
    BY <2>2, QueueOf DEF Statics
  <2>3. QED BY <2>1, <2>2, Homes
<1>2. QED BY <1>1 DEF Contains

(* NoTwins, said of the members of the queues. *)
LEMMA TwinsApart ==
    ASSUME sched_use \in SchedUses, NEW C, NEW q \in Statics(C)
    PROVE  NoTwins(q) <=> Apart(q)
<1>1. ASSUME NoTwins(q) PROVE Apart(q)
  BY <1>1 DEF NoTwins, Apart, Distinct, Contains
<1>2. ASSUME Apart(q), NEW c \in Queues, NEW d \in Queues,
             NEW i \in 1 .. Len(Queue(q, c)), NEW j \in 1 .. Len(Queue(q, d)),
             Queue(q, c)[i] = Queue(q, d)[j]
      PROVE  c = d /\ i = j
  <2>1. Contains(Queue(q, c), Queue(q, c)[i]) /\ Contains(Queue(q, d), Queue(q, c)[i])
    BY <1>2 DEF Contains
  <2>2. Queue(q, c)[i] \in Ids
    BY <2>1, QueueTypes
  <2>3. c = d
    BY <1>2, <2>1, <2>2 DEF Apart
  <2>4. QED BY <1>2, <2>3 DEF Apart, Distinct
<1>3. QED BY <1>1, <1>2 DEF NoTwins

(* A task moves from one queue to another. *)
LEMMA MoveApart ==
    ASSUME sched_use \in SchedUses, NEW q, NEW p, Apart(q),
           NEW a \in Queues, NEW b \in Queues, a # b, NEW x \in Ids, Contains(Queue(q, a), x),
           Distinct(Queue(p, a)), Distinct(Queue(p, b)),
           \A y : Contains(Queue(p, a), y) <=> Contains(Queue(q, a), y) /\ y # x,
           \A y : Contains(Queue(p, b), y) <=> Contains(Queue(q, b), y) \/ y = x,
           \A c \in Queues \ {a, b} : Queue(p, c) = Queue(q, c)
    PROVE  Apart(p) /\ \A t \in Ids : InQueues(p, t) <=> InQueues(q, t)
<1>1. \A c \in Queues : Distinct(Queue(p, c))
  BY DEF Apart
<1>2. ASSUME NEW y \in Ids, NEW c \in Queues
      PROVE  Contains(Queue(p, c), y) <=> IF y = x THEN c = b ELSE Contains(Queue(q, c), y)
  <2>1. CASE c \in {a, b}
    BY <2>1 DEF Apart
  <2>2. CASE c \notin {a, b}
    BY <2>2 DEF Apart
  <2>3. QED BY <2>1, <2>2
<1>3. \A c, d \in Queues : \A y \in Ids : Contains(Queue(p, c), y) /\ Contains(Queue(p, d), y) => c = d
  BY <1>2 DEF Apart
<1>4. ASSUME NEW t \in Ids PROVE InQueues(p, t) <=> InQueues(q, t)
  BY <1>2, InSome
<1>5. QED BY <1>1, <1>3, <1>4 DEF Apart

(* A queue is turned. *)
LEMMA TurnApart ==
    ASSUME sched_use \in SchedUses, NEW q, NEW p, Apart(q), NEW a \in Queues, Distinct(Queue(p, a)),
           \A y : Contains(Queue(p, a), y) <=> Contains(Queue(q, a), y),
           \A c \in Queues \ {a} : Queue(p, c) = Queue(q, c)
    PROVE  Apart(p) /\ \A t \in Ids : InQueues(p, t) <=> InQueues(q, t)
<1>1. \A c \in Queues : Distinct(Queue(p, c))
  BY DEF Apart
<1>2. \A c \in Queues, y \in Ids : Contains(Queue(p, c), y) <=> Contains(Queue(q, c), y)
  OBVIOUS
<1>3. QED BY <1>1, <1>2, InSome DEF Apart

-----------------------------------------------------------------------------
(* block_and_switch in its two halves: the current task is parked, then    *)
(* the next one is picked.                                                 *)
Parked(q) ==
    IF ~Contains(q.ready[0], q.current[0]) THEN q
    ELSE [q EXCEPT !.ready[0] = RemoveFirst(q.ready[0], q.current[0]),
                   !.blocked = Append(@, q.current[0]),
                   !.cpuOf[q.current[0]] = 0, !.context[q.current[0]] = exe]
Picked(p) ==
    LET n   == Head(p.ready[0])
        has == p.context[n] # NoId
    IN  IF p.ready[0] = <<>> THEN [p EXCEPT !.switched = FALSE]
        ELSE [p EXCEPT !.ready[0] = Append(Tail(p.ready[0]), n), !.current[0] = n, !.curId = n,
                       !.switched = has, !.switch = IF has THEN p.context[n] ELSE @]

LEMMA BlockIsParkPick ==
    ASSUME sched_use \in SchedUses, NEW C, NEW q \in Statics(C)
    PROVE  block_and_switch(q) = Picked(Parked(q))
<1>1. CASE ~Contains(q.ready[0], q.current[0])
  BY <1>1 DEF block_and_switch, Parked, Picked
<1>2. CASE Contains(q.ready[0], q.current[0])
  <2> DEFINE rest == RemoveFirst(q.ready[0], q.current[0])
             p == [q EXCEPT !.ready[0] = rest, !.blocked = Append(@, q.current[0]),
                            !.cpuOf[q.current[0]] = 0, !.context[q.current[0]] = exe]
  <2>1. Parked(q) = p
    BY <1>2 DEF Parked
  <2>2. p.ready[0] = rest
    BY Homes DEF Statics
  <2>3. block_and_switch(q) = IF rest = <<>> THEN [p EXCEPT !.switched = FALSE]
                              ELSE [p EXCEPT !.ready[0] = Append(Tail(rest), Head(rest)),
                                             !.current[0] = Head(rest), !.curId = Head(rest),
                                             !.switched = p.context[Head(rest)] # NoId,
                                             !.switch = IF p.context[Head(rest)] # NoId
                                                        THEN p.context[Head(rest)] ELSE @]
    BY <1>2 DEF block_and_switch
  <2> HIDE DEF p, rest
  <2>4. QED BY <2>1, <2>2, <2>3 DEF Picked
<1>3. QED BY <1>1, <1>2

LEMMA ParkKeeps ==
    ASSUME sched_use \in SchedUses, NEW C, exe \in C, NEW q, Tidy(q, C), NEW p, p = Parked(q)
    PROVE  /\ Tidy(p, C) /\ Same(q, p) /\ p.current = q.current /\ p.curId = q.curId
           /\ Known(q) => Contains(p.blocked, p.curId)
           /\ Len(p.ready[0]) = IF Contains(q.ready[0], q.current[0]) THEN Len(q.ready[0]) - 1 ELSE Len(q.ready[0])
<1> DEFINE x == q.current[0]
           R == RemoveFirst(q.ready[0], x)
           B == Append(q.blocked, x)
<1>1. q \in Statics(C) /\ x \in Ids /\ Apart(q)
  BY DEF Tidy
<1>2. q.ready \in [QueueCpus -> Seq(Ids)] /\ q.blocked \in Seq(Ids) /\ q.ready[0] \in Seq(Ids)
  BY <1>1, Homes DEF Statics
<1>3. CASE ~Contains(q.ready[0], x)
  BY <1>1, <1>3 DEF Parked, Same, Known, Tidy
<1>4. CASE Contains(q.ready[0], x)
  <2>1. p = [q EXCEPT !.ready[0] = R, !.blocked = B, !.cpuOf[x] = 0, !.context[x] = exe]
    BY <1>4 DEF Parked
  <2>2. /\ Distinct(q.ready[0]) /\ Distinct(q.blocked) /\ ~Contains(q.blocked, x)
    BY <1>1, <1>4, Homes, QueueOf DEF Apart
  <2>3. /\ R \in Seq(Ids) /\ Len(R) = Len(q.ready[0]) - 1 /\ Distinct(R)
        /\ \A y : Contains(R, y) <=> Contains(q.ready[0], y) /\ y # x
    BY <1>2, <1>4, <2>2, Removed
  <2>4. B \in Seq(Ids) /\ Distinct(B) /\ \A y : Contains(B, y) <=> Contains(q.blocked, y) \/ y = x
    <3>1. B = Pushed(q.blocked, x)
      BY DEF Pushed
    <3> HIDE DEF x, B
    <3>2. x \in Ids /\ q.blocked \in Seq(Ids) /\ Distinct(q.blocked) /\ ~Contains(q.blocked, x)
      BY <1>1, <1>2, <2>2
    <3>3. QED BY ONLY <3>1, <3>2, Appended
  <2> HIDE DEF x, R, B
  <2>5. /\ p \in Statics(C) /\ p.ready = [q.ready EXCEPT ![0] = R] /\ p.blocked = B
        /\ p.current = q.current /\ p.curId = q.curId
    <3>1. p = [ready |-> [q.ready EXCEPT ![0] = R], current |-> q.current, blocked |-> B,
               cpuOf |-> [q.cpuOf EXCEPT ![x] = 0], context |-> [q.context EXCEPT ![x] = exe],
               curId |-> q.curId, switch |-> q.switch, switched |-> q.switched]
      BY <1>1, <2>1 DEF Statics
    <3>2. [q.ready EXCEPT ![0] = R] \in [QueueCpus -> Seq(Ids)]
      BY <1>2, <2>3
    <3>3. [q.cpuOf EXCEPT ![x] = 0] \in [Ids -> {0, NoId}]
      BY <1>1 DEF Statics
    <3>4. [q.context EXCEPT ![x] = exe] \in [Ids -> C \cup {NoId}]
      BY <1>1 DEF Statics
    <3>5. q.current \in [QueueCpus -> Ids \cup {NoId}] /\ q.curId \in Ids /\ q.switch \in C \cup {NoId} /\ q.switched \in BOOLEAN
      BY <1>1 DEF Statics
    <3>6. p \in Statics(C)
      BY ONLY <3>1, <3>2, <3>3, <3>4, <3>5, <2>4 DEF Statics
    <3>7. QED BY <3>1, <3>6
  <2>6. p.ready[0] = R /\ \A c \in QueueCpus \ {0} : p.ready[c] = q.ready[c]
    BY <1>2, <2>5, Homes
  <2>7. /\ Queue(p, 0) = R /\ Queue(p, NoId) = B /\ Queue(q, 0) = q.ready[0] /\ Queue(q, NoId) = q.blocked
        /\ \A c \in Queues \ {0, NoId} : Queue(p, c) = Queue(q, c)
    <3>1. Queue(p, 0) = R /\ Queue(p, NoId) = B
      <4>1. Queue(p, NoId) = p.blocked /\ Queue(p, 0) = p.ready[0]
        BY Homes, QueueOf
      <4>2. QED BY <2>5, <2>6, <4>1
    <3>2. Queue(q, 0) = q.ready[0] /\ Queue(q, NoId) = q.blocked
      BY Homes, QueueOf
    <3>3. \A c \in Queues \ {0, NoId} : c \in QueueCpus \ {0}
      BY Homes
    <3>4. \A c \in QueueCpus \ {0} : Queue(p, c) = Queue(q, c)
      BY <2>6, QueueOf
    <3>5. QED BY <3>1, <3>2, <3>3, <3>4
  <2>8. Apart(p) /\ \A t \in Ids : InQueues(p, t) <=> InQueues(q, t)
    BY <1>1, <1>4, <2>3, <2>4, <2>7, Homes, MoveApart
  <2>9. Known(q) => Contains(p.blocked, p.curId)
    BY <2>4, <2>5 DEF Known, x
  <2>10. Tidy(p, C)
    BY <1>1, <2>5, <2>8 DEF Tidy, x
  <2>11. QED BY <1>4, <2>3, <2>5, <2>6, <2>8, <2>9, <2>10 DEF Same, x
<1>5. QED BY <1>3, <1>4

LEMMA PickKeeps ==
    ASSUME sched_use \in SchedUses, NEW C, NEW q, Tidy(q, C), NEW p, p = Picked(q)
    PROVE  /\ Tidy(p, C) /\ Same(q, p) /\ p.blocked = q.blocked
           /\ p.switched => p.curId = p.current[0] /\ Contains(p.ready[0], p.current[0])
           /\ q.curId = q.current[0] => p.curId = p.current[0]
           /\ p.curId = q.curId \/ Contains(p.ready[0], p.curId)
           /\ Len(p.ready[0]) = Len(q.ready[0])
<1> DEFINE l == q.ready[0]
           n == Head(l)
           R == Rotated(l)
           has == q.context[n] # NoId
           ctx == IF has THEN q.context[n] ELSE q.switch
<1>1. q \in Statics(C) /\ q.current[0] \in Ids /\ Apart(q)
  BY DEF Tidy
<1>2. q.ready \in [QueueCpus -> Seq(Ids)] /\ l \in Seq(Ids) /\ q.current \in [QueueCpus -> Ids \cup {NoId}]
  BY <1>1, Homes DEF Statics
<1>3. CASE l = <<>>
  <2>1. p = [q EXCEPT !.switched = FALSE]
    BY <1>3 DEF Picked
  <2>2. p = [ready |-> q.ready, current |-> q.current, blocked |-> q.blocked, cpuOf |-> q.cpuOf,
             context |-> q.context, curId |-> q.curId, switch |-> q.switch, switched |-> FALSE]
    BY <1>1, <2>1 DEF Statics
  <2>3. p \in Statics(C) /\ p.ready = q.ready /\ p.current = q.current /\ p.blocked = q.blocked
        /\ p.curId = q.curId /\ p.switched = FALSE
    BY <1>1, <2>2 DEF Statics
  <2>4. \A c \in Queues : Queue(p, c) = Queue(q, c)
    BY <2>3 DEF Queue
  <2>5. Apart(p) /\ \A t \in Ids : InQueues(p, t) <=> InQueues(q, t)
    BY <1>1, <2>4, InSome DEF Apart
  <2>6. QED BY <1>1, <2>3, <2>5 DEF Tidy, Same
<1>4. CASE l # <<>>
  <2>1. p = [q EXCEPT !.ready[0] = R, !.current[0] = n, !.curId = n, !.switched = has, !.switch = ctx]
    BY <1>4 DEF Picked, Rotated
  <2>2. Distinct(l)
    BY <1>1, Homes, QueueOf DEF Apart
  <2>3. /\ R \in Seq(Ids) /\ Len(R) = Len(l) /\ Distinct(R) /\ n \in Ids
        /\ Contains(R, n) /\ \A y : Contains(R, y) <=> Contains(l, y)
    <3>1. R = Rotated(l)
      OBVIOUS
    <3> HIDE DEF R, l
    <3>2. QED BY ONLY <1>2, <1>4, <2>2, <3>1, Turned
  <2>4. has \in BOOLEAN /\ ctx \in C \cup {NoId}
    BY <1>1, <2>3 DEF Statics
  <2> HIDE DEF l, n, R, has, ctx
  <2>5. /\ p = [ready |-> [q.ready EXCEPT ![0] = R], current |-> [q.current EXCEPT ![0] = n], blocked |-> q.blocked,
                cpuOf |-> q.cpuOf, context |-> q.context, curId |-> n, switch |-> ctx, switched |-> has]
    BY <1>1, <2>1 DEF Statics
  <2>6. /\ [q.ready EXCEPT ![0] = R] \in [QueueCpus -> Seq(Ids)]
        /\ [q.current EXCEPT ![0] = n] \in [QueueCpus -> Ids \cup {NoId}]
    BY <1>2, <2>3
  <2>7. q.blocked \in Seq(Ids) /\ q.cpuOf \in [Ids -> {0, NoId}] /\ q.context \in [Ids -> C \cup {NoId}]
    BY <1>1 DEF Statics
  <2>8. p \in Statics(C)
    BY ONLY <2>3, <2>4, <2>5, <2>6, <2>7 DEF Statics
  <2>9. /\ p.ready[0] = R /\ (\A c \in QueueCpus \ {0} : p.ready[c] = q.ready[c])
        /\ p.current[0] = n /\ p.curId = n /\ p.blocked = q.blocked
    BY <1>2, <2>5, Homes
  <2>10. Queue(p, 0) = R /\ Queue(q, 0) = l
    BY <2>9, Homes, QueueOf DEF l
  <2>11. \A c \in Queues \ {0} : Queue(p, c) = Queue(q, c)
    <3>1. Queue(p, NoId) = Queue(q, NoId)
      BY <2>9, QueueOf
    <3>2. \A c \in QueueCpus \ {0} : Queue(p, c) = Queue(q, c)
      BY <2>9, QueueOf
    <3>3. QED BY <3>1, <3>2, Homes
  <2>12. Apart(p) /\ \A t \in Ids : InQueues(p, t) <=> InQueues(q, t)
    BY <1>1, <2>3, <2>10, <2>11, Homes, TurnApart
  <2>13. Tidy(p, C) /\ Same(q, p)
    BY <2>3, <2>8, <2>9, <2>12 DEF Tidy, Same
  <2>14. QED BY <2>3, <2>9, <2>13 DEF l
<1>5. QED BY <1>3, <1>4

LEMMA SameThenSame ==
    ASSUME NEW q, NEW m, NEW p, Same(q, m), Same(m, p)
    PROVE  Same(q, p)
  BY DEF Same

(* block_and_switch moves tasks about: none is lost, and none is in two    *)
(* places after it.                                                        *)
LEMMA BlockKeeps ==
    ASSUME sched_use \in SchedUses, NEW C, exe \in C, NEW q, Tidy(q, C), NEW p, p = block_and_switch(q)
    PROVE  /\ Tidy(p, C) /\ Same(q, p) /\ (Known(q) => Known(p))
           /\ p.switched => /\ p.curId = p.current[0] /\ Contains(p.ready[0], p.current[0])
                            /\ Contains(q.ready[0], q.current[0]) => Len(p.ready[0]) = Len(q.ready[0]) - 1
                            /\ Len(p.ready[0]) <= Len(q.ready[0])
<1>1. q \in Statics(C)
  BY DEF Tidy
<1>2. PICK m : m = Parked(q)
  OBVIOUS
<1>3. p = Picked(m)
  BY <1>1, <1>2, BlockIsParkPick
<1>4. /\ Tidy(m, C) /\ Same(q, m) /\ m.current = q.current /\ m.curId = q.curId
      /\ Known(q) => Contains(m.blocked, m.curId)
      /\ Len(m.ready[0]) = IF Contains(q.ready[0], q.current[0]) THEN Len(q.ready[0]) - 1 ELSE Len(q.ready[0])
  BY <1>2, ParkKeeps
<1>5. /\ Tidy(p, C) /\ Same(m, p) /\ p.blocked = m.blocked
      /\ p.switched => p.curId = p.current[0] /\ Contains(p.ready[0], p.current[0])
      /\ m.curId = m.current[0] => p.curId = p.current[0]
      /\ p.curId = m.curId \/ Contains(p.ready[0], p.curId)
      /\ Len(p.ready[0]) = Len(m.ready[0])
  BY <1>3, <1>4, PickKeeps
<1>6. Same(q, p)
  BY <1>4, <1>5, SameThenSame
<1>7. ASSUME Known(q) PROVE Known(p)
  <2>1. p.curId = p.current[0]
    BY <1>4, <1>5, <1>7 DEF Known
  <2>2. Contains(p.ready[0], p.curId) \/ Contains(p.blocked, p.curId)
    BY <1>4, <1>5, <1>7
  <2>3. QED BY <2>1, <2>2 DEF Known
<1>8. Len(q.ready[0]) \in Nat
  BY <1>1, Homes DEF Statics
<1>9. Len(p.ready[0]) <= Len(q.ready[0])
  BY <1>4, <1>5, <1>8
<1>10. QED BY <1>4, <1>5, <1>6, <1>7, <1>9

-----------------------------------------------------------------------------
(* A blocked task goes back to the ready queue of CPU 0. *)
Requeued(q, x, f) ==
    [q EXCEPT !.blocked = RemoveFirst(q.blocked, x), !.ready[0] = Append(q.ready[0], x), !.cpuOf = f]

LEMMA RequeueKeeps ==
    ASSUME sched_use \in SchedUses, NEW C, NEW q, Tidy(q, C), NEW x \in Ids, Contains(q.blocked, x),
           NEW f \in [Ids -> {0, NoId}], NEW p, p = Requeued(q, x, f)
    PROVE  /\ Tidy(p, C) /\ Same(q, p) /\ p.switched = q.switched
           /\ Known(q) => Known(p)
<1> DEFINE R == Pushed(q.ready[0], x)
           B == RemoveFirst(q.blocked, x)
<1>1. q \in Statics(C) /\ q.current[0] \in Ids /\ Apart(q)
  BY DEF Tidy
<1>2. q.ready \in [QueueCpus -> Seq(Ids)] /\ q.blocked \in Seq(Ids) /\ q.ready[0] \in Seq(Ids)
  BY <1>1, Homes DEF Statics
<1>3. Distinct(q.ready[0]) /\ Distinct(q.blocked) /\ ~Contains(q.ready[0], x)
  BY <1>1, Homes, QueueOf DEF Apart
<1>4. B \in Seq(Ids) /\ Distinct(B) /\ \A y : Contains(B, y) <=> Contains(q.blocked, y) /\ y # x
  BY <1>2, <1>3, Removed
<1>5. R \in Seq(Ids) /\ Distinct(R) /\ \A y : Contains(R, y) <=> Contains(q.ready[0], y) \/ y = x
  <2>1. R = Pushed(q.ready[0], x)
    OBVIOUS
  <2> HIDE DEF R
  <2>2. QED BY <1>2, <1>3, <2>1, Appended
<1>6. p = [q EXCEPT !.blocked = B, !.ready[0] = R, !.cpuOf = f]
  BY DEF Pushed, Requeued
<1> HIDE DEF R, B
<1>7. p = [ready |-> [q.ready EXCEPT ![0] = R], current |-> q.current, blocked |-> B, cpuOf |-> f,
           context |-> q.context, curId |-> q.curId, switch |-> q.switch, switched |-> q.switched]
  BY <1>1, <1>6 DEF Statics
<1>8. [q.ready EXCEPT ![0] = R] \in [QueueCpus -> Seq(Ids)]
  BY <1>2, <1>5
<1>9. /\ q.current \in [QueueCpus -> Ids \cup {NoId}] /\ q.context \in [Ids -> C \cup {NoId}]
      /\ q.curId \in Ids /\ q.switch \in C \cup {NoId} /\ q.switched \in BOOLEAN
  BY <1>1 DEF Statics
<1>10. p \in Statics(C)
  BY ONLY <1>4, <1>7, <1>8, <1>9, f \in [Ids -> {0, NoId}] DEF Statics
<1>11. /\ p.ready[0] = R /\ (\A c \in QueueCpus \ {0} : p.ready[c] = q.ready[c])
       /\ p.blocked = B /\ p.current = q.current /\ p.curId = q.curId /\ p.switched = q.switched
  BY <1>2, <1>7, Homes
<1>12. Queue(p, 0) = R /\ Queue(p, NoId) = B /\ Queue(q, 0) = q.ready[0] /\ Queue(q, NoId) = q.blocked
  BY <1>11, Homes, QueueOf
<1>13. \A c \in Queues \ {NoId, 0} : Queue(p, c) = Queue(q, c)
  <2>1. \A c \in QueueCpus \ {0} : Queue(p, c) = Queue(q, c)
    BY <1>11, QueueOf
  <2>2. QED BY <2>1, Homes
<1>14. Apart(p) /\ \A t \in Ids : InQueues(p, t) <=> InQueues(q, t)
  BY <1>1, <1>4, <1>5, <1>12, <1>13, Homes, MoveApart
<1>15. Known(q) => Known(p)
  BY <1>4, <1>5, <1>11 DEF Known
<1>16. QED BY <1>1, <1>10, <1>11, <1>14, <1>15 DEF Tidy, Same

LEMMA SameSelf == ASSUME NEW q PROVE Same(q, q)
  BY DEF Same

LEMMA WakeKeeps ==
    ASSUME sched_use \in SchedUses, NEW C, NEW q, Tidy(q, C), NEW t \in Ids, NEW p, p = wake_task_by_id(q, t)
    PROVE  Tidy(p, C) /\ Same(q, p) /\ (Known(q) => Known(p))
<1>1. CASE ~Contains(q.blocked, t)
  BY <1>1, SameSelf DEF wake_task_by_id
<1>2. CASE Contains(q.blocked, t)
  <2> DEFINE f == [q.cpuOf EXCEPT ![t] = NoId]
  <2>1. q \in Statics(C)
    BY DEF Tidy
  <2>2. q.cpuOf[t] \in {0, NoId} /\ f \in [Ids -> {0, NoId}]
    BY <2>1 DEF Statics
  <2>3. (IF q.cpuOf[t] = NoId THEN 0 ELSE q.cpuOf[t]) = 0
    BY <2>2
  <2>4. p = [q EXCEPT !.blocked = RemoveFirst(@, t), !.cpuOf[t] = NoId, !.ready[0] = Append(@, t)]
    BY <1>2, <2>3 DEF wake_task_by_id
  <2>5. p = Requeued(q, t, f)
    BY <2>1, <2>4 DEF Statics, Requeued
  <2> HIDE DEF f
  <2>6. QED BY <1>2, <2>2, <2>5, RequeueKeeps
<1>3. QED BY <1>1, <1>2

LEMMA UnblockKeeps ==
    ASSUME sched_use \in SchedUses, NEW C, NEW q, Tidy(q, C), NEW p, p = unblock_current(q)
    PROVE  Tidy(p, C) /\ Same(q, p)
<1> DEFINE x == q.current[0]
<1>1. q \in Statics(C) /\ x \in Ids /\ q.cpuOf \in [Ids -> {0, NoId}]
  BY DEF Tidy, Statics
<1>2. CASE ~Contains(q.blocked, x)
  BY <1>2, SameSelf DEF unblock_current
<1>3. CASE Contains(q.blocked, x)
  <2>1. p = [q EXCEPT !.blocked = RemoveFirst(@, x), !.ready[0] = Append(@, x)]
    BY <1>3 DEF unblock_current
  <2> HIDE DEF x
  <2>2. p = Requeued(q, x, q.cpuOf)
    BY <1>1, <2>1 DEF Statics, Requeued
  <2>3. QED BY <1>1, <1>3, <2>2, RequeueKeeps
<1>4. QED BY <1>2, <1>3

(* terminate_current takes one task out, and may wake another. *)
LEMMA TerminateKeeps ==
    ASSUME sched_use \in SchedUses, NEW C, NEW q, Tidy(q, C), parent \in [Ids -> Ids \cup {NoId}],
           Contains(q.ready[0], q.current[0]), NEW p, p = Terminated(q)
    PROVE  /\ Tidy(p, C) /\ \A c \in QueueCpus \ {0} : p.ready[c] = q.ready[c]
           /\ \A t \in Ids : InQueues(p, t) <=> InQueues(q, t) /\ t # q.current[0]
<1> DEFINE x == q.current[0]
           R == RemoveFirst(q.ready[0], x)
           m == [q EXCEPT !.ready[0] = R]
<1>1. q \in Statics(C) /\ x \in Ids /\ Apart(q)
  BY DEF Tidy
<1>2. q.ready \in [QueueCpus -> Seq(Ids)] /\ q.ready[0] \in Seq(Ids)
  BY <1>1, Homes DEF Statics
<1>3. Distinct(q.ready[0])
  BY <1>1, Homes, QueueOf DEF Apart
<1>4. R \in Seq(Ids) /\ Distinct(R) /\ \A y : Contains(R, y) <=> Contains(q.ready[0], y) /\ y # x
  BY <1>2, <1>3, Removed
<1>5. p = IF parent[x] = NoId THEN m ELSE wake_task_by_id(m, parent[x])
  BY DEF Terminated
<1>6. Contains(q.ready[0], x) /\ m = [q EXCEPT !.ready[0] = R]
  OBVIOUS
<1> HIDE DEF x, R, m
<1>7. m = [ready |-> [q.ready EXCEPT ![0] = R], current |-> q.current, blocked |-> q.blocked, cpuOf |-> q.cpuOf,
           context |-> q.context, curId |-> q.curId, switch |-> q.switch, switched |-> q.switched]
  BY <1>1, <1>6 DEF Statics
<1>8. [q.ready EXCEPT ![0] = R] \in [QueueCpus -> Seq(Ids)]
  BY <1>2, <1>4
<1>9. m \in Statics(C)
  BY <1>1, <1>7, <1>8 DEF Statics
<1>10. /\ m.ready[0] = R /\ (\A c \in QueueCpus \ {0} : m.ready[c] = q.ready[c])
       /\ m.blocked = q.blocked /\ m.current = q.current
  BY <1>2, <1>7, Homes
<1>11. Queue(m, 0) = R /\ Queue(q, 0) = q.ready[0]
  BY <1>10, Homes, QueueOf
<1>12. \A c \in Queues \ {0} : Queue(m, c) = Queue(q, c)
  <2>1. \A c \in QueueCpus \ {0} : Queue(m, c) = Queue(q, c)
    BY <1>10, QueueOf
  <2>2. Queue(m, NoId) = Queue(q, NoId)
    BY <1>10, QueueOf
  <2>3. QED BY <2>1, <2>2, Homes
<1>13. \A c \in Queues, y \in Ids : Contains(Queue(m, c), y) <=> Contains(Queue(q, c), y) /\ y # x
  BY <1>1, <1>4, <1>6, <1>11, <1>12, Homes DEF Apart
<1>14. \A c \in Queues : Distinct(Queue(m, c))
  BY <1>1, <1>4, <1>11, <1>12 DEF Apart
<1>15. Apart(m)
  BY <1>1, <1>13, <1>14 DEF Apart
<1>16. Tidy(m, C)
  BY <1>1, <1>9, <1>10, <1>15 DEF Tidy, x
<1>17. \A t \in Ids : InQueues(m, t) <=> InQueues(q, t) /\ t # x
  BY <1>13, InSome
<1>18. CASE parent[x] = NoId
  BY <1>5, <1>10, <1>16, <1>17, <1>18 DEF x
<1>19. CASE parent[x] # NoId
  <2>1. parent[x] \in Ids
    BY <1>1, <1>19
  <2>2. Tidy(p, C) /\ Same(m, p)
    BY <1>5, <1>16, <1>19, <2>1, WakeKeeps
  <2>3. QED BY <1>10, <1>17, <2>2 DEF Same, x
<1>20. QED BY <1>18, <1>19

-----------------------------------------------------------------------------
(* How many tasks there are. *)
LEMMA CountIsNat ==
    ASSUME NEW C, NEW q \in Statics(C), NEW c \in QueueCpus
    PROVE  task_count(q, c) \in Nat /\ task_count(q, c) >= Len(q.ready[c])
<1>1. Len(q.ready[c]) \in Nat
  BY DEF Statics
<1>2. CASE q.current[c] = NoId
  <2>1. task_count(q, c) = Len(q.ready[c]) + 0
    BY <1>2 DEF task_count
  <2>2. QED BY <1>1, <2>1
<1>3. CASE q.current[c] # NoId
  <2>1. task_count(q, c) = Len(q.ready[c]) + 1
    BY <1>3 DEF task_count
  <2>2. QED BY <1>1, <2>1
<1>4. QED BY <1>2, <1>3

(* The totals are what the loop computes. *)
LEMMA TotalsAre ==
    ASSUME sched_use \in SchedUses, NEW C, NEW q \in Statics(C)
    PROVE  LET N == sched_use.cpus IN
           /\ Totals(q) \in [0 .. N -> Nat] /\ Totals(q)[0] = 0
           /\ \A n \in 1 .. N : Totals(q)[n] = Totals(q)[n - 1] + task_count(q, n - 1)
<1> DEFINE N == sched_use.cpus
           F == [x \in Nat \X Nat |-> x[2] + IF x[1] \in 1 .. N THEN task_count(q, x[1] - 1) ELSE 0]
           Is(f) == f = [n \in 0 .. N |-> IF n = 0 THEN 0 ELSE f[n - 1] + task_count(q, n - 1)]
<1>1. N \in Nat /\ N >= 1
  BY SchedulerAssumption
<1>2. \A n \in 1 .. N : n - 1 \in QueueCpus /\ n - 1 \in 0 .. N
  BY <1>1 DEF QueueCpus
<1>3. \A c \in QueueCpus : task_count(q, c) \in Nat
  BY CountIsNat
<1>4. F \in Steps(Nat)
  BY <1>2, <1>3 DEF Steps
<1>5. PICK f \in [0 .. N -> Nat] : f[0] = 0 /\ \A k \in 1 .. N : f[k] = F[<<k, f[k - 1]>>]
  <2> HIDE DEF F, N
  <2>1. Runs(Nat, 0, F, N) # {}
    BY <1>1, <1>4, Recursion
  <2>2. QED BY <2>1 DEF Runs
<1>6. ASSUME NEW k \in 1 .. N PROVE f[k] = f[k - 1] + task_count(q, k - 1)
  <2>1. f[k - 1] \in Nat /\ k \in Nat
    BY <1>2
  <2>2. F[<<k, f[k - 1]>>] = f[k - 1] + task_count(q, k - 1)
    BY <2>1
  <2>3. QED BY <1>5, <2>2
<1> HIDE DEF F
<1>7. Is(f)
  <2>1. \A n \in 0 .. N : f[n] = IF n = 0 THEN 0 ELSE f[n - 1] + task_count(q, n - 1)
    BY <1>1, <1>5, <1>6
  <2>2. QED BY <2>1
<1>8. Totals(q) = CHOOSE g : Is(g)
  BY DEF Totals
<1>9. Is(Totals(q))
  <2> HIDE DEF Is
  <2>1. QED BY <1>7, <1>8
<1> DEFINE g == Totals(q)
<1>10. /\ DOMAIN g = 0 .. N /\ g[0] = 0
       /\ \A n \in 1 .. N : g[n] = g[n - 1] + task_count(q, n - 1)
  BY <1>1, <1>9
<1> HIDE DEF N, g, Is
<1>11. \A n \in 0 .. N : g[n] = f[n]
  <2> DEFINE Bad == {n \in 0 .. N : g[n] # f[n]}
  <2>1. SUFFICES ASSUME Bad # {} PROVE FALSE
    OBVIOUS
  <2>2. Bad \in SUBSET Nat
    BY <1>1
  <2>3. PICK n \in Bad : \A k \in Bad : n <= k
    BY <2>1, <2>2, LeastMember
  <2>4. n \in 1 .. N /\ n - 1 \in 0 .. N /\ ~(n <= n - 1)
    BY <1>1, <1>5, <1>10, <2>3
  <2>5. g[n - 1] = f[n - 1]
    BY <2>3, <2>4
  <2>6. QED BY <1>6, <1>10, <2>3, <2>4, <2>5
<1>12. g \in [0 .. N -> Nat]
  <2>1. g = [n \in 0 .. N |-> g[n]]
    <3>1. g = [n \in 0 .. N |-> IF n = 0 THEN 0 ELSE g[n - 1] + task_count(q, n - 1)]
      BY <1>9 DEF g, Is
    <3>2. QED BY <3>1
  <2>2. \A n \in 0 .. N : g[n] \in Nat
    BY <1>5, <1>11
  <2>3. QED BY <2>1, <2>2
<1>13. QED BY <1>10, <1>12 DEF g, N

(* The tasks of a queue are as many as its length at most, and as many as  *)
(* there are ids at most.                                                  *)
Members(l) == {t \in Ids : Contains(l, t)}

LEMMA IdsFinite == IsFiniteSet(Ids) /\ Cardinality(Ids) = MaxId + 1
<1>1. 0 \in Int /\ MaxId \in Int /\ ~(0 > MaxId)
  BY SchedulerAssumption
<1>2. QED BY <1>1, FS_Interval DEF Ids

LEMMA MembersCount ==
    ASSUME NEW l \in Seq(Ids)
    PROVE  IsFiniteSet(Members(l)) /\ Cardinality(Members(l)) \in Nat /\ Cardinality(Members(l)) <= Len(l)
<1>1. Members(l) \in SUBSET Ids
  BY DEF Members
<1>2. IsFiniteSet(Members(l)) /\ Cardinality(Members(l)) \in Nat
  BY <1>1, IdsFinite, FS_Subset, FS_CardinalityType
<1>3. Len(l) \in Nat /\ l \in [1 .. Len(l) -> Members(l)]
  BY DEF Members, Contains
<1>4. l \in Surjection(1 .. Len(l), Members(l))
  BY <1>3 DEF Surjection, Members, Contains
<1>5. ExistsSurjection(1 .. Len(l), Members(l))
  BY <1>4 DEF ExistsSurjection
<1>6. QED BY <1>2, <1>3, <1>5, FS_SurjCardinalityBound

LEMMA DistinctLength ==
    ASSUME NEW l \in Seq(Ids), Distinct(l)
    PROVE  Len(l) <= MaxId + 1
<1>1. Len(l) \in Nat /\ l \in [1 .. Len(l) -> Ids]
  OBVIOUS
<1>2. l \in Injection(1 .. Len(l), Ids)
  BY <1>1 DEF Injection, IsInjective, Distinct
<1>3. Cardinality(1 .. Len(l)) <= MaxId + 1
  BY <1>2, IdsFinite, FS_Injection
<1>4. Cardinality(1 .. Len(l)) = Len(l)
  <2>1. 1 \in Int /\ Len(l) \in Int
    BY <1>1
  <2>2. Cardinality(1 .. Len(l)) = IF 1 > Len(l) THEN 0 ELSE Len(l) - 1 + 1
    BY ONLY <2>1, FS_Interval
  <2>3. QED BY <1>1, <2>2
<1>5. QED BY <1>3, <1>4

(* total_task_count counts every task that is in a queue. *)
LEMMA AllCounted ==
    ASSUME sched_use \in SchedUses, NEW C, NEW q \in Statics(C)
    PROVE  /\ IsFiniteSet({t \in Ids : InQueues(q, t)})
           /\ Cardinality({t \in Ids : InQueues(q, t)}) \in Nat
           /\ Cardinality({t \in Ids : InQueues(q, t)}) <= total_task_count(q)
           /\ total_task_count(q) \in Nat
<1> DEFINE N == sched_use.cpus
           T == Totals(q)
           A(n) == {t \in Ids : \E c \in 0 .. n - 1 : Contains(q.ready[c], t)}
           Bad == {n \in 0 .. N : ~(Cardinality(A(n)) <= T[n])}
<1>1. N \in Nat /\ N >= 1 /\ QueueCpus = 0 .. N - 1
  BY SchedulerAssumption DEF QueueCpus
<1>2. T \in [0 .. N -> Nat] /\ T[0] = 0 /\ \A n \in 1 .. N : T[n] = T[n - 1] + task_count(q, n - 1)
  BY TotalsAre
<1> HIDE DEF N, T
<1>3. ASSUME NEW n PROVE IsFiniteSet(A(n)) /\ Cardinality(A(n)) \in Nat
  <2>1. A(n) \in SUBSET Ids
    OBVIOUS
  <2>2. QED BY <2>1, IdsFinite, FS_Subset, FS_CardinalityType
<1>4. ASSUME Bad # {} PROVE FALSE
  <2>1. Bad \in SUBSET Nat
    BY <1>1
  <2>2. PICK n \in Bad : \A k \in Bad : n <= k
    BY <1>4, <2>1, LeastMember
  <2>3. A(0) = {} /\ Cardinality(A(0)) = 0
    <3>1. 0 .. 0 - 1 = {}
      OBVIOUS
    <3>2. A(0) = {}
      BY <3>1
    <3>3. QED BY <3>2, FS_EmptySet
  <2>4. n # 0
    <3>1. Cardinality(A(n)) # 0 \/ T[n] # 0
      BY <1>2, <2>2
    <3> HIDE DEF A
    <3>2. QED BY <1>2, <2>3, <3>1
  <2>5. n \in 1 .. N /\ n - 1 \in 0 .. N /\ ~(n <= n - 1) /\ n - 1 \in QueueCpus
    BY <1>1, <2>2, <2>4
  <2>6. Cardinality(A(n - 1)) <= T[n - 1]
    BY <2>2, <2>5
  <2> DEFINE l == q.ready[n - 1]
             M == Members(l)
  <2>7. l \in Seq(Ids)
    BY <2>5 DEF Statics
  <2>8. IsFiniteSet(M) /\ Cardinality(M) \in Nat /\ Cardinality(M) <= Len(l) /\ Len(l) \in Nat
    BY <2>7, MembersCount
  <2>9. A(n) = A(n - 1) \cup M
    <3>1. \A c : c \in 0 .. n - 1 <=> c \in 0 .. (n - 1) - 1 \/ c = n - 1
      BY <1>1, <2>5
    <3>2. QED BY <3>1 DEF Members
  <2>10. task_count(q, n - 1) \in Nat /\ task_count(q, n - 1) >= Len(l)
    BY <2>5, CountIsNat
  <2>11. T[n] = T[n - 1] + task_count(q, n - 1) /\ T[n - 1] \in Nat
    BY <1>2, <2>5
  <2>12. ~(Cardinality(A(n)) <= T[n])
    BY <2>2
  <2>13. \A m : IsFiniteSet(A(m)) /\ Cardinality(A(m)) \in Nat
    BY <1>3
  <2> HIDE DEF A, M, l
  <2>14. /\ Cardinality(A(n - 1) \cup M)
              = Cardinality(A(n - 1)) + Cardinality(M) - Cardinality(A(n - 1) \cap M)
         /\ Cardinality(A(n - 1) \cap M) \in Nat
    BY <2>8, <2>13, FS_Union, FS_Intersection, FS_CardinalityType
  <2>15. QED BY <2>6, <2>8, <2>9, <2>10, <2>11, <2>12, <2>13, <2>14
<1>5. N \in 0 .. N /\ Cardinality(A(N)) <= T[N] /\ T[N] \in Nat
  <2>1. N \in 0 .. N
    BY <1>1
  <2>2. N \notin Bad
    BY <1>4
  <2> HIDE DEF A
  <2>3. QED BY <1>2, <2>1, <2>2
<1> DEFINE B == Members(q.blocked)
           I == {t \in Ids : InQueues(q, t)}
<1>6. q.blocked \in Seq(Ids)
  BY DEF Statics
<1>7. IsFiniteSet(B) /\ Cardinality(B) \in Nat /\ Cardinality(B) <= Len(q.blocked) /\ Len(q.blocked) \in Nat
  BY <1>6, MembersCount
<1>8. I = A(N) \cup B
  BY <1>1 DEF InQueues, Members
<1>9. IsFiniteSet(A(N)) /\ Cardinality(A(N)) \in Nat
  BY <1>3
<1>10. total_task_count(q) = T[N] + Len(q.blocked)
  BY DEF total_task_count, N, T
<1> HIDE DEF A, B, I
<1>11. /\ IsFiniteSet(A(N) \cup B)
       /\ Cardinality(A(N) \cup B) = Cardinality(A(N)) + Cardinality(B) - Cardinality(A(N) \cap B)
       /\ Cardinality(A(N) \cap B) \in Nat
  BY <1>7, <1>9, FS_Union, FS_Intersection, FS_CardinalityType
<1>12. IsFiniteSet(I) /\ Cardinality(I) \in Nat /\ Cardinality(I) <= total_task_count(q) /\ total_task_count(q) \in Nat
  <2>1. Cardinality(I) \in Nat
    BY <1>8, <1>11, FS_CardinalityType
  <2>2. QED BY <1>5, <1>7, <1>8, <1>9, <1>10, <1>11, <2>1
<1>13. QED BY <1>12 DEF I

-----------------------------------------------------------------------------
(* sleep and poll: the rounds end, and then no task is lost. *)
LEMMA RoundsAre ==
    ASSUME sched_use \in SchedUses, NEW C, exe \in C, NEW q, Tidy(q, C)
    PROVE  /\ Rounds(q)[0] = q
           /\ \A k \in 0 .. MaxId + 2 : Tidy(Rounds(q)[k], C)
           /\ \A k \in 1 .. MaxId + 2 : Rounds(q)[k] = block_and_switch(Rounds(q)[k - 1])
<1> DEFINE N == MaxId + 2
           D == {x \in Statics(C) : Tidy(x, C)}
           F == [x \in Nat \X D |-> block_and_switch(x[2])]
           Is(f) == f = [k \in 0 .. N |-> IF k = 0 THEN q ELSE block_and_switch(f[k - 1])]
<1>1. N \in Nat /\ q \in D
  BY SchedulerAssumption DEF Tidy
<1>2. ASSUME NEW x \in D PROVE block_and_switch(x) \in D
  <2>1. Tidy(block_and_switch(x), C)
    BY BlockKeeps
  <2>2. QED BY <2>1 DEF Tidy
<1>3. F \in Steps(D)
  <2> HIDE DEF D
  <2>1. QED BY <1>2 DEF Steps
<1>4. PICK f \in Runs(D, q, F, N) : TRUE
  <2> HIDE DEF D, F, N
  <2>1. QED BY <1>1, <1>3, Recursion
<1>5. f \in [0 .. N -> D] /\ f[0] = q /\ \A k \in 1 .. N : f[k] = F[<<k, f[k - 1]>>]
  <2> HIDE DEF D, F, N
  <2>1. QED BY <1>4 DEF Runs
<1> HIDE DEF D, N
<1>6. ASSUME NEW k \in 1 .. N PROVE f[k] = block_and_switch(f[k - 1]) /\ f[k - 1] \in D
  <2>1. k - 1 \in 0 .. N /\ k \in Nat
    BY <1>1
  <2>2. f[k - 1] \in D
    BY <1>5, <2>1
  <2>3. F[<<k, f[k - 1]>>] = block_and_switch(f[k - 1])
    BY <2>1, <2>2
  <2>4. QED BY <1>5, <2>2, <2>3
<1>7. Is(f)
  <2>1. \A k \in 0 .. N : f[k] = IF k = 0 THEN q ELSE block_and_switch(f[k - 1])
    BY <1>1, <1>5, <1>6
  <2>2. QED BY <1>5, <2>1
<1>8. Rounds(q) = CHOOSE g : Is(g)
  BY DEF Rounds, N
<1>9. Is(Rounds(q))
  <2> HIDE DEF Is
  <2>1. QED BY <1>7, <1>8
<1> DEFINE g == Rounds(q)
<1>10. g[0] = q /\ \A k \in 1 .. N : g[k] = block_and_switch(g[k - 1])
  BY <1>1, <1>9
<1> HIDE DEF g, Is
<1>11. \A k \in 0 .. N : g[k] = f[k]
  <2> DEFINE Bad == {k \in 0 .. N : g[k] # f[k]}
  <2>1. SUFFICES ASSUME Bad # {} PROVE FALSE
    OBVIOUS
  <2>2. Bad \in SUBSET Nat
    BY <1>1
  <2>3. PICK k \in Bad : \A j \in Bad : k <= j
    BY <2>1, <2>2, LeastMember
  <2>4. k \in 1 .. N /\ k - 1 \in 0 .. N /\ ~(k <= k - 1)
    BY <1>1, <1>5, <1>10, <2>3
  <2>5. g[k - 1] = f[k - 1]
    BY <2>3, <2>4
  <2>6. QED BY <1>6, <1>10, <2>3, <2>4, <2>5
<1>12. \A k \in 0 .. N : Tidy(g[k], C)
  <2>1. \A x \in D : Tidy(x, C)
    BY DEF D
  <2>2. QED BY <1>5, <1>11, <2>1
<1>13. QED BY <1>10, <1>12 DEF g, N

(* Each round after the first takes a task out of the ready queue. *)
LEMMA RoundsShrink ==
    ASSUME sched_use \in SchedUses, NEW C, exe \in C, NEW q, Tidy(q, C)
    PROVE  \E k \in 1 .. MaxId + 2 : ~Rounds(q)[k].switched
<1> DEFINE N == MaxId + 2
           g == Rounds(q)
           L(k) == Len(g[k].ready[0])
           Ok(k) == Contains(g[k].ready[0], g[k].current[0]) /\ L(k) <= N - k
           Bad == {k \in 1 .. N : ~Ok(k)}
<1>1. N \in Nat /\ N >= 2 /\ 1 \in 1 .. N /\ N \in 1 .. N /\ MaxId + 1 = N - 1
  BY SchedulerAssumption
<1>2. g[0] = q /\ (\A k \in 0 .. N : Tidy(g[k], C)) /\ \A k \in 1 .. N : g[k] = block_and_switch(g[k - 1])
  BY RoundsAre
<1> HIDE DEF N, g
<1>3. ASSUME NEW k \in 0 .. N PROVE L(k) \in Nat /\ L(k) <= MaxId + 1 /\ (Contains(g[k].ready[0], g[k].current[0]) => L(k) >= 1)
  <2>1. g[k].ready[0] \in Seq(Ids) /\ Distinct(g[k].ready[0])
    BY <1>2, Homes, QueueOf DEF Tidy, Statics, Apart
  <2>2. QED BY <2>1, DistinctLength DEF Contains
<1>4. SUFFICES ASSUME \A k \in 1 .. N : g[k].switched PROVE FALSE
  BY DEF N, g
<1>5. ASSUME NEW k \in 1 .. N
      PROVE  /\ k - 1 \in 0 .. N /\ Contains(g[k].ready[0], g[k].current[0])
             /\ Contains(g[k - 1].ready[0], g[k - 1].current[0]) => L(k) = L(k - 1) - 1
  <2>1. k - 1 \in 0 .. N
    BY <1>1
  <2>2. Tidy(g[k - 1], C) /\ g[k] = block_and_switch(g[k - 1]) /\ g[k].switched
    BY <1>2, <1>4, <2>1
  <2>3. QED BY <2>1, <2>2, BlockKeeps
<1>6. Ok(1)
  <2>1. Contains(g[1].ready[0], g[1].current[0])
    BY <1>1, <1>5
  <2>2. 1 \in 0 .. N
    BY <1>1
  <2>3. L(1) <= MaxId + 1
    BY <1>3, <2>2
  <2>4. QED BY <1>1, <2>1, <2>3
<1>7. ASSUME NEW k \in 1 .. N, k # 1, Ok(k - 1) PROVE Ok(k)
  <2>1. L(k) = L(k - 1) - 1 /\ L(k - 1) \in Nat /\ k \in Nat
    BY <1>3, <1>5, <1>7
  <2>2. L(k - 1) <= N - (k - 1)
    BY <1>7
  <2> HIDE DEF L
  <2>3. L(k) <= N - k
    BY ONLY <1>1, <2>1, <2>2
  <2>4. QED BY <1>5, <2>3
<1>8. Bad = {}
  <2>1. SUFFICES ASSUME Bad # {} PROVE FALSE
    OBVIOUS
  <2>2. Bad \in SUBSET Nat
    OBVIOUS
  <2> HIDE DEF Ok
  <2>3. PICK k \in Bad : \A j \in Bad : k <= j
    BY <2>1, <2>2, LeastMember
  <2>4. k # 1 /\ k \in 1 .. N
    BY <1>6, <2>3
  <2>5. k - 1 \in 1 .. N /\ ~(k <= k - 1)
    BY <1>1, <2>4
  <2>6. Ok(k - 1)
    BY <2>3, <2>5
  <2>7. QED BY <1>7, <2>3, <2>4, <2>6
<1>9. Ok(N)
  BY <1>1, <1>8
<1>10. L(N) >= 1 /\ L(N) \in Nat /\ L(N) <= N - N
  BY <1>1, <1>3, <1>9
<1>11. QED BY <1>1, <1>10

LEMMA DrainKeeps ==
    ASSUME sched_use \in SchedUses, NEW C, exe \in C, NEW q, Tidy(q, C), NEW p, p = Drained(q)
    PROVE  Tidy(p, C) /\ Same(q, p)
<1> DEFINE N == MaxId + 2
           E == {k \in 1 .. N : ~Rounds(q)[k].switched}
           Bad == {k \in 0 .. N : ~Same(q, Rounds(q)[k])}
<1>1. N \in Nat
  BY SchedulerAssumption
<1>2. E \in SUBSET Nat /\ E # {}
  BY RoundsShrink
<1>3. Min(E) \in 1 .. N
  BY <1>2, MinIsMember
<1>4. /\ Rounds(q)[0] = q /\ (\A k \in 0 .. N : Tidy(Rounds(q)[k], C))
      /\ \A k \in 1 .. N : Rounds(q)[k] = block_and_switch(Rounds(q)[k - 1])
  BY RoundsAre
<1>5. p = Rounds(q)[Min(E)]
  BY DEF Drained
<1> HIDE DEF N
<1>6. Bad = {}
  <2>1. SUFFICES ASSUME Bad # {} PROVE FALSE
    OBVIOUS
  <2>2. Bad \in SUBSET Nat
    BY <1>1
  <2>3. PICK k \in Bad : \A j \in Bad : k <= j
    BY <2>1, <2>2, LeastMember
  <2>4. k # 0
    BY <1>4, <2>3, SameSelf
  <2>5. k \in 1 .. N /\ k - 1 \in 0 .. N /\ ~(k <= k - 1)
    BY <1>1, <2>3, <2>4
  <2>6. Same(q, Rounds(q)[k - 1])
    BY <2>3, <2>5
  <2>7. Same(Rounds(q)[k - 1], Rounds(q)[k])
    BY <1>4, <2>5, BlockKeeps
  <2>8. QED BY <2>3, <2>6, <2>7, SameThenSame
<1>7. Min(E) \in 0 .. N
  BY <1>1, <1>3
<1>8. QED BY <1>4, <1>5, <1>6, <1>7

-----------------------------------------------------------------------------
LEMMA LeastLoaded ==
    ASSUME sched_use \in SchedUses, NEW C, NEW q \in Statics(C)
    PROVE  least_loaded_cpu(q) \in QueueCpus
<1> DEFINE K == {task_count(q, c) : c \in QueueCpus}
<1>1. K \in SUBSET Nat /\ K # {} /\ \A c \in QueueCpus : c \in Nat /\ task_count(q, c) \in Nat
  BY Homes, CountIsNat
<1>2. PICK k \in K : \A m \in K : k <= m
  BY <1>1, LeastMember
<1> DEFINE D == {c \in QueueCpus : task_count(q, c) = k}
<1>3. D \in SUBSET Nat /\ D # {}
  BY <1>1, <1>2
<1>4. PICK d \in D : \A c \in D : d <= c
  BY <1>3, LeastMember
<1>5. ASSUME NEW c \in QueueCpus
      PROVE  \/ task_count(q, d) < task_count(q, c)
             \/ task_count(q, d) = task_count(q, c) /\ d <= c
  <2>1. task_count(q, d) = k /\ k <= task_count(q, c) /\ k \in Nat /\ task_count(q, c) \in Nat
    BY <1>1, <1>2
  <2>2. CASE task_count(q, c) = k
    BY <1>4, <2>1, <2>2
  <2>3. CASE task_count(q, c) # k
    BY <2>1, <2>3
  <2>4. QED BY <2>2, <2>3
<1>6. QED BY <1>5 DEF least_loaded_cpu

(* A task that is in no queue joins the shortest one. *)
LEMMA SpawnKeeps ==
    ASSUME sched_use \in SchedUses, NEW D, NEW q, Tidy(q, D),
           NEW t \in Ids, t \in D, ~InQueues(q, t), NEW ctx \in BOOLEAN, NEW p, p = spawn(q, t, ctx)
    PROVE  /\ Tidy(p, D) /\ p.curId = q.curId /\ (Known(q) => Known(p))
           /\ \A y \in Ids : InQueues(p, y) <=> InQueues(q, y) \/ y = t
           /\ \A c \in QueueCpus : p.ready[c] = q.ready[c] \/ p.ready[c] = Pushed(q.ready[c], t)
<1> DEFINE a == least_loaded_cpu(q)
           R == Pushed(q.ready[a], t)
           x == IF ctx THEN t ELSE NoId
<1>1. q \in Statics(D) /\ q.current[0] \in Ids /\ Apart(q)
  BY DEF Tidy
<1>2. a \in QueueCpus
  BY <1>1, LeastLoaded
<1>3. q.ready \in [QueueCpus -> Seq(Ids)] /\ q.ready[a] \in Seq(Ids) /\ a \in Queues
  BY <1>1, <1>2, Homes DEF Statics
<1>4. \A c \in Queues : ~Contains(Queue(q, c), t)
  BY InSome
<1>5. Queue(q, a) = q.ready[a]
  BY <1>2, QueueOf
<1>6. Distinct(q.ready[a]) /\ ~Contains(q.ready[a], t)
  BY <1>1, <1>3, <1>4, <1>5 DEF Apart
<1>7. x \in D \cup {NoId}
  OBVIOUS
<1>8. p = [q EXCEPT !.ready[a] = R, !.context[t] = x]
  BY DEF spawn, Pushed
<1>9. R = Pushed(q.ready[a], t)
  OBVIOUS
<1> HIDE DEF a, R, x
<1>10. R \in Seq(Ids) /\ Distinct(R) /\ \A y : Contains(R, y) <=> Contains(q.ready[a], y) \/ y = t
  BY <1>3, <1>6, <1>9, Appended
<1>11. p = [ready |-> [q.ready EXCEPT ![a] = R], current |-> q.current, blocked |-> q.blocked, cpuOf |-> q.cpuOf,
            context |-> [q.context EXCEPT ![t] = x], curId |-> q.curId, switch |-> q.switch, switched |-> q.switched]
  BY <1>1, <1>8 DEF Statics
<1>12. [q.ready EXCEPT ![a] = R] \in [QueueCpus -> Seq(Ids)]
  BY <1>3, <1>10
<1>13. [q.context EXCEPT ![t] = x] \in [Ids -> D \cup {NoId}]
  BY <1>1, <1>7 DEF Statics
<1>14. /\ q.current \in [QueueCpus -> Ids \cup {NoId}] /\ q.blocked \in Seq(Ids) /\ q.cpuOf \in [Ids -> {0, NoId}]
       /\ q.curId \in Ids /\ q.switch \in D \cup {NoId} /\ q.switched \in BOOLEAN
  BY <1>1 DEF Statics
<1>15. p \in Statics(D)
  BY ONLY <1>11, <1>12, <1>13, <1>14 DEF Statics
<1>16. /\ p.ready[a] = R /\ (\A c \in QueueCpus \ {a} : p.ready[c] = q.ready[c])
       /\ p.blocked = q.blocked /\ p.current = q.current /\ p.curId = q.curId
  BY <1>2, <1>3, <1>11
<1>17. Queue(p, a) = R
  BY <1>2, <1>16, QueueOf
<1>18. \A c \in Queues \ {a} : Queue(p, c) = Queue(q, c)
  <2>1. \A c \in QueueCpus \ {a} : Queue(p, c) = Queue(q, c)
    BY <1>16, QueueOf
  <2>2. Queue(p, NoId) = Queue(q, NoId)
    BY <1>16, QueueOf
  <2>3. QED BY <2>1, <2>2, Homes
<1>19. \A c \in Queues, y \in Ids : Contains(Queue(p, c), y) <=> Contains(Queue(q, c), y) \/ (y = t /\ c = a)
  BY <1>4, <1>5, <1>10, <1>17, <1>18
<1>20. \A c \in Queues : Distinct(Queue(p, c))
  BY <1>1, <1>10, <1>17, <1>18 DEF Apart
<1>21. Apart(p)
  BY <1>1, <1>4, <1>19, <1>20 DEF Apart
<1>22. \A y \in Ids : InQueues(p, y) <=> InQueues(q, y) \/ y = t
  BY <1>3, <1>19, InSome
<1>23. ASSUME Known(q) PROVE Known(p)
  <2>1. CASE a = 0
    BY <1>10, <1>16, <1>23, <2>1 DEF Known
  <2>2. CASE a # 0
    BY <1>16, <1>23, <2>2, Homes DEF Known
  <2>3. QED BY <2>1, <2>2
<1>24. QED BY <1>1, <1>9, <1>15, <1>16, <1>21, <1>22, <1>23 DEF Tidy

-----------------------------------------------------------------------------
(* The inductive invariant.  SchedulerSound is not inductive: it says      *)
(* nothing of BLOCKED_CPU_MAP, which decides where a task wakes up, of the *)
(* parent a terminating task wakes, or of ids that are not yet given out.  *)
HaltStates == {"no", "receive", "wait", "sleep", "exit", "fault"}
TasksOf(q) == {t \in Ids : InQueues(q, t)}
SchedInv ==
    /\ sched_use \in SchedUses /\ Tidy(s, Created)
    /\ exe \in Created /\ resched \in BOOLEAN /\ halted \in HaltStates
    /\ exited \subseteq Created /\ nextId \in Nat /\ nextId >= 2
    /\ parent \in [Ids -> Ids \cup {NoId}] /\ \A t \in Ids : t >= nextId => parent[t] = NoId
    /\ table \in [Ids -> Tables \cup {NoId}] /\ freed \subseteq Tables
    /\ \A t \in Ids : InQueues(s, t) <=> Unfinished(t)
    /\ halted = "no" => Known(s) /\ s.switch = NoId
    /\ Cardinality(TasksOf(s)) <= sched_use.tasks

LEMMA PrimedQueues ==
    ASSUME sched_use' = sched_use
    PROVE  /\ Tidy(s, Created)' <=> Tidy(s', Created')
           /\ \A t : InQueues(s, t)' <=> InQueues(s', t)
           /\ Known(s)' <=> Known(s')
           /\ TasksOf(s)' = TasksOf(s')
<1>1. QueueCpus' = QueueCpus
  BY DEF QueueCpus
<1>2. Queues' = Queues
  BY <1>1 DEF Queues
<1>3. \A t : InQueues(s, t)' <=> InQueues(s', t)
  BY <1>1 DEF InQueues
<1>4. Apart(s)' <=> Apart(s')
  BY <1>2 DEF Apart, Queue
<1>5. Statics(Created)' = Statics(Created')
  BY <1>1 DEF Statics
<1>6. QED BY <1>3, <1>4, <1>5 DEF Tidy, Known, TasksOf

(* Where the tasks of the other processors are after a step. *)
HomeStep == \A c \in QueueCpus \ {0} : s'.ready[c] = s.ready[c] \/ s'.ready[c] = Pushed(s.ready[c], nextId)

(* A step that creates and ends no task. *)
LEMMA QuietStep ==
    ASSUME SchedInv, UNCHANGED <<sched_use, nextId, parent, table, freed, exited>>,
           Tidy(s', Created), Same(s, s'), exe' \in Created, resched' \in BOOLEAN, halted' \in HaltStates,
           halted' = "no" => Known(s') /\ s'.switch = NoId
    PROVE  SchedInv' /\ HomeStep
<1>1. Created' = Created /\ QueueCpus' = QueueCpus
  BY DEF Created, QueueCpus
<1>2. Tidy(s, Created)'
  BY <1>1, PrimedQueues
<1>3. \A t \in Ids : (InQueues(s, t) <=> Unfinished(t))'
  BY <1>1, PrimedQueues DEF SchedInv, Same, Unfinished
<1>4. TasksOf(s') = TasksOf(s)
  BY DEF TasksOf, Same
<1>5. (halted = "no" => Known(s) /\ s.switch = NoId)'
  BY PrimedQueues
<1>6. Cardinality(TasksOf(s)') <= sched_use'.tasks
  BY <1>4, PrimedQueues DEF SchedInv
<1>7. SchedInv'
  BY <1>1, <1>2, <1>3, <1>5, <1>6 DEF SchedInv
<1>8. QED BY <1>7 DEF HomeStep, Same

LEMMA EnteredKeeps ==
    ASSUME SchedInv, halted = "no"
    PROVE  Tidy(Entered, Created) /\ Same(s, Entered) /\ Known(Entered)
<1>1. CASE resched
  BY <1>1, BlockKeeps DEF Entered, SchedInv
<1>2. CASE ~resched
  BY <1>2, SameSelf DEF Entered, SchedInv
<1>3. QED BY <1>1, <1>2

(* The end of the stub, for queues that are in order. *)
LEMMA ReturnsTidy ==
    ASSUME sched_use \in SchedUses, NEW C, exe \in C, NEW q, Tidy(q, C), Returns(q)
    PROVE  /\ Tidy(s', C) /\ exe' \in C /\ halted' = "no" /\ s'.switch = NoId
           /\ s'.ready = q.ready /\ s'.blocked = q.blocked /\ s'.curId = q.curId
           /\ Same(q, s') /\ (Known(q) => Known(s'))
<1>1. q \in Statics(C) /\ q.current[0] \in Ids /\ Apart(q)
  BY DEF Tidy
<1>2. s' = [q EXCEPT !.switch = NoId] /\ halted' = "no" /\ exe' = IF q.switch # NoId THEN q.switch ELSE exe
  BY DEF Returns
<1>3. s' = [ready |-> q.ready, current |-> q.current, blocked |-> q.blocked, cpuOf |-> q.cpuOf,
            context |-> q.context, curId |-> q.curId, switch |-> NoId, switched |-> q.switched]
  BY <1>1, <1>2 DEF Statics
<1>4. /\ s' \in Statics(C) /\ s'.ready = q.ready /\ s'.blocked = q.blocked /\ s'.current = q.current
      /\ s'.curId = q.curId /\ s'.switch = NoId
  BY <1>1, <1>3 DEF Statics
<1>5. exe' \in C
  BY <1>1, <1>2 DEF Statics
<1>6. \A c : Queue(s', c) = Queue(q, c)
  BY <1>4 DEF Queue
<1>7. Apart(s')
  BY <1>1, <1>6 DEF Apart
<1>8. Same(q, s') /\ (Known(q) => Known(s'))
  BY <1>4 DEF Same, InQueues, Known
<1>9. QED BY <1>1, <1>2, <1>4, <1>5, <1>7, <1>8 DEF Tidy

LEMMA QuietReturn ==
    ASSUME SchedInv, UNCHANGED <<sched_use, nextId, parent, table, freed, exited>>, resched' \in BOOLEAN,
           NEW q, Tidy(q, Created), Same(s, q), Known(q), Returns(q)
    PROVE  SchedInv' /\ HomeStep
<1>1. sched_use \in SchedUses /\ exe \in Created
  BY DEF SchedInv
<1>2. /\ Tidy(s', Created) /\ exe' \in Created /\ halted' = "no" /\ s'.switch = NoId
      /\ Same(q, s') /\ Known(s')
  BY <1>1, ReturnsTidy
<1>3. Same(s, s')
  BY <1>2, SameThenSame
<1>4. QED BY <1>2, <1>3, QuietStep DEF HaltStates

LEMMA QuietHalt ==
    ASSUME SchedInv, UNCHANGED <<sched_use, nextId, parent, table, freed, exited>>, resched' \in BOOLEAN,
           NEW q, Tidy(q, Created), Same(s, q), NEW why \in HaltStates \ {"no"}, Halts(q, why)
    PROVE  SchedInv' /\ HomeStep
<1>1. s' = q /\ halted' = why /\ exe' = exe /\ exe \in Created
  BY DEF Halts, SchedInv
<1>2. QED BY <1>1, QuietStep

(* The calls that create and end no task. *)
LEMMA YieldStep == ASSUME SchedInv, sys_thread_yield PROVE SchedInv' /\ HomeStep
<1>1. halted = "no" /\ resched' \in BOOLEAN /\ sched_use \in SchedUses /\ exe \in Created
  BY DEF sys_thread_yield, Calls, SchedInv
<1>2. PICK q : q = block_and_switch(Entered)
  OBVIOUS
<1>3. Tidy(q, Created) /\ Same(s, q) /\ Known(q)
  BY <1>1, <1>2, EnteredKeeps, BlockKeeps, SameThenSame
<1>4. Returns(q) /\ UNCHANGED <<sched_use, nextId, parent, table, freed, exited>>
  BY <1>2 DEF sys_thread_yield
<1>5. QED BY <1>1, <1>3, <1>4, QuietReturn

LEMMA ReceiveStep == ASSUME SchedInv, sys_channel_receive PROVE SchedInv' /\ HomeStep
<1>1. halted = "no" /\ resched' \in BOOLEAN /\ sched_use \in SchedUses /\ exe \in Created
  BY DEF sys_channel_receive, Calls, SchedInv
<1>2. PICK q : q = block_and_switch(Entered)
  OBVIOUS
<1>3. Tidy(q, Created) /\ Same(s, q) /\ Known(q)
  BY <1>1, <1>2, EnteredKeeps, BlockKeeps, SameThenSame
<1>4. /\ Returns(q) \/ Halts(unblock_current(q), "receive")
      /\ UNCHANGED <<sched_use, nextId, parent, table, freed, exited>>
  BY <1>2 DEF sys_channel_receive
<1>5. CASE Returns(q)
  BY <1>1, <1>3, <1>4, <1>5, QuietReturn
<1>6. CASE Halts(unblock_current(q), "receive")
  <2>1. Tidy(unblock_current(q), Created) /\ Same(s, unblock_current(q))
    BY <1>1, <1>3, UnblockKeeps, SameThenSame
  <2>2. "receive" \in HaltStates \ {"no"}
    BY DEF HaltStates
  <2>3. QED BY <1>1, <1>4, <1>6, <2>1, <2>2, QuietHalt
<1>7. QED BY <1>4, <1>5, <1>6

LEMMA SleepStep == ASSUME SchedInv, sleep_until_tick PROVE SchedInv' /\ HomeStep
<1>1. halted = "no" /\ resched' \in BOOLEAN /\ sched_use \in SchedUses /\ exe \in Created
  BY DEF sleep_until_tick, Calls, SchedInv
<1>2. Tidy(Entered, Created) /\ Same(s, Entered) /\ Known(Entered)
  BY <1>1, EnteredKeeps
<1>3. /\ Returns(Entered) \/ Halts(Drained(Entered), "sleep")
      /\ UNCHANGED <<sched_use, nextId, parent, table, freed, exited>>
  BY DEF sleep_until_tick
<1>4. CASE Returns(Entered)
  BY <1>1, <1>2, <1>3, <1>4, QuietReturn
<1>5. CASE Halts(Drained(Entered), "sleep")
  <2>1. Tidy(Drained(Entered), Created) /\ Same(s, Drained(Entered))
    BY <1>1, <1>2, DrainKeeps, SameThenSame
  <2>2. "sleep" \in HaltStates \ {"no"}
    BY DEF HaltStates
  <2>3. QED BY <1>1, <1>3, <1>5, <2>1, <2>2, QuietHalt
<1>6. QED BY <1>3, <1>4, <1>5

LEMMA WaitStep == ASSUME SchedInv, sys_process_wait PROVE SchedInv' /\ HomeStep
<1>1. halted = "no" /\ resched' \in BOOLEAN
  BY DEF sys_process_wait, Calls, SchedInv
<1>2. Tidy(Entered, Created) /\ Same(s, Entered) /\ Known(Entered)
  BY <1>1, EnteredKeeps
<1>3. /\ Returns(Entered) \/ Halts(Entered, "wait")
      /\ UNCHANGED <<sched_use, nextId, parent, table, freed, exited>>
  BY DEF sys_process_wait
<1>4. "wait" \in HaltStates \ {"no"}
  BY DEF HaltStates
<1>5. QED BY <1>1, <1>2, <1>3, <1>4, QuietReturn, QuietHalt

LEMMA KillStep == ASSUME SchedInv, kill_task PROVE SchedInv' /\ HomeStep
<1>1. halted = "no" /\ resched' \in BOOLEAN /\ sched_use \in SchedUses
  BY DEF kill_task, Calls, SchedInv
<1>2. Tidy(Entered, Created) /\ Same(s, Entered) /\ Known(Entered)
  BY <1>1, EnteredKeeps
<1>3. UNCHANGED <<sched_use, nextId, parent, table, freed, exited>>
  BY DEF kill_task
<1>4. PICK t \in Ids : Returns(wake_task_by_id(Entered, t))
  BY DEF kill_task
<1>5. PICK q : q = wake_task_by_id(Entered, t)
  OBVIOUS
<1>6. Tidy(q, Created) /\ Same(s, q) /\ Known(q)
  BY <1>1, <1>2, <1>5, WakeKeeps, SameThenSame
<1>7. QED BY <1>1, <1>3, <1>4, <1>5, <1>6, QuietReturn

LEMMA TimerStep == ASSUME SchedInv, timer_interrupt_handler PROVE SchedInv' /\ HomeStep
<1>1. resched' = TRUE /\ UNCHANGED <<sched_use, s, exe, halted, nextId, parent, table, freed, exited>>
  BY DEF timer_interrupt_handler
<1>2. /\ Tidy(s', Created) /\ Same(s, s') /\ exe' \in Created /\ halted' \in HaltStates /\ resched' \in BOOLEAN
      /\ halted' = "no" => Known(s') /\ s'.switch = NoId
  BY <1>1, SameSelf DEF SchedInv
<1>3. QED BY <1>1, <1>2, QuietStep

(* A step that ends the current task, if terminate_current finds it. *)
LEMMA EndStep ==
    ASSUME SchedInv, NEW q, Tidy(q, Created), Same(s, q), terminate_current(q), NEW p, p = Terminated(q),
           Tidy(s', Created), Same(p, s'), exe' \in Created, resched' \in BOOLEAN, halted' \in HaltStates,
           halted' = "no" => Known(s') /\ s'.switch = NoId
    PROVE  SchedInv' /\ HomeStep
<1> DEFINE x == q.current[0]
<1>1. UNCHANGED <<sched_use, nextId, parent, table>> /\ sched_use \in SchedUses
  BY DEF terminate_current, SchedInv
<1>2. CASE ~Contains(q.ready[0], x)
  <2>1. p = q /\ exited' = exited /\ freed' = freed
    BY <1>2 DEF Terminated, terminate_current
  <2>2. Same(s, s')
    BY <2>1, SameThenSame
  <2>3. QED BY <1>1, <2>1, <2>2, QuietStep
<1>3. CASE Contains(q.ready[0], x)
  <2>1. /\ \A c \in QueueCpus \ {0} : p.ready[c] = q.ready[c]
        /\ \A t \in Ids : InQueues(p, t) <=> InQueues(q, t) /\ t # x
    BY <1>1, <1>3, TerminateKeeps DEF SchedInv
  <2>2. \A t \in Ids : InQueues(s', t) <=> InQueues(s, t) /\ t # x
    BY <2>1 DEF Same
  <2>3. x \in Ids /\ InQueues(q, x)
    BY <1>1, <1>3, Homes DEF Tidy, InQueues
  <2>4. Unfinished(x)
    BY <2>3 DEF Same, SchedInv
  <2>5. exited' = exited \cup {x}
    BY <1>3 DEF terminate_current
  <2>6. exited' \subseteq Created
    BY <2>4, <2>5 DEF SchedInv, Unfinished
  <2>7. freed' = IF table[x] # NoId THEN freed \cup {table[x]} ELSE freed
    BY <1>3 DEF terminate_current
  <2>8. table[x] \in Tables \cup {NoId}
    BY <2>3 DEF SchedInv
  <2>9. freed' \subseteq Tables
    BY <2>7, <2>8 DEF SchedInv
  <2> HIDE DEF x
  <2>10. Created' = Created
    BY <1>1 DEF Created
  <2>11. ASSUME NEW t \in Ids PROVE (InQueues(s, t) <=> Unfinished(t))'
    <3>1. InQueues(s', t) <=> Unfinished(t) /\ t # x
      BY <2>2 DEF SchedInv
    <3>2. Unfinished(t)' <=> Unfinished(t) /\ t # x
      BY <1>1, <2>5, <2>10 DEF Unfinished
    <3>3. QED BY <1>1, <3>1, <3>2, PrimedQueues
  <2>12. Cardinality(TasksOf(s)') <= sched_use'.tasks
    <3>1. TasksOf(s') \in SUBSET TasksOf(s)
      BY <2>2 DEF TasksOf
    <3>2. IsFiniteSet(TasksOf(s)) /\ Cardinality(TasksOf(s)) \in Nat
      BY <1>1, AllCounted DEF TasksOf, SchedInv, Tidy
    <3>3. Cardinality(TasksOf(s')) \in Nat /\ Cardinality(TasksOf(s')) <= Cardinality(TasksOf(s))
      BY <3>1, <3>2, FS_Subset, FS_CardinalityType
    <3>4. sched_use.tasks \in Nat /\ Cardinality(TasksOf(s)) <= sched_use.tasks
      BY SchedulerAssumption DEF SchedInv
    <3>5. TasksOf(s)' = TasksOf(s')
      BY <1>1, PrimedQueues
    <3>6. QED BY <1>1, <3>2, <3>3, <3>4, <3>5
  <2>13. Tidy(s, Created)' /\ (halted = "no" => Known(s) /\ s.switch = NoId)'
    BY <1>1, <2>10, PrimedQueues
  <2>14. \A t \in Ids : (InQueues(s, t) <=> Unfinished(t))'
    BY <2>11
  <2>15. SchedInv'
    BY <1>1, <2>6, <2>9, <2>10, <2>12, <2>13, <2>14 DEF SchedInv
  <2>16. HomeStep
    BY <2>1 DEF HomeStep, Same
  <2>17. QED BY <2>15, <2>16
<1>4. QED BY <1>2, <1>3

LEMMA TerminatedTidy ==
    ASSUME SchedInv, NEW q, Tidy(q, Created), NEW p, p = Terminated(q)
    PROVE  Tidy(p, Created)
<1>1. sched_use \in SchedUses /\ parent \in [Ids -> Ids \cup {NoId}]
  BY DEF SchedInv
<1>2. CASE Contains(q.ready[0], q.current[0])
  BY <1>1, <1>2, TerminateKeeps
<1>3. CASE ~Contains(q.ready[0], q.current[0])
  BY <1>3 DEF Terminated
<1>4. QED BY <1>2, <1>3

LEMMA ThreadExitStep == ASSUME SchedInv, sys_thread_exit PROVE SchedInv' /\ HomeStep
<1>1. halted = "no" /\ resched' \in BOOLEAN /\ sched_use \in SchedUses /\ exe \in Created
  BY DEF sys_thread_exit, Calls, SchedInv
<1>2. Tidy(Entered, Created) /\ Same(s, Entered) /\ terminate_current(Entered)
  BY <1>1, EnteredKeeps DEF sys_thread_exit
<1>3. PICK p : p = Terminated(Entered)
  OBVIOUS
<1>4. Tidy(p, Created)
  BY <1>2, <1>3, TerminatedTidy
<1>5. PICK q : q = block_and_switch(p)
  OBVIOUS
<1>6. /\ Tidy(q, Created) /\ Same(p, q)
      /\ q.switched => q.curId = q.current[0] /\ Contains(q.ready[0], q.current[0])
  BY <1>1, <1>4, <1>5, BlockKeeps
<1>7. IF q.switched THEN Returns(q) ELSE Halts(q, "exit")
  BY <1>3, <1>5 DEF sys_thread_exit
<1>8. CASE q.switched
  <2>1. Returns(q)
    BY <1>7, <1>8
  <2>2. Known(q)
    BY <1>6, <1>8 DEF Known
  <2>3. /\ Tidy(s', Created) /\ exe' \in Created /\ halted' = "no" /\ s'.switch = NoId
        /\ Same(q, s') /\ Known(s')
    BY <1>1, <1>6, <2>1, <2>2, ReturnsTidy
  <2>4. Same(p, s') /\ halted' \in HaltStates
    BY <1>6, <2>3, SameThenSame DEF HaltStates
  <2>5. QED BY <1>1, <1>2, <1>3, <2>3, <2>4, EndStep
<1>9. CASE ~q.switched
  <2>1. s' = q /\ halted' = "exit" /\ exe' = exe
    BY <1>7, <1>9 DEF Halts
  <2>2. halted' \in HaltStates /\ halted' # "no"
    BY <2>1 DEF HaltStates
  <2>3. Tidy(s', Created) /\ Same(p, s') /\ exe' \in Created
    BY <1>1, <1>6, <2>1
  <2>4. QED BY <1>1, <1>2, <1>3, <2>2, <2>3, EndStep
<1>10. QED BY <1>8, <1>9

LEMMA ProcessExitStep == ASSUME SchedInv, sys_process_exit PROVE SchedInv' /\ HomeStep
<1>1. halted = "no" /\ resched' \in BOOLEAN /\ sched_use \in SchedUses /\ exe \in Created
  BY DEF sys_process_exit, Calls, SchedInv
<1>2. Tidy(Entered, Created) /\ Same(s, Entered) /\ terminate_current(Entered)
  BY <1>1, EnteredKeeps DEF sys_process_exit
<1>3. PICK p : p = Terminated(Entered)
  OBVIOUS
<1>4. s' = p /\ halted' = "exit" /\ exe' = exe
  BY <1>3 DEF sys_process_exit, Halts
<1>5. Tidy(s', Created) /\ Same(p, s') /\ halted' \in HaltStates /\ halted' # "no"
  BY <1>2, <1>3, <1>4, TerminatedTidy, SameSelf DEF HaltStates
<1>6. QED BY <1>1, <1>2, <1>3, <1>4, <1>5, EndStep

LEMMA FaultStep == ASSUME SchedInv, user_fault_halt PROVE SchedInv' /\ HomeStep
<1>1. resched' \in BOOLEAN /\ exe \in Created /\ terminate_current(s) /\ Tidy(s, Created)
  BY DEF user_fault_halt, SchedInv
<1>2. PICK p : p = Terminated(s)
  OBVIOUS
<1>3. s' = p /\ halted' = "fault" /\ exe' = exe
  BY <1>2 DEF user_fault_halt, Halts
<1>4. Tidy(s', Created) /\ Same(p, s') /\ halted' \in HaltStates /\ halted' # "no"
  BY <1>1, <1>2, <1>3, TerminatedTidy, SameSelf DEF HaltStates
<1>5. QED BY <1>1, <1>2, <1>3, <1>4, SameSelf, EndStep

(* A step that gives out an id or changes what a task is. *)
LEMMA RecordStep ==
    ASSUME SchedInv, UNCHANGED <<sched_use, freed, exited>>, nextId' \in Nat, nextId' >= nextId,
           Tidy(s', Created'), exe' \in Created', resched' \in BOOLEAN, halted' = "no",
           Known(s'), s'.switch = NoId,
           parent' \in [Ids -> Ids \cup {NoId}], \A t \in Ids : t >= nextId' => parent'[t] = NoId,
           table' \in [Ids -> Tables \cup {NoId}],
           \A t \in Ids : InQueues(s', t) <=> Unfinished(t)',
           Cardinality(TasksOf(s')) <= sched_use.tasks
    PROVE  SchedInv'
<1>1. Created \subseteq Created'
  BY DEF SchedInv, Created, Ids
<1>2. exited' \subseteq Created'
  BY <1>1 DEF SchedInv
<1>3. nextId' >= 2
  BY DEF SchedInv
<1>4. \A t \in Ids : (InQueues(s, t) <=> Unfinished(t))'
  BY PrimedQueues
<1>5. Tidy(s, Created)' /\ Known(s)' /\ Cardinality(TasksOf(s)') <= sched_use'.tasks
  BY PrimedQueues
<1>6. halted' \in HaltStates
  BY DEF HaltStates
<1>7. QED BY <1>2, <1>3, <1>4, <1>5, <1>6 DEF SchedInv

LEMMA TidyGrows ==
    ASSUME NEW C, NEW D, C \subseteq D, NEW q, Tidy(q, C)
    PROVE  Tidy(q, D)
  BY DEF Tidy, Statics

LEMMA SpawnStep ==
    ASSUME SchedInv, NEW name, NEW thread \in BOOLEAN, Spawns(name, thread)
    PROVE  SchedInv' /\ HomeStep
<1>1. /\ halted = "no" /\ resched' \in BOOLEAN /\ sched_use \in SchedUses /\ exe \in Created
      /\ nextId <= sched_use.ids /\ UNCHANGED <<sched_use, freed, exited>>
  BY DEF Spawns, Calls, SchedInv
<1>2. PICK q : q = Entered
  OBVIOUS
<1>3. Tidy(q, Created) /\ Same(s, q) /\ Known(q)
  BY <1>1, <1>2, EnteredKeeps
<1>4. q.curId \in Ids /\ q \in Statics(Created)
  BY <1>3 DEF Tidy, Statics
<1>5. nextId \in Nat /\ nextId >= 2 /\ nextId \in Ids /\ nextId \notin Created
  BY <1>1, SchedulerAssumption DEF SchedInv, Ids, Created
<1>6. ~Unfinished(nextId) /\ ~InQueues(q, nextId) /\ ~InQueues(s, nextId)
  BY <1>3, <1>5 DEF Unfinished, SchedInv, Same
<1>7. CASE thread /\ table[q.curId] = NoId
  BY <1>1, <1>2, <1>3, <1>7, QuietReturn DEF Spawns
<1>8. CASE ~(thread /\ table[q.curId] = NoId)
  <2>1. nextId' = nextId + 1
    BY <1>2, <1>8 DEF Spawns
  <2>2. Created' = Created \cup {nextId} /\ nextId' \in Nat /\ nextId' >= nextId
    BY <1>5, <2>1 DEF Created, Ids
  <2>3. CASE total_task_count(q) >= sched_use.tasks
    <3>1. Returns(q) /\ parent' = parent /\ table' = table
      BY <1>2, <1>8, <2>3 DEF Spawns
    <3>2. /\ Tidy(s', Created) /\ exe' \in Created /\ halted' = "no" /\ s'.switch = NoId
          /\ Same(q, s') /\ Known(s')
      BY <1>1, <1>3, <3>1, ReturnsTidy
    <3>3. Same(s, s')
      BY <1>3, <3>2, SameThenSame
    <3>4. Tidy(s', Created') /\ exe' \in Created'
      BY <2>2, <3>2, TidyGrows
    <3>5. \A t \in Ids : Unfinished(t)' <=> Unfinished(t)
      BY <1>1, <1>5, <2>2, <3>1 DEF Unfinished, SchedInv, First
    <3>6. \A t \in Ids : InQueues(s', t) <=> Unfinished(t)'
      BY <3>3, <3>5 DEF SchedInv, Same
    <3>7. TasksOf(s') = TasksOf(s)
      BY <3>3 DEF TasksOf, Same
    <3>8. \A t \in Ids : t >= nextId' => parent'[t] = NoId
      BY <1>5, <2>1, <3>1 DEF SchedInv, Ids
    <3>9. /\ parent' \in [Ids -> Ids \cup {NoId}] /\ table' \in [Ids -> Tables \cup {NoId}]
          /\ Cardinality(TasksOf(s')) <= sched_use.tasks
      BY <3>1, <3>7 DEF SchedInv
    <3>10. SchedInv'
      BY <1>1, <2>2, <3>2, <3>4, <3>6, <3>8, <3>9, RecordStep
    <3>11. HomeStep
      BY <3>3 DEF HomeStep, Same
    <3>12. QED BY <3>10, <3>11
  <2>4. CASE ~(total_task_count(q) >= sched_use.tasks)
    <3>1. PICK p : p = spawn(q, nextId, thread)
      OBVIOUS
    <3>2. /\ Returns(p) /\ parent' = [parent EXCEPT ![nextId] = q.curId]
          /\ table' = [table EXCEPT ![nextId] = IF thread THEN table[q.curId] ELSE NoId]
      BY <1>2, <1>8, <2>4, <3>1 DEF Spawns
    <3>3. Created \subseteq Created' /\ nextId \in Created'
      BY <2>2
    <3>4. /\ Tidy(p, Created') /\ Known(p)
          /\ \A y \in Ids : InQueues(p, y) <=> InQueues(q, y) \/ y = nextId
          /\ \A c \in QueueCpus : p.ready[c] = q.ready[c] \/ p.ready[c] = Pushed(q.ready[c], nextId)
      <4>1. PICK D : D = Created'
        OBVIOUS
      <4>2. Created \subseteq D /\ nextId \in D
        BY <3>3, <4>1
      <4>3. /\ Tidy(p, D) /\ Known(p)
            /\ \A y \in Ids : InQueues(p, y) <=> InQueues(q, y) \/ y = nextId
            /\ \A c \in QueueCpus : p.ready[c] = q.ready[c] \/ p.ready[c] = Pushed(q.ready[c], nextId)
        <5>1. Tidy(q, D)
          BY <1>3, <4>2, TidyGrows
        <5>2. QED BY <1>1, <1>3, <1>5, <1>6, <3>1, <4>2, <5>1, SpawnKeeps
      <4>4. QED BY <4>1, <4>3
    <3>5. exe \in Created'
      BY <1>1, <3>3
    <3>6. /\ Tidy(s', Created') /\ exe' \in Created' /\ halted' = "no" /\ s'.switch = NoId
          /\ s'.ready = p.ready /\ Same(p, s') /\ Known(s')
      BY <1>1, <3>2, <3>4, <3>5, ReturnsTidy
    <3>7. \A t \in Ids : InQueues(s', t) <=> InQueues(s, t) \/ t = nextId
      BY <1>3, <3>4, <3>6 DEF Same
    <3>8. parent \in [Ids -> Ids \cup {NoId}] /\ table \in [Ids -> Tables \cup {NoId}] /\ NoId \notin Ids
      BY DEF SchedInv, Ids, NoId
    <3>9. ASSUME NEW t \in Ids PROVE Unfinished(t)' <=> Unfinished(t) \/ t = nextId
      <4>1. CASE t = nextId
        BY <1>1, <1>4, <1>5, <3>2, <3>3, <3>8, <4>1 DEF Unfinished, SchedInv
      <4>2. CASE t # nextId
        <5>1. parent'[t] = parent[t]
          BY <3>2, <3>8, <4>2
        <5>2. QED BY <1>1, <2>2, <4>2, <5>1 DEF Unfinished
      <4>3. QED BY <4>1, <4>2
    <3>10. \A t \in Ids : InQueues(s', t) <=> Unfinished(t)'
      BY <3>7, <3>9 DEF SchedInv
    <3>11. parent' \in [Ids -> Ids \cup {NoId}] /\ table' \in [Ids -> Tables \cup {NoId}]
      BY <1>4, <1>5, <3>2, <3>8
    <3>12. \A t \in Ids : t >= nextId' => parent'[t] = NoId
      <4>1. ASSUME NEW t \in Ids, t >= nextId' PROVE parent'[t] = NoId
        <5>1. t # nextId /\ t >= nextId
          BY <1>5, <2>1, <4>1 DEF Ids
        <5>2. QED BY <3>2, <3>8, <5>1 DEF SchedInv
      <4>2. QED BY <4>1
    <3>13. Cardinality(TasksOf(s')) <= sched_use.tasks
      <4>1. TasksOf(s') = TasksOf(q) \cup {nextId} /\ nextId \notin TasksOf(q)
        BY <1>3, <1>5, <1>6, <3>7 DEF TasksOf, Same
      <4>2. /\ IsFiniteSet(TasksOf(q)) /\ Cardinality(TasksOf(q)) \in Nat
            /\ Cardinality(TasksOf(q)) <= total_task_count(q) /\ total_task_count(q) \in Nat
        BY <1>1, <1>4, AllCounted DEF TasksOf
      <4>3. Cardinality(TasksOf(s')) = Cardinality(TasksOf(q)) + 1
        BY <4>1, <4>2, FS_AddElement
      <4>4. sched_use.tasks \in Nat
        BY <1>1, SchedulerAssumption
      <4>5. QED BY <2>4, <4>2, <4>3, <4>4
    <3>14. SchedInv'
      BY <1>1, <2>2, <3>6, <3>10, <3>11, <3>12, <3>13, RecordStep
    <3>15. HomeStep
      BY <1>3, <3>4, <3>6 DEF HomeStep, Same
    <3>16. QED BY <3>14, <3>15
  <2>5. QED BY <2>3, <2>4
<1>9. QED BY <1>7, <1>8

LEMMA StartStep == ASSUME SchedInv, sys_process_start PROVE SchedInv' /\ HomeStep
<1>1. /\ halted = "no" /\ resched' \in BOOLEAN /\ sched_use \in SchedUses /\ exe \in Created
      /\ UNCHANGED <<sched_use, nextId, freed, exited>>
  BY DEF sys_process_start, Calls, SchedInv
<1>2. PICK q : q = Entered
  OBVIOUS
<1>3. Tidy(q, Created) /\ Same(s, q) /\ Known(q)
  BY <1>1, <1>2, EnteredKeeps
<1>4. PICK t \in Ids, loads \in BOOLEAN :
         IF ~InQueues(q, t)
         THEN Returns(q) /\ UNCHANGED <<parent, table>>
         ELSE /\ Unused # {}
              /\ Returns(IF loads THEN [q EXCEPT !.context[t] = t] ELSE q)
              /\ parent' = [parent EXCEPT ![t] = q.curId]
              /\ table' = [table EXCEPT ![t] = Min(Unused)]
  BY <1>2 DEF sys_process_start
<1>5. CASE ~InQueues(q, t)
  BY <1>1, <1>3, <1>4, <1>5, QuietReturn
<1>6. CASE InQueues(q, t)
  <2>1. q \in Statics(Created) /\ q.curId \in Ids /\ q.current[0] \in Ids /\ Apart(q)
    BY <1>3 DEF Tidy, Statics
  <2>2. Unfinished(t)
    BY <1>3, <1>6 DEF Same, SchedInv
  <2>3. t \in Created
    BY <2>2 DEF Unfinished
  <2>4. PICK p : p = IF loads THEN [q EXCEPT !.context[t] = t] ELSE q
    OBVIOUS
  <2>5. /\ p \in Statics(Created) /\ p.ready = q.ready /\ p.blocked = q.blocked
        /\ p.current = q.current /\ p.curId = q.curId
    <3>1. CASE loads
      <4>1. p = [ready |-> q.ready, current |-> q.current, blocked |-> q.blocked, cpuOf |-> q.cpuOf,
                 context |-> [q.context EXCEPT ![t] = t], curId |-> q.curId, switch |-> q.switch,
                 switched |-> q.switched]
        BY <2>1, <2>4, <3>1 DEF Statics
      <4>2. [q.context EXCEPT ![t] = t] \in [Ids -> Created \cup {NoId}]
        BY <2>1, <2>3 DEF Statics
      <4>3. QED BY <2>1, <4>1, <4>2 DEF Statics
    <3>2. CASE ~loads
      BY <2>1, <2>4, <3>2
    <3>3. QED BY <3>1, <3>2
  <2>6. Apart(p)
    <3>1. \A c : Queue(p, c) = Queue(q, c)
      BY <2>5 DEF Queue
    <3>2. QED BY <2>1, <3>1 DEF Apart
  <2>7. Tidy(p, Created) /\ Known(p) /\ Same(q, p)
    BY <1>3, <2>1, <2>5, <2>6 DEF Tidy, Known, Same, InQueues
  <2>8. Returns(p) /\ parent' = [parent EXCEPT ![t] = q.curId] /\ table' = [table EXCEPT ![t] = Min(Unused)]
    BY <1>4, <1>6, <2>4
  <2>9. /\ Tidy(s', Created) /\ exe' \in Created /\ halted' = "no" /\ s'.switch = NoId
        /\ Same(p, s') /\ Known(s')
    BY <1>1, <2>7, <2>8, ReturnsTidy
  <2>10. Same(s, s')
    BY <1>3, <2>7, <2>9, SameThenSame
  <2>11. parent \in [Ids -> Ids \cup {NoId}] /\ table \in [Ids -> Tables \cup {NoId}] /\ NoId \notin Ids
    BY DEF SchedInv, Ids, NoId
  <2>12. Min(Unused) \in Tables
    <3>1. Unused \in SUBSET Nat /\ Unused \subseteq Tables
      BY SchedulerAssumption DEF Unused, Tables
    <3>2. QED BY <1>4, <1>6, <3>1, MinIsMember
  <2>13. parent' \in [Ids -> Ids \cup {NoId}] /\ table' \in [Ids -> Tables \cup {NoId}]
    BY <2>1, <2>8, <2>11, <2>12
  <2>14. Created' = Created /\ nextId' \in Nat /\ nextId' >= nextId
    BY <1>1 DEF Created, SchedInv
  <2>15. ASSUME NEW u \in Ids PROVE Unfinished(u)' <=> Unfinished(u)
    <3>1. CASE u = t
      BY <1>1, <2>1, <2>2, <2>8, <2>11, <2>14, <3>1 DEF Unfinished
    <3>2. CASE u # t
      <4>1. parent'[u] = parent[u]
        BY <2>8, <2>11, <3>2
      <4>2. QED BY <1>1, <2>14, <4>1 DEF Unfinished
    <3>3. QED BY <3>1, <3>2
  <2>16. \A u \in Ids : InQueues(s', u) <=> Unfinished(u)'
    BY <2>10, <2>15 DEF Same, SchedInv
  <2>17. \A u \in Ids : u >= nextId' => parent'[u] = NoId
    <3>1. ASSUME NEW u \in Ids, u >= nextId' PROVE parent'[u] = NoId
      <4>1. u # t /\ u >= nextId
        BY <1>1, <2>3, <3>1 DEF Created, Ids, SchedInv
      <4>2. QED BY <2>8, <2>11, <4>1 DEF SchedInv
    <3>2. QED BY <3>1
  <2>18. Cardinality(TasksOf(s')) <= sched_use.tasks
    <3>1. TasksOf(s') = TasksOf(s)
      BY <2>10 DEF TasksOf, Same
    <3>2. QED BY <3>1 DEF SchedInv
  <2>19. SchedInv'
    BY <1>1, <2>9, <2>13, <2>14, <2>16, <2>17, <2>18, RecordStep
  <2>20. QED BY <2>10, <2>19 DEF HomeStep, Same
<1>7. QED BY <1>5, <1>6

-----------------------------------------------------------------------------
LEMMA SchedStart == ASSUME SchedInit PROVE SchedInv
<1>1. /\ sched_use \in SchedUses /\ s = BootQueues /\ exe = First /\ halted = "no" /\ resched = FALSE
      /\ nextId = 2 /\ parent = [t \in Ids |-> NoId]
      /\ table = [t \in Ids |-> IF t = First THEN 0 ELSE NoId] /\ freed = {} /\ exited = {}
  BY DEF SchedInit
<1>2. Created = {0, 1} /\ 0 \in Ids /\ 1 \in Ids /\ First = 1 /\ Idle = 0 /\ 0 \in Tables
  BY <1>1, SchedulerAssumption DEF Created, Ids, First, Idle, Tables
<1> DEFINE R == [c \in QueueCpus |-> IF c = 0 THEN <<Idle, First>> ELSE <<>>]
           Z == [c \in QueueCpus |-> IF c = 0 THEN First ELSE NoId]
           M == [t \in Ids |-> NoId]
           X == [t \in Ids |-> IF t <= First THEN t ELSE NoId]
<1>3. s = [ready |-> R, current |-> Z, blocked |-> <<>>, cpuOf |-> M, context |-> X, curId |-> First,
           switch |-> NoId, switched |-> FALSE]
  BY <1>1 DEF BootQueues
<1>4. <<Idle, First>> \in Seq(Ids) /\ <<>> \in Seq(Ids)
  BY <1>2
<1>5. R \in [QueueCpus -> Seq(Ids)] /\ Z \in [QueueCpus -> Ids \cup {NoId}] /\ M \in [Ids -> {0, NoId}]
  BY <1>2, <1>4
<1>6. X \in [Ids -> Created \cup {NoId}]
  BY <1>2 DEF Ids
<1>7. R[0] = <<0, 1>> /\ Z[0] = 1 /\ \A c \in QueueCpus \ {0} : R[c] = <<>>
  BY <1>1, <1>2, Homes
<1> HIDE DEF R, Z, M, X
<1>8. s \in Statics(Created)
  BY <1>2, <1>3, <1>4, <1>5, <1>6 DEF Statics
<1>9. Queue(s, 0) = <<0, 1>> /\ \A c \in Queues \ {0} : Queue(s, c) = <<>>
  <2>1. s.ready = R /\ s.blocked = <<>>
    BY <1>3
  <2>2. Queue(s, 0) = <<0, 1>> /\ Queue(s, NoId) = <<>>
    BY <1>1, <1>7, <2>1, Homes, QueueOf
  <2>3. \A c \in QueueCpus \ {0} : Queue(s, c) = <<>>
    BY <1>1, <1>7, <2>1, QueueOf
  <2>4. QED BY <1>1, <2>2, <2>3, Homes
<1>10. /\ \A x : ~Contains(<<>>, x)
       /\ \A x : Contains(<<0, 1>>, x) <=> x \in {0, 1}
       /\ Distinct(<<>>) /\ Distinct(<<0, 1>>)
  BY DEF Contains, Distinct
<1>11. Apart(s)
  BY <1>9, <1>10 DEF Apart
<1>12. \A t : InQueues(s, t) <=> t \in {0, 1}
  BY <1>1, <1>9, <1>10, InSome, Homes
<1>13. \A t \in Ids : InQueues(s, t) <=> Unfinished(t)
  BY <1>1, <1>2, <1>12 DEF Unfinished
<1>14. Known(s) /\ s.switch = NoId /\ s.current[0] \in Ids
  BY <1>2, <1>3, <1>7, <1>10 DEF Known
<1>15. Tidy(s, Created)
  BY <1>8, <1>11, <1>14 DEF Tidy
<1>16. Cardinality(TasksOf(s)) <= sched_use.tasks
  <2>1. TasksOf(s) = {0} \cup {1}
    BY <1>2, <1>12 DEF TasksOf
  <2>2. IsFiniteSet({0}) /\ Cardinality({0}) = 1
    BY FS_Singleton
  <2>3. Cardinality({0} \cup {1}) = 2
    BY <2>2, FS_AddElement
  <2>4. sched_use.tasks \in Nat \ {0, 1}
    BY <1>1, SchedulerAssumption
  <2>5. QED BY <2>1, <2>3, <2>4
<1>17. parent \in [Ids -> Ids \cup {NoId}] /\ (\A t \in Ids : parent[t] = NoId) /\ table \in [Ids -> Tables \cup {NoId}]
  BY <1>1, <1>2
<1>18. halted \in HaltStates /\ nextId \in Nat /\ nextId >= 2 /\ exe \in Created
  BY <1>1, <1>2 DEF HaltStates
<1>19. resched \in BOOLEAN
  BY <1>1, Zenon
<1>20. QED BY <1>1, <1>13, <1>14, <1>15, <1>16, <1>17, <1>18, <1>19 DEF SchedInv

LEMMA SchedStep == ASSUME SchedInv, [SchedNext]_sched_vars PROVE SchedInv' /\ HomeStep
<1>1. CASE UNCHANGED sched_vars
  <2>1. UNCHANGED <<sched_use, s, exe, halted, resched, nextId, parent, table, freed, exited>>
    BY <1>1 DEF sched_vars
  <2>2. /\ Tidy(s', Created) /\ Same(s, s') /\ exe' \in Created /\ halted' \in HaltStates /\ resched' \in BOOLEAN
        /\ halted' = "no" => Known(s') /\ s'.switch = NoId
    BY <2>1, SameSelf DEF SchedInv
  <2>3. QED BY <2>1, <2>2, QuietStep
<1>2. CASE sys_process_create \/ sys_thread_create
  BY <1>2, SpawnStep DEF sys_process_create, sys_thread_create
<1>3. CASE sys_thread_yield \/ sys_channel_receive \/ sleep_until_tick \/ kill_task \/ sys_process_wait
  BY <1>3, YieldStep, ReceiveStep, SleepStep, KillStep, WaitStep
<1>4. CASE sys_process_start \/ timer_interrupt_handler
  BY <1>4, StartStep, TimerStep
<1>5. CASE sys_thread_exit \/ sys_process_exit \/ user_fault_halt
  BY <1>5, ThreadExitStep, ProcessExitStep, FaultStep
<1>6. QED BY <1>1, <1>2, <1>3, <1>4, <1>5 DEF SchedNext

LEMMA SchedIsSound == ASSUME SchedInv PROVE SchedulerSound
<1>1. sched_use \in SchedUses /\ s \in Statics(Created) /\ s.current[0] \in Ids /\ Apart(s)
  BY DEF SchedInv, Tidy
<1>2. SchedTypeOK
  <2>1. \A c \in QueueCpus : s.ready[c] \in Seq(Ids) /\ s.current[c] \in Ids \cup {NoId}
    BY <1>1 DEF Statics
  <2>2. s.cpuOf \in [Ids -> QueueCpus \cup {NoId}]
    BY <1>1, Homes DEF Statics
  <2>3. s.blocked \in Seq(Ids) /\ s.context \in [Ids -> Created \cup {NoId}] /\ s.curId \in Ids
    BY <1>1 DEF Statics
  <2>4. QED BY <2>1, <2>2, <2>3 DEF SchedTypeOK, SchedInv, HaltStates
<1>3. Conservation
  BY <1>1, TwinsApart DEF Conservation, SchedInv
<1>4. CurrentIsKnown
  <2>1. SUFFICES ASSUME halted = "no"
                 PROVE  s.curId = s.current[0] /\ Contains(s.ready[0] \o s.blocked, s.curId)
    BY DEF CurrentIsKnown
  <2>2. Known(s) /\ s.ready[0] \in Seq(Ids) /\ s.blocked \in Seq(Ids)
    BY <1>1, <2>1, Homes DEF SchedInv, Statics
  <2>3. ASSUME NEW a \in Seq(Ids), NEW b \in Seq(Ids), NEW x, Contains(a, x) \/ Contains(b, x)
        PROVE  Contains(a \o b, x)
    <3>1. /\ Len(a \o b) = Len(a) + Len(b) /\ Len(a) \in Nat /\ Len(b) \in Nat
          /\ \A i \in 1 .. Len(a) + Len(b) : (a \o b)[i] = IF i <= Len(a) THEN a[i] ELSE b[i - Len(a)]
      BY ConcatProperties
    <3>2. CASE Contains(a, x)
      <4>1. PICK i \in 1 .. Len(a) : a[i] = x
        BY <3>2 DEF Contains
      <4>2. i \in 1 .. Len(a) + Len(b) /\ i <= Len(a)
        BY <3>1
      <4>3. QED BY <3>1, <4>1, <4>2 DEF Contains
    <3>3. CASE Contains(b, x)
      <4>1. PICK j \in 1 .. Len(b) : b[j] = x
        BY <3>3 DEF Contains
      <4>2. Len(a) + j \in 1 .. Len(a) + Len(b) /\ ~(Len(a) + j <= Len(a)) /\ Len(a) + j - Len(a) = j
        BY <3>1
      <4>3. QED BY <3>1, <4>1, <4>2 DEF Contains
    <3>4. QED BY <2>3, <3>2, <3>3
  <2>4. QED BY <2>2, <2>3 DEF Known
<1>5. AtMostMaxTasks
  <2>1. {t \in Created : InQueues(s, t)} = TasksOf(s)
    BY DEF TasksOf, SchedInv, Unfinished, Created
  <2>2. QED BY <2>1 DEF AtMostMaxTasks, SchedInv
<1>6. QED BY <1>2, <1>3, <1>4, <1>5 DEF SchedulerSound

(* Whatever user tasks do and whenever the timer fires, on every machine:  *)
(* no task that block_and_switch, wake_task_by_id, unblock_current,        *)
(* spawn and terminate_current move about is lost or scheduled twice, a    *)
(* system call finds its current task, and MAX_TASKS is kept.              *)
THEOREM TasksAreKept == SchedSpec => []SchedulerSound
<1>1. SchedInit => SchedInv
  BY SchedStart
<1>2. SchedInv /\ [SchedNext]_sched_vars => SchedInv'
  BY SchedStep
<1>3. SchedInv => SchedulerSound
  BY SchedIsSound
<1>4. QED BY <1>1, <1>2, <1>3, PTL DEF SchedSpec

LEMMA HomeIsHome ==
    ASSUME SchedInv, [SchedNext]_sched_vars, NEW c \in QueueCpus \ {0}
    PROVE  /\ IsPrefix(s.ready[c], s'.ready[c])
           /\ ToSet(s'.ready[c]) \subseteq ToSet(s.ready[c]) \cup {nextId}
<1> DEFINE a == s.ready[c]
           b == s'.ready[c]
<1>1. a \in Seq(Ids) /\ Len(a) \in Nat
  BY DEF SchedInv, Tidy, Statics
<1>2. b = a \/ b = Append(a, nextId)
  BY SchedStep DEF HomeStep, Pushed
<1> HIDE DEF a, b
<1>3. CASE b = a
  <2>1. IsPrefix(a, b)
    BY <1>1, <1>3 DEF IsPrefix
  <2>2. ToSet(b) \subseteq ToSet(a) \cup {nextId}
    BY <1>3
  <2>3. QED BY <2>1, <2>2 DEF a, b
<1>4. CASE b = Append(a, nextId)
  <2>1. /\ Len(b) = Len(a) + 1 /\ b[Len(a) + 1] = nextId
        /\ \A i \in 1 .. Len(a) : b[i] = a[i]
    BY <1>1, <1>4, AppendProperties
  <2>2. IsPrefix(a, b)
    BY <1>1, <2>1 DEF IsPrefix
  <2>3. ASSUME NEW i \in 1 .. Len(b) PROVE b[i] \in ToSet(a) \cup {nextId}
    BY <1>1, <2>1 DEF ToSet
  <2>4. ToSet(b) \subseteq ToSet(a) \cup {nextId}
    BY <2>3 DEF ToSet
  <2>5. QED BY <2>2, <2>4 DEF a, b
<1>5. QED BY <1>2, <1>3, <1>4

(* A task stays on the processor it was queued on: no step of CPU 0 takes  *)
(* a task from another processor's queue, and only a new task joins one.   *)
THEOREM TasksStayHome == SchedSpec => StaysHome
<1>1. SchedInit => SchedInv
  BY SchedStart
<1>2. SchedInv /\ [SchedNext]_sched_vars => SchedInv'
  BY SchedStep
<1>3. SchedInv /\ [SchedNext]_sched_vars
      => [\A c \in QueueCpus \ {0} : /\ IsPrefix(s.ready[c], s'.ready[c])
                                     /\ ToSet(s'.ready[c]) \subseteq ToSet(s.ready[c]) \cup {nextId}]_sched_vars
  BY HomeIsHome
<1>4. QED BY <1>1, <1>2, <1>3, PTL DEF SchedSpec, StaysHome

-----------------------------------------------------------------------------
(* Calls of a task.  A vectored call is a loop over its buffers; what holds *)
(* after every turn is a set of records, and induction over the turns puts  *)
(* the result into it.                                                      *)

\* x is the part of v behind a, up to b.
Slice(v, a, b, x) ==
    x = SubSeq(v, a + 1, b) /\ Len(x) = b - a /\ \A i \in 1 .. b - a : x[i] = v[a + i]

LEMMA SliceIs ==
    ASSUME NEW U, NEW v \in Seq(U), NEW a \in Nat, NEW b \in Nat, a <= b, b <= Len(v)
    PROVE  \E x \in Seq(U) : Slice(v, a, b, x)
<1>1. PICK L \in Nat : L = Len(v)
  OBVIOUS
<1>2. a + 1 \in Int /\ b \in Int /\ \A i \in a + 1 .. b : i \in 1 .. L
  BY <1>1
<1>3. \A i \in a + 1 .. b : v[i] \in U
  BY <1>1, <1>2
<1>5. PICK m \in Int, n \in Int : m = a + 1 /\ n = b
  BY <1>2
<1>4. PICK c : c = SubSeq(v, m, n)
  OBVIOUS
<1>6. /\ c \in Seq(U) /\ Len(c) = IF m <= n THEN n - m + 1 ELSE 0
      /\ \A i \in 1 .. n - m + 1 : c[i] = v[m + i - 1]
  BY <1>3, <1>4, <1>5, SubSeqProperties
<1>7. n - m + 1 = b - a /\ (IF m <= n THEN n - m + 1 ELSE 0) = b - a
  BY <1>5
<1>8. ASSUME NEW i \in 1 .. b - a PROVE c[i] = v[a + i]
  <2>1. i \in 1 .. n - m + 1 /\ m + i - 1 = a + i
    BY <1>5, <1>7
  <2>2. QED BY <1>6, <2>1
<1>9. c = SubSeq(v, a + 1, b)
  BY <1>4, <1>5
<1>10. QED BY <1>6, <1>7, <1>8, <1>9 DEF Slice

Meets(v, a, b, d) == SubSeq(v, a + 1, b) \o SubSeq(v, b + 1, d) = SubSeq(v, a + 1, d)

LEMMA SliceGrows ==
    ASSUME NEW U, NEW v \in Seq(U), NEW a \in Nat, NEW b \in Nat, NEW d \in Nat, a <= b, b <= d, d <= Len(v)
    PROVE  Meets(v, a, b, d)
<1>1. PICK L \in Nat : L = Len(v)
  OBVIOUS
<1>2. a <= b /\ b <= d /\ d <= Len(v) /\ b <= Len(v) /\ a <= d
  BY <1>1
<1>3. PICK x \in Seq(U), y \in Seq(U), z \in Seq(U) : Slice(v, a, b, x) /\ Slice(v, b, d, y) /\ Slice(v, a, d, z)
  <2>1. \E x \in Seq(U) : Slice(v, a, b, x)
    BY <1>2, SliceIs
  <2>2. \E x \in Seq(U) : Slice(v, b, d, x)
    BY <1>2, SliceIs
  <2>3. \E x \in Seq(U) : Slice(v, a, d, x)
    BY <1>2, SliceIs
  <2>4. QED BY <2>1, <2>2, <2>3
<1>4. x = SubSeq(v, a + 1, b) /\ Len(x) = b - a /\ \A i \in 1 .. b - a : x[i] = v[a + i]
  BY <1>3 DEF Slice
<1>5. y = SubSeq(v, b + 1, d) /\ Len(y) = d - b /\ \A i \in 1 .. d - b : y[i] = v[b + i]
  BY <1>3 DEF Slice
<1>6. z = SubSeq(v, a + 1, d) /\ Len(z) = d - a /\ \A i \in 1 .. d - a : z[i] = v[a + i]
  BY <1>3 DEF Slice
<1>7. PICK c : c = x \o y
  OBVIOUS
<1>8. /\ c \in Seq(U) /\ Len(c) = Len(x) + Len(y)
      /\ \A i \in 1 .. Len(x) + Len(y) : c[i] = IF i <= Len(x) THEN x[i] ELSE y[i - Len(x)]
  BY <1>7, ConcatProperties
<1>9. PICK p \in Nat, q \in Nat : p = b - a /\ q = d - b /\ p + q = d - a
  <2>1. b - a \in Nat /\ d - b \in Nat /\ (b - a) + (d - b) = d - a
    BY <1>1, <1>2
  <2>2. QED BY <2>1
<1>10. Len(c) = p + q /\ Len(z) = p + q /\ \A i \in 1 .. p + q : c[i] = IF i <= p THEN x[i] ELSE y[i - p]
  BY <1>4, <1>5, <1>6, <1>8, <1>9
<1>11. ASSUME NEW i \in 1 .. p + q PROVE c[i] = z[i]
  <2>1. z[i] = v[a + i]
    BY <1>6, <1>9
  <2>2. CASE i <= p
    <3>1. i \in 1 .. p
      BY <2>2
    <3>2. c[i] = x[i]
      BY <1>10, <2>2
    <3>3. x[i] = v[a + i]
      BY <1>4, <1>9, <3>1
    <3>4. QED BY <2>1, <3>2, <3>3
  <2>3. CASE ~(i <= p)
    <3>1. PICK k : k = i - p /\ k \in 1 .. q /\ b + k = a + i
      BY <1>9, <2>3
    <3>2. c[i] = y[k]
      BY <1>10, <2>3, <3>1
    <3>3. y[k] = v[b + k]
      BY <1>5, <1>9, <3>1
    <3>4. QED BY <2>1, <3>1, <3>2, <3>3
  <2>4. QED BY <2>2, <2>3
<1>12. c = z
  BY <1>6, <1>8, <1>10, <1>11, SeqEqual
<1>13. QED BY <1>4, <1>5, <1>6, <1>7, <1>12 DEF Meets

\* A read that began at `begin' has the bytes from there to where it is.
ReadStates(src, begin) ==
    {v \in [source : {src}, at : begin .. Len(src), out : Seq(Nat), done : BOOLEAN, failed : BOOLEAN] :
        v.out = SubSeq(src, begin + 1, v.at)}

LEMMA ReadStepIs ==
    ASSUME NEW src \in Seq(Nat), NEW begin \in 0 .. Len(src), NEW v \in ReadStates(src, begin), NEW iov \in IoVecType
    PROVE  ReadStep(v, iov) \in ReadStates(src, begin)
<1>0. PICK a \in begin .. Len(src), out \in Seq(Nat), done \in BOOLEAN, failed \in BOOLEAN :
        /\ v = [source |-> src, at |-> a, out |-> out, done |-> done, failed |-> failed]
        /\ out = SubSeq(src, begin + 1, a)
  BY DEF ReadStates
<1>1. PICK L \in Nat :
        /\ v = [source |-> src, at |-> a, out |-> out, done |-> done, failed |-> failed]
        /\ L = Len(src) /\ out = SubSeq(src, begin + 1, a) /\ a \in begin .. L
  BY <1>0
<1>2. begin \in Nat /\ a \in Nat /\ begin <= a /\ a <= L
  BY <1>1
<1>3. \A x \in begin .. L, o \in Seq(Nat), d, f \in BOOLEAN :
         o = SubSeq(src, begin + 1, x) =>
            [source |-> src, at |-> x, out |-> o, done |-> d, failed |-> f] \in ReadStates(src, begin)
  BY <1>1 DEF ReadStates
<1>4. CASE v.done \/ iov.len = 0
  BY <1>4 DEF ReadStep
<1>5. CASE ~(v.done \/ iov.len = 0) /\ iov.addr = "bad"
  <2>1. ReadStep(v, iov) = [v EXCEPT !.done = TRUE, !.failed = TRUE]
    BY <1>5 DEF ReadStep
  <2>2. ReadStep(v, iov) = [source |-> src, at |-> a, out |-> out, done |-> TRUE, failed |-> TRUE]
    BY <1>1, <2>1
  <2>4. PICK y \in BOOLEAN : y = TRUE
    OBVIOUS
  <2>5. [source |-> src, at |-> a, out |-> out, done |-> y, failed |-> y] \in ReadStates(src, begin)
    BY <1>1, <1>3
  <2>6. QED BY <2>2, <2>4, <2>5
<1>6. CASE ~(v.done \/ iov.len = 0) /\ iov.addr # "bad"
  <2>1. PICK n \in Nat : n = Least(iov.len, L - a) /\ n <= L - a
    <3>1. iov.len \in Nat
      BY DEF IoVecType
    <3>2. L - a \in Nat
      BY <1>2
    <3>3. QED BY <3>1, <3>2 DEF Least
  <2>2. PICK b \in Nat : b = a + n
    OBVIOUS
  <2>3. PICK d \in BOOLEAN : d = (n < iov.len)
    <3>1. PICK e \in Nat : e = iov.len
      BY DEF IoVecType
    <3>2. (n < e) \in BOOLEAN
      OBVIOUS
    <3>3. QED BY <3>1, <3>2, Zenon
  <2>4. PICK more, o : more = SubSeq(src, a + 1, b) /\ o = out \o more
    OBVIOUS
  <2>5. v.source = src /\ v.at = a /\ Len(v.source) = L /\ v.out = out
    BY <1>1
  <2>6. ReadStep(v, iov) = [v EXCEPT !.out = o, !.at = b, !.done = d]
    BY <1>6, <2>1, <2>2, <2>3, <2>4, <2>5 DEF ReadStep
  <2>7. ReadStep(v, iov) = [source |-> src, at |-> b, out |-> o, done |-> d, failed |-> failed]
    BY <1>1, <2>6
  <2>8. b \in begin .. L /\ begin <= b /\ b <= L /\ a + n <= L
    BY <1>2, <2>1, <2>2
  <2>9. o = SubSeq(src, begin + 1, b)
    <3>1. b <= Len(src) /\ a <= b
      BY <1>1, <2>2, <2>8
    <3>2. Meets(src, begin, a, b)
      BY <1>2, <3>1, SliceGrows
    <3>3. QED BY <1>1, <2>4, <3>2 DEF Meets
  <2>10. o \in Seq(Nat)
    <3>1. begin <= b /\ b <= Len(src)
      BY <1>1, <2>8
    <3>2. \E x \in Seq(Nat) : Slice(src, begin, b, x)
      BY <1>2, <3>1, SliceIs
    <3>3. QED BY <2>9, <3>2 DEF Slice
  <2>11. QED BY <1>3, <2>7, <2>8, <2>9, <2>10
<1>7. QED BY <1>4, <1>5, <1>6

LEMMA ReadAllIs ==
    ASSUME NEW src \in Seq(Nat), NEW begin \in 0 .. Len(src), NEW iovs \in Seq(IoVecType)
    PROVE  ReadAll(src, begin, iovs) \in ReadStates(src, begin)
<1> DEFINE N == Len(iovs)
           D == ReadStates(src, begin)
           a == [source |-> src, at |-> begin, out |-> <<>>, done |-> FALSE, failed |-> FALSE]
           F == [x \in Nat \X D |-> IF x[1] \in 1 .. N THEN ReadStep(x[2], iovs[x[1]]) ELSE x[2]]
           Is(f) == f = [n \in 0 .. N |-> IF n = 0 THEN a ELSE ReadStep(f[n - 1], iovs[n])]
           g == ReadTurns(src, begin, iovs)
<1>1. N \in Nat /\ \A n \in 1 .. N : n - 1 \in 0 .. N /\ iovs[n] \in IoVecType
  OBVIOUS
<1>2. a \in D
  <2>1. SubSeq(src, begin + 1, begin) = <<>>
    <3>1. begin + 1 \in Int /\ begin \in Int /\ begin < begin + 1
      OBVIOUS
    <3>2. QED BY <3>1, SubSeqEmpty
  <2>2. begin \in begin .. Len(src)
    OBVIOUS
  <2>3. PICK e \in Seq(Nat), y \in BOOLEAN : e = <<>> /\ y = FALSE
    <3>1. <<>> \in Seq(Nat)
      OBVIOUS
    <3>2. FALSE \in BOOLEAN
      OBVIOUS
    <3>3. QED BY <3>1, <3>2, Zenon
  <2>4. e = SubSeq(src, begin + 1, begin)
    BY <2>1, <2>3
  <2>5. [source |-> src, at |-> begin, out |-> e, done |-> y, failed |-> y] \in ReadStates(src, begin)
    BY <2>2, <2>4 DEF ReadStates
  <2>6. QED BY <2>3, <2>5
<1>3. \A v \in D, n \in 1 .. N : ReadStep(v, iovs[n]) \in D
  BY <1>1, ReadStepIs
<1> HIDE DEF D, a
<1>4. F \in Steps(D)
  BY <1>3 DEF Steps
<1>5. PICK f \in [0 .. N -> D] : f[0] = a /\ \A k \in 1 .. N : f[k] = F[<<k, f[k - 1]>>]
  <2> HIDE DEF F, N
  <2>1. Runs(D, a, F, N) # {}
    BY <1>1, <1>2, <1>4, Recursion
  <2>2. QED BY <2>1 DEF Runs
<1>6. ASSUME NEW k \in 1 .. N PROVE f[k] = ReadStep(f[k - 1], iovs[k])
  <2>1. f[k - 1] \in D /\ k \in Nat
    <3>1. k - 1 \in 0 .. N /\ k \in Nat
      BY <1>1
    <3>2. QED BY ONLY <3>1, f \in [0 .. N -> D]
  <2>2. F[<<k, f[k - 1]>>] = ReadStep(f[k - 1], iovs[k])
    BY <2>1
  <2>3. QED BY <1>5, <2>2
<1> HIDE DEF F
<1>7. Is(f)
  <2>1. \A n \in 0 .. N : f[n] = IF n = 0 THEN a ELSE ReadStep(f[n - 1], iovs[n])
    BY <1>1, <1>5, <1>6
  <2>2. QED BY <2>1
<1>8. g = CHOOSE h : Is(h)
  BY DEF ReadTurns, a
<1>9. Is(g)
  <2> HIDE DEF Is, g
  <2>1. QED BY <1>7, <1>8
<1>10. g[0] = a /\ \A n \in 1 .. N : g[n] = ReadStep(g[n - 1], iovs[n])
  <2> HIDE DEF g
  <2>1. \A n \in 0 .. N : g[n] = IF n = 0 THEN a ELSE ReadStep(g[n - 1], iovs[n])
    BY <1>9
  <2>2. 0 \in 0 .. N /\ \A n \in 1 .. N : n \in 0 .. N /\ n # 0
    BY <1>1
  <2>3. QED BY ONLY <2>1, <2>2, ZenonT(30)
<1> HIDE DEF N, g, Is
<1> DEFINE S == {n \in 0 .. N : g[n] \in D}
<1>11. 0 \in S /\ \A k \in 0 .. N - 1 : k \in S => k + 1 \in S
  <2>1. 0 \in S
    BY <1>1, <1>2, <1>10
  <2>2. ASSUME NEW k \in 0 .. N - 1, k \in S PROVE k + 1 \in S
    <3>1. k + 1 \in 1 .. N /\ (k + 1) - 1 = k /\ g[k] \in D
      BY <1>1, <2>2
    <3>2. g[k + 1] = ReadStep(g[k], iovs[k + 1])
      BY <1>10, <3>1
    <3>3. g[k + 1] \in D
      BY <1>3, <3>1, <3>2
    <3>4. QED BY <1>1, <3>1, <3>3
  <2>3. QED BY <2>1, <2>2
<1>12. \A n \in 0 .. N : n \in S
  <2> HIDE DEF S
  <2>1. QED BY <1>1, <1>11, Induct
<1>13. g[N] \in D
  BY <1>1, <1>12
<1>14. QED BY <1>13 DEF g, N, D, ReadAll

\* A write gives out as many bytes as it takes of the room.
WriteStates(room, next) ==
    {w \in [room : Nat, next : {next}, out : Seq(Nat), done : BOOLEAN] : w.room + Len(w.out) = room}

LEMMA WriteStepIs ==
    ASSUME NEW room \in Nat, NEW next \in Nat, NEW w \in WriteStates(room, next), NEW iov \in IoVecType
    PROVE  WriteStep(w, iov) \in WriteStates(room, next)
<1>1. PICK left \in Nat, out \in Seq(Nat), done \in BOOLEAN :
        w = [room |-> left, next |-> next, out |-> out, done |-> done] /\ left + Len(out) = room
  BY DEF WriteStates
<1>2. \A r \in Nat, o \in Seq(Nat), d \in BOOLEAN :
         r + Len(o) = room => [room |-> r, next |-> next, out |-> o, done |-> d] \in WriteStates(room, next)
  BY DEF WriteStates
<1>3. CASE w.done \/ iov.len = 0
  BY <1>3 DEF WriteStep
<1>4. CASE ~(w.done \/ iov.len = 0) /\ iov.addr = "bad"
  <2>1. WriteStep(w, iov) = [w EXCEPT !.done = TRUE]
    BY <1>4 DEF WriteStep
  <2>2. WriteStep(w, iov) = [room |-> left, next |-> next, out |-> out, done |-> TRUE]
    BY <1>1, <2>1
  <2>3. PICK y \in BOOLEAN : y = TRUE
    OBVIOUS
  <2>4. [room |-> left, next |-> next, out |-> out, done |-> y] \in WriteStates(room, next)
    BY <1>1, <1>2
  <2>5. QED BY <2>2, <2>3, <2>4
<1>5. CASE ~(w.done \/ iov.len = 0) /\ iov.addr # "bad"
  <2>1. PICK e \in Nat : e = iov.len
    BY DEF IoVecType
  <2>2. PICK n \in Nat : n = Least(e, left) /\ n <= left
    BY DEF Least
  <2>3. PICK d \in BOOLEAN : d = (n < e)
    <3>1. (n < e) \in BOOLEAN
      OBVIOUS
    <3>2. QED BY <3>1, Zenon
  <2>4. PICK l \in Nat : l = Len(out)
    OBVIOUS
  <2>5. PICK new : new = [i \in 1 .. n |-> next + l + i]
    OBVIOUS
  <2>6. new \in Seq(Nat) /\ Len(new) = n
    <3>1. \A i \in 1 .. n : next + l + i \in Nat
      OBVIOUS
    <3>2. QED BY <2>5, <3>1
  <2>7. PICK o : o = out \o new
    OBVIOUS
  <2>8. o \in Seq(Nat) /\ Len(o) = l + n
    BY <2>4, <2>6, <2>7, ConcatProperties
  <2>9. PICK r \in Nat : r = left - n
    BY <2>2
  <2>10. w.room = left /\ w.next = next /\ w.out = out
    BY <1>1
  <2>11. WriteStep(w, iov) = [w EXCEPT !.out = o, !.room = r, !.done = d]
    BY <1>5, <2>1, <2>2, <2>3, <2>4, <2>5, <2>7, <2>9, <2>10 DEF WriteStep
  <2>12. WriteStep(w, iov) = [room |-> r, next |-> next, out |-> o, done |-> d]
    BY <1>1, <2>11
  <2>13. r + Len(o) = room
    BY <1>1, <2>2, <2>4, <2>8, <2>9
  <2>14. QED BY <1>2, <2>8, <2>12, <2>13
<1>6. QED BY <1>3, <1>4, <1>5

LEMMA WriteTurnsIs ==
    ASSUME NEW room \in Nat, NEW next \in Nat, NEW iovs \in Seq(IoVecType)
    PROVE  WriteTurns(room, next, iovs)[Len(iovs)] \in WriteStates(room, next)
<1> DEFINE N == Len(iovs)
           D == WriteStates(room, next)
           a == [room |-> room, next |-> next, out |-> <<>>, done |-> FALSE]
           F == [x \in Nat \X D |-> IF x[1] \in 1 .. N THEN WriteStep(x[2], iovs[x[1]]) ELSE x[2]]
           Is(f) == f = [n \in 0 .. N |-> IF n = 0 THEN a ELSE WriteStep(f[n - 1], iovs[n])]
           g == WriteTurns(room, next, iovs)
<1>1. N \in Nat /\ \A n \in 1 .. N : n - 1 \in 0 .. N /\ iovs[n] \in IoVecType
  OBVIOUS
<1>2. a \in D
  <2>1. PICK e \in Seq(Nat), y \in BOOLEAN : e = <<>> /\ y = FALSE
    <3>1. <<>> \in Seq(Nat)
      OBVIOUS
    <3>2. FALSE \in BOOLEAN
      OBVIOUS
    <3>3. QED BY <3>1, <3>2, Zenon
  <2>2. room + Len(e) = room
    BY <2>1
  <2>3. [room |-> room, next |-> next, out |-> e, done |-> y] \in WriteStates(room, next)
    BY <2>2 DEF WriteStates
  <2>4. QED BY <2>1, <2>3
<1>3. \A v \in D, n \in 1 .. N : WriteStep(v, iovs[n]) \in D
  BY <1>1, WriteStepIs
<1> HIDE DEF D, a
<1>4. F \in Steps(D)
  BY <1>3 DEF Steps
<1>5. PICK f \in [0 .. N -> D] : f[0] = a /\ \A k \in 1 .. N : f[k] = F[<<k, f[k - 1]>>]
  <2> HIDE DEF F, N
  <2>1. Runs(D, a, F, N) # {}
    BY <1>1, <1>2, <1>4, Recursion
  <2>2. QED BY <2>1 DEF Runs
<1>6. ASSUME NEW k \in 1 .. N PROVE f[k] = WriteStep(f[k - 1], iovs[k])
  <2>1. f[k - 1] \in D /\ k \in Nat
    <3>1. k - 1 \in 0 .. N /\ k \in Nat
      BY <1>1
    <3>2. QED BY ONLY <3>1, f \in [0 .. N -> D]
  <2>2. F[<<k, f[k - 1]>>] = WriteStep(f[k - 1], iovs[k])
    BY <2>1
  <2>3. QED BY <1>5, <2>2
<1> HIDE DEF F
<1>7. Is(f)
  <2>1. \A n \in 0 .. N : f[n] = IF n = 0 THEN a ELSE WriteStep(f[n - 1], iovs[n])
    BY <1>1, <1>5, <1>6
  <2>2. QED BY <2>1
<1>8. g = CHOOSE h : Is(h)
  BY DEF WriteTurns, a
<1>9. Is(g)
  <2> HIDE DEF Is, g
  <2>1. QED BY <1>7, <1>8
<1>10. g[0] = a /\ \A n \in 1 .. N : g[n] = WriteStep(g[n - 1], iovs[n])
  <2> HIDE DEF g
  <2>1. \A n \in 0 .. N : g[n] = IF n = 0 THEN a ELSE WriteStep(g[n - 1], iovs[n])
    BY <1>9
  <2>2. 0 \in 0 .. N /\ \A n \in 1 .. N : n \in 0 .. N /\ n # 0
    BY <1>1
  <2>3. QED BY ONLY <2>1, <2>2, ZenonT(30)
<1> HIDE DEF N, g, Is
<1> DEFINE S == {n \in 0 .. N : g[n] \in D}
<1>11. 0 \in S /\ \A k \in 0 .. N - 1 : k \in S => k + 1 \in S
  <2>1. 0 \in S
    BY <1>1, <1>2, <1>10
  <2>2. ASSUME NEW k \in 0 .. N - 1, k \in S PROVE k + 1 \in S
    <3>1. k + 1 \in 1 .. N /\ (k + 1) - 1 = k /\ g[k] \in D
      BY <1>1, <2>2
    <3>2. g[k + 1] = WriteStep(g[k], iovs[k + 1])
      BY <1>10, <3>1
    <3>3. g[k + 1] \in D
      BY <1>3, <3>1, <3>2
    <3>4. QED BY <1>1, <3>1, <3>3
  <2>3. QED BY <2>1, <2>2
<1>12. \A n \in 0 .. N : n \in S
  <2> HIDE DEF S
  <2>1. QED BY <1>1, <1>11, Induct
<1>13. g[N] \in D
  BY <1>1, <1>12
<1>14. QED BY <1>13 DEF g, N, D

Moved == [read : Seq(Nat), put : Seq(Nat), got : Seq(Nat), lost : BOOLEAN]
VectorInv ==
    /\ file = FileData /\ offset \in 0 .. Len(FileData) /\ queue \in Seq(Nat) /\ Len(queue) <= PipeCapacity
    /\ moved \in Moved /\ moved.read = SubSeq(FileData, 1, offset)
    /\ ~moved.lost => moved.got \o queue = moved.put

TcInv == attr = told /\ VectorInv

LEMMA ReadFileInv == ASSUME VectorInv, NEW iovs \in IoVecs, sys_readv_file(iovs) PROVE VectorInv'
<1>0. PICK src \in Seq(Nat) : src = FileData /\ file = src
  BY TcAssumption DEF VectorInv
<1>1. PICK begin \in 0 .. Len(src) : src = FileData /\ begin = offset /\ file = src
  BY <1>0 DEF VectorInv
<1>2. iovs \in Seq(IoVecType)
  BY TcAssumption
<1>3. PICK r \in ReadStates(src, begin) : r = ReadAll(src, begin, iovs)
  BY <1>2, ReadAllIs
<1>4. /\ offset' = IF r.failed THEN offset ELSE r.at
      /\ moved' = IF r.failed THEN moved ELSE [moved EXCEPT !.read = @ \o r.out]
      /\ file' = file /\ queue' = queue
  BY <1>1, <1>3 DEF sys_readv_file
<1>5. CASE r.failed
  BY <1>4, <1>5 DEF VectorInv
<1>6. CASE ~r.failed
  <2>1. PICK at \in Nat, out \in Seq(Nat) : r.at = at /\ r.out = out /\ at \in begin .. Len(src) /\ out = SubSeq(src, begin + 1, at)
    BY DEF ReadStates
  <2>2. PICK m \in Moved : m = moved /\ m.read = SubSeq(src, 1, begin)
    BY <1>1 DEF VectorInv
  <2>3. PICK rd \in Seq(Nat), put \in Seq(Nat), got \in Seq(Nat), lost \in BOOLEAN :
          m = [read |-> rd, put |-> put, got |-> got, lost |-> lost]
    BY DEF Moved
  <2>4. PICK all : all = rd \o out
    OBVIOUS
  <2>5. all \in Seq(Nat)
    BY <2>4, ConcatProperties
  <2>6. moved' = [m EXCEPT !.read = all]
    <3>1. moved' = [m EXCEPT !.read = m.read \o r.out]
      BY <1>4, <1>6, <2>2
    <3>2. m.read = rd
      BY <2>3
    <3>3. QED BY ONLY <2>1, <2>4, <3>1, <3>2
  <2>7. moved' = [read |-> all, put |-> put, got |-> got, lost |-> lost]
    BY <2>3, <2>6
  <2>8. all = SubSeq(src, 1, at)
    <3>1. PICK z \in Nat, f \in Nat : z = 0 /\ f = begin
      BY <2>1
    <3>2. z <= f /\ f <= at /\ at <= Len(src)
      BY <2>1, <3>1
    <3>3. Meets(src, z, f, at)
      BY <3>2, SliceGrows
    <3>4. z + 1 = 1
      BY <3>1
    <3>5. SubSeq(src, 1, begin) \o SubSeq(src, begin + 1, at) = SubSeq(src, 1, at)
      BY ONLY <3>1, <3>3, <3>4 DEF Meets
    <3>6. rd = SubSeq(src, 1, begin)
      BY <2>2, <2>3
    <3>7. QED BY ONLY <2>1, <2>4, <3>5, <3>6
  <2>9. moved' \in Moved /\ moved'.read = all /\ moved'.put = moved.put /\ moved'.got = moved.got /\ moved'.lost = moved.lost
    <3>1. moved' \in Moved
      BY <2>5, <2>7 DEF Moved
    <3>2. QED BY <2>2, <2>3, <2>7, <3>1
  <2>10. offset' = at /\ at \in 0 .. Len(FileData)
    BY <1>1, <1>4, <1>6, <2>1
  <2>11. QED BY <1>1, <1>4, <2>8, <2>9, <2>10 DEF VectorInv
<1>7. QED BY <1>5, <1>6

LEMMA ReadPipeInv == ASSUME VectorInv, NEW iovs \in IoVecs, sys_readv_pipe(iovs) PROVE VectorInv'
<1>0. PICK src \in Seq(Nat) : src = queue
  BY DEF VectorInv
<1>1. PICK z \in 0 .. Len(src) : src = queue /\ z = 0
  BY <1>0
<1>2. iovs \in Seq(IoVecType)
  BY TcAssumption
<1>3. PICK r \in ReadStates(src, z) : r = ReadAll(src, z, iovs)
  BY <1>2, ReadAllIs
<1>4. PICK at \in 0 .. Len(src), out \in Seq(Nat) : r.at = at /\ r.out = out /\ out = SubSeq(src, 1, at)
  BY <1>1 DEF ReadStates
<1>5. /\ queue' = SubSeq(src, at + 1, Len(src))
      /\ moved' = IF r.failed THEN [moved EXCEPT !.lost = @ \/ out # <<>>] ELSE [moved EXCEPT !.got = @ \o out]
      /\ file' = file /\ offset' = offset
  BY <1>1, <1>3, <1>4 DEF sys_readv_pipe
<1>6. PICK rest : rest = SubSeq(src, at + 1, Len(src))
  OBVIOUS
<1>7. rest \in Seq(Nat) /\ Len(out) = at /\ Len(rest) = Len(src) - at /\ out \o rest = src
  <2>1. /\ SubSeq(src, 1, at) \in Seq(Nat) /\ SubSeq(src, at + 1, Len(src)) \in Seq(Nat)
        /\ Len(SubSeq(src, 1, at)) = at /\ Len(SubSeq(src, at + 1, Len(src))) = Len(src) - at
        /\ SubSeq(src, 1, at) \o SubSeq(src, at + 1, Len(src)) = src
    BY CutJoin
  <2>2. QED BY ONLY <1>4, <1>6, <2>1
<1>70. rest \in Seq(Nat)
  BY <1>7
<1>8. Len(rest) <= PipeCapacity
  <2>1. PICK l \in Nat, c \in Nat : l = Len(src) /\ c = PipeCapacity /\ l <= c
    BY <1>1, TcAssumption DEF VectorInv
  <2>2. at \in Nat /\ l - at <= c
    BY <2>1
  <2>3. QED BY <1>7, <2>1, <2>2
<1>9. PICK m \in Moved : m = moved
  BY DEF VectorInv
<1>10. PICK rd \in Seq(Nat), put \in Seq(Nat), got \in Seq(Nat), lost \in BOOLEAN :
         m = [read |-> rd, put |-> put, got |-> got, lost |-> lost]
  BY DEF Moved
<1>11. rd = SubSeq(FileData, 1, offset) /\ (~lost => got \o src = put)
  BY <1>1, <1>9, <1>10 DEF VectorInv
<1>12. CASE r.failed
  <2>1. PICK y \in BOOLEAN : y = (lost \/ out # <<>>)
    OBVIOUS
  <2>2. moved' = [m EXCEPT !.lost = y]
    BY <1>5, <1>9, <1>10, <1>12, <2>1
  <2>3. moved' = [read |-> rd, put |-> put, got |-> got, lost |-> y]
    BY <1>10, <2>2
  <2>4. moved' \in Moved
    BY <2>3 DEF Moved
  <2>5. ASSUME ~y PROVE got \o rest = put
    <3>1. ~lost /\ out = <<>>
      BY <2>1, <2>5
    <3>2. rest = src
      BY <1>7, <3>1, ConcatEmptySeq
    <3>3. QED BY <1>11, <3>1, <3>2
  <2>6. moved'.read = rd /\ moved'.put = put /\ moved'.got = got /\ moved'.lost = y
    BY <2>3
  <2>7. QED BY <1>5, <1>6, <1>7, <1>8, <1>11, <2>4, <2>5, <2>6 DEF VectorInv
<1>13. CASE ~r.failed
  <2>1. PICK all : all = got \o out
    OBVIOUS
  <2>2. all \in Seq(Nat)
    BY <2>1, ConcatProperties
  <2>3. moved' = [m EXCEPT !.got = all]
    BY <1>5, <1>9, <1>10, <1>13, <2>1
  <2>4. moved' = [read |-> rd, put |-> put, got |-> all, lost |-> lost]
    BY <1>10, <2>3
  <2>5. moved' \in Moved
    BY <2>2, <2>4 DEF Moved
  <2>6. ~lost => all \o rest = put
    <3>1. (got \o out) \o rest = got \o (out \o rest)
      <4>1. Regroups(got, out, rest)
        BY <1>70, AllRegroup
      <4>2. QED BY <4>1 DEF Regroups
    <3>2. QED BY <1>7, <1>11, <2>1, <3>1
  <2>7. moved'.read = rd /\ moved'.put = put /\ moved'.got = all /\ moved'.lost = lost
    BY <2>4
  <2>8. QED BY <1>5, <1>6, <1>7, <1>8, <1>11, <2>5, <2>6, <2>7 DEF VectorInv
<1>14. QED BY <1>12, <1>13

LEMMA WritePipeInv == ASSUME VectorInv, NEW iovs \in IoVecs, sys_writev_pipe(iovs) PROVE VectorInv'
<1>0. PipeCapacity \in Nat /\ queue \in Seq(Nat) /\ Len(queue) <= PipeCapacity
  BY TcAssumption DEF VectorInv
<1>1. PICK c \in Nat, l \in Nat : c = PipeCapacity /\ l = Len(queue) /\ l <= c
  BY <1>0
<1>2. PICK m \in Moved : m = moved
  BY DEF VectorInv
<1>3. PICK rd \in Seq(Nat), put \in Seq(Nat), got \in Seq(Nat), lost \in BOOLEAN :
         m = [read |-> rd, put |-> put, got |-> got, lost |-> lost]
  BY DEF Moved
<1>4. PICK room \in Nat, next \in Nat : room = c - l /\ next = Len(put)
  <2>1. c - l \in Nat /\ Len(put) \in Nat
    BY <1>1
  <2>2. QED BY <2>1
<1>5. iovs \in Seq(IoVecType) /\ moved.put = put
  BY <1>2, <1>3, TcAssumption
<1>6. PICK w \in WriteStates(room, next) : w = WriteTurns(room, next, iovs)[Len(iovs)]
  BY <1>5, WriteTurnsIs
<1>7. PICK left \in Nat, out \in Seq(Nat) : w.out = out /\ left + Len(out) = room
  BY DEF WriteStates
<1>8. /\ queue' = queue \o out /\ moved' = [moved EXCEPT !.put = @ \o out]
      /\ file' = file /\ offset' = offset
  BY <1>1, <1>4, <1>5, <1>6, <1>7 DEF sys_writev_pipe
<1>9. PICK q \in Seq(Nat) : q = queue
  BY DEF VectorInv
<1>10. PICK more, all : more = q \o out /\ all = put \o out
  OBVIOUS
<1>11. more \in Seq(Nat) /\ Len(more) = Len(q) + Len(out) /\ all \in Seq(Nat)
  BY <1>10, ConcatProperties
<1>12. Len(more) <= c
  BY <1>1, <1>4, <1>7, <1>9, <1>11
<1>13. moved' = [m EXCEPT !.put = all]
  BY <1>2, <1>5, <1>8, <1>10
<1>14. moved' = [read |-> rd, put |-> all, got |-> got, lost |-> lost]
  BY <1>3, <1>13
<1>15. moved' \in Moved
  BY <1>11, <1>14 DEF Moved
<1>16. rd = SubSeq(FileData, 1, offset) /\ (~lost => got \o q = put)
  BY <1>2, <1>3, <1>9 DEF VectorInv
<1>17. ~lost => got \o more = all
  <2>1. (got \o q) \o out = got \o (q \o out)
    <3>1. Regroups(got, q, out)
      BY AllRegroup
    <3>2. QED BY <3>1 DEF Regroups
  <2>2. QED BY <1>10, <1>16, <2>1
<1>18. moved'.read = rd /\ moved'.put = all /\ moved'.got = got /\ moved'.lost = lost
  BY <1>14
<1>19. QED BY <1>1, <1>8, <1>9, <1>10, <1>11, <1>12, <1>15, <1>16, <1>17, <1>18 DEF VectorInv

LEMMA AttributesKept == ASSUME attr = told, AttributeStep \/ SocketStep PROVE attr' = told'
<1>1. CASE AttributeStep
  <2>1. PICK t \in CallTasks :
         \/ \E pid \in CallTasks \cup {0}, pgid \in CallTasks \cup {0} : sys_setpgid(t, pid, pgid)
         \/ sys_setsid(t) \/ (\E m \in {18, 531} : sys_umask(t, m))
         \/ \E k \in EnvKeys, v \in EnvValues : sys_env_set(t, k, v)
    BY <1>1 DEF AttributeStep
  <2>2. CASE \E pid \in CallTasks \cup {0}, pgid \in CallTasks \cup {0} : sys_setpgid(t, pid, pgid)
    BY <2>2 DEF sys_setpgid
  <2>3. CASE sys_setsid(t)
    BY <2>3 DEF sys_setsid
  <2>4. CASE \E m \in {18, 531} : sys_umask(t, m)
    BY <2>4 DEF sys_umask
  <2>5. CASE \E k \in EnvKeys, v \in EnvValues : sys_env_set(t, k, v)
    BY <2>5 DEF sys_env_set
  <2>6. QED BY <2>1, <2>2, <2>3, <2>4, <2>5
<1>2. CASE SocketStep
  <2>1. UNCHANGED <<attr, told>>
    BY <1>2 DEF SocketStep, sys_socket, sys_bind, sys_setsockopt
  <2>2. QED BY <2>1
<1>3. QED BY <1>1, <1>2

\* TaskCalls.TaskCallsSound, for any tasks, file, capacity and vectors of buffers:
\* a task reads back what was last set for it (sys_setpgid, sys_setsid, sys_umask,
\* sys_env_set), and vectored calls move bytes in order, without a gap, unless a
\* read of a pipe failed after it had taken some (sys_readv, sys_writev).
THEOREM TaskCallsAreSound == TcSpec => []TaskCallsSound
<1>1. TcInit => TcInv
  <2>1. SUFFICES ASSUME TcInit PROVE TcInv
    OBVIOUS
  <2>2. PICK e \in Seq(Nat), y \in BOOLEAN : e = <<>> /\ y = FALSE
    <3>1. <<>> \in Seq(Nat)
      OBVIOUS
    <3>2. FALSE \in BOOLEAN
      OBVIOUS
    <3>3. QED BY <3>1, <3>2, Zenon
  <2>3. /\ file = FileData /\ offset = 0 /\ queue = e /\ attr = told
        /\ moved = [read |-> e, put |-> e, got |-> e, lost |-> y]
    BY <2>1, <2>2 DEF TcInit
  <2>4. moved \in Moved /\ moved.read = e /\ moved.got = e /\ moved.put = e
    <3>1. moved \in Moved
      BY <2>3 DEF Moved
    <3>2. QED BY <2>3, <3>1
  <2>5. SubSeq(FileData, 1, 0) = e
    BY <2>2, SubSeqEmpty
  <2>6. e \o e = e /\ Len(e) = 0
    BY <2>2
  <2>7. FileData \in Seq(Nat) /\ PipeCapacity \in Nat
    BY TcAssumption
  <2>8. offset \in 0 .. Len(FileData) /\ Len(queue) <= PipeCapacity
    BY <2>3, <2>6, <2>7
  <2>9. QED BY <2>3, <2>4, <2>5, <2>6, <2>8 DEF TcInv, VectorInv
<1>2. TcInv /\ [TcNext]_tc_vars => TcInv'
  <2>1. SUFFICES ASSUME TcInv, [TcNext]_tc_vars PROVE TcInv'
    OBVIOUS
  <2>2. CASE AttributeStep \/ SocketStep
    <3>1. UNCHANGED <<file, offset, queue, moved>>
      BY <2>2 DEF AttributeStep, SocketStep, vector_vars
    <3>2. VectorInv'
      BY <2>1, <3>1 DEF TcInv, VectorInv
    <3>3. QED BY <2>1, <2>2, <3>2, AttributesKept DEF TcInv
  <2>3. CASE VectorStep
    <3>1. attr' = told'
      BY <2>1, <2>3 DEF TcInv, VectorStep, attr_vars
    <3>2. PICK iovs \in IoVecs : sys_readv_file(iovs) \/ sys_readv_pipe(iovs) \/ sys_writev_pipe(iovs)
      BY <2>3 DEF VectorStep
    <3>3. VectorInv'
      BY <2>1, <3>2, ReadFileInv, ReadPipeInv, WritePipeInv DEF TcInv
    <3>4. QED BY <3>1, <3>3 DEF TcInv
  <2>4. CASE UNCHANGED tc_vars
    BY <2>1, <2>4 DEF tc_vars, attr_vars, vector_vars, TcInv, VectorInv
  <2>5. QED BY <2>1, <2>2, <2>3, <2>4 DEF TcNext
<1>3. TcInv => TaskCallsSound
  <2>1. SUFFICES ASSUME TcInv PROVE TaskCallsSound
    OBVIOUS
  <2>2. VectoredInOrder
    BY <2>1 DEF TcInv, VectorInv, VectoredInOrder
  <2>3. AttributesTheirOwn
    BY <2>1 DEF TcInv, AttributesTheirOwn, sys_getpgid, sys_env_get
  <2>4. QED BY <2>2, <2>3 DEF TaskCallsSound
<1>4. QED BY <1>1, <1>2, <1>3, PTL DEF TcSpec

-----------------------------------------------------------------------------
(* Address spaces.  The invariant speaks of a set of P4s, the ones of the   *)
(* processes and the one in CR3, and of a set X of frames that are in use   *)
(* for something else: DMA buffers, and within a call the frames it has     *)
(* taken and not yet put anywhere.                                          *)
Users == 0 .. UserRoots - 1
Cells == 0 .. Slots - 1
Entries == [to : 0 .. NumFrames + 2, write : BOOLEAN]
P4s == [0 .. UserRoots -> 0 .. NumFrames + 1]
LeafTables == [Cells -> Entries]
Rams == [bitmap : SUBSET Frames, p4 : [Frames -> P4s], leaf : [Frames \cup {KernelTable} -> LeafTables]]
Comps == [ram : Rams, ok : BOOLEAN, panic : BOOLEAN, got : 0 .. NumFrames]

IsTable(m, roots, t) == t # Nowhere /\ \E r \in roots, i \in Users : t = m.p4[r][i]
IsLeaf(m, roots, t) == t = KernelTable \/ IsTable(m, roots, t)

(* Each frame has one use. *)
Marked(m, roots, X) ==
    /\ roots \subseteq m.bitmap /\ X \subseteq m.bitmap /\ roots \cap X = {}
    /\ \A r \in roots : m.p4[r][KernelRoot] = KernelTable
TablesApart(m, roots, X) ==
    /\ \A t : IsTable(m, roots, t) => t \in m.bitmap /\ t \notin roots /\ t \notin X
    /\ \A r, q \in roots, i, j \in Users : m.p4[r][i] # Nowhere /\ m.p4[r][i] = m.p4[q][j] => i = j
PagesApart(m, roots, X) ==
    /\ \A t : IsLeaf(m, roots, t) => \A k \in Cells : m.leaf[t][k].to \in Frames =>
          /\ m.leaf[t][k].to \in m.bitmap /\ m.leaf[t][k].to \notin roots /\ m.leaf[t][k].to \notin X
          /\ ~IsTable(m, roots, m.leaf[t][k].to)
    /\ \A t, u : IsLeaf(m, roots, t) /\ IsLeaf(m, roots, u) => \A j, k \in Cells :
          m.leaf[t][j].to \in Frames /\ m.leaf[t][j].to = m.leaf[u][k].to => t = u /\ j = k
Consistent(m, roots, X) == Marked(m, roots, X) /\ TablesApart(m, roots, X) /\ PagesApart(m, roots, X)

(* The heap's pages are the first of the kernel's table. *)
HeapIs(m, h) ==
    \A k \in Cells : IF k < h THEN m.leaf[KernelTable][k].to \in Frames ELSE m.leaf[KernelTable][k].to = Nowhere

(* a's tables are b's. *)
Covers(m, a, b) == \A i \in Users : m.p4[a][i] # Nowhere => m.p4[b][i] = m.p4[a][i]

Regions == [start : Nat, size : Nat, kind : {"heap", "mmap"}, write : BOOLEAN]
Span(r) == r.start .. r.start + r.size - 1
SpansApart(l) ==
    /\ \A k \in 1 .. Len(l) : l[k].kind = "mmap" => l[k].size > 0 /\ Span(l[k]) \subseteq Pages
    /\ \A j, k \in 1 .. Len(l) : j # k /\ l[j].kind = "mmap" /\ l[k].kind = "mmap" => Span(l[j]) \cap Span(l[k]) = {}
Named(l) == {v \in Pages : \E k \in 1 .. Len(l) : l[k].kind = "mmap" /\ v \in Span(l[k])}

Ready == {page_table[p] : p \in Live}
AllRoots == Ready \cup (IF state[cur] = "ready" THEN {cr3} ELSE {})
Buffer(b) == b.at .. b.at + b.n - 1

AsTyped ==
    /\ ram \in Rams /\ cr3 \in Nat /\ cur \in Procs /\ heap \in 0 .. MAX_HEAP
    /\ page_table \in [Procs -> Nat] /\ state \in [Procs -> {"new", "ready", "gone"}]
    /\ vma_list \in [Procs -> Seq(Regions)] /\ brk \in [Procs -> Nat] /\ dma \subseteq [at : Frames, n : Nat \ {0}]
FramesInv ==
    /\ \A p, q \in Live : page_table[p] = page_table[q] => p = q
    /\ Consistent(ram, AllRoots, DmaFrames)
    /\ HeapIs(ram, heap)
    /\ \A a, b \in dma : a # b => Buffer(a) \cap Buffer(b) = {}
    /\ state[cur] = "ready" => Covers(ram, page_table[cur], cr3)
Alone == "start" \notin as_use /\ "mmio" \notin as_use
RegionsInv ==
    /\ \A p \in Procs : SpansApart(vma_list[p])
    /\ Alone => cr3 = page_table[cur] /\ state[cur] = "ready"
    /\ Alone /\ ~ragged =>
         \A v \in Pages : /\ v \in Named(vma_list[cur]) => translate(ram, cr3, v)
                          /\ translate(ram, cr3, v) => v \in Named(vma_list[cur]) \cup Image \cup loose
AsInv == AsTyped /\ FramesInv /\ RegionsInv

-----------------------------------------------------------------------------
(* A loop over pages, with what holds before turn k + 1 as the set good[k]. *)
OneTurn(do, root, w, only, from, x, k) ==
    IF from + k - 1 \in only THEN Turn(do, root, w, x, from + k - 1) ELSE x
Leads(do, root, w, only, from, n, good) ==
    \A k \in 1 .. n : \A x \in good[k - 1] : OneTurn(do, root, w, only, from, x, k) \in good[k]

LEMMA TurnsIs ==
    ASSUME NEW do, NEW root, NEW w, NEW only, NEW from, NEW n \in Nat, NEW c, NEW good,
           c \in good[0], Leads(do, root, w, only, from, n, good)
    PROVE  Turns(do, root, w, only, c, from, n)[n] \in good[n]
<1> DEFINE Go(x, k) == OneTurn(do, root, w, only, from, x, k)
           D == UNION {good[k] : k \in 0 .. n}
           F == [x \in Nat \X D |-> IF Go(x[2], x[1]) \in D THEN Go(x[2], x[1]) ELSE c]
           Is(f) == f = [k \in 0 .. n |-> IF k = 0 THEN c ELSE Go(f[k - 1], k)]
           g == Turns(do, root, w, only, c, from, n)
<1>1. \A k \in 1 .. n : \A x \in good[k - 1] : Go(x, k) \in good[k]
  BY DEF Leads
<1>2. c \in D /\ \A k \in 0 .. n : good[k] \subseteq D
  OBVIOUS
<1>3. g = CHOOSE h : Is(h)
  BY DEF Turns, OneTurn
<1> HIDE DEF D, Go
<1>4. F \in Steps(D)
  BY <1>2 DEF Steps
<1>5. PICK f \in [0 .. n -> D] : f[0] = c /\ \A k \in 1 .. n : f[k] = F[<<k, f[k - 1]>>]
  <2> HIDE DEF F
  <2>1. Runs(D, c, F, n) # {}
    BY <1>2, <1>4, Recursion
  <2>2. QED BY <2>1 DEF Runs
<1> DEFINE S == {k \in 0 .. n : f[k] \in good[k]}
<1>6. ASSUME NEW k \in 1 .. n, f[k - 1] \in good[k - 1] PROVE f[k] = Go(f[k - 1], k)
  <2>1. f[k - 1] \in D /\ k \in Nat /\ k \in 0 .. n
    <3>1. k - 1 \in 0 .. n /\ k \in Nat /\ k \in 0 .. n
      OBVIOUS
    <3>2. QED BY ONLY <3>1, f \in [0 .. n -> D]
  <2>2. Go(f[k - 1], k) \in D
    BY <1>1, <1>2, <1>6, <2>1
  <2>3. F[<<k, f[k - 1]>>] = Go(f[k - 1], k)
    BY <2>1, <2>2
  <2>4. QED BY <1>5, <2>3
<1> HIDE DEF F
<1>7. \A k \in 0 .. n : k \in S
  <2>1. 0 \in S
    BY <1>5
  <2>2. ASSUME NEW k \in 0 .. n - 1, k \in S PROVE k + 1 \in S
    <3>1. k + 1 \in 1 .. n /\ k + 1 \in 0 .. n /\ (k + 1) - 1 = k /\ f[k] \in good[k]
      BY <2>2
    <3>2. f[k + 1] = Go(f[k], k + 1)
      BY <1>6, <3>1
    <3>3. Go(f[k], k + 1) \in good[k + 1]
      BY <1>1, <3>1
    <3>4. QED BY <3>1, <3>2, <3>3
  <2> HIDE DEF S
  <2>3. QED BY <2>1, <2>2, Induct
<1>8. Is(f)
  <2>1. \A k \in 0 .. n : f[k] = IF k = 0 THEN c ELSE Go(f[k - 1], k)
    <3>1. SUFFICES ASSUME NEW k \in 0 .. n, k # 0 PROVE f[k] = Go(f[k - 1], k)
      BY <1>5
    <3>2. k \in 1 .. n /\ k - 1 \in 0 .. n
      BY <3>1
    <3>3. QED BY <1>6, <1>7, <3>2
  <2>2. QED BY <2>1
<1>9. Is(g)
  <2> HIDE DEF Is, g
  <2>1. QED BY <1>3, <1>8
<1>10. g[0] = c /\ \A k \in 1 .. n : g[k] = Go(g[k - 1], k)
  <2> HIDE DEF g
  <2>1. \A k \in 0 .. n : g[k] = IF k = 0 THEN c ELSE Go(g[k - 1], k)
    BY <1>9
  <2>2. 0 \in 0 .. n /\ \A k \in 1 .. n : k \in 0 .. n /\ k # 0
    OBVIOUS
  <2>3. QED BY ONLY <2>1, <2>2, ZenonT(30)
<1> HIDE DEF g, Is
<1> DEFINE T == {k \in 0 .. n : g[k] \in good[k]}
<1>11. \A k \in 0 .. n : k \in T
  <2>1. 0 \in T
    BY <1>10
  <2>2. ASSUME NEW k \in 0 .. n - 1, k \in T PROVE k + 1 \in T
    <3>1. k + 1 \in 1 .. n /\ k + 1 \in 0 .. n /\ (k + 1) - 1 = k /\ g[k] \in good[k]
      BY <2>2
    <3>2. g[k + 1] = Go(g[k], k + 1)
      BY <1>10, <3>1
    <3>3. Go(g[k], k + 1) \in good[k + 1]
      BY <1>1, <3>1
    <3>4. QED BY <3>1, <3>2, <3>3
  <2> HIDE DEF T
  <2>3. QED BY <2>1, <2>2, Induct
<1>12. n \in 0 .. n
  OBVIOUS
<1>13. QED BY <1>11, <1>12 DEF g

-----------------------------------------------------------------------------
(* What a change of the tables leaves true. *)
LEMMA AsNumbers ==
    /\ NumFrames \in Nat \ {0} /\ Slots \in Nat \ {0} /\ UserRoots \in Nat \ {0} /\ MAX_HEAP \in 0 .. Slots
    /\ KernelTable \notin Frames /\ Device \notin Frames /\ Nowhere \notin Frames /\ 1 \in Frames
    /\ KernelTable # Nowhere /\ Device # Nowhere /\ Frames \subseteq Nat /\ KernelRoot \notin Users
    /\ KernelTable \in Nat /\ KernelTable # Device
  BY AddressSpaceAssumption DEF KernelTable, Device, Nowhere, Frames, KernelRoot, Users

LEMMA TableIsFrame ==
    ASSUME NEW m \in Rams, NEW roots, NEW X, Consistent(m, roots, X), NEW t, IsLeaf(m, roots, t)
    PROVE  t \in Frames \cup {KernelTable} /\ (t = KernelTable <=> ~IsTable(m, roots, t))
<1>1. m.bitmap \subseteq Frames
  BY DEF Rams
<1>2. QED BY <1>1, AsNumbers DEF IsLeaf, Consistent, TablesApart

LEMMA Fewer ==
    ASSUME NEW m, NEW roots, NEW X, Consistent(m, roots, X), NEW Q \in SUBSET roots, NEW Y \in SUBSET X
    PROVE  Consistent(m, Q, Y)
<1>1. \A t : IsTable(m, Q, t) => IsTable(m, roots, t)
  BY DEF IsTable
<1>2. \A t : IsLeaf(m, Q, t) => IsLeaf(m, roots, t)
  BY <1>1 DEF IsLeaf
<1>3. Marked(m, Q, Y)
  BY DEF Consistent, Marked
<1>4. TablesApart(m, Q, Y)
  BY <1>1 DEF Consistent, TablesApart
<1>5. PagesApart(m, Q, Y)
  BY <1>1, <1>2 DEF Consistent, PagesApart
<1>6. QED BY <1>3, <1>4, <1>5 DEF Consistent

(* The same tables with other frames marked. *)
LEMMA Remarked ==
    ASSUME NEW m \in Rams, NEW n \in Rams, NEW roots, NEW X, NEW Y, Consistent(m, roots, X),
           n.p4 = m.p4, n.leaf = m.leaf, Y \subseteq n.bitmap, X \cap m.bitmap \subseteq Y \cup (m.bitmap \ n.bitmap),
           Y \subseteq X \cup (n.bitmap \ m.bitmap), m.bitmap \ n.bitmap \subseteq X
    PROVE  Consistent(n, roots, Y)
<1>1. \A t : IsTable(n, roots, t) <=> IsTable(m, roots, t)
  BY DEF IsTable
<1>2. \A t : IsLeaf(n, roots, t) <=> IsLeaf(m, roots, t)
  BY <1>1 DEF IsLeaf
<1>3. Marked(n, roots, Y)
  BY DEF Consistent, Marked
<1>4. TablesApart(n, roots, Y)
  BY <1>1 DEF Consistent, TablesApart
<1>5. PagesApart(n, roots, Y)
  BY <1>1, <1>2 DEF Consistent, PagesApart
<1>6. QED BY <1>3, <1>4, <1>5 DEF Consistent

(* A frame that was taken becomes an empty table. *)
LEMMA TableLinked ==
    ASSUME NEW m \in Rams, NEW n \in Rams, NEW roots, NEW X, Consistent(m, roots, X),
           NEW root \in roots, NEW i \in Users, m.p4[root][i] = Nowhere, NEW g \in X,
           n.bitmap = m.bitmap, n.leaf = [m.leaf EXCEPT ![g] = NoTable],
           n.p4 = [m.p4 EXCEPT ![root] = [m.p4[root] EXCEPT ![i] = g]]
    PROVE  Consistent(n, roots, X \ {g})
<1>1. /\ m.bitmap \subseteq Frames /\ m.p4 \in [Frames -> P4s] /\ m.leaf \in [Frames \cup {KernelTable} -> LeafTables]
      /\ root \in Frames /\ roots \subseteq Frames /\ X \subseteq Frames /\ g \in Frames /\ g # Nowhere /\ g # KernelTable
      /\ root \notin X
  BY AsNumbers DEF Rams, Consistent, Marked
<1>2. i \in 0 .. UserRoots /\ i # KernelRoot /\ Users \subseteq 0 .. UserRoots /\ KernelRoot \in 0 .. UserRoots
  BY AsNumbers DEF Users, KernelRoot
<1>3. \A r \in roots, j \in 0 .. UserRoots : n.p4[r][j] = IF r = root /\ j = i THEN g ELSE m.p4[r][j]
  <2>1. m.p4[root] \in [0 .. UserRoots -> 0 .. NumFrames + 1]
    BY <1>1 DEF P4s
  <2>2. PICK row : row = [m.p4[root] EXCEPT ![i] = g]
    OBVIOUS
  <2>3. \A j \in 0 .. UserRoots : row[j] = IF j = i THEN g ELSE m.p4[root][j]
    BY <2>1, <2>2
  <2>4. \A r \in roots : n.p4[r] = IF r = root THEN row ELSE m.p4[r]
    <3>1. n.p4 = [m.p4 EXCEPT ![root] = row]
      BY <2>2
    <3>2. QED BY <1>1, <3>1
  <2>5. QED BY <2>3, <2>4
<1>4. \A t : IsTable(n, roots, t) <=> IsTable(m, roots, t) \/ t = g
  BY <1>1, <1>2, <1>3 DEF IsTable
<1>5. \A t : IsLeaf(n, roots, t) <=> IsLeaf(m, roots, t) \/ t = g
  BY <1>4 DEF IsLeaf
<1>6. ~IsLeaf(m, roots, g)
  BY <1>1 DEF Consistent, TablesApart, IsLeaf
<1>7. \A t : IsLeaf(m, roots, t) => n.leaf[t] = m.leaf[t] /\ t # g
  BY <1>1, <1>6, TableIsFrame
<1>8. \A k \in Cells : n.leaf[g][k].to \notin Frames
  BY <1>1, AsNumbers DEF NoTable, Absent, Cells
<1>9. Marked(n, roots, X \ {g})
  BY <1>1, <1>2, <1>3 DEF Consistent, Marked
<1>10. TablesApart(n, roots, X \ {g})
  <2>1. ASSUME NEW t, IsTable(n, roots, t) PROVE t \in n.bitmap /\ t \notin roots /\ t \notin X \ {g}
    BY <1>1, <1>4, <2>1 DEF Consistent, TablesApart, Marked
  <2>2. ASSUME NEW r \in roots, NEW q \in roots, NEW j \in Users, NEW k \in Users,
               n.p4[r][j] # Nowhere, n.p4[r][j] = n.p4[q][k]
        PROVE  j = k
    <3>1. \A z \in roots, l \in Users : m.p4[z][l] # g
      BY <1>1, <1>6 DEF IsLeaf, IsTable
    <3>2. QED BY <1>2, <1>3, <2>2, <3>1 DEF Consistent, TablesApart
  <2>3. QED BY <2>1, <2>2 DEF TablesApart
<1>11. PagesApart(n, roots, X \ {g})
  <2>1. ASSUME NEW t, IsLeaf(n, roots, t), NEW k \in Cells, n.leaf[t][k].to \in Frames
        PROVE  /\ IsLeaf(m, roots, t) /\ m.leaf[t] = n.leaf[t]
               /\ n.leaf[t][k].to \in n.bitmap /\ n.leaf[t][k].to \notin roots /\ n.leaf[t][k].to \notin X \ {g}
               /\ ~IsTable(n, roots, n.leaf[t][k].to)
    <3>1. IsLeaf(m, roots, t) /\ m.leaf[t] = n.leaf[t]
      BY <1>5, <1>7, <1>8, <2>1
    <3>2. m.leaf[t][k].to \in m.bitmap /\ m.leaf[t][k].to \notin roots /\ m.leaf[t][k].to \notin X
          /\ ~IsTable(m, roots, m.leaf[t][k].to)
      BY <2>1, <3>1 DEF Consistent, PagesApart
    <3>3. QED BY <1>4, <3>1, <3>2
  <2>2. ASSUME NEW t, NEW u, IsLeaf(n, roots, t), IsLeaf(n, roots, u), NEW j \in Cells, NEW k \in Cells,
               n.leaf[t][j].to \in Frames, n.leaf[t][j].to = n.leaf[u][k].to
        PROVE  t = u /\ j = k
    BY <2>1, <2>2 DEF Consistent, PagesApart
  <2>3. QED BY <2>1, <2>2 DEF PagesApart
<1>12. QED BY <1>9, <1>10, <1>11 DEF Consistent

(* An entry of a table is set: to a frame that was taken, to no frame, or   *)
(* to the frame it had.                                                     *)
LEMMA EntrySet ==
    ASSUME NEW m \in Rams, NEW n \in Rams, NEW roots, NEW X, Consistent(m, roots, X),
           NEW t, IsLeaf(m, roots, t), NEW k \in Cells, NEW e \in Entries,
           e.to \in X \/ e.to \notin Frames \/ e.to = m.leaf[t][k].to,
           n.bitmap = m.bitmap, n.p4 = m.p4, n.leaf = [m.leaf EXCEPT ![t] = [m.leaf[t] EXCEPT ![k] = e]]
    PROVE  Consistent(n, roots, X \ {e.to})
<1>1. m.leaf \in [Frames \cup {KernelTable} -> LeafTables] /\ t \in Frames \cup {KernelTable}
  BY TableIsFrame DEF Rams
<1>2. \A z : IsTable(n, roots, z) <=> IsTable(m, roots, z)
  BY DEF IsTable
<1>3. \A z : IsLeaf(n, roots, z) <=> IsLeaf(m, roots, z)
  BY <1>2 DEF IsLeaf
<1>4. \A z : IsLeaf(m, roots, z) => \A j \in Cells : n.leaf[z][j] = IF z = t /\ j = k THEN e ELSE m.leaf[z][j]
  <2>1. \A z : IsLeaf(m, roots, z) => z \in Frames \cup {KernelTable}
    BY TableIsFrame
  <2>2. \A z \in Frames \cup {KernelTable} : m.leaf[z] \in LeafTables
    BY <1>1
  <2>3. QED BY <1>1, <2>1, <2>2 DEF LeafTables
<1>5. Marked(n, roots, X \ {e.to})
  BY DEF Consistent, Marked
<1>6. TablesApart(n, roots, X \ {e.to})
  BY <1>2 DEF Consistent, TablesApart
<1>7. PagesApart(n, roots, X \ {e.to})
  <2>1. ASSUME NEW z, IsLeaf(n, roots, z), NEW j \in Cells, n.leaf[z][j].to \in Frames
        PROVE  /\ n.leaf[z][j].to \in n.bitmap /\ n.leaf[z][j].to \notin roots /\ n.leaf[z][j].to \notin X \ {e.to}
               /\ ~IsTable(n, roots, n.leaf[z][j].to)
    <3>1. CASE z = t /\ j = k
      <4>1. n.leaf[z][j] = e
        BY <1>3, <1>4, <2>1, <3>1
      <4>2. CASE e.to \in X
        BY <1>2, <4>1, <4>2 DEF Consistent, Marked, TablesApart
      <4>3. CASE e.to = m.leaf[t][k].to
        BY <1>2, <2>1, <4>1, <4>3 DEF Consistent, PagesApart
      <4>4. QED BY <2>1, <4>1, <4>2, <4>3
    <3>2. CASE ~(z = t /\ j = k)
      <4>1. n.leaf[z][j] = m.leaf[z][j]
        BY <1>3, <1>4, <2>1, <3>2
      <4>2. QED BY <1>2, <1>3, <2>1, <4>1 DEF Consistent, PagesApart
    <3>3. QED BY <3>1, <3>2
  <2>2. ASSUME NEW z, NEW u, IsLeaf(n, roots, z), IsLeaf(n, roots, u), NEW j \in Cells, NEW l \in Cells,
               n.leaf[z][j].to \in Frames, n.leaf[z][j].to = n.leaf[u][l].to
        PROVE  z = u /\ j = l
    <3>1. \A y : IsLeaf(m, roots, y) => \A i \in Cells : m.leaf[y][i].to \in Frames => m.leaf[y][i].to \notin X
      BY DEF Consistent, PagesApart
    <3>2. \A y, x : IsLeaf(m, roots, y) /\ IsLeaf(m, roots, x) => \A i, h \in Cells :
             m.leaf[y][i].to \in Frames /\ m.leaf[y][i].to = m.leaf[x][h].to => y = x /\ i = h
      BY DEF Consistent, PagesApart
    <3>3. n.leaf[z][j] = (IF z = t /\ j = k THEN e ELSE m.leaf[z][j]) /\ n.leaf[u][l] = IF u = t /\ l = k THEN e ELSE m.leaf[u][l]
      BY <1>3, <1>4, <2>2
    <3>4. IsLeaf(m, roots, z) /\ IsLeaf(m, roots, u)
      BY <1>3, <2>2
    <3>5. QED BY <2>2, <3>1, <3>2, <3>3, <3>4
  <2>3. \A z : IsLeaf(n, roots, z) => \A j \in Cells : n.leaf[z][j].to \in Frames =>
          /\ n.leaf[z][j].to \in n.bitmap /\ n.leaf[z][j].to \notin roots /\ n.leaf[z][j].to \notin X \ {e.to}
          /\ ~IsTable(n, roots, n.leaf[z][j].to)
    BY ONLY <2>1
  <2>4. \A z, u : IsLeaf(n, roots, z) /\ IsLeaf(n, roots, u) => \A j, l \in Cells :
          n.leaf[z][j].to \in Frames /\ n.leaf[z][j].to = n.leaf[u][l].to => z = u /\ j = l
    BY ONLY <2>2
  <2>5. QED BY ONLY <2>3, <2>4 DEF PagesApart
<1>8. QED BY <1>5, <1>6, <1>7 DEF Consistent

(* A frame that was taken becomes a copy of a P4. *)
LEMMA RootCopied ==
    ASSUME NEW m \in Rams, NEW n \in Rams, NEW roots, NEW X, Consistent(m, roots, X),
           NEW r \in roots, NEW g \in X, n.bitmap = m.bitmap, n.leaf = m.leaf, n.p4 = [m.p4 EXCEPT ![g] = m.p4[r]]
    PROVE  Consistent(n, roots \cup {g}, X \ {g})
<1>1. /\ m.bitmap \subseteq Frames /\ m.p4 \in [Frames -> P4s] /\ roots \subseteq Frames /\ g \in Frames /\ g \notin roots
  BY DEF Rams, Consistent, Marked
<1>2. n.p4[g] = m.p4[r] /\ \A q \in roots : n.p4[q] = m.p4[q]
  BY <1>1
<1> DEFINE Q == roots \cup {g}
<1>3. \A t : IsTable(n, Q, t) <=> IsTable(m, roots, t)
  BY <1>2 DEF IsTable
<1>4. \A t : IsLeaf(n, Q, t) <=> IsLeaf(m, roots, t)
  BY <1>3 DEF IsLeaf
<1>5. Marked(n, Q, X \ {g})
  BY <1>2 DEF Consistent, Marked
<1>6. TablesApart(n, Q, X \ {g})
  <2>1. \A t : IsTable(n, Q, t) => t \in n.bitmap /\ t \notin Q /\ t \notin X \ {g}
    BY <1>3 DEF Consistent, TablesApart
  <2>2. \A p \in Q, q \in Q, i \in Users, j \in Users : n.p4[p][i] # Nowhere /\ n.p4[p][i] = n.p4[q][j] => i = j
    <3> SUFFICES ASSUME NEW p \in Q, NEW q \in Q, NEW i \in Users, NEW j \in Users,
                        n.p4[p][i] # Nowhere, n.p4[p][i] = n.p4[q][j]
                 PROVE  i = j
      OBVIOUS
    <3>1. PICK a \in roots : n.p4[p] = m.p4[a]
      BY <1>2
    <3>2. PICK b \in roots : n.p4[q] = m.p4[b]
      BY <1>2
    <3>3. QED BY <3>1, <3>2 DEF Consistent, TablesApart
  <2> HIDE DEF Q
  <2>3. QED BY <2>1, <2>2 DEF TablesApart
<1>7. PagesApart(n, Q, X \ {g})
  BY <1>3, <1>4 DEF Consistent, PagesApart
<1>8. QED BY <1>5, <1>6, <1>7 DEF Consistent

-----------------------------------------------------------------------------
(* Pages and their places in the tables. *)
LEMMA Products ==
    ASSUME NEW a \in Nat, NEW b \in Nat, NEW c \in Nat, a * b < a * c
    PROVE  b < c
<1>1. SUFFICES ASSUME c <= b PROVE FALSE
  OBVIOUS
<1>2. PICK d \in Nat : b = c + d
  <2>1. b - c \in Nat /\ b = c + (b - c)
    BY <1>1
  <2>2. QED BY <2>1
<1>3. a * b = a * c + a * d /\ a * d \in Nat /\ a * c \in Nat
  BY <1>2
<1>4. QED BY <1>3

LEMMA Quotient ==
    ASSUME NEW v \in Nat, NEW n \in Nat \ {0}
    PROVE  v \div n \in Nat /\ v % n \in 0 .. n - 1 /\ v = n * (v \div n) + (v % n)
  OBVIOUS

LEMMA PagePlace ==
    ASSUME NEW v \in Pages
    PROVE  v \in Nat /\ v \div Slots \in Users /\ v % Slots \in Cells /\ v = Slots * (v \div Slots) + (v % Slots)
<1>1. v \in Nat /\ v < Slots * UserRoots /\ Slots \in Nat \ {0} /\ UserRoots \in Nat \ {0}
  BY AsNumbers DEF Pages
<1>2. v \div Slots \in Nat /\ v % Slots \in 0 .. Slots - 1 /\ v = Slots * (v \div Slots) + (v % Slots)
  BY <1>1, Quotient
<1>3. PICK d \in Nat, k \in Nat : d = v \div Slots /\ k = v % Slots
  BY <1>2
<1>4. Slots * d \in Nat /\ Slots * UserRoots \in Nat
  BY <1>1
<1>5. Slots * d < Slots * UserRoots
  BY <1>1, <1>2, <1>3, <1>4
<1>6. d < UserRoots
  BY <1>1, <1>5, Products
<1>7. QED BY <1>1, <1>2, <1>3, <1>6 DEF Users, Cells

LEMMA PlacesDiffer ==
    ASSUME NEW v \in Pages, NEW u \in Pages, u # v, u \div Slots = v \div Slots
    PROVE  u % Slots # v % Slots
<1>1. u = Slots * (u \div Slots) + (u % Slots) /\ v = Slots * (v \div Slots) + (v % Slots)
  BY PagePlace
<1>2. QED BY <1>1

LEMMA KernelPlace ==
    ASSUME NEW k \in Cells
    PROVE  KernelRoot * Slots + k \in Nat /\ (KernelRoot * Slots + k) \div Slots = KernelRoot /\ (KernelRoot * Slots + k) % Slots = k
<1>1. Slots \in Nat \ {0} /\ KernelRoot \in Nat /\ k \in 0 .. Slots - 1
  BY AsNumbers DEF KernelRoot, Cells
<1>2. PICK v \in Nat : v = KernelRoot * Slots + k
  BY <1>1
<1>3. v \div Slots \in Nat /\ v % Slots \in 0 .. Slots - 1 /\ v = Slots * (v \div Slots) + (v % Slots)
  BY <1>1, <1>2, Quotient
<1>4. PICK d \in Nat, j \in 0 .. Slots - 1 : d = v \div Slots /\ j = v % Slots
  BY <1>3
<1>5. Slots * d + j = Slots * KernelRoot + k
  BY <1>1, <1>2, <1>3, <1>4
<1>6. ASSUME d < KernelRoot PROVE FALSE
  <2>1. PICK e \in Nat : KernelRoot = d + 1 + e
    <3>1. KernelRoot - d - 1 \in Nat /\ KernelRoot = d + 1 + (KernelRoot - d - 1)
      BY <1>1, <1>6
    <3>2. QED BY <3>1
  <2>2. Slots * KernelRoot = Slots * d + Slots + Slots * e /\ Slots * e \in Nat /\ Slots * d \in Nat
    BY <1>1, <2>1
  <2>3. QED BY <1>1, <1>5, <2>2
<1>7. ASSUME KernelRoot < d PROVE FALSE
  <2>1. PICK e \in Nat : d = KernelRoot + 1 + e
    <3>1. d - KernelRoot - 1 \in Nat /\ d = KernelRoot + 1 + (d - KernelRoot - 1)
      BY <1>1, <1>7
    <3>2. QED BY <3>1
  <2>2. Slots * d = Slots * KernelRoot + Slots + Slots * e /\ Slots * e \in Nat /\ Slots * KernelRoot \in Nat
    BY <1>1, <2>1
  <2>3. QED BY <1>1, <1>5, <2>2
<1>8. d = KernelRoot
  BY <1>1, <1>6, <1>7
<1>9. Slots * d \in Nat
  BY <1>1
<1>10. j = k
  BY <1>1, <1>5, <1>8, <1>9
<1>11. QED BY <1>1, <1>2, <1>4, <1>8, <1>10

-----------------------------------------------------------------------------
(* The steps calls are made of. *)
LEMMA AllocIs ==
    ASSUME NEW x \in Comps, NEW y, y = alloc_frame(x)
    PROVE  /\ y \in Comps
           /\ y.ok => /\ x.ok /\ y.got \in Frames /\ y.got \notin x.ram.bitmap
                      /\ y.ram.bitmap = x.ram.bitmap \cup {y.got} /\ y.ram.p4 = x.ram.p4 /\ y.ram.leaf = x.ram.leaf
           /\ ~y.ok => y.ram = x.ram
<1> DEFINE free == Frames \ x.ram.bitmap
           g == Min(free)
<1>1. /\ x.ram \in Rams /\ x.ram.bitmap \in SUBSET Frames /\ x.ram.p4 \in [Frames -> P4s]
      /\ x.ram.leaf \in [Frames \cup {KernelTable} -> LeafTables] /\ x.ok \in BOOLEAN /\ x.panic \in BOOLEAN
      /\ x.got \in 0 .. NumFrames
  BY DEF Comps, Rams
<1>2. CASE ~x.ok \/ free = {}
  <2>1. y = [x EXCEPT !.ok = FALSE]
    BY <1>2 DEF alloc_frame, Fails
  <2>2. y \in Comps /\ ~y.ok /\ y.ram = x.ram
    BY <1>1, <2>1 DEF Comps
  <2>3. QED BY <2>2
<1>3. CASE x.ok /\ free # {}
  <2>1. g \in Frames /\ g \notin x.ram.bitmap
    <3>1. free \in SUBSET Nat
      BY AsNumbers
    <3>2. g \in free
      BY <1>3, <3>1, MinIsMember
    <3>3. QED BY <3>2
  <2>2. y = [x EXCEPT !.ram.bitmap = @ \cup {g}, !.got = g]
    BY <1>3 DEF alloc_frame
  <2>3. g \in 0 .. NumFrames
    BY <2>1, AsNumbers DEF Frames
  <2> HIDE DEF g
  <2>4. y.ok = x.ok /\ y.panic = x.panic /\ y.got = g /\ y.ram = [x.ram EXCEPT !.bitmap = @ \cup {g}]
    BY <2>2 DEF Comps
  <2>5. y.ram.bitmap = x.ram.bitmap \cup {g} /\ y.ram.p4 = x.ram.p4 /\ y.ram.leaf = x.ram.leaf /\ y.ram \in Rams
    BY <1>1, <2>1, <2>4 DEF Rams
  <2>6. y \in Comps
    <3>1. y = [ram |-> y.ram, ok |-> y.ok, panic |-> y.panic, got |-> y.got]
      BY <2>2 DEF Comps
    <3>2. QED BY <1>1, <2>3, <2>4, <2>5, <3>1 DEF Comps
  <2>7. QED BY <1>3, <2>1, <2>4, <2>5, <2>6
<1>4. QED BY <1>1, <1>2, <1>3

LEMMA FreeIs ==
    ASSUME NEW x \in Comps, NEW f \in Frames, NEW y, y = free_frame(x, f)
    PROVE  /\ y \in Comps /\ y.ok = x.ok /\ y.got = x.got
           /\ y.ram.bitmap = x.ram.bitmap \ {f} /\ y.ram.p4 = x.ram.p4 /\ y.ram.leaf = x.ram.leaf
<1>1. /\ x.ram \in Rams /\ x.ram.bitmap \in SUBSET Frames /\ x.ram.p4 \in [Frames -> P4s]
      /\ x.ram.leaf \in [Frames \cup {KernelTable} -> LeafTables] /\ x.ok \in BOOLEAN /\ x.panic \in BOOLEAN
      /\ x.got \in 0 .. NumFrames
  BY DEF Comps, Rams
<1>2. PICK b \in BOOLEAN : b = (x.panic \/ f \notin x.ram.bitmap)
  <2>1. (x.panic \/ f \notin x.ram.bitmap) \in BOOLEAN
    OBVIOUS
  <2>2. QED BY <2>1, Zenon
<1>3. y = [x EXCEPT !.ram.bitmap = @ \ {f}, !.panic = b]
  <2>1. y = [x EXCEPT !.ram.bitmap = @ \ {f}, !.panic = @ \/ f \notin x.ram.bitmap]
    BY DEF free_frame
  <2>2. [x EXCEPT !.ram.bitmap = @ \ {f}, !.panic = @ \/ f \notin x.ram.bitmap]
        = [x EXCEPT !.ram.bitmap = @ \ {f}, !.panic = b]
    BY <1>2
  <2>3. QED BY <2>1, <2>2
<1>4. y.ok = x.ok /\ y.panic = b /\ y.got = x.got /\ y.ram = [x.ram EXCEPT !.bitmap = @ \ {f}]
  BY <1>3 DEF Comps
<1>5. y.ram.bitmap = x.ram.bitmap \ {f} /\ y.ram.p4 = x.ram.p4 /\ y.ram.leaf = x.ram.leaf /\ y.ram \in Rams
  BY <1>1, <1>4 DEF Rams
<1>6. y = [ram |-> y.ram, ok |-> y.ok, panic |-> y.panic, got |-> y.got]
  BY <1>3 DEF Comps
<1>7. QED BY <1>1, <1>4, <1>5, <1>6 DEF Comps

LEMMA SetIs ==
    ASSUME NEW x \in Comps, NEW root, NEW v, NEW t \in Frames \cup {KernelTable}, NEW k \in Cells, NEW e \in Entries,
           t = LeafOf(x.ram, root, v), k = v % Slots, NEW y, y = SetEntry(x, root, v, e)
    PROVE  /\ y \in Comps /\ y.ok = x.ok /\ y.got = x.got /\ y.panic = x.panic
           /\ y.ram.bitmap = x.ram.bitmap /\ y.ram.p4 = x.ram.p4
           /\ y.ram.leaf = [x.ram.leaf EXCEPT ![t] = [x.ram.leaf[t] EXCEPT ![k] = e]]
<1>1. /\ x.ram \in Rams /\ x.ram.bitmap \in SUBSET Frames /\ x.ram.p4 \in [Frames -> P4s]
      /\ x.ram.leaf \in [Frames \cup {KernelTable} -> LeafTables] /\ x.ok \in BOOLEAN /\ x.panic \in BOOLEAN
      /\ x.got \in 0 .. NumFrames
  BY DEF Comps, Rams
<1>2. y = [x EXCEPT !.ram.leaf[t][k] = e]
  BY DEF SetEntry
<1>3. y.ok = x.ok /\ y.panic = x.panic /\ y.got = x.got /\ y.ram = [x.ram EXCEPT !.leaf[t][k] = e]
  BY <1>2 DEF Comps
<1>4. y.ram.bitmap = x.ram.bitmap /\ y.ram.p4 = x.ram.p4 /\ y.ram.leaf = [x.ram.leaf EXCEPT ![t] = [x.ram.leaf[t] EXCEPT ![k] = e]]
  BY <1>3 DEF Comps, Rams
<1>5. [x.ram.leaf[t] EXCEPT ![k] = e] \in LeafTables
  <2>1. x.ram.leaf[t] \in LeafTables
    BY <1>1
  <2>2. QED BY <2>1 DEF LeafTables
<1>6. y.ram.leaf \in [Frames \cup {KernelTable} -> LeafTables]
  BY <1>1, <1>4, <1>5
<1>7. y.ram \in Rams
  <2>1. y.ram = [bitmap |-> y.ram.bitmap, p4 |-> y.ram.p4, leaf |-> y.ram.leaf]
    BY <1>3 DEF Comps, Rams
  <2>2. QED BY <1>1, <1>4, <1>6, <2>1 DEF Rams
<1>8. y = [ram |-> y.ram, ok |-> y.ok, panic |-> y.panic, got |-> y.got]
  BY <1>2 DEF Comps
<1>9. QED BY <1>1, <1>3, <1>4, <1>7, <1>8 DEF Comps

(* What calls on a P4's user pages leave alone: the other P4s, the tables it has, the kernel's table. *)
Kept(m, n, root) ==
    /\ \A r \in Frames : r # root => n.p4[r] = m.p4[r]
    /\ \A i \in Users : m.p4[root][i] # Nowhere => n.p4[root][i] = m.p4[root][i]
    /\ n.leaf[KernelTable] = m.leaf[KernelTable]
OnlyPage(m, n, root, v) == \A u \in Pages : u # v => EntryOf(n, root, u) = EntryOf(m, root, u)

LEMMA EntryIs ==
    ASSUME NEW m \in Rams, NEW root \in Frames, NEW v \in Pages
    PROVE  /\ LeafOf(m, root, v) = m.p4[root][v \div Slots] /\ LeafOf(m, root, v) \in 0 .. NumFrames + 1
           /\ EntryOf(m, root, v) = IF m.p4[root][v \div Slots] = Nowhere THEN Absent
                                    ELSE m.leaf[m.p4[root][v \div Slots]][v % Slots]
           /\ EntryOf(m, root, v) \in Entries
<1>1. root # Nowhere
  BY AsNumbers
<1>2. v \div Slots \in 0 .. UserRoots /\ v % Slots \in Cells
  BY PagePlace, AsNumbers DEF Users
<1>3. m.p4[root] \in [0 .. UserRoots -> 0 .. NumFrames + 1] /\ m.leaf \in [Frames \cup {KernelTable} -> LeafTables]
  BY DEF Rams, P4s
<1>4. m.p4[root][v \div Slots] \in 0 .. NumFrames + 1
  BY <1>2, <1>3
<1>5. m.p4[root][v \div Slots] # Nowhere => m.p4[root][v \div Slots] \in Frames \cup {KernelTable}
  BY <1>4, AsNumbers DEF Frames, KernelTable, Nowhere
<1>6. Absent \in Entries
  BY AsNumbers DEF Absent, Entries, Nowhere
<1>7. m.p4[root][v \div Slots] # Nowhere => m.leaf[m.p4[root][v \div Slots]][v % Slots] \in Entries
  BY <1>2, <1>3, <1>5 DEF LeafTables
<1>8. QED BY <1>1, <1>4, <1>6, <1>7 DEF LeafOf, EntryOf

LEMMA WithLeafIs ==
    ASSUME NEW roots, NEW X, NEW x \in Comps, Consistent(x.ram, roots, X), NEW root \in roots, NEW v \in Pages,
           NEW y, y = WithLeaf(x, root, v)
    PROVE  /\ y \in Comps /\ Consistent(y.ram, roots, X) /\ Kept(x.ram, y.ram, root)
           /\ \A u \in Pages : EntryOf(y.ram, root, u) = EntryOf(x.ram, root, u)
           /\ y.ok => x.ok /\ LeafOf(y.ram, root, v) # Nowhere
           /\ LeafOf(x.ram, root, v) # Nowhere => y = x
<1>0. PICK m, i : m = x.ram /\ i = v \div Slots
  OBVIOUS
<1>1. /\ m \in Rams /\ root \in Frames /\ i \in Users /\ LeafOf(m, root, v) = m.p4[root][i] /\ Consistent(m, roots, X)
      /\ i \in 0 .. UserRoots
  <2>1. m \in Rams /\ root \in Frames
    BY <1>0 DEF Comps, Rams, Consistent, Marked
  <2>2. QED BY <1>0, <2>1, PagePlace, EntryIs, AsNumbers DEF Users
<1>2. PICK a : a = alloc_frame(x)
  OBVIOUS
<1>3. /\ a \in Comps
      /\ a.ok => /\ x.ok /\ a.got \in Frames /\ a.got \notin m.bitmap
                 /\ a.ram.bitmap = m.bitmap \cup {a.got} /\ a.ram.p4 = m.p4 /\ a.ram.leaf = m.leaf
      /\ ~a.ok => a.ram = m
  BY <1>0, <1>2, AllocIs
<1>4. CASE LeafOf(m, root, v) # Nowhere
  <2>1. y = x
    BY <1>0, <1>4 DEF WithLeaf
  <2>2. QED BY <1>0, <1>4, <2>1 DEF Kept
<1>5. CASE LeafOf(m, root, v) = Nowhere /\ ~a.ok
  <2>1. y = a
    BY <1>0, <1>2, <1>5 DEF WithLeaf
  <2>2. QED BY <1>0, <1>3, <1>5, <2>1 DEF Kept
<1>6. CASE LeafOf(m, root, v) = Nowhere /\ a.ok
  <2>0. PICK g, b : g = a.got /\ b = a.ram
    OBVIOUS
  <2>1. y = [a EXCEPT !.ram.leaf[g] = NoTable, !.ram.p4[root][i] = g]
    BY <1>0, <1>2, <1>6, <2>0 DEF WithLeaf
  <2>2. b \in Rams /\ g \in Frames /\ b.p4 = m.p4 /\ b.leaf = m.leaf /\ b.bitmap = m.bitmap \cup {g} /\ g \notin m.bitmap
    BY <1>3, <1>6, <2>0 DEF Comps
  <2>3. Consistent(b, roots, X \cup {g})
    <3>1. X \cup {g} \subseteq b.bitmap /\ b.bitmap \ m.bitmap = {g} /\ m.bitmap \ b.bitmap = {}
      BY <1>1, <2>2 DEF Consistent, Marked
    <3>2. QED BY <1>1, <2>2, <3>1, Remarked
  <2>4. /\ y.ok = a.ok /\ y.panic = a.panic /\ y.got = a.got
        /\ y.ram = [b EXCEPT !.leaf[g] = NoTable, !.p4[root][i] = g]
    BY <1>3, <2>0, <2>1 DEF Comps
  <2>5. /\ y.ram.bitmap = b.bitmap /\ y.ram.leaf = [b.leaf EXCEPT ![g] = NoTable]
        /\ y.ram.p4 = [b.p4 EXCEPT ![root] = [b.p4[root] EXCEPT ![i] = g]]
    BY <2>2, <2>4 DEF Rams
  <2>6. y.ram \in Rams
    <3>1. y.ram = [bitmap |-> y.ram.bitmap, p4 |-> y.ram.p4, leaf |-> y.ram.leaf]
      BY <2>2, <2>4 DEF Rams
    <3>2. NoTable \in LeafTables
      BY AsNumbers DEF NoTable, LeafTables, Entries, Absent, Nowhere, Cells
    <3>3. [b.p4[root] EXCEPT ![i] = g] \in P4s
      <4>1. b.p4[root] \in [0 .. UserRoots -> 0 .. NumFrames + 1]
        BY <1>1, <2>2 DEF Rams, P4s
      <4>2. g \in 0 .. NumFrames + 1
        BY <2>2, AsNumbers DEF Frames
      <4>3. QED BY <1>1, <4>1, <4>2 DEF P4s
    <3>4. y.ram.p4 \in [Frames -> P4s] /\ y.ram.leaf \in [Frames \cup {KernelTable} -> LeafTables]
      BY <1>1, <2>2, <2>5, <3>2, <3>3 DEF Rams
    <3>5. QED BY <2>2, <2>5, <3>1, <3>4 DEF Rams
  <2>7. y \in Comps
    <3>1. y = [ram |-> y.ram, ok |-> y.ok, panic |-> y.panic, got |-> y.got]
      BY <1>3, <2>1 DEF Comps
    <3>2. QED BY <1>3, <2>0, <2>4, <2>6, <3>1 DEF Comps
  <2>8. Consistent(y.ram, roots, X)
    <3>1. PICK n : n = y.ram
      OBVIOUS
    <3>2. g \in X \cup {g} /\ b.p4[root][i] = Nowhere
      BY <1>1, <1>6, <2>2
    <3>3. PICK Y : Y = X \cup {g}
      OBVIOUS
    <3>4. /\ b \in Rams /\ n \in Rams /\ Consistent(b, roots, Y) /\ root \in roots /\ i \in Users
          /\ b.p4[root][i] = Nowhere /\ g \in Y /\ n.bitmap = b.bitmap /\ n.leaf = [b.leaf EXCEPT ![g] = NoTable]
          /\ n.p4 = [b.p4 EXCEPT ![root] = [b.p4[root] EXCEPT ![i] = g]]
      BY <1>1, <2>2, <2>3, <2>5, <2>6, <3>1, <3>2, <3>3
    <3>5. Consistent(n, roots, Y \ {g})
      BY ONLY <3>4, TableLinked
    <3>6. Y \ {g} = X
      BY <1>1, <2>2, <3>3 DEF Consistent, Marked
    <3>7. QED BY <3>1, <3>5, <3>6
  <2>9. m.p4[root] \in [0 .. UserRoots -> 0 .. NumFrames + 1] /\ m.p4 \in [Frames -> P4s]
        /\ m.leaf \in [Frames \cup {KernelTable} -> LeafTables]
    BY <1>1 DEF Rams, P4s
  <2>10. y.ram.p4[root][i] = g /\ \A j \in 0 .. UserRoots : j # i => y.ram.p4[root][j] = m.p4[root][j]
    <3>1. PICK row : row = [m.p4[root] EXCEPT ![i] = g]
      OBVIOUS
    <3>2. row[i] = g /\ \A j \in 0 .. UserRoots : j # i => row[j] = m.p4[root][j]
      BY <1>1, <2>9, <3>1
    <3>3. y.ram.p4[root] = row
      <4>1. y.ram.p4 = [m.p4 EXCEPT ![root] = row]
        BY <2>2, <2>5, <3>1
      <4>2. QED BY <1>1, <2>9, <4>1
    <3>4. QED BY <3>2, <3>3
  <2>11. \A t \in Frames \cup {KernelTable} : y.ram.leaf[t] = IF t = g THEN NoTable ELSE m.leaf[t]
    BY <2>2, <2>5, <2>9
  <2>12. \A r \in Frames : r # root => y.ram.p4[r] = m.p4[r]
    BY <2>2, <2>5, <2>9
  <2>13. Kept(m, y.ram, root)
    <3>1. \A j \in Users : m.p4[root][j] # Nowhere => y.ram.p4[root][j] = m.p4[root][j]
      <4>1. Users \subseteq 0 .. UserRoots /\ m.p4[root][i] = Nowhere
        BY <1>1, <1>6, AsNumbers DEF Users
      <4>2. QED BY <2>10, <4>1
    <3>2. y.ram.leaf[KernelTable] = m.leaf[KernelTable]
      BY <2>2, <2>11, AsNumbers
    <3>3. QED BY <2>12, <3>1, <3>2 DEF Kept
  <2>14. LeafOf(y.ram, root, v) # Nowhere
    BY <1>0, <1>1, <2>2, <2>6, <2>10, EntryIs, AsNumbers
  <2>15. ASSUME NEW u \in Pages PROVE EntryOf(y.ram, root, u) = EntryOf(m, root, u)
    <3>0. PICK j, k, n : j = u \div Slots /\ k = u % Slots /\ n = y.ram
      OBVIOUS
    <3>1. j \in Users /\ k \in Cells /\ j \in 0 .. UserRoots
      BY <3>0, PagePlace, AsNumbers DEF Users
    <3>2. EntryOf(n, root, u) = IF n.p4[root][j] = Nowhere THEN Absent ELSE n.leaf[n.p4[root][j]][k]
      BY <1>1, <2>6, <3>0, EntryIs
    <3>3. EntryOf(m, root, u) = IF m.p4[root][j] = Nowhere THEN Absent ELSE m.leaf[m.p4[root][j]][k]
      BY <1>1, <3>0, EntryIs
    <3>4. CASE j = i
      <4>1. n.p4[root][j] = g /\ g # Nowhere /\ n.leaf[g] = NoTable /\ m.p4[root][j] = Nowhere
        BY <1>1, <1>6, <2>2, <2>10, <2>11, <3>0, <3>4, AsNumbers
      <4>2. NoTable[k] = Absent
        BY <3>1 DEF NoTable, Cells
      <4>3. QED BY <3>0, <3>2, <3>3, <4>1, <4>2
    <3>5. CASE j # i
      <4>1. n.p4[root][j] = m.p4[root][j]
        BY <2>10, <3>0, <3>1, <3>5
      <4>2. ASSUME m.p4[root][j] # Nowhere PROVE n.leaf[m.p4[root][j]] = m.leaf[m.p4[root][j]]
        <5>1. IsTable(m, roots, m.p4[root][j])
          BY <3>1, <4>2 DEF IsTable
        <5>2. m.p4[root][j] \in m.bitmap
          BY <1>1, <5>1 DEF Consistent, TablesApart
        <5>3. m.p4[root][j] \in Frames /\ m.p4[root][j] # g
          BY <1>1, <2>2, <5>2 DEF Rams
        <5>4. QED BY <2>11, <3>0, <5>3
      <4>3. QED BY <3>0, <3>2, <3>3, <4>1, <4>2
    <3>6. QED BY <3>0, <3>4, <3>5
  <2>16. QED BY <1>0, <1>3, <1>6, <2>4, <2>7, <2>8, <2>13, <2>14, <2>15
<1>7. QED BY <1>3, <1>4, <1>5, <1>6

MayPut(e, X, old) == e.to \in X \/ e.to \notin Frames \/ e.to = old.to
HasPut(x, y, root, roots, X, v, e) ==
    /\ y \in Comps /\ y.ok = x.ok /\ Consistent(y.ram, roots, X \ {e.to}) /\ Kept(x.ram, y.ram, root)
    /\ OnlyPage(x.ram, y.ram, root, v) /\ EntryOf(y.ram, root, v) = e
LEMMA PageSet ==
    ASSUME NEW roots, NEW X, NEW x \in Comps, Consistent(x.ram, roots, X), NEW root \in roots, NEW v \in Pages,
           NEW e \in Entries, MayPut(e, X, EntryOf(x.ram, root, v)),
           LeafOf(x.ram, root, v) # Nowhere, NEW y, y = SetEntry(x, root, v, e)
    PROVE  HasPut(x, y, root, roots, X, v, e)
<1>0. PICK m, i, k : m = x.ram /\ i = v \div Slots /\ k = v % Slots
  OBVIOUS
<1>1. /\ m \in Rams /\ root \in Frames /\ i \in Users /\ k \in Cells /\ i \in 0 .. UserRoots
      /\ LeafOf(m, root, v) = m.p4[root][i] /\ m.p4[root][i] # Nowhere /\ Consistent(m, roots, X)
      /\ EntryOf(m, root, v) = m.leaf[m.p4[root][i]][k]
  <2>1. m \in Rams /\ root \in Frames
    BY <1>0 DEF Comps, Rams, Consistent, Marked
  <2>2. i \in Users /\ k \in Cells /\ i \in 0 .. UserRoots
    BY <1>0, PagePlace, AsNumbers DEF Users
  <2>3. LeafOf(m, root, v) = m.p4[root][i] /\ m.p4[root][i] # Nowhere
    BY <1>0, <2>1, EntryIs
  <2>4. EntryOf(m, root, v) = m.leaf[m.p4[root][i]][k]
    BY <1>0, <2>1, <2>3, EntryIs
  <2>5. QED BY <1>0, <2>1, <2>2, <2>3, <2>4
<1>2. PICK t : t = m.p4[root][i]
  OBVIOUS
<1>3. IsTable(m, roots, t) /\ IsLeaf(m, roots, t)
  BY <1>1, <1>2 DEF IsTable, IsLeaf
<1>4. t \in Frames \cup {KernelTable} /\ t # KernelTable /\ t # Nowhere
  BY <1>1, <1>2, <1>3, TableIsFrame
<1>5. /\ y \in Comps /\ y.ok = x.ok /\ y.ram.bitmap = m.bitmap /\ y.ram.p4 = m.p4
      /\ y.ram.leaf = [m.leaf EXCEPT ![t] = [m.leaf[t] EXCEPT ![k] = e]]
  <2>1. t = LeafOf(x.ram, root, v) /\ k = v % Slots
    BY <1>0, <1>1, <1>2
  <2>2. /\ y \in Comps /\ y.ok = x.ok /\ y.ram.bitmap = x.ram.bitmap /\ y.ram.p4 = x.ram.p4
        /\ y.ram.leaf = [x.ram.leaf EXCEPT ![t] = [x.ram.leaf[t] EXCEPT ![k] = e]]
    BY <1>1, <1>4, <2>1, SetIs
  <2>3. QED BY <1>0, <2>2
<1>6. PICK n : n = y.ram
  OBVIOUS
<1>7. n \in Rams
  BY <1>5, <1>6 DEF Comps
<1>8. Consistent(n, roots, X \ {e.to})
  <2>1. e.to \in X \/ e.to \notin Frames \/ e.to = m.leaf[t][k].to
    BY <1>0, <1>1, <1>2 DEF MayPut
  <2>2. n.bitmap = m.bitmap /\ n.p4 = m.p4 /\ n.leaf = [m.leaf EXCEPT ![t] = [m.leaf[t] EXCEPT ![k] = e]]
    BY <1>5, <1>6
  <2>3. QED BY <1>1, <1>3, <1>7, <2>1, <2>2, EntrySet
<1>9. /\ \A z \in Frames \cup {KernelTable} : z # t => n.leaf[z] = m.leaf[z]
      /\ n.leaf[t][k] = e /\ \A j \in Cells : j # k => n.leaf[t][j] = m.leaf[t][j]
  <2>1. m.leaf \in [Frames \cup {KernelTable} -> LeafTables] /\ m.leaf[t] \in [Cells -> Entries]
    BY <1>1, <1>4 DEF Rams, LeafTables
  <2>2. PICK row : row = [m.leaf[t] EXCEPT ![k] = e]
    OBVIOUS
  <2>3. row[k] = e /\ \A j \in Cells : j # k => row[j] = m.leaf[t][j]
    BY <1>1, <2>1, <2>2
  <2>4. n.leaf = [m.leaf EXCEPT ![t] = row]
    BY <1>5, <1>6, <2>2
  <2>5. QED BY <1>4, <2>1, <2>3, <2>4
<1>10. Kept(m, n, root)
  BY <1>4, <1>5, <1>6, <1>9 DEF Kept
<1>11. EntryOf(n, root, v) = e
  <2>1. EntryOf(n, root, v) = IF n.p4[root][i] = Nowhere THEN Absent ELSE n.leaf[n.p4[root][i]][k]
    BY <1>0, <1>1, <1>7, EntryIs
  <2>2. n.p4[root][i] = t
    BY <1>2, <1>5, <1>6
  <2>3. QED BY <1>4, <1>9, <2>1, <2>2
<1>12. OnlyPage(m, n, root, v)
  <2>1. SUFFICES ASSUME NEW u \in Pages, u # v PROVE EntryOf(n, root, u) = EntryOf(m, root, u)
    BY DEF OnlyPage
  <2>2. PICK j, l : j = u \div Slots /\ l = u % Slots
    OBVIOUS
  <2>3. j \in Users /\ l \in Cells /\ (j = i => l # k)
    BY <1>0, <2>1, <2>2, PagePlace, PlacesDiffer
  <2>4. EntryOf(n, root, u) = IF m.p4[root][j] = Nowhere THEN Absent ELSE n.leaf[m.p4[root][j]][l]
    <3>1. EntryOf(n, root, u) = IF n.p4[root][j] = Nowhere THEN Absent ELSE n.leaf[n.p4[root][j]][l]
      BY <1>1, <1>7, <2>2, EntryIs
    <3>2. n.p4 = m.p4
      BY <1>5, <1>6
    <3>3. QED BY <3>1, <3>2
  <2>5. EntryOf(m, root, u) = IF m.p4[root][j] = Nowhere THEN Absent ELSE m.leaf[m.p4[root][j]][l]
    BY <1>1, <2>2, EntryIs
  <2>6. ASSUME m.p4[root][j] # Nowhere PROVE n.leaf[m.p4[root][j]][l] = m.leaf[m.p4[root][j]][l]
    <3>1. CASE j = i
      BY <1>2, <1>9, <2>3, <3>1
    <3>2. CASE j # i
      <4>1. m.p4[root][j] # t
        BY <1>1, <1>2, <2>3, <2>6, <3>2 DEF Consistent, TablesApart
      <4>2. m.p4[root][j] \in Frames \cup {KernelTable}
        <5>1. IsLeaf(m, roots, m.p4[root][j])
          BY <2>3, <2>6 DEF IsLeaf, IsTable
        <5>2. QED BY <1>1, <5>1, TableIsFrame
      <4>3. QED BY <1>9, <4>1, <4>2
    <3>3. QED BY <3>1, <3>2
  <2>7. QED BY <2>4, <2>5, <2>6
<1>13. QED BY <1>0, <1>5, <1>6, <1>8, <1>10, <1>11, <1>12 DEF HasPut

LEMMA KeptTrans ==
    ASSUME NEW l, NEW m, NEW n, NEW root \in Frames, Kept(l, m, root), Kept(m, n, root)
    PROVE  Kept(l, n, root)
  BY DEF Kept

HasMapped(x, y, root, roots, X, v, e) ==
    /\ y \in Comps /\ Consistent(y.ram, roots, X \ {e.to}) /\ Kept(x.ram, y.ram, root)
    /\ OnlyPage(x.ram, y.ram, root, v)
    /\ y.ok => x.ok /\ EntryOf(y.ram, root, v) = e
    /\ ~y.ok => EntryOf(y.ram, root, v) = EntryOf(x.ram, root, v)
    /\ x.ok /\ LeafOf(x.ram, root, v) # Nowhere => y.ok
LEMMA MapUserIs ==
    ASSUME NEW roots, NEW X, NEW x \in Comps, Consistent(x.ram, roots, X), NEW root \in roots, NEW v \in Pages,
           NEW e \in Entries, e.to \in X \/ e.to \notin Frames, NEW y, y = map_page_user(x, root, v, e)
    PROVE  HasMapped(x, y, root, roots, X, v, e)
<1> USE DEF HasMapped
<1>0. root \in Frames /\ X \ {e.to} \in SUBSET X /\ roots \in SUBSET roots
  BY DEF Comps, Rams, Consistent, Marked
<1>1. PICK z : z = WithLeaf(x, root, v)
  OBVIOUS
<1>2. /\ z \in Comps /\ Consistent(z.ram, roots, X) /\ Kept(x.ram, z.ram, root)
      /\ \A u \in Pages : EntryOf(z.ram, root, u) = EntryOf(x.ram, root, u)
      /\ z.ok => x.ok /\ LeafOf(z.ram, root, v) # Nowhere
      /\ LeafOf(x.ram, root, v) # Nowhere => z = x
  BY <1>1, WithLeafIs
<1>3. CASE ~x.ok
  <2>1. y = x
    BY <1>3 DEF map_page_user
  <2>2. Consistent(x.ram, roots, X \ {e.to})
    BY <1>0, Fewer
  <2>3. QED BY <1>3, <2>1, <2>2 DEF Kept, OnlyPage
<1>4. CASE x.ok /\ ~z.ok
  <2>1. y = [z EXCEPT !.panic = TRUE]
    BY <1>1, <1>4 DEF map_page_user
  <2>2. y \in Comps /\ y.ram = z.ram /\ y.ok = z.ok
    BY <1>2, <2>1 DEF Comps
  <2>3. Consistent(y.ram, roots, X \ {e.to})
    BY <1>0, <1>2, <2>2, Fewer
  <2>4. QED BY <1>2, <1>4, <2>2, <2>3 DEF OnlyPage
<1>5. CASE x.ok /\ z.ok
  <2>1. y = SetEntry(z, root, v, e)
    BY <1>1, <1>5 DEF map_page_user
  <2>2. LeafOf(z.ram, root, v) # Nowhere /\ MayPut(e, X, EntryOf(z.ram, root, v))
    BY <1>2, <1>5 DEF MayPut
  <2>3. /\ y \in Comps /\ y.ok = z.ok /\ Consistent(y.ram, roots, X \ {e.to}) /\ Kept(z.ram, y.ram, root)
        /\ OnlyPage(z.ram, y.ram, root, v) /\ EntryOf(y.ram, root, v) = e
    <3>1. z \in Comps /\ Consistent(z.ram, roots, X) /\ root \in roots /\ v \in Pages /\ e \in Entries
      BY <1>2
    <3>2. HasPut(z, y, root, roots, X, v, e)
      BY ONLY <2>1, <2>2, <3>1, PageSet
    <3>3. QED BY <3>2 DEF HasPut
  <2>4. Kept(x.ram, y.ram, root)
    BY <1>0, <1>2, <2>3, KeptTrans
  <2>5. OnlyPage(x.ram, y.ram, root, v)
    BY <1>2, <2>3 DEF OnlyPage
  <2>6. QED BY <1>5, <2>3, <2>4, <2>5
<1>6. QED BY <1>3, <1>4, <1>5

Modes == BOOLEAN
HasLoaded(x, y, root, roots, X, v) ==
    /\ y \in Comps /\ Consistent(y.ram, roots, X) /\ Kept(x.ram, y.ram, root)
    /\ OnlyPage(x.ram, y.ram, root, v)
    /\ y.ok => x.ok /\ EntryOf(y.ram, root, v).to # Nowhere
    /\ ~y.ok => EntryOf(y.ram, root, v) = EntryOf(x.ram, root, v)
LEMMA LoadIs ==
    ASSUME NEW roots, NEW X, NEW x \in Comps, Consistent(x.ram, roots, X), NEW root \in roots, NEW v \in Pages,
           NEW w \in Modes, NEW y, y = LoadPage(x, root, v, w)
    PROVE  HasLoaded(x, y, root, roots, X, v)
<1> USE DEF HasLoaded
<1>0. root \in Frames /\ x.ram \in Rams /\ X \subseteq x.ram.bitmap
  BY DEF Comps, Rams, Consistent, Marked
<1>1. PICK a : a = alloc_frame(x)
  OBVIOUS
<1>2. /\ a \in Comps
      /\ a.ok => /\ x.ok /\ a.got \in Frames /\ a.got \notin x.ram.bitmap
                 /\ a.ram.bitmap = x.ram.bitmap \cup {a.got} /\ a.ram.p4 = x.ram.p4 /\ a.ram.leaf = x.ram.leaf
      /\ ~a.ok => a.ram = x.ram
  BY <1>1, AllocIs
<1>3. CASE ~a.ok
  <2>1. y = a
    BY <1>1, <1>3 DEF LoadPage
  <2>2. QED BY <1>2, <1>3, <2>1 DEF Kept, OnlyPage
<1>4. CASE a.ok
  <2>1. PICK g, Y, e : g = a.got /\ Y = X \cup {g} /\ e = [to |-> g, write |-> w]
    OBVIOUS
  <2>2. y = map_page_user(a, root, v, e)
    BY <1>1, <1>4, <2>1 DEF LoadPage
  <2>3. e \in Entries /\ e.to = g /\ g # Nowhere
    <3>1. g \in 0 .. NumFrames + 2 /\ g # Nowhere
      BY <1>2, <1>4, <2>1, AsNumbers DEF Frames, Nowhere
    <3>2. QED BY <2>1, <3>1 DEF Entries, Modes
  <2>4. Consistent(a.ram, roots, Y)
    <3>1. a.ram \in Rams /\ Y \subseteq a.ram.bitmap /\ a.ram.bitmap \ x.ram.bitmap = {g} /\ x.ram.bitmap \ a.ram.bitmap = {}
      BY <1>0, <1>2, <1>4, <2>1 DEF Comps
    <3>2. QED BY <1>0, <1>2, <1>4, <2>1, <3>1, Remarked
  <2>5. e.to \in Y
    BY <2>1, <2>3
  <2>6. /\ y \in Comps /\ Consistent(y.ram, roots, Y \ {e.to}) /\ Kept(a.ram, y.ram, root)
        /\ OnlyPage(a.ram, y.ram, root, v)
        /\ y.ok => a.ok /\ EntryOf(y.ram, root, v) = e
        /\ ~y.ok => EntryOf(y.ram, root, v) = EntryOf(a.ram, root, v)
    <3>1. HasMapped(a, y, root, roots, Y, v, e)
      BY <1>2, <2>2, <2>3, <2>4, <2>5, MapUserIs
    <3>2. QED BY <3>1 DEF HasMapped
  <2>7. \A u \in Pages : EntryOf(a.ram, root, u) = EntryOf(x.ram, root, u)
    BY <1>2, <1>4 DEF EntryOf, LeafOf
  <2>8. Kept(x.ram, y.ram, root)
    BY <1>2, <1>4, <2>6 DEF Kept
  <2>9. OnlyPage(x.ram, y.ram, root, v)
    BY <2>6, <2>7 DEF OnlyPage
  <2>10. Y \ {e.to} = X
    BY <1>0, <1>2, <1>4, <2>1, <2>3
  <2>11. QED BY <1>2, <1>4, <2>3, <2>6, <2>7, <2>8, <2>9, <2>10
<1>5. QED BY <1>3, <1>4

-----------------------------------------------------------------------------
(* The loops over a task's pages. *)
UserCalls == {"map", "unmap", "device", "protect", "clear"}
Became(do, a, b) ==
    /\ do \in {"map", "device"} => b.to # Nowhere
    /\ do \in {"unmap", "clear"} => b = Absent
    /\ do = "protect" => b.to = a.to
PageTurn(do, x, y, root, roots, X, v) ==
    /\ y \in Comps /\ Consistent(y.ram, roots, X) /\ Kept(x.ram, y.ram, root) /\ OnlyPage(x.ram, y.ram, root, v)
    /\ y.ok => x.ok /\ Became(do, EntryOf(x.ram, root, v), EntryOf(y.ram, root, v))
    /\ EntryOf(y.ram, root, v) = EntryOf(x.ram, root, v) \/ Became(do, EntryOf(x.ram, root, v), EntryOf(y.ram, root, v))
    /\ x.ok /\ do # "map" /\ LeafOf(x.ram, root, v) # Nowhere => y.ok

DeviceEntry == [to |-> Device, write |-> TRUE]
LEMMA TurnOf ==
    ASSUME NEW root, NEW w, NEW x, NEW v
    PROVE  /\ Turn("map", root, w, x, v) = LoadPage(x, root, v, w)
           /\ Turn("unmap", root, w, x, v) = map_page_user(x, root, v, Absent)
           /\ Turn("device", root, w, x, v) = map_page_user(x, root, v, DeviceEntry)
           /\ Turn("protect", root, w, x, v) = protect_page_user(x, root, v, w)
           /\ Turn("clear", root, w, x, v) = ClearPage(x, root, v)
           /\ Turn("grow", root, w, x, v) = GrowPage(x, root, v)
           /\ Turn("take", root, w, x, v) = alloc_frame(x)
           /\ Turn("free", root, w, x, v) = free_frame(x, v)
  BY DEF Turn, DeviceEntry

LEMMA PageTurnIs ==
    ASSUME NEW do \in UserCalls, NEW w \in Modes, NEW roots, NEW X, NEW x \in Comps, Consistent(x.ram, roots, X),
           NEW root \in roots, NEW v \in Pages, NEW y, y = Turn(do, root, w, x, v)
    PROVE  PageTurn(do, x, y, root, roots, X, v)
<1>1. /\ x.ram \in Rams /\ X \subseteq Frames /\ root \in Frames /\ X \ {Nowhere} = X /\ X \ {Device} = X
      /\ Absent \in Entries /\ Absent.to = Nowhere
  <2>1. x.ram \in Rams /\ X \subseteq Frames /\ root \in Frames
    BY DEF Comps, Rams, Consistent, Marked
  <2>2. Absent \in Entries /\ Absent.to = Nowhere
    BY AsNumbers DEF Absent, Entries, Nowhere
  <2>3. QED BY <2>1, <2>2, AsNumbers
<1>2. CASE do = "map"
  <2>1. y = LoadPage(x, root, v, w)
    BY <1>2, TurnOf
  <2>2. /\ y \in Comps /\ Consistent(y.ram, roots, X) /\ Kept(x.ram, y.ram, root)
        /\ OnlyPage(x.ram, y.ram, root, v)
        /\ y.ok => x.ok /\ EntryOf(y.ram, root, v).to # Nowhere
        /\ ~y.ok => EntryOf(y.ram, root, v) = EntryOf(x.ram, root, v)
    <3>1. HasLoaded(x, y, root, roots, X, v)
      BY <2>1, LoadIs
    <3>2. QED BY <3>1 DEF HasLoaded
  <2>3. EntryOf(y.ram, root, v).to # Nowhere => Became(do, EntryOf(x.ram, root, v), EntryOf(y.ram, root, v))
    BY <1>2 DEF Became
  <2>4. QED BY <1>2, <2>2, <2>3 DEF PageTurn
<1>3. CASE do = "unmap" \/ do = "device"
  <2>1. PICK e \in Entries : e.to \notin Frames /\ X \ {e.to} = X /\ y = map_page_user(x, root, v, e)
                             /\ (do = "unmap" => e = Absent) /\ (do = "device" => e.to # Nowhere)
    <3>1. CASE do = "unmap"
      BY <1>1, <3>1, TurnOf, AsNumbers
    <3>2. CASE do = "device"
      <4>1. PICK e : e = DeviceEntry
        OBVIOUS
      <4>2. e \in Entries /\ e.to = Device
        BY <4>1, AsNumbers DEF Entries, Device, DeviceEntry
      <4>3. y = map_page_user(x, root, v, e)
        BY <3>2, <4>1, TurnOf
      <4>4. QED BY <1>1, <3>2, <4>2, <4>3, AsNumbers
    <3>3. QED BY <1>3, <3>1, <3>2
  <2>2. e.to \in X \/ e.to \notin Frames
    BY <2>1
  <2>3. /\ y \in Comps /\ Consistent(y.ram, roots, X \ {e.to}) /\ Kept(x.ram, y.ram, root)
        /\ OnlyPage(x.ram, y.ram, root, v)
        /\ y.ok => x.ok /\ EntryOf(y.ram, root, v) = e
        /\ ~y.ok => EntryOf(y.ram, root, v) = EntryOf(x.ram, root, v)
        /\ x.ok /\ LeafOf(x.ram, root, v) # Nowhere => y.ok
    <3>1. HasMapped(x, y, root, roots, X, v, e)
      BY <2>1, <2>2, MapUserIs
    <3>2. QED BY <3>1 DEF HasMapped
  <2>4. Became(do, EntryOf(x.ram, root, v), e)
    BY <1>3, <2>1 DEF Became
  <2>5. QED BY <2>1, <2>3, <2>4 DEF PageTurn
<1>4. CASE do = "protect"
  <2>1. y = protect_page_user(x, root, v, w)
    BY <1>4, TurnOf
  <2>2. CASE ~translate(x.ram, root, v)
    <3>1. y = x
      BY <2>1, <2>2 DEF protect_page_user
    <3>2. QED BY <1>4, <3>1 DEF PageTurn, Became, Kept, OnlyPage
  <2>3. CASE translate(x.ram, root, v)
    <3>1. PICK e, old : e = [old EXCEPT !.write = w] /\ old = EntryOf(x.ram, root, v)
      OBVIOUS
    <3>2. y = SetEntry(x, root, v, e)
      BY <2>1, <2>3, <3>1 DEF protect_page_user
    <3>3. e \in Entries /\ e.to = old.to
      <4>1. old \in Entries
        BY <1>1, <3>1, EntryIs
      <4>2. QED BY <3>1, <4>1 DEF Entries, Modes
    <3>4. LeafOf(x.ram, root, v) # Nowhere
      BY <1>1, <2>3 DEF translate, EntryOf
    <3>5. MayPut(e, X, EntryOf(x.ram, root, v))
      BY <3>1, <3>3 DEF MayPut
    <3>6. /\ y \in Comps /\ y.ok = x.ok /\ Consistent(y.ram, roots, X \ {e.to}) /\ Kept(x.ram, y.ram, root)
          /\ OnlyPage(x.ram, y.ram, root, v) /\ EntryOf(y.ram, root, v) = e
      <4>1. HasPut(x, y, root, roots, X, v, e)
        BY <3>2, <3>3, <3>4, <3>5, PageSet
      <4>2. QED BY <4>1 DEF HasPut
    <3>7. X \ {e.to} = X
      <4>1. e.to \notin X
        <5>1. PICK i, k : i = v \div Slots /\ k = v % Slots
          OBVIOUS
        <5>2. i \in Users /\ k \in Cells
          BY <5>1, PagePlace
        <5>3. x.ram.p4[root][i] # Nowhere /\ old = x.ram.leaf[x.ram.p4[root][i]][k]
          BY <1>1, <3>1, <3>4, <5>1, EntryIs
        <5>4. IsLeaf(x.ram, roots, x.ram.p4[root][i])
          BY <5>2, <5>3 DEF IsLeaf, IsTable
        <5>5. QED BY <1>1, <3>3, <5>2, <5>3, <5>4 DEF Consistent, PagesApart
      <4>2. QED BY <4>1
    <3>8. Became(do, EntryOf(x.ram, root, v), e)
      BY <1>4, <3>1, <3>3 DEF Became
    <3>9. QED BY <3>6, <3>7, <3>8 DEF PageTurn
  <2>4. QED BY <2>2, <2>3
<1>5. CASE do = "clear"
  <2>1. y = ClearPage(x, root, v)
    BY <1>5, TurnOf
  <2>2. CASE LeafOf(x.ram, root, v) = Nowhere
    <3>1. y = x /\ EntryOf(x.ram, root, v) = Absent
      BY <2>1, <2>2 DEF ClearPage, EntryOf
    <3>2. QED BY <1>5, <3>1 DEF PageTurn, Became, Kept, OnlyPage
  <2>3. CASE LeafOf(x.ram, root, v) # Nowhere
    <3>1. y = SetEntry(x, root, v, Absent)
      BY <2>1, <2>3 DEF ClearPage
    <3>2. MayPut(Absent, X, EntryOf(x.ram, root, v))
      BY <1>1, AsNumbers DEF MayPut
    <3>3. PICK e \in Entries : e = Absent
      BY <1>1
    <3>4. y = SetEntry(x, root, v, e) /\ MayPut(e, X, EntryOf(x.ram, root, v)) /\ X \ {e.to} = X
      BY <1>1, <3>1, <3>2, <3>3
    <3>5. /\ y \in Comps /\ y.ok = x.ok /\ Consistent(y.ram, roots, X \ {e.to}) /\ Kept(x.ram, y.ram, root)
          /\ OnlyPage(x.ram, y.ram, root, v) /\ EntryOf(y.ram, root, v) = e
      <4>1. HasPut(x, y, root, roots, X, v, e)
        BY <2>3, <3>4, PageSet
      <4>2. QED BY <4>1 DEF HasPut
    <3>6. Became(do, EntryOf(x.ram, root, v), e)
      BY <1>5, <3>3 DEF Became
    <3>7. QED BY <3>4, <3>5, <3>6 DEF PageTurn
  <2>4. QED BY <2>2, <2>3
<1>6. QED BY <1>2, <1>3, <1>4, <1>5 DEF UserCalls

PageTurned(do, m, n, root, u) == Became(do, EntryOf(m, root, u), EntryOf(n, root, u))
SameEntry(m, n, root, u) == EntryOf(n, root, u) = EntryOf(m, root, u)
(* What holds of a computation that has turned the pages of P below j. *)
PassedTo(do, root, roots, X, m, P, j) ==
    {x \in Comps :
        /\ Consistent(x.ram, roots, X) /\ Kept(m, x.ram, root)
        /\ \A u \in Pages : SameEntry(m, x.ram, root, u) \/ (u \in P /\ u < j /\ PageTurned(do, m, x.ram, root, u))
        /\ x.ok => \A u \in Pages : u \in P /\ u < j => PageTurned(do, m, x.ram, root, u)
        /\ do # "map" /\ (\A u \in Pages : u \in P => LeafOf(m, root, u) # Nowhere) => x.ok}

LEMMA PassesOne ==
    ASSUME NEW do \in UserCalls, NEW w \in Modes, NEW roots, NEW X, NEW root \in roots, root \in Frames, NEW m \in Rams, NEW P,
           NEW j \in Pages, j \in P, NEW x \in PassedTo(do, root, roots, X, m, P, j), NEW y, y = Turn(do, root, w, x, j)
    PROVE  y \in PassedTo(do, root, roots, X, m, P, j + 1)
<1>1. /\ x \in Comps /\ Consistent(x.ram, roots, X) /\ Kept(m, x.ram, root)
      /\ \A u \in Pages : SameEntry(m, x.ram, root, u) \/ (u \in P /\ u < j /\ PageTurned(do, m, x.ram, root, u))
      /\ x.ok => \A u \in Pages : u \in P /\ u < j => PageTurned(do, m, x.ram, root, u)
      /\ do # "map" /\ (\A u \in Pages : u \in P => LeafOf(m, root, u) # Nowhere) => x.ok
  BY DEF PassedTo
<1>2. PageTurn(do, x, y, root, roots, X, j)
  BY <1>1, PageTurnIs
<1>3. y \in Comps /\ Consistent(y.ram, roots, X) /\ Kept(x.ram, y.ram, root) /\ OnlyPage(x.ram, y.ram, root, j)
  BY <1>2 DEF PageTurn
<1>4. Kept(m, y.ram, root)
  BY <1>1, <1>3, KeptTrans
<1>5. \A u \in Pages : u \in Nat
  BY PagePlace
<1>6. SameEntry(m, x.ram, root, j)
  BY <1>1, <1>5
<1>7. \A u \in Pages : u # j => SameEntry(x.ram, y.ram, root, u)
  BY <1>3 DEF OnlyPage, SameEntry
<1>8. \A u \in Pages : u # j => (SameEntry(m, y.ram, root, u) <=> SameEntry(m, x.ram, root, u))
                                /\ (PageTurned(do, m, y.ram, root, u) <=> PageTurned(do, m, x.ram, root, u))
  BY <1>7 DEF SameEntry, PageTurned
<1>9. SameEntry(m, y.ram, root, j) \/ PageTurned(do, m, y.ram, root, j)
  BY <1>2, <1>6 DEF PageTurn, SameEntry, PageTurned
<1>10. y.ok => x.ok /\ PageTurned(do, m, y.ram, root, j)
  BY <1>2, <1>6 DEF PageTurn, SameEntry, PageTurned
<1>11. ASSUME NEW u \in Pages PROVE SameEntry(m, y.ram, root, u) \/ (u \in P /\ u < j + 1 /\ PageTurned(do, m, y.ram, root, u))
  <2>1. CASE u = j
    BY <1>5, <1>9, <2>1
  <2>2. CASE u # j
    BY <1>1, <1>5, <1>8, <2>2
  <2>3. QED BY <2>1, <2>2
<1>12. ASSUME y.ok, NEW u \in Pages, u \in P, u < j + 1 PROVE PageTurned(do, m, y.ram, root, u)
  <2>1. CASE u = j
    BY <1>10, <1>12, <2>1
  <2>2. CASE u # j
    BY <1>1, <1>5, <1>8, <1>10, <1>12, <2>2
  <2>3. QED BY <2>1, <2>2
<1>13. ASSUME do # "map", \A u \in Pages : u \in P => LeafOf(m, root, u) # Nowhere PROVE y.ok
  <2>1. LeafOf(x.ram, root, j) # Nowhere
    <3>1. x.ram \in Rams /\ j \div Slots \in Users
      BY <1>1, PagePlace DEF Comps
    <3>2. LeafOf(m, root, j) = m.p4[root][j \div Slots] /\ LeafOf(x.ram, root, j) = x.ram.p4[root][j \div Slots]
      BY <3>1, EntryIs
    <3>3. QED BY <1>1, <1>13, <3>1, <3>2 DEF Kept
  <2>2. QED BY <1>1, <1>2, <1>13, <2>1 DEF PageTurn
<1>14. QED BY <1>3, <1>4, <1>11, <1>12, <1>13 DEF PassedTo

LEMMA PassesOver ==
    ASSUME NEW do, NEW roots, NEW X, NEW root, NEW m, NEW P, NEW j \in Nat, j \notin P, P \subseteq Pages,
           NEW x \in PassedTo(do, root, roots, X, m, P, j)
    PROVE  x \in PassedTo(do, root, roots, X, m, P, j + 1)
<1>1. \A u \in Pages : u \in P => (u < j + 1 <=> u < j)
  BY PagePlace
<1>2. QED BY <1>1 DEF PassedTo

(* What holds after the loop. *)
Passed(do, root, roots, X, m, P, x) ==
    /\ x \in Comps /\ Consistent(x.ram, roots, X) /\ Kept(m, x.ram, root)
    /\ \A u \in Pages : SameEntry(m, x.ram, root, u) \/ (u \in P /\ PageTurned(do, m, x.ram, root, u))
    /\ x.ok => \A u \in P : PageTurned(do, m, x.ram, root, u)
    /\ do # "map" /\ (\A u \in P : LeafOf(m, root, u) # Nowhere) => x.ok

LEMMA PassesAll ==
    ASSUME NEW do \in UserCalls, NEW w \in Modes, NEW roots, NEW X, NEW root \in roots, NEW c \in Comps, c.ok,
           Consistent(c.ram, roots, X), NEW from \in Nat, NEW n \in Nat, NEW P \in SUBSET Pages,
           P \subseteq from .. from + n - 1
    PROVE  Passed(do, root, roots, X, c.ram, P, Turns(do, root, w, P, c, from, n)[n])
<1>0. c.ram \in Rams /\ root \in Frames /\ \A u \in Pages : u \in Nat
  BY PagePlace DEF Comps, Rams, Consistent, Marked
<1>1. PICK m : m = c.ram
  OBVIOUS
<1> DEFINE good == [k \in 0 .. n |-> PassedTo(do, root, roots, X, m, P, from + k)]
<1>2. c \in good[0]
  <2>1. \A u \in P : ~(u < from)
    BY <1>0
  <2>2. c \in PassedTo(do, root, roots, X, m, P, from)
    BY <1>1, <2>1 DEF PassedTo, Kept, SameEntry
  <2>3. 0 \in 0 .. n /\ from + 0 = from
    OBVIOUS
  <2>4. QED BY <2>2, <2>3
<1>3. Leads(do, root, w, P, from, n, good)
  <2>1. SUFFICES ASSUME NEW k \in 1 .. n, NEW x \in good[k - 1] PROVE OneTurn(do, root, w, P, from, x, k) \in good[k]
    BY DEF Leads
  <2>2. PICK j \in Nat : j = from + k - 1
    OBVIOUS
  <2>3. k - 1 \in 0 .. n /\ k \in 0 .. n /\ from + (k - 1) = j /\ from + k = j + 1
    BY <2>2
  <2>4. good[k - 1] = PassedTo(do, root, roots, X, m, P, j) /\ good[k] = PassedTo(do, root, roots, X, m, P, j + 1)
    BY <2>3
  <2> HIDE DEF good
  <2>5. CASE j \in P
    <3>1. OneTurn(do, root, w, P, from, x, k) = Turn(do, root, w, x, j)
      BY <2>2, <2>5 DEF OneTurn
    <3>2. QED BY <1>0, <1>1, <2>1, <2>4, <2>5, <3>1, PassesOne
  <2>6. CASE j \notin P
    <3>1. OneTurn(do, root, w, P, from, x, k) = x
      BY <2>2, <2>6 DEF OneTurn
    <3>2. x \in PassedTo(do, root, roots, X, m, P, j) /\ P \subseteq Pages
      BY <2>1, <2>4
    <3>3. x \in PassedTo(do, root, roots, X, m, P, j + 1)
      BY ONLY <2>2, <2>6, <3>2, PassesOver
    <3>4. QED BY <2>4, <3>1, <3>3
  <2>7. QED BY <2>5, <2>6
<1>4. PICK x : x = Turns(do, root, w, P, c, from, n)[n]
  OBVIOUS
<1>5. x \in PassedTo(do, root, roots, X, m, P, from + n)
  <2>1. good[n] = PassedTo(do, root, roots, X, m, P, from + n)
    OBVIOUS
  <2> HIDE DEF good
  <2>2. QED BY <1>2, <1>3, <1>4, <2>1, TurnsIs
<1>6. \A u \in P : u < from + n /\ u \in Pages
  BY <1>0
<1>7. Passed(do, root, roots, X, m, P, x)
  BY <1>5, <1>6 DEF Passed, PassedTo
<1>8. QED BY <1>1, <1>4, <1>7

-----------------------------------------------------------------------------
(* The kernel's heap. *)
HasGrown(x, y, roots, X, k) ==
    /\ y \in Comps /\ Consistent(y.ram, roots, X) /\ y.ram.p4 = x.ram.p4
    /\ \A t \in Frames : y.ram.leaf[t] = x.ram.leaf[t]
    /\ \A j \in Cells : j # k => y.ram.leaf[KernelTable][j] = x.ram.leaf[KernelTable][j]
    /\ y.ok => x.ok /\ y.ram.leaf[KernelTable][k].to \in Frames
    /\ ~y.ok => y.ram = x.ram

LEMMA GrowIs ==
    ASSUME NEW roots, NEW X, NEW x \in Comps, Consistent(x.ram, roots, X), NEW root \in roots, NEW k \in Cells,
           x.ok => x.ram.leaf[KernelTable][k].to = Nowhere, NEW v, v = KernelRoot * Slots + k,
           NEW y, y = GrowPage(x, root, v)
    PROVE  HasGrown(x, y, roots, X, k)
<1>0. root \in Frames /\ x.ram \in Rams /\ X \subseteq x.ram.bitmap /\ x.ram.p4[root][KernelRoot] = KernelTable
  BY DEF Comps, Rams, Consistent, Marked
<1>1. v \div Slots = KernelRoot /\ v % Slots = k
  BY KernelPlace
<1>2. PICK a : a = alloc_frame(x)
  OBVIOUS
<1>3. /\ a \in Comps
      /\ a.ok => /\ x.ok /\ a.got \in Frames /\ a.got \notin x.ram.bitmap
                 /\ a.ram.bitmap = x.ram.bitmap \cup {a.got} /\ a.ram.p4 = x.ram.p4 /\ a.ram.leaf = x.ram.leaf
      /\ ~a.ok => a.ram = x.ram
  BY <1>2, AllocIs
<1>4. CASE ~a.ok
  <2>1. y = a
    BY <1>2, <1>4 DEF GrowPage
  <2>2. QED BY <1>3, <1>4, <2>1 DEF HasGrown
<1>5. CASE a.ok
  <2>1. PICK g, Y, e, b : g = a.got /\ Y = X \cup {g} /\ e = [to |-> g, write |-> TRUE] /\ b = a.ram
    OBVIOUS
  <2>2. /\ b \in Rams /\ b.p4 = x.ram.p4 /\ b.leaf = x.ram.leaf /\ b.p4[root][KernelRoot] = KernelTable
        /\ b.leaf[KernelTable][k].to = Nowhere /\ g \in Frames
    BY <1>0, <1>3, <1>5, <2>1 DEF Comps
  <2>3. LeafOf(b, root, v) = KernelTable /\ EntryOf(b, root, v) = b.leaf[KernelTable][k]
    BY <1>0, <1>1, <2>2, AsNumbers DEF LeafOf, EntryOf
  <2>4. ~translate(b, root, v) /\ LeafOf(a.ram, root, v) # Nowhere /\ ~translate(a.ram, root, v)
    BY <2>1, <2>2, <2>3, AsNumbers DEF translate
  <2>5. WithLeaf(a, root, v) = a
    BY <2>4 DEF WithLeaf
  <2>6. map_page(a, root, v, e) = SetEntry(a, root, v, e)
    BY <1>5, <2>4, <2>5 DEF map_page
  <2>7. PICK z : z = SetEntry(a, root, v, e)
    OBVIOUS
  <2>8. e \in Entries /\ e.to = g
    BY <2>1, <2>2, AsNumbers DEF Entries, Frames
  <2>9. KernelTable \in Frames \cup {KernelTable} /\ KernelTable = LeafOf(a.ram, root, v) /\ k = v % Slots
    BY <1>1, <2>1, <2>3
  <2>10. /\ z \in Comps /\ z.ok = a.ok /\ z.ram.bitmap = b.bitmap /\ z.ram.p4 = b.p4
         /\ z.ram.leaf = [b.leaf EXCEPT ![KernelTable] = [b.leaf[KernelTable] EXCEPT ![k] = e]]
    <3>1. PICK t \in Frames \cup {KernelTable} : t = KernelTable
      OBVIOUS
    <3>2. t = LeafOf(a.ram, root, v)
      BY <2>9, <3>1
    <3>3. /\ z \in Comps /\ z.ok = a.ok /\ z.ram.bitmap = a.ram.bitmap /\ z.ram.p4 = a.ram.p4
          /\ z.ram.leaf = [a.ram.leaf EXCEPT ![t] = [a.ram.leaf[t] EXCEPT ![k] = e]]
      BY <1>1, <1>3, <2>7, <2>8, <3>2, SetIs
    <3>4. QED BY <2>1, <3>1, <3>3
  <2>11. y = z
    <3>1. z.ok
      BY <1>5, <2>10
    <3>2. map_page(a, root, v, [to |-> a.got, write |-> TRUE]) = z
      BY <2>1, <2>6, <2>7
    <3>3. QED BY <1>2, <1>5, <3>1, <3>2 DEF GrowPage
  <2>12. Consistent(b, roots, Y)
    <3>1. Y \subseteq b.bitmap /\ b.bitmap \ x.ram.bitmap = {g} /\ x.ram.bitmap \ b.bitmap = {}
      BY <1>0, <1>3, <1>5, <2>1
    <3>2. QED BY <1>0, <2>1, <2>2, <3>1, Remarked
  <2>13. PICK n : n = z.ram
    OBVIOUS
  <2>14. Consistent(n, roots, Y \ {e.to})
    <3>1. PICK t : t = KernelTable
      OBVIOUS
    <3>2. IsLeaf(b, roots, t) /\ n \in Rams /\ (e.to \in Y \/ e.to \notin Frames \/ e.to = b.leaf[t][k].to)
      BY <2>1, <2>8, <2>10, <2>13, <3>1 DEF IsLeaf, Comps
    <3>3. n.bitmap = b.bitmap /\ n.p4 = b.p4 /\ n.leaf = [b.leaf EXCEPT ![t] = [b.leaf[t] EXCEPT ![k] = e]]
      BY <2>10, <2>13, <3>1
    <3>4. QED BY <2>2, <2>8, <2>12, <3>2, <3>3, EntrySet
  <2>15. Y \ {e.to} = X
    BY <1>0, <1>3, <1>5, <2>1, <2>8
  <2>16. /\ \A t \in Frames : n.leaf[t] = b.leaf[t]
         /\ n.leaf[KernelTable][k] = e /\ \A j \in Cells : j # k => n.leaf[KernelTable][j] = b.leaf[KernelTable][j]
    <3>1. b.leaf \in [Frames \cup {KernelTable} -> LeafTables] /\ b.leaf[KernelTable] \in [Cells -> Entries]
      BY <2>2 DEF Rams, LeafTables
    <3>2. PICK row : row = [b.leaf[KernelTable] EXCEPT ![k] = e]
      OBVIOUS
    <3>3. row[k] = e /\ \A j \in Cells : j # k => row[j] = b.leaf[KernelTable][j]
      BY <3>1, <3>2
    <3>4. n.leaf = [b.leaf EXCEPT ![KernelTable] = row]
      BY <2>10, <2>13, <3>2
    <3>5. QED BY <3>1, <3>3, <3>4, AsNumbers
  <2>17. /\ z \in Comps /\ Consistent(z.ram, roots, X) /\ z.ram.p4 = x.ram.p4 /\ z.ok /\ x.ok
         /\ \A t \in Frames : z.ram.leaf[t] = x.ram.leaf[t]
    <3>1. z \in Comps /\ z.ram.p4 = x.ram.p4
      BY <2>2, <2>10
    <3>2. z.ok /\ x.ok
      BY <1>3, <1>5, <2>10
    <3>3. Consistent(z.ram, roots, X)
      BY <2>13, <2>14, <2>15
    <3>4. \A t \in Frames : z.ram.leaf[t] = x.ram.leaf[t]
      BY <2>2, <2>13, <2>16
    <3>5. QED BY <3>1, <3>2, <3>3, <3>4
  <2>18. z.ram.leaf[KernelTable][k].to \in Frames
    BY <2>2, <2>8, <2>13, <2>16
  <2>19. \A j \in Cells : j # k => z.ram.leaf[KernelTable][j] = x.ram.leaf[KernelTable][j]
    BY <2>2, <2>13, <2>16
  <2>20. QED BY <2>11, <2>17, <2>18, <2>19 DEF HasGrown
<1>6. QED BY <1>4, <1>5

(* The heap after k turns: as long as it got, and no other table is changed. *)
GrownTo(roots, X, m, h, k) ==
    {x \in Comps :
        /\ Consistent(x.ram, roots, X) /\ x.ram.p4 = m.p4 /\ \A t \in Frames : x.ram.leaf[t] = m.leaf[t]
        /\ \E l \in h .. h + k : HeapIs(x.ram, l) /\ (x.ok => l = h + k)}

LEMMA GrowsOne ==
    ASSUME NEW roots, NEW X, NEW root \in roots, NEW m \in Rams, NEW h \in Nat, NEW i \in Nat, h + i \in Cells,
           NEW x \in GrownTo(roots, X, m, h, i), NEW v, v = KernelRoot * Slots + (h + i), NEW y, y = GrowPage(x, root, v)
    PROVE  y \in GrownTo(roots, X, m, h, i + 1)
<1>1. PICK k \in Cells : k = h + i
  OBVIOUS
<1>2. /\ x \in Comps /\ Consistent(x.ram, roots, X) /\ x.ram.p4 = m.p4 /\ \A t \in Frames : x.ram.leaf[t] = m.leaf[t]
  BY DEF GrownTo
<1>3. PICK l \in h .. h + i : HeapIs(x.ram, l) /\ (x.ok => l = h + i)
  BY DEF GrownTo
<1>4. x.ok => x.ram.leaf[KernelTable][k].to = Nowhere
  BY <1>1, <1>3 DEF HeapIs
<1>5. HasGrown(x, y, roots, X, k)
  BY <1>1, <1>2, <1>4, GrowIs
<1>6. CASE ~y.ok
  <2>1. y.ram = x.ram /\ y \in Comps /\ l \in h .. h + (i + 1)
    BY <1>5, <1>6 DEF HasGrown
  <2>2. QED BY <1>2, <1>3, <1>6, <2>1 DEF GrownTo
<1>7. CASE y.ok
  <2>1. /\ y \in Comps /\ Consistent(y.ram, roots, X) /\ y.ram.p4 = m.p4 /\ \A t \in Frames : y.ram.leaf[t] = m.leaf[t]
        /\ x.ok /\ y.ram.leaf[KernelTable][k].to \in Frames
        /\ \A j \in Cells : j # k => y.ram.leaf[KernelTable][j] = x.ram.leaf[KernelTable][j]
    BY <1>2, <1>5, <1>7 DEF HasGrown
  <2>2. l = k
    BY <1>1, <1>3, <2>1
  <2>3. PICK p \in h .. h + (i + 1) : p = k + 1 /\ p = h + (i + 1)
    <3>1. h + (i + 1) \in h .. h + (i + 1) /\ h + (i + 1) = k + 1
      BY <1>1
    <3>2. QED BY <3>1
  <2>4. HeapIs(y.ram, p)
    <3>1. SUFFICES ASSUME NEW j \in Cells
                   PROVE  IF j < p THEN y.ram.leaf[KernelTable][j].to \in Frames ELSE y.ram.leaf[KernelTable][j].to = Nowhere
      BY DEF HeapIs
    <3>2. j \in Int /\ k \in Int /\ (j < p <=> j < k \/ j = k)
      BY <2>3, AsNumbers DEF Cells
    <3>3. CASE j = k
      BY <2>1, <3>2, <3>3
    <3>4. CASE j # k
      <4>1. y.ram.leaf[KernelTable][j] = x.ram.leaf[KernelTable][j]
        BY <2>1, <3>4
      <4>2. IF j < k THEN x.ram.leaf[KernelTable][j].to \in Frames ELSE x.ram.leaf[KernelTable][j].to = Nowhere
        BY <1>3, <2>2 DEF HeapIs
      <4>3. QED BY <3>2, <3>4, <4>1, <4>2
    <3>5. QED BY <3>3, <3>4
  <2>5. QED BY <2>1, <2>3, <2>4 DEF GrownTo
<1>8. QED BY <1>6, <1>7

LEMMA GrowsAll ==
    ASSUME NEW roots, NEW X, NEW root \in roots, NEW c \in Comps, c.ok, Consistent(c.ram, roots, X),
           NEW w, NEW h \in Nat, NEW n \in Nat, h + n <= Slots, HeapIs(c.ram, h), NEW from, from = KernelRoot * Slots + h,
           NEW only, only = from .. from + n - 1
    PROVE  Turns("grow", root, w, only, c, from, n)[n] \in GrownTo(roots, X, c.ram, h, n)
<1>0. c.ram \in Rams /\ from \in Nat /\ KernelRoot * Slots \in Nat
  BY AsNumbers DEF Comps, KernelRoot
<1>1. PICK m : m = c.ram
  OBVIOUS
<1> DEFINE good == [k \in 0 .. n |-> GrownTo(roots, X, m, h, k)]
<1>2. c \in good[0]
  <2>1. 0 \in 0 .. n /\ h \in h .. h + 0 /\ h = h + 0
    OBVIOUS
  <2>2. c \in GrownTo(roots, X, m, h, 0)
    BY <1>1, <2>1 DEF GrownTo
  <2>3. QED BY <2>1, <2>2
<1>3. PICK do : do = "grow"
  OBVIOUS
<1>4. Leads(do, root, w, only, from, n, good)
  <2>1. SUFFICES ASSUME NEW k \in 1 .. n, NEW x \in good[k - 1] PROVE OneTurn(do, root, w, only, from, x, k) \in good[k]
    BY DEF Leads
  <2>2. PICK i \in Nat : i = k - 1
    OBVIOUS
  <2>3. k - 1 \in 0 .. n /\ k \in 0 .. n /\ i \in 0 .. n - 1 /\ k = i + 1
    BY <2>2
  <2>4. good[k - 1] = GrownTo(roots, X, m, h, i) /\ good[k] = GrownTo(roots, X, m, h, i + 1)
    BY <2>2, <2>3
  <2> HIDE DEF good
  <2>5. PICK v : v = from + k - 1
    OBVIOUS
  <2>6. v \in only /\ v = KernelRoot * Slots + (h + i)
    <3>1. PICK b \in Nat : b = KernelRoot * Slots
      BY <1>0
    <3>2. from = b + h
      BY <3>1
    <3>3. v = b + (h + i) /\ from \in Nat /\ v \in from .. from + n - 1
      BY ONLY <2>3, <2>5, <3>2, b \in Nat, h \in Nat, n \in Nat, i \in Nat
    <3>4. QED BY <3>1, <3>3
  <2>7. OneTurn(do, root, w, only, from, x, k) = GrowPage(x, root, v)
    BY <1>3, <2>5, <2>6, TurnOf DEF OneTurn
  <2>8. h + i \in Cells
    BY <2>3, AsNumbers DEF Cells
  <2>9. GrowPage(x, root, v) \in GrownTo(roots, X, m, h, i + 1)
    <3>1. m \in Rams /\ x \in GrownTo(roots, X, m, h, i) /\ v = KernelRoot * Slots + (h + i)
      BY <1>0, <1>1, <2>1, <2>4, <2>6
    <3>2. PICK y : y = GrowPage(x, root, v)
      OBVIOUS
    <3>3. y \in GrownTo(roots, X, m, h, i + 1)
      BY ONLY <2>2, <2>8, <3>1, <3>2, root \in roots, h \in Nat, GrowsOne
    <3>4. QED BY <3>2, <3>3
  <2>10. QED BY <2>4, <2>7, <2>9
<1>5. good[n] = GrownTo(roots, X, m, h, n)
  OBVIOUS
<1> HIDE DEF good
<1>6. Turns(do, root, w, only, c, from, n)[n] \in good[n]
  BY <1>2, <1>4, TurnsIs
<1>7. QED BY <1>1, <1>3, <1>5, <1>6

-----------------------------------------------------------------------------
(* DMA buffers. *)
LEMMA FramesFinite ==
    ASSUME NEW A \in SUBSET Frames
    PROVE  IsFiniteSet(A) /\ Cardinality(A) \in Nat
<1>1. IsFiniteSet(Frames)
  BY FS_Interval, AsNumbers DEF Frames
<1>2. IsFiniteSet(A)
  BY <1>1, FS_Subset
<1>3. QED BY <1>2, FS_CardinalityType

(* The frames taken in k turns. *)
TakenIn(m, k) ==
    {x \in Comps : /\ x.ram.p4 = m.p4 /\ x.ram.leaf = m.leaf /\ m.bitmap \subseteq x.ram.bitmap
                   /\ x.ok => Cardinality(x.ram.bitmap \ m.bitmap) = k}

LEMMA TakesAll ==
    ASSUME NEW root, NEW w, NEW c \in Comps, c.ok, NEW from \in Nat, NEW n \in Nat, NEW only, only = from .. from + n - 1
    PROVE  Turns("take", root, w, only, c, from, n)[n] \in TakenIn(c.ram, n)
<1>0. c.ram \in Rams
  BY DEF Comps
<1>1. PICK m : m = c.ram
  OBVIOUS
<1> DEFINE good == [k \in 0 .. n |-> TakenIn(m, k)]
<1>2. c \in good[0]
  <2>1. Cardinality(m.bitmap \ m.bitmap) = 0
    BY FS_EmptySet
  <2>2. c \in TakenIn(m, 0)
    BY <1>1, <2>1 DEF TakenIn
  <2>3. QED BY <2>2
<1>3. PICK do : do = "take"
  OBVIOUS
<1>4. Leads(do, root, w, only, from, n, good)
  <2>1. SUFFICES ASSUME NEW k \in 1 .. n, NEW x \in good[k - 1] PROVE OneTurn(do, root, w, only, from, x, k) \in good[k]
    BY DEF Leads
  <2>2. PICK i \in Nat : i = k - 1
    OBVIOUS
  <2>3. k - 1 \in 0 .. n /\ k \in 0 .. n /\ k = i + 1 /\ from + k - 1 \in only
    BY <2>2
  <2>4. good[k - 1] = TakenIn(m, i) /\ good[k] = TakenIn(m, i + 1)
    BY <2>2, <2>3
  <2> HIDE DEF good
  <2>5. PICK y : y = alloc_frame(x)
    OBVIOUS
  <2>6. OneTurn(do, root, w, only, from, x, k) = y
    BY <1>3, <2>3, <2>5, TurnOf DEF OneTurn
  <2>7. /\ x \in Comps /\ x.ram.p4 = m.p4 /\ x.ram.leaf = m.leaf /\ m.bitmap \subseteq x.ram.bitmap
        /\ x.ok => Cardinality(x.ram.bitmap \ m.bitmap) = i
    BY <2>1, <2>4 DEF TakenIn
  <2>8. /\ y \in Comps
        /\ y.ok => /\ x.ok /\ y.got \in Frames /\ y.got \notin x.ram.bitmap
                   /\ y.ram.bitmap = x.ram.bitmap \cup {y.got} /\ y.ram.p4 = x.ram.p4 /\ y.ram.leaf = x.ram.leaf
        /\ ~y.ok => y.ram = x.ram
    BY <2>5, <2>7, AllocIs
  <2>9. CASE ~y.ok
    BY <2>4, <2>6, <2>7, <2>8, <2>9 DEF TakenIn
  <2>10. CASE y.ok
    <3>1. PICK A, g : A = x.ram.bitmap \ m.bitmap /\ g = y.got
      OBVIOUS
    <3>2. A \in SUBSET Frames /\ y.ram.bitmap \ m.bitmap = A \cup {g} /\ g \notin A
      BY <2>7, <2>8, <2>10, <3>1 DEF Comps, Rams
    <3>3. IsFiniteSet(A) /\ Cardinality(A) = i
      BY <2>7, <2>8, <2>10, <3>1, <3>2, FramesFinite
    <3>4. Cardinality(A \cup {g}) = i + 1
      BY <3>2, <3>3, FS_AddElement
    <3>5. Cardinality(y.ram.bitmap \ m.bitmap) = i + 1
      BY <3>2, <3>4
    <3>6. QED BY <2>4, <2>6, <2>7, <2>8, <2>10, <3>5 DEF TakenIn
  <2>11. QED BY <2>9, <2>10
<1>5. good[n] = TakenIn(m, n)
  OBVIOUS
<1> HIDE DEF good
<1>6. Turns(do, root, w, only, c, from, n)[n] \in good[n]
  BY <1>2, <1>4, TurnsIs
<1>7. QED BY <1>1, <1>3, <1>5, <1>6

(* The tables with the frames of k turns given back. *)
FreedIn(m, from, k) ==
    {x \in Comps : x.ram.p4 = m.p4 /\ x.ram.leaf = m.leaf /\ x.ram.bitmap = m.bitmap \ (from .. from + k - 1)}

LEMMA FreesAll ==
    ASSUME NEW root, NEW w, NEW c \in Comps, NEW from \in Nat, NEW n \in Nat, NEW only, only = from .. from + n - 1,
           only \subseteq Frames
    PROVE  Turns("free", root, w, only, c, from, n)[n] \in FreedIn(c.ram, from, n)
<1>0. c.ram \in Rams
  BY DEF Comps
<1>1. PICK m : m = c.ram
  OBVIOUS
<1> DEFINE good == [k \in 0 .. n |-> FreedIn(m, from, k)]
<1>2. c \in good[0]
  <2>1. from .. from + 0 - 1 = {}
    OBVIOUS
  <2>2. c \in FreedIn(m, from, 0)
    BY <1>1, <2>1 DEF FreedIn
  <2>3. QED BY <2>2
<1>3. PICK do : do = "free"
  OBVIOUS
<1>4. Leads(do, root, w, only, from, n, good)
  <2>1. SUFFICES ASSUME NEW k \in 1 .. n, NEW x \in good[k - 1] PROVE OneTurn(do, root, w, only, from, x, k) \in good[k]
    BY DEF Leads
  <2>2. PICK i \in Nat, f \in {from + k - 1} : i = k - 1 /\ f = from + k - 1
    OBVIOUS
  <2>3. k - 1 \in 0 .. n /\ k \in 0 .. n /\ k = i + 1 /\ f \in only /\ f = from + i /\ f \in Frames
    BY <2>2
  <2>4. good[k - 1] = FreedIn(m, from, i) /\ good[k] = FreedIn(m, from, i + 1)
    BY <2>2, <2>3
  <2> HIDE DEF good
  <2>5. PICK y : y = free_frame(x, f)
    OBVIOUS
  <2>6. OneTurn(do, root, w, only, from, x, k) = y
    <3>1. OneTurn(do, root, w, only, from, x, k) = Turn(do, root, w, x, f)
      BY <2>2, <2>3 DEF OneTurn
    <3>2. Turn("free", root, w, x, f) = free_frame(x, f)
      BY TurnOf
    <3>3. QED BY <1>3, <2>5, <3>1, <3>2
  <2>7. x \in Comps /\ x.ram.p4 = m.p4 /\ x.ram.leaf = m.leaf /\ x.ram.bitmap = m.bitmap \ (from .. from + i - 1)
    BY <2>1, <2>4 DEF FreedIn
  <2>8. /\ y \in Comps /\ y.ram.bitmap = x.ram.bitmap \ {f} /\ y.ram.p4 = x.ram.p4 /\ y.ram.leaf = x.ram.leaf
    <3>1. x \in Comps /\ f \in Frames
      BY <2>3, <2>7
    <3>2. QED BY ONLY <2>5, <3>1, FreeIs
  <2>9. from .. from + (i + 1) - 1 = (from .. from + i - 1) \cup {f}
    BY <2>3
  <2>10. y.ram.bitmap = m.bitmap \ (from .. from + (i + 1) - 1)
    BY <2>7, <2>8, <2>9
  <2>11. QED BY <2>4, <2>6, <2>7, <2>8, <2>10 DEF FreedIn
<1>5. good[n] = FreedIn(m, from, n)
  OBVIOUS
<1> HIDE DEF good
<1>6. Turns(do, root, w, only, c, from, n)[n] \in good[n]
  BY <1>2, <1>4, TurnsIs
<1>7. QED BY <1>1, <1>3, <1>5, <1>6

(* Frames that are n numbers within n are one after the other. *)
LEMMA InARow ==
    ASSUME NEW A \in SUBSET Frames, NEW n \in Nat \ {0}, Cardinality(A) = n, Max(A) - Min(A) = n - 1
    PROVE  Min(A) \in Frames /\ A = Min(A) .. Min(A) + n - 1
<1>1. A # {} /\ A \in SUBSET Nat /\ IsFiniteSet(A)
  BY FS_EmptySet, AsNumbers, FramesFinite
<1>2. Min(A) \in A /\ \A b \in A : Min(A) <= b
  BY <1>1, MinIsMember
<1>3. Max(A) \in A /\ \A b \in A : b <= Max(A)
  <2> DEFINE U == {u \in Nat : \A b \in A : b <= u}
  <2>1. U \in SUBSET Nat /\ U # {}
    <3>1. NumFrames \in U
      BY AsNumbers DEF Frames
    <3>2. QED BY <3>1
  <2>2. PICK u \in U : \A z \in U : u <= z
    BY <2>1, LeastMember
  <2>3. u \in A
    <3>1. SUFFICES ASSUME u \notin A PROVE FALSE
      OBVIOUS
    <3>2. PICK b \in A : TRUE
      BY <1>1
    <3>3. u \in Nat /\ b \in Nat /\ b <= u /\ b # u
      BY <1>1, <2>2, <3>1
    <3>4. u - 1 \in Nat /\ \A z \in A : z <= u - 1
      BY <1>1, <2>2, <3>1, <3>3
    <3>5. u - 1 \in U /\ ~(u <= u - 1)
      BY <3>3, <3>4
    <3>6. QED BY <2>2, <3>5
  <2>4. \E z \in A : \A b \in A : z >= b
    BY <1>1, <2>2, <2>3
  <2>5. Max(A) = CHOOSE z \in A : \A b \in A : z >= b
    BY DEF Max
  <2>6. Max(A) \in A /\ \A b \in A : Max(A) >= b
    BY <2>4, <2>5
  <2>7. QED BY <1>1, <2>6
<1>4. PICK a \in Nat, e \in Nat : a = Min(A) /\ e = Max(A)
  BY <1>1, <1>2, <1>3
<1>5. e = a + n - 1
  BY <1>4
<1>6. A \subseteq a .. e
  BY <1>1, <1>2, <1>3, <1>4
<1>7. IsFiniteSet(a .. e) /\ Cardinality(a .. e) = n
  <2>1. a \in Int /\ e \in Int /\ n \in Nat
    BY <1>1, <1>4
  <2>2. IsFiniteSet(a .. e) /\ Cardinality(a .. e) = IF a > e THEN 0 ELSE e - a + 1
    BY ONLY <2>1, FS_Interval
  <2>3. QED BY <1>5, <2>1, <2>2
<1>8. A = a .. e
  BY <1>6, <1>7, FS_Subset
<1>9. QED BY <1>2, <1>4, <1>5, <1>8

-----------------------------------------------------------------------------
(* Regions. *)
LEMMA PageRange ==
    ASSUME NEW v \in Pages, NEW n \in Nat \ {0}, v + n - 1 \in Pages
    PROVE  v .. v + n - 1 \in SUBSET Pages /\ v \in Nat
  BY AsNumbers DEF Pages

LEMMA SpansClear ==
    ASSUME NEW r \in Regions, NEW q \in Regions, ~Overlaps(r, q)
    PROVE  Span(r) \cap Span(q) = {}
  BY DEF Regions, Span, Overlaps

LEMMA AddIs ==
    ASSUME NEW l \in Seq(Regions), SpansApart(l), NEW r \in Regions, r.size > 0, NEW q, q = add(l, r),
           r.kind = "mmap" => Span(r) \subseteq Pages
    PROVE  /\ q \in Seq(Regions) /\ SpansApart(q)
           /\ r.kind = "heap" => Named(q) = Named(l)
           /\ r.kind = "mmap" => Named(q) = Named(l) \cup (Span(r) \cap Pages) \/ q = l
<1>1. CASE \E k \in 1 .. Len(l) : Overlaps(r, l[k])
  <2>1. q = l
    BY <1>1 DEF add
  <2>2. QED BY <2>1
<1>2. CASE ~\E k \in 1 .. Len(l) : Overlaps(r, l[k])
  <2>1. q = Append(l, r)
    BY <1>2 DEF add
  <2>2. PICK n \in Nat : n = Len(l)
    OBVIOUS
  <2>3. q \in Seq(Regions) /\ Len(q) = n + 1 /\ q[n + 1] = r /\ \A k \in 1 .. n : q[k] = l[k]
    BY <2>1, <2>2
  <2>4. \A k \in 1 .. n : l[k] \in Regions /\ Span(l[k]) \cap Span(r) = {}
    <3>1. ASSUME NEW k \in 1 .. n PROVE l[k] \in Regions /\ Span(l[k]) \cap Span(r) = {}
      <4>1. l[k] \in Regions /\ ~Overlaps(r, l[k])
        BY <1>2, <2>2
      <4>2. QED BY <4>1, SpansClear
    <3>2. QED BY <3>1
  <2>5. \A k \in 1 .. n + 1 : k \in 1 .. n \/ k = n + 1
    OBVIOUS
  <2>6. SpansApart(q)
    <3>1. \A k \in 1 .. n + 1 : q[k].kind = "mmap" => q[k].size > 0 /\ Span(q[k]) \subseteq Pages
      BY <2>2, <2>3, <2>5 DEF SpansApart
    <3>2. \A j, k \in 1 .. n : j # k /\ l[j].kind = "mmap" /\ l[k].kind = "mmap" => Span(l[j]) \cap Span(l[k]) = {}
      BY <2>2 DEF SpansApart
    <3>3. ASSUME NEW j \in 1 .. n + 1, NEW k \in 1 .. n + 1, j # k, q[j].kind = "mmap", q[k].kind = "mmap"
          PROVE  Span(q[j]) \cap Span(q[k]) = {}
      <4>1. CASE j \in 1 .. n /\ k \in 1 .. n
        BY <2>3, <3>2, <3>3, <4>1
      <4>2. CASE j = n + 1 /\ k \in 1 .. n
        BY <2>3, <2>4, <4>2
      <4>3. CASE j \in 1 .. n /\ k = n + 1
        BY <2>3, <2>4, <4>3
      <4>4. QED BY <2>5, <3>3, <4>1, <4>2, <4>3
    <3>4. QED BY <2>3, <3>1, <3>3 DEF SpansApart
  <2>7. \A v : (\E k \in 1 .. n + 1 : q[k].kind = "mmap" /\ v \in Span(q[k]))
               <=> (\E k \in 1 .. n : l[k].kind = "mmap" /\ v \in Span(l[k])) \/ (r.kind = "mmap" /\ v \in Span(r))
    <3>1. n + 1 \in 1 .. n + 1 /\ \A k \in 1 .. n : k \in 1 .. n + 1
      OBVIOUS
    <3>2. QED BY <2>3, <2>5, <3>1
  <2>8. \A v : v \in Named(q) <=> v \in Named(l) \/ (r.kind = "mmap" /\ v \in Span(r) /\ v \in Pages)
    BY <2>2, <2>3, <2>7 DEF Named
  <2>9. QED BY <2>3, <2>6, <2>8
<1>3. QED BY <1>1, <1>2

(* A list whose mmap regions are the same. *)
LEMMA SameRegions ==
    ASSUME NEW l \in Seq(Regions), NEW q \in Seq(Regions), SpansApart(l), Len(q) = Len(l),
           \A k \in 1 .. Len(l) : q[k].kind = l[k].kind /\ (l[k].kind = "mmap" => q[k] = l[k])
    PROVE  SpansApart(q) /\ Named(q) = Named(l)
<1>1. SpansApart(q)
  BY DEF SpansApart
<1>2. Named(q) = Named(l)
  BY DEF Named
<1>3. QED BY <1>1, <1>2

LEMMA ExtendIs ==
    ASSUME NEW l \in Seq(Regions), SpansApart(l), NEW e \in Nat, NEW q, q = extend_heap(l, e)
    PROVE  q \in Seq(Regions) /\ SpansApart(q) /\ Named(q) = Named(l)
<1>1. PICK n \in Nat : n = Len(l)
  OBVIOUS
<1> DEFINE Heap(k) == l[k].kind = "heap" /\ (\A j \in 1 .. k - 1 : l[j].kind # "heap") /\ e >= l[k].start
           E(k) == IF Heap(k) THEN [l[k] EXCEPT !.size = e - l[k].start] ELSE l[k]
<1>2. q = [k \in 1 .. n |-> E(k)]
  BY <1>1 DEF extend_heap
<1>3. ASSUME NEW k \in 1 .. n PROVE E(k) \in Regions /\ E(k).kind = l[k].kind /\ (l[k].kind = "mmap" => E(k) = l[k])
  <2>1. PICK r \in Regions : r = l[k]
    BY <1>1
  <2>2. CASE Heap(k)
    <3>1. e - r.start \in Nat
      BY <2>1, <2>2 DEF Regions
    <3>2. E(k) = [r EXCEPT !.size = e - r.start]
      BY <2>1, <2>2
    <3> HIDE DEF E
    <3>3. E(k) \in Regions /\ E(k).kind = r.kind
      BY <3>1, <3>2 DEF Regions
    <3>4. QED BY <2>1, <2>2, <3>3
  <2>3. CASE ~Heap(k)
    <3>1. E(k) = l[k]
      BY <2>3
    <3> HIDE DEF E, Heap
    <3>2. QED BY <2>1, <3>1
  <2>4. QED BY <2>2, <2>3
<1> HIDE DEF E
<1>4. q \in Seq(Regions) /\ Len(q) = n /\ \A k \in 1 .. n : q[k] = E(k)
  <2>1. q \in [1 .. n -> Regions]
    BY <1>2, <1>3
  <2>2. QED BY <1>2, <2>1
<1>5. \A k \in 1 .. Len(l) : q[k].kind = l[k].kind /\ (l[k].kind = "mmap" => q[k] = l[k])
  BY <1>1, <1>3, <1>4
<1>6. SpansApart(q) /\ Named(q) = Named(l)
  <2>1. Len(q) = Len(l) /\ q \in Seq(Regions)
    BY <1>1, <1>4
  <2>2. QED BY <1>5, <2>1, SameRegions
<1>7. QED BY <1>4, <1>6

LEMMA RemoveOne ==
    ASSUME NEW l \in Seq(Regions), SpansApart(l), NEW j \in 1 .. Len(l), NEW q, q = RemoveAt(l, j)
    PROVE  /\ q \in Seq(Regions) /\ SpansApart(q) /\ Len(q) = Len(l) - 1
           /\ l[j].kind = "mmap" => Named(q) = Named(l) \ Span(l[j])
<1>1. PICK n \in Nat : n = Len(l)
  OBVIOUS
<1> DEFINE From(i) == IF i < j THEN i ELSE i + 1
<1>2. q \in Seq(Regions) /\ Len(q) = n - 1 /\ \A i \in 1 .. n - 1 : q[i] = IF i < j THEN l[i] ELSE l[i + 1]
  BY <1>1, RemovedAt
<1>3. \A i \in 1 .. n - 1 : From(i) \in 1 .. n /\ From(i) # j /\ q[i] = l[From(i)]
  BY <1>1, <1>2
<1>4. \A i, k \in 1 .. n - 1 : i # k => From(i) # From(k)
  BY <1>1
<1>5. \A k \in 1 .. n : k # j => \E i \in 1 .. n - 1 : q[i] = l[k]
  <2>1. ASSUME NEW k \in 1 .. n, k # j PROVE \E i \in 1 .. n - 1 : q[i] = l[k]
    <3>1. CASE k < j
      <4>1. k \in 1 .. n - 1 /\ From(k) = k
        BY <1>1, <3>1
      <4>2. QED BY <1>3, <4>1
    <3>2. CASE k > j
      <4>1. k - 1 \in 1 .. n - 1 /\ From(k - 1) = k
        BY <1>1, <3>2
      <4>2. QED BY <1>3, <4>1
    <3>3. QED BY <1>1, <2>1, <3>1, <3>2
  <2>2. QED BY <2>1
<1> HIDE DEF From
<1>6. \A k \in 1 .. n : l[k].kind = "mmap" => l[k].size > 0 /\ Span(l[k]) \subseteq Pages
  BY <1>1 DEF SpansApart
<1>7. \A i, k \in 1 .. n : i # k /\ l[i].kind = "mmap" /\ l[k].kind = "mmap" => Span(l[i]) \cap Span(l[k]) = {}
  BY <1>1 DEF SpansApart
<1>8. SpansApart(q)
  <2>1. \A k \in 1 .. n - 1 : q[k].kind = "mmap" => q[k].size > 0 /\ Span(q[k]) \subseteq Pages
    BY <1>3, <1>6
  <2>2. \A i, k \in 1 .. n - 1 : i # k /\ q[i].kind = "mmap" /\ q[k].kind = "mmap" => Span(q[i]) \cap Span(q[k]) = {}
    BY <1>3, <1>4, <1>7
  <2>3. QED BY <1>2, <2>1, <2>2 DEF SpansApart
<1>9. ASSUME l[j].kind = "mmap" PROVE Named(q) = Named(l) \ Span(l[j])
  <2>1. ASSUME NEW v PROVE (\E i \in 1 .. n - 1 : q[i].kind = "mmap" /\ v \in Span(q[i]))
                           <=> (\E k \in 1 .. n : l[k].kind = "mmap" /\ v \in Span(l[k])) /\ v \notin Span(l[j])
    <3>1. ASSUME NEW i \in 1 .. n - 1, q[i].kind = "mmap", v \in Span(q[i])
          PROVE  (\E k \in 1 .. n : l[k].kind = "mmap" /\ v \in Span(l[k])) /\ v \notin Span(l[j])
      <4>1. PICK k \in 1 .. n : k # j /\ q[i] = l[k]
        BY <1>3
      <4>2. j \in 1 .. n /\ Span(l[k]) \cap Span(l[j]) = {}
        BY <1>1, <1>7, <1>9, <3>1, <4>1
      <4>3. QED BY <3>1, <4>1, <4>2
    <3>2. ASSUME NEW k \in 1 .. n, l[k].kind = "mmap", v \in Span(l[k]), v \notin Span(l[j])
          PROVE  \E i \in 1 .. n - 1 : q[i].kind = "mmap" /\ v \in Span(q[i])
      <4>1. k # j
        BY <3>2
      <4>2. QED BY <1>5, <3>2, <4>1
    <3>3. QED BY <3>1, <3>2
  <2>2. \A v : v \in Named(q) <=> v \in Named(l) /\ v \notin Span(l[j])
    BY <1>1, <1>2, <2>1 DEF Named
  <2>3. QED BY <2>2
<1>10. QED BY <1>1, <1>2, <1>8, <1>9

LEMMA RemoveIs ==
    ASSUME NEW l \in Seq(Regions), SpansApart(l), NEW v, NEW q, q = remove(l, v)
    PROVE  /\ q \in Seq(Regions) /\ SpansApart(q)
           /\ q = l \/ \E j \in 1 .. Len(l) : l[j].start = v /\ q = RemoveAt(l, j)
<1> DEFINE at == {k \in 1 .. Len(l) : l[k].start = v}
<1>1. CASE at = {}
  <2>1. q = l
    BY <1>1 DEF remove
  <2>2. QED BY <2>1
<1>2. CASE at # {}
  <2>1. at \in SUBSET Nat
    OBVIOUS
  <2>2. Min(at) \in at
    BY <1>2, <2>1, MinIsMember
  <2>3. q = RemoveAt(l, Min(at))
    BY <1>2 DEF remove
  <2>4. PICK j \in 1 .. Len(l) : l[j].start = v /\ q = RemoveAt(l, j)
    BY <2>2, <2>3
  <2>5. q \in Seq(Regions) /\ SpansApart(q)
    BY <2>4, RemoveOne
  <2>6. QED BY <2>4, <2>5
<1>3. QED BY <1>1, <1>2

(* What was removed is known from the list. *)
LEMMA RemovedKnown ==
    ASSUME NEW l \in Seq(Regions), SpansApart(l), NEW j \in 1 .. Len(l), NEW k \in 1 .. Len(l),
           RemoveAt(l, j) = RemoveAt(l, k), l[k].kind = "mmap"
    PROVE  j = k
<1>1. PICK n \in Nat, q \in {RemoveAt(l, j)} : n = Len(l) /\ q = RemoveAt(l, j)
  OBVIOUS
<1>2. (\A i \in 1 .. n - 1 : q[i] = IF i < j THEN l[i] ELSE l[i + 1]) /\ \A i \in 1 .. n - 1 : q[i] = IF i < k THEN l[i] ELSE l[i + 1]
  <2>1. \A i \in 1 .. Len(l) - 1 : RemoveAt(l, j)[i] = IF i < j THEN l[i] ELSE l[i + 1]
    BY RemovedAt
  <2>2. \A i \in 1 .. Len(l) - 1 : RemoveAt(l, k)[i] = IF i < k THEN l[i] ELSE l[i + 1]
    BY RemovedAt
  <2>3. q = RemoveAt(l, j) /\ q = RemoveAt(l, k) /\ n = Len(l)
    BY <1>1
  <2>4. QED BY <2>1, <2>2, <2>3
<1>3. ASSUME NEW i \in 1 .. n, i # k, l[i] = l[k] PROVE FALSE
  <2>1. l[k] \in Regions /\ l[k].size > 0 /\ Span(l[i]) \cap Span(l[k]) = {}
    <3>1. l[k] \in Regions /\ k \in 1 .. n /\ l[i].kind = "mmap"
      BY <1>1, <1>3
    <3>2. \A z \in 1 .. n : l[z].kind = "mmap" => l[z].size > 0
      BY <1>1 DEF SpansApart
    <3>3. \A y, z \in 1 .. n : y # z /\ l[y].kind = "mmap" /\ l[z].kind = "mmap" => Span(l[y]) \cap Span(l[z]) = {}
      BY <1>1 DEF SpansApart
    <3>4. QED BY <1>3, <3>1, <3>2, <3>3
  <2>2. l[k].start \in Span(l[k])
    BY <2>1 DEF Span, Regions
  <2>3. QED BY <1>3, <2>1, <2>2
<1>4. CASE j < k
  <2>1. k - 1 \in 1 .. n - 1 /\ ~(k - 1 < j) /\ k - 1 < k /\ (k - 1) + 1 = k /\ k - 1 \in 1 .. n
    BY <1>1, <1>4
  <2>2. l[k - 1] = l[k]
    BY <1>2, <2>1
  <2>3. QED BY <1>3, <2>1, <2>2
<1>5. CASE j > k
  <2>1. k \in 1 .. n - 1 /\ k < j /\ ~(k < k) /\ k + 1 \in 1 .. n /\ k + 1 # k
    BY <1>1, <1>5
  <2>2. l[k + 1] = l[k]
    BY <1>2, <2>1
  <2>3. QED BY <1>3, <2>1, <2>2
<1>6. QED BY <1>4, <1>5

-----------------------------------------------------------------------------
(* The calls. *)
PagesKept ==
    ram' # ram /\ cr3 = page_table[cur] /\ cr3' = cr3 /\ page_table' = page_table =>
      \A v \in Pages : translate(ram, cr3, v) /\ translate(ram', cr3, v)
                         => EntryOf(ram, cr3, v).to = EntryOf(ram', cr3, v).to
AsStep == AsInv' /\ PagesKept

LEMMA AsHere ==
    ASSUME AsInv, Running
    PROVE  /\ AllRoots = Ready \cup {cr3} /\ cr3 \in AllRoots /\ page_table[cur] \in AllRoots /\ page_table[cur] \in Ready
           /\ AllRoots \subseteq Frames /\ AllRoots \subseteq ram.bitmap /\ DmaFrames \subseteq ram.bitmap /\ ram \in Rams
           /\ cr3 \in Frames /\ page_table[cur] \in Frames /\ cur \in Live
           /\ Consistent(ram, AllRoots, DmaFrames)
           /\ AsCompute(ram) \in Comps /\ AsCompute(ram).ok /\ AsCompute(ram).ram = ram
<1>1. AllRoots = Ready \cup {cr3} /\ cur \in Live
  BY DEF AsInv, AsTyped, Running, AllRoots, Live
<1>2. page_table[cur] \in Ready
  BY <1>1 DEF Ready
<1>3. ram \in Rams /\ Consistent(ram, AllRoots, DmaFrames)
  BY DEF AsInv, AsTyped, FramesInv
<1>4. AllRoots \subseteq ram.bitmap /\ DmaFrames \subseteq ram.bitmap /\ ram.bitmap \subseteq Frames
  BY <1>3 DEF Consistent, Marked, Rams
<1>5. AsCompute(ram) \in Comps /\ AsCompute(ram).ok /\ AsCompute(ram).ram = ram
  BY <1>3, AsNumbers DEF AsCompute, Comps, Nowhere
<1>6. QED BY <1>1, <1>2, <1>3, <1>4, <1>5

LEMMA RootsAfter ==
    ASSUME AsInv, Running, UNCHANGED <<cur, page_table, state>>
    PROVE  Ready' = Ready /\ Live' = Live /\ AllRoots' = Ready \cup {cr3'}
<1>1. state'[cur'] = "ready" /\ Live' = Live
  BY DEF Running, Live
<1>2. Ready' = Ready
  BY <1>1 DEF Ready
<1>3. QED BY <1>1, <1>2 DEF AllRoots

(* A loop over the pages of a table in use keeps each frame's use. *)
LEMMA FramesAfter ==
    ASSUME AsInv, Running, UNCHANGED <<cur, page_table, state, heap, dma>>,
           NEW do, NEW root, root = cr3 \/ root = page_table[cur], cr3' = root, NEW P, NEW c,
           Passed(do, root, AllRoots, DmaFrames, ram, P, c), ram' = c.ram
    PROVE  FramesInv' /\ ram' \in Rams /\ cr3' \in Nat
<1>1. Ready' = Ready /\ Live' = Live /\ AllRoots' = Ready \cup {cr3'}
  BY RootsAfter
<1>2. DmaFrames' = DmaFrames
  BY DEF DmaFrames
<1>3. AllRoots' \in SUBSET AllRoots /\ DmaFrames \in SUBSET DmaFrames /\ root \in AllRoots
  BY <1>1, AsHere
<1>4. ram' \in Rams /\ Consistent(ram', AllRoots, DmaFrames) /\ Kept(ram, ram', root)
  BY DEF Passed, Comps
<1>5. Consistent(ram', AllRoots', DmaFrames')
  BY <1>2, <1>3, <1>4, Fewer
<1>6. HeapIs(ram', heap')
  BY <1>4 DEF AsInv, FramesInv, HeapIs, Kept
<1>7. Covers(ram', page_table'[cur'], cr3')
  <2>1. Covers(ram, page_table[cur], cr3)
    BY DEF AsInv, FramesInv, Running
  <2>2. CASE root = page_table[cur]
    BY <2>2 DEF Covers
  <2>3. CASE root = cr3 /\ root # page_table[cur]
    <3>1. ram'.p4[page_table[cur]] = ram.p4[page_table[cur]]
      BY <1>4, <2>3, AsHere DEF Kept
    <3>2. QED BY <1>4, <2>1, <2>3, <3>1 DEF Covers, Kept
  <2>4. QED BY <2>2, <2>3
<1>8. (\A p, q \in Live : page_table[p] = page_table[q] => p = q)'
  BY <1>1 DEF AsInv, FramesInv
<1>9. (\A a, b \in dma : a # b => Buffer(a) \cap Buffer(b) = {})'
  BY DEF AsInv, FramesInv, Buffer
<1>10. cr3' \in Nat
  BY <1>3, AsHere, AsNumbers
<1>11. QED BY <1>4, <1>5, <1>6, <1>7, <1>8, <1>9, <1>10 DEF FramesInv

LEMMA PagesAfter ==
    ASSUME NEW do \in UserCalls, NEW root, cr3 = page_table[cur] => root = cr3, NEW P, NEW X, NEW roots, NEW c,
           Passed(do, root, roots, X, ram, P, c), ram' = c.ram,
           do \in {"map", "device"} /\ cr3 = page_table[cur] => \A u \in P : ~translate(ram, cr3, u)
    PROVE  PagesKept
<1>1. SUFFICES ASSUME cr3 = page_table[cur], NEW v \in Pages, translate(ram, cr3, v), translate(ram', cr3, v)
               PROVE  EntryOf(ram, cr3, v).to = EntryOf(ram', cr3, v).to
  BY DEF PagesKept
<1>2. root = cr3
  BY <1>1
<1>3. SameEntry(ram, ram', cr3, v) \/ (v \in P /\ PageTurned(do, ram, ram', cr3, v))
  BY <1>2 DEF Passed
<1>4. CASE SameEntry(ram, ram', cr3, v)
  BY <1>4 DEF SameEntry
<1>5. CASE v \in P /\ PageTurned(do, ram, ram', cr3, v)
  <2>1. do \notin {"map", "device"}
    BY <1>1, <1>5
  <2>2. do \notin {"unmap", "clear"}
    BY <1>1, <1>5 DEF PageTurned, Became, translate, Absent
  <2>3. do = "protect"
    BY <2>1, <2>2 DEF UserCalls
  <2>4. QED BY <1>5, <2>3 DEF PageTurned, Became
<1>6. QED BY <1>3, <1>4, <1>5

LEMMA SwitchStep ==
    ASSUME AsInv, NEW p \in Procs, Switch(p), "start" \in as_use, UNCHANGED as_use
    PROVE  AsStep
<1>1. /\ state[p] = "ready" /\ cur' = p /\ cr3' = page_table[p] /\ p \in Live
      /\ UNCHANGED <<ram, page_table, state, vma_list, brk, heap, dma, panicked, loose, ragged>>
  BY DEF Switch, history, Live
<1>2. Live' = Live /\ Ready' = Ready /\ AllRoots' = Ready /\ DmaFrames' = DmaFrames
  <2>1. Live' = Live
    BY <1>1 DEF Live
  <2>2. Ready' = Ready /\ page_table[p] \in Ready
    BY <1>1, <2>1 DEF Ready
  <2>3. AllRoots' = Ready
    BY <1>1, <2>2 DEF AllRoots
  <2>4. QED BY <1>1, <2>1, <2>2, <2>3 DEF DmaFrames
<1>3. Consistent(ram', AllRoots', DmaFrames')
  <2>1. Ready \in SUBSET AllRoots /\ DmaFrames \in SUBSET DmaFrames
    BY DEF AllRoots
  <2>2. Consistent(ram, Ready, DmaFrames)
    BY <2>1, Fewer DEF AsInv, FramesInv
  <2>3. QED BY <1>1, <1>2, <2>2
<1>4. Covers(ram', page_table'[cur'], cr3')
  BY <1>1 DEF Covers
<1>5. AsTyped'
  BY <1>1 DEF AsInv, AsTyped
<1>6. FramesInv'
  <2>1. (\A a, b \in Live : page_table[a] = page_table[b] => a = b)'
    BY <1>1, <1>2 DEF AsInv, FramesInv
  <2>2. HeapIs(ram', heap') /\ (\A a, b \in dma : a # b => Buffer(a) \cap Buffer(b) = {})'
    BY <1>1 DEF AsInv, FramesInv, HeapIs, Buffer
  <2>3. QED BY <1>3, <1>4, <2>1, <2>2 DEF FramesInv
<1>7. RegionsInv'
  BY <1>1 DEF AsInv, RegionsInv, Alone, SpansApart, Span
<1>8. PagesKept
  BY <1>1 DEF PagesKept
<1>9. QED BY <1>5, <1>6, <1>7, <1>8 DEF AsStep, AsInv

LEMMA MapStep ==
    ASSUME AsInv, NEW hint \in Pages, NEW n \in 1 .. MaxPages, NEW w \in Modes, sys_mmap(hint, n, w), UNCHANGED as_use
    PROVE  AsStep
<1> DEFINE at == find_free_range(ram, page_table[cur], hint, n)
           c == Each("map", cr3, w, AsCompute(ram), at, n)
<1>1. /\ Running /\ at # -1 /\ ram' = c.ram
      /\ vma_list' = IF c.ok THEN [vma_list EXCEPT ![cur] = add(@, Region(at, n, "mmap", w))] ELSE vma_list
      /\ loose' = IF vma_list' # vma_list THEN loose \ (at .. at + n - 1) ELSE loose \cup (at .. at + n - 1)
      /\ UNCHANGED <<cr3, cur, page_table, state, brk, heap, dma, ragged>>
  BY DEF sys_mmap, Ends
<1>2. n \in Nat \ {0}
  BY AddressSpaceAssumption
<1>3. at \in Pages /\ at + n - 1 \in Pages /\ \A k \in at .. at + n - 1 : ~translate(ram, page_table[cur], k)
  <2> DEFINE runs == {v \in hint .. Max(Pages) : v + n - 1 \in Pages /\ \A k \in v .. v + n - 1 : ~translate(ram, page_table[cur], k)}
  <2>1. runs # {} /\ at = Min(runs)
    BY <1>1 DEF find_free_range
  <2>2. runs \in SUBSET Nat
    <3>1. hint \in Nat
      BY PagePlace
    <3>2. ASSUME NEW v \in runs PROVE v \in Nat
      <4>1. v \in Int /\ v >= hint
        BY <3>1
      <4>2. QED BY <3>1, <4>1
    <3>3. QED BY <3>2
  <2>3. at \in runs
    BY <2>1, <2>2, MinIsMember
  <2>4. hint \in Nat /\ at \in Nat /\ at >= hint /\ at + n - 1 \in Pages
    BY <2>2, <2>3, PagePlace
  <2>5. at \in Pages
    <3>1. PICK a \in Nat : a = at
      BY <2>4
    <3>2. a + n - 1 \in Pages /\ a <= a + n - 1
      BY <1>2, <2>4, <3>1
    <3>3. a \in Pages
      BY <1>2, <3>1, <3>2, AsNumbers DEF Pages
    <3>4. QED BY <3>1, <3>3
  <2>6. QED BY <2>3, <2>4, <2>5
<1> HIDE DEF at
<1>4. PICK P : P = at .. at + n - 1
  OBVIOUS
<1>5. P \in SUBSET Pages /\ at \in Nat
  BY <1>2, <1>3, <1>4, PageRange
<1>6. Passed("map", cr3, AllRoots, DmaFrames, ram, P, c)
  <2>1. PICK do \in UserCalls, x \in {AsCompute(ram)} : do = "map" /\ x = AsCompute(ram)
    BY DEF UserCalls
  <2>2. c = Turns(do, cr3, w, P, x, at, n)[n] /\ P \subseteq at .. at + n - 1 /\ n \in Nat
    BY <1>2, <1>4, <2>1 DEF Each
  <2>3. x \in Comps /\ x.ok /\ x.ram = ram /\ Consistent(x.ram, AllRoots, DmaFrames) /\ cr3 \in AllRoots
    BY <1>1, <2>1, AsHere
  <2>4. Passed(do, cr3, AllRoots, DmaFrames, x.ram, P, Turns(do, cr3, w, P, x, at, n)[n])
    BY ONLY <1>5, <2>1, <2>2, <2>3, w \in Modes, PassesAll
  <2>5. QED BY <2>1, <2>2, <2>3, <2>4
<1> HIDE DEF c
<1>7. FramesInv' /\ ram' \in Rams /\ cr3' \in Nat
  BY <1>1, <1>6, FramesAfter
<1>8. PagesKept
  <2>1. PICK do \in UserCalls : do = "map"
    BY DEF UserCalls
  <2>2. Passed(do, cr3, AllRoots, DmaFrames, ram, P, c) /\ (cr3 = page_table[cur] => \A u \in P : ~translate(ram, cr3, u))
    BY <1>3, <1>4, <1>6, <2>1
  <2>3. QED BY <1>1, <2>2, PagesAfter
<1>9. PICK l, q, r : l = vma_list[cur] /\ q = vma_list'[cur] /\ r = Region(at, n, "mmap", w)
  OBVIOUS
<1>10. /\ cur \in Procs /\ vma_list \in [Procs -> Seq(Regions)] /\ l \in Seq(Regions) /\ SpansApart(l)
       /\ \A p \in Procs : SpansApart(vma_list[p])
  BY <1>9 DEF AsInv, AsTyped, RegionsInv
<1>11. r \in Regions /\ r.size > 0 /\ r.kind = "mmap" /\ Span(r) = P /\ Span(r) \cap Pages = P
  <2>1. r = [start |-> at, size |-> n, kind |-> "mmap", write |-> w]
    BY <1>9 DEF Region
  <2>2. r \in Regions /\ r.size = n /\ r.kind = "mmap" /\ r.start = at
    BY <1>2, <1>5, <2>1 DEF Regions, Modes
  <2>3. QED BY <1>2, <1>4, <1>5, <2>2 DEF Span
<1>12. /\ vma_list' \in [Procs -> Seq(Regions)] /\ SpansApart(q) /\ \A p \in Procs : p # cur => vma_list'[p] = vma_list[p]
       /\ vma_list' # vma_list => c.ok /\ Named(q) = Named(l) \cup P
  <2>1. CASE ~c.ok
    <3>1. vma_list' = vma_list
      BY <1>1, <2>1
    <3>2. QED BY <1>9, <1>10, <3>1
  <2>2. CASE c.ok
    <3>1. vma_list' = [vma_list EXCEPT ![cur] = add(l, r)]
      BY <1>1, <1>9, <2>2
    <3>2. q = add(l, r)
      BY <1>9, <1>10, <3>1
    <3>3. /\ q \in Seq(Regions) /\ SpansApart(q) /\ (Named(q) = Named(l) \cup P \/ q = l)
      BY <1>5, <1>10, <1>11, <3>2, AddIs
    <3>4. q = l => vma_list' = vma_list
      BY <1>9, <1>10, <3>1, <3>2
    <3>5. vma_list' \in [Procs -> Seq(Regions)] /\ \A p \in Procs : p # cur => vma_list'[p] = vma_list[p]
      BY <1>10, <3>1, <3>2, <3>3
    <3>6. QED BY <2>2, <3>3, <3>4, <3>5
  <2>3. QED BY <2>1, <2>2
<1>13. AsTyped'
  BY <1>1, <1>7, <1>12 DEF AsInv, AsTyped
<1>14. RegionsInv'
  <2>1. \A p \in Procs : SpansApart(vma_list'[p])
    BY <1>9, <1>10, <1>12
  <2>2. Alone' => cr3' = page_table'[cur'] /\ state'[cur'] = "ready"
    BY <1>1 DEF AsInv, RegionsInv, Alone
  <2>3. ASSUME Alone, ~ragged, NEW v \in Pages
        PROVE  /\ v \in Named(q) => translate(ram', cr3, v)
               /\ translate(ram', cr3, v) => v \in Named(q) \cup Image \cup loose'
    <3>1. /\ v \in Named(l) => translate(ram, cr3, v)
          /\ translate(ram, cr3, v) => v \in Named(l) \cup Image \cup loose
      BY <1>9, <2>3 DEF AsInv, RegionsInv
    <3>2. SameEntry(ram, ram', cr3, v) \/ (v \in P /\ PageTurned("map", ram, ram', cr3, v))
      BY <1>1, <1>6 DEF Passed
    <3>3. SameEntry(ram, ram', cr3, v) => (translate(ram', cr3, v) <=> translate(ram, cr3, v))
      BY DEF SameEntry, translate
    <3>4. PageTurned("map", ram, ram', cr3, v) => translate(ram', cr3, v)
      BY DEF PageTurned, Became, translate
    <3>5. translate(ram, cr3, v) => translate(ram', cr3, v)
      BY <3>2, <3>3, <3>4
    <3>6. translate(ram', cr3, v) => translate(ram, cr3, v) \/ v \in P
      BY <3>2, <3>3
    <3>7. CASE vma_list' # vma_list
      <4>1. c.ok /\ Named(q) = Named(l) \cup P /\ loose' = loose \ P
        BY <1>1, <1>4, <1>12, <3>7
      <4>2. v \in P => translate(ram', cr3, v)
        BY <1>1, <1>6, <3>4, <4>1 DEF Passed
      <4>3. QED BY <3>1, <3>5, <3>6, <4>1, <4>2
    <3>8. CASE vma_list' = vma_list
      <4>1. q = l /\ loose' = loose \cup P
        BY <1>1, <1>4, <1>9, <3>8
      <4>2. QED BY <3>1, <3>5, <3>6, <4>1
    <3>9. QED BY <3>7, <3>8
  <2>4. (Alone' <=> Alone) /\ ragged' = ragged /\ cr3' = cr3 /\ vma_list'[cur'] = q
    BY <1>1, <1>9 DEF Alone
  <2>5. QED BY <2>1, <2>2, <2>3, <2>4 DEF RegionsInv
<1>15. QED BY <1>7, <1>8, <1>13, <1>14 DEF AsStep, AsInv

LEMMA PassesRange ==
    ASSUME AsInv, Running, NEW do \in UserCalls, NEW w \in Modes, NEW root \in AllRoots, NEW v \in Pages,
           NEW n \in 1 .. MaxPages, v + n - 1 \in Pages
    PROVE  Passed(do, root, AllRoots, DmaFrames, ram, v .. v + n - 1, Each(do, root, w, AsCompute(ram), v, n))
<1>1. n \in Nat \ {0} /\ n \in Nat
  BY AddressSpaceAssumption
<1>2. PICK P, x : P = v .. v + n - 1 /\ x = AsCompute(ram)
  OBVIOUS
<1>3. P \in SUBSET Pages /\ v \in Nat /\ P \subseteq v .. v + n - 1
  BY <1>1, <1>2, PageRange
<1>4. x \in Comps /\ x.ok /\ x.ram = ram /\ Consistent(x.ram, AllRoots, DmaFrames)
  BY <1>2, AsHere
<1>5. Passed(do, root, AllRoots, DmaFrames, x.ram, P, Turns(do, root, w, P, x, v, n)[n])
  BY ONLY <1>1, <1>3, <1>4, do \in UserCalls, root \in AllRoots, w \in Modes, PassesAll
<1>6. QED BY <1>2, <1>4, <1>5 DEF Each

LEMMA UnmapStep ==
    ASSUME AsInv, NEW v \in Pages, NEW n \in 1 .. MaxPages, sys_munmap(v, n), UNCHANGED as_use
    PROVE  AsStep
<1> DEFINE c == Each("unmap", cr3, FALSE, AsCompute(ram), v, n)
<1>1. /\ Running /\ v + n - 1 \in Pages /\ ram' = c.ram
      /\ vma_list' = [vma_list EXCEPT ![cur] = remove(@, v)]
      /\ ragged' = (ragged \/ \A k \in 1 .. Len(vma_list[cur]) :
                                  vma_list' = [vma_list EXCEPT ![cur] = RemoveAt(@, k)] =>
                                     vma_list[cur][k].kind # "mmap" \/ vma_list[cur][k].size # n)
      /\ UNCHANGED <<cr3, cur, page_table, state, brk, heap, dma, loose>>
  BY DEF sys_munmap, Ends
<1>2. PICK P : P = v .. v + n - 1
  OBVIOUS
<1>3. PICK do \in UserCalls, w \in Modes : do = "unmap" /\ w = FALSE
  <2>1. "unmap" \in UserCalls /\ FALSE \in Modes
    BY DEF UserCalls, Modes
  <2>2. QED BY <2>1, Zenon
<1>4. Passed(do, cr3, AllRoots, DmaFrames, ram, P, c)
  <2>1. cr3 \in AllRoots
    BY <1>1, AsHere
  <2>2. Passed(do, cr3, AllRoots, DmaFrames, ram, v .. v + n - 1, Each(do, cr3, w, AsCompute(ram), v, n))
    BY <1>1, <2>1, PassesRange
  <2>3. QED BY <1>2, <1>3, <2>2
<1> HIDE DEF c
<1>5. FramesInv' /\ ram' \in Rams /\ cr3' \in Nat
  BY <1>1, <1>4, FramesAfter
<1>6. PagesKept
  <2>1. do \notin {"map", "device"}
    BY <1>3
  <2>2. QED BY <1>1, <1>4, <2>1, PagesAfter
<1>7. PICK l, q : l = vma_list[cur] /\ q = vma_list'[cur]
  OBVIOUS
<1>8. /\ cur \in Procs /\ vma_list \in [Procs -> Seq(Regions)] /\ l \in Seq(Regions) /\ SpansApart(l)
      /\ \A p \in Procs : SpansApart(vma_list[p])
  BY <1>7 DEF AsInv, AsTyped, RegionsInv
<1>9. q = remove(l, v) /\ \A p \in Procs : p # cur => vma_list'[p] = vma_list[p]
  BY <1>1, <1>7, <1>8
<1>10. /\ q \in Seq(Regions) /\ SpansApart(q)
       /\ q = l \/ \E j \in 1 .. Len(l) : l[j].start = v /\ q = RemoveAt(l, j)
  BY <1>8, <1>9, RemoveIs
<1>11. vma_list' \in [Procs -> Seq(Regions)]
  <2>1. vma_list' = [vma_list EXCEPT ![cur] = q]
    BY <1>1, <1>7, <1>9
  <2>2. QED BY <1>8, <1>10, <2>1
<1>12. AsTyped'
  BY <1>1, <1>5, <1>11 DEF AsInv, AsTyped
<1>13. RegionsInv'
  <2>1. \A p \in Procs : SpansApart(vma_list'[p])
    BY <1>7, <1>8, <1>9, <1>10
  <2>2. Alone' => cr3' = page_table'[cur'] /\ state'[cur'] = "ready"
    BY <1>1 DEF AsInv, RegionsInv, Alone
  <2>3. ASSUME Alone, ~ragged'
        PROVE  \A u \in Pages : /\ u \in Named(q) => translate(ram', cr3, u)
                                /\ translate(ram', cr3, u) => u \in Named(q) \cup Image \cup loose
    <3>1. ~ragged /\ ~\A k \in 1 .. Len(l) : vma_list' = [vma_list EXCEPT ![cur] = RemoveAt(@, k)] =>
                                                l[k].kind # "mmap" \/ l[k].size # n
      BY <1>1, <1>7, <2>3
    <3>2. PICK k \in 1 .. Len(l) : vma_list' = [vma_list EXCEPT ![cur] = RemoveAt(@, k)] /\ l[k].kind = "mmap" /\ l[k].size = n
      BY <3>1
    <3>3. q = RemoveAt(l, k)
      BY <1>7, <1>8, <3>2
    <3>4. q # l
      <4>1. Len(q) = Len(l) - 1 /\ Len(l) \in Nat
        BY <1>8, <3>3, RemoveOne
      <4>2. QED BY <4>1
    <3>5. PICK j \in 1 .. Len(l) : l[j].start = v /\ q = RemoveAt(l, j)
      BY <1>10, <3>4
    <3>6. j = k
      <4>1. RemoveAt(l, j) = RemoveAt(l, k)
        BY <3>3, <3>5
      <4>2. QED BY <1>8, <3>2, <4>1, RemovedKnown
    <3>7. Span(l[k]) = P
      BY <1>2, <3>2, <3>5, <3>6 DEF Span
    <3>8. Named(q) = Named(l) \ P
      BY <1>8, <3>2, <3>3, <3>7, RemoveOne
    <3>9. \A u \in Pages : /\ u \in Named(l) => translate(ram, cr3, u)
                           /\ translate(ram, cr3, u) => u \in Named(l) \cup Image \cup loose
      BY <1>7, <2>3, <3>1 DEF AsInv, RegionsInv
    <3>10. P \subseteq Pages /\ P \subseteq Named(l)
      <4>1. P \subseteq Pages
        <5>1. n \in Nat \ {0}
          BY AddressSpaceAssumption
        <5>2. QED BY <1>1, <1>2, <5>1, PageRange
      <4>2. QED BY <3>2, <3>7, <4>1 DEF Named
    <3>11. \A u \in P : LeafOf(ram, cr3, u) # Nowhere
      BY <3>9, <3>10 DEF translate, EntryOf, Absent
    <3>12. \A u \in P : PageTurned(do, ram, ram', cr3, u)
      <4>1. c.ok
        BY <1>3, <1>4, <3>11 DEF Passed
      <4>2. QED BY <1>1, <1>4, <4>1 DEF Passed
    <3>13. \A u \in P : ~translate(ram', cr3, u)
      BY <1>3, <3>12 DEF PageTurned, Became, translate, Absent
    <3>14. \A u \in Pages : u \notin P => (translate(ram', cr3, u) <=> translate(ram, cr3, u))
      BY <1>1, <1>4 DEF Passed, SameEntry, translate
    <3>15. QED BY <3>8, <3>9, <3>13, <3>14
  <2>4. (Alone' <=> Alone) /\ cr3' = cr3 /\ vma_list'[cur'] = q /\ loose' = loose
    BY <1>1, <1>7 DEF Alone
  <2>5. QED BY <2>1, <2>2, <2>3, <2>4 DEF RegionsInv
<1>14. QED BY <1>5, <1>6, <1>12, <1>13 DEF AsStep, AsInv

LEMMA ProtectStep ==
    ASSUME AsInv, NEW v \in Pages, NEW n \in 1 .. MaxPages, NEW w \in Modes, sys_mprotect(v, n, w), UNCHANGED as_use
    PROVE  AsStep
<1> DEFINE c == Each("protect", cr3, w, AsCompute(ram), v, n)
<1>1. /\ Running /\ v + n - 1 \in Pages /\ ram' = c.ram
      /\ UNCHANGED <<cr3, cur, page_table, state, vma_list, brk, heap, dma, loose, ragged>>
  BY DEF sys_mprotect, Ends, history
<1>2. PICK P : P = v .. v + n - 1
  OBVIOUS
<1>3. PICK do \in UserCalls : do = "protect"
  BY DEF UserCalls
<1>4. Passed(do, cr3, AllRoots, DmaFrames, ram, P, c)
  <2>1. cr3 \in AllRoots
    BY <1>1, AsHere
  <2>2. Passed(do, cr3, AllRoots, DmaFrames, ram, v .. v + n - 1, Each(do, cr3, w, AsCompute(ram), v, n))
    BY <1>1, <2>1, PassesRange
  <2>3. QED BY <1>2, <1>3, <2>2
<1> HIDE DEF c
<1>5. FramesInv' /\ ram' \in Rams /\ cr3' \in Nat
  BY <1>1, <1>4, FramesAfter
<1>6. PagesKept
  <2>1. do \notin {"map", "device"}
    BY <1>3
  <2>2. QED BY <1>1, <1>4, <2>1, PagesAfter
<1>7. AsTyped'
  BY <1>1, <1>5 DEF AsInv, AsTyped
<1>8. \A u \in Pages : translate(ram', cr3, u) <=> translate(ram, cr3, u)
  BY <1>1, <1>3, <1>4 DEF Passed, SameEntry, PageTurned, Became, translate
<1>9. RegionsInv'
  <2>1. (Alone' <=> Alone) /\ \A p \in Procs : SpansApart(vma_list'[p])
    BY <1>1 DEF Alone, AsInv, RegionsInv
  <2>2. Alone' => cr3' = page_table'[cur'] /\ state'[cur'] = "ready"
    BY <1>1, <2>1 DEF AsInv, RegionsInv
  <2>3. ASSUME Alone, ~ragged, NEW u \in Pages
        PROVE  /\ u \in Named(vma_list[cur]) => translate(ram', cr3, u)
               /\ translate(ram', cr3, u) => u \in Named(vma_list[cur]) \cup Image \cup loose
    BY <1>8, <2>3 DEF AsInv, RegionsInv
  <2>4. vma_list'[cur'] = vma_list[cur] /\ cr3' = cr3 /\ loose' = loose /\ ragged' = ragged
    BY <1>1
  <2>5. QED BY <2>1, <2>2, <2>3, <2>4 DEF RegionsInv
<1>10. QED BY <1>5, <1>6, <1>7, <1>9 DEF AsStep, AsInv

LEMMA DeviceStep ==
    ASSUME AsInv, NEW n \in 1 .. MaxPages, sys_mmio_map(n), "mmio" \in as_use, UNCHANGED as_use
    PROVE  AsStep
<1> DEFINE at == find_free_virt_range(ram, n)
           c == Each("device", page_table[cur], TRUE, AsCompute(ram), at, n)
<1>1. /\ Running /\ at # -1 /\ ram' = c.ram /\ cr3' = page_table[cur]
      /\ UNCHANGED <<cur, page_table, state, vma_list, brk, heap, dma, loose, ragged>>
  BY DEF sys_mmio_map, Ends, history
<1>2. at \in Pages /\ at + n - 1 \in Pages /\ \A k \in at .. at + n - 1 : ~translate(ram, cr3, k)
  <2> DEFINE runs == {v \in Pages : /\ v > 0 /\ (Slots * UserRoots - n - v) % Slots = 0 /\ v + n - 1 \in Pages
                                    /\ \A k \in v .. v + n - 1 : ~translate(ram, cr3, k)}
  <2>1. runs # {} /\ at = Max(runs)
    BY <1>1 DEF find_free_virt_range
  <2>2. runs \in SUBSET Nat /\ \A u \in runs : u <= Slots * UserRoots /\ Slots * UserRoots \in Nat
    BY AsNumbers DEF Pages
  <2>3. \E z \in runs : \A b \in runs : z >= b
    <3> HIDE DEF runs
    <3> DEFINE U == {u \in Nat : \A b \in runs : b <= u}
    <3>1. U # {}
      <4>1. Slots * UserRoots \in U
        BY <2>1, <2>2
      <4>2. QED BY <4>1
    <3>2. PICK u \in U : \A z \in U : u <= z
      BY <3>1, LeastMember
    <3>3. u \in runs
      <4>1. SUFFICES ASSUME u \notin runs PROVE FALSE
        OBVIOUS
      <4>2. PICK b \in runs : TRUE
        BY <2>1
      <4>3. u \in Nat /\ b \in Nat /\ b <= u /\ b # u
        BY <2>2, <3>2, <4>1
      <4>4. u - 1 \in Nat /\ \A z \in runs : z <= u - 1
        BY <2>2, <3>2, <4>1, <4>3
      <4>5. u - 1 \in U /\ ~(u <= u - 1)
        BY <4>3, <4>4
      <4>6. QED BY <3>2, <4>5
    <3>4. QED BY <2>2, <3>2, <3>3
  <2>4. at \in runs
    <3> HIDE DEF runs
    <3>1. at = CHOOSE z \in runs : \A b \in runs : z >= b
      BY <2>1 DEF Max
    <3>2. QED BY <2>3, <3>1
  <2>5. QED BY <2>4
<1> HIDE DEF at
<1>3. PICK P : P = at .. at + n - 1
  OBVIOUS
<1>4. PICK do \in UserCalls, w \in Modes, root \in {page_table[cur]} : do = "device" /\ w = TRUE /\ root = page_table[cur]
  <2>1. "device" \in UserCalls /\ TRUE \in Modes
    BY DEF UserCalls, Modes
  <2>2. QED BY <2>1, Zenon
<1>5. Passed(do, root, AllRoots, DmaFrames, ram, P, c)
  <2>1. root \in AllRoots
    BY <1>1, <1>4, AsHere
  <2>2. Passed(do, root, AllRoots, DmaFrames, ram, at .. at + n - 1, Each(do, root, w, AsCompute(ram), at, n))
    BY <1>1, <1>2, <2>1, PassesRange
  <2>3. QED BY <1>3, <1>4, <2>2
<1> HIDE DEF c
<1>6. FramesInv' /\ ram' \in Rams /\ cr3' \in Nat
  BY <1>1, <1>4, <1>5, FramesAfter
<1>7. PagesKept
  <2>1. cr3 = page_table[cur] => root = cr3
    BY <1>4
  <2>2. \A u \in P : ~translate(ram, cr3, u)
    BY <1>2, <1>3
  <2>3. QED BY <1>1, <1>5, <2>1, <2>2, PagesAfter
<1>8. AsTyped'
  BY <1>1, <1>6 DEF AsInv, AsTyped
<1>9. RegionsInv'
  <2>1. ~Alone'
    BY DEF Alone
  <2>2. \A p \in Procs : SpansApart(vma_list'[p])
    BY <1>1 DEF AsInv, RegionsInv
  <2>3. QED BY <2>1, <2>2 DEF RegionsInv
<1>10. QED BY <1>6, <1>7, <1>8, <1>9 DEF AsStep, AsInv

LEMMA ClearStep ==
    ASSUME AsInv, NEW v \in Pages, NEW n \in 1 .. MaxPages, sys_mmio_unmap(v, n), "mmio" \in as_use, UNCHANGED as_use
    PROVE  AsStep
<1> DEFINE c == Each("clear", page_table[cur], FALSE, AsCompute(ram), v, n)
<1>1. /\ Running /\ v + n - 1 \in Pages /\ ram' = c.ram /\ cr3' = page_table[cur]
      /\ UNCHANGED <<cur, page_table, state, vma_list, brk, heap, dma, loose, ragged>>
  BY DEF sys_mmio_unmap, Ends, history
<1>2. PICK P : P = v .. v + n - 1
  OBVIOUS
<1>3. PICK do \in UserCalls, w \in Modes, root \in {page_table[cur]} : do = "clear" /\ w = FALSE /\ root = page_table[cur]
  <2>1. "clear" \in UserCalls /\ FALSE \in Modes
    BY DEF UserCalls, Modes
  <2>2. QED BY <2>1, Zenon
<1>4. Passed(do, root, AllRoots, DmaFrames, ram, P, c)
  <2>1. root \in AllRoots
    BY <1>1, <1>3, AsHere
  <2>2. Passed(do, root, AllRoots, DmaFrames, ram, v .. v + n - 1, Each(do, root, w, AsCompute(ram), v, n))
    BY <1>1, <2>1, PassesRange
  <2>3. QED BY <1>2, <1>3, <2>2
<1> HIDE DEF c
<1>5. FramesInv' /\ ram' \in Rams /\ cr3' \in Nat
  BY <1>1, <1>3, <1>4, FramesAfter
<1>6. PagesKept
  <2>1. (cr3 = page_table[cur] => root = cr3) /\ do \notin {"map", "device"}
    BY <1>3
  <2>2. QED BY <1>1, <1>4, <2>1, PagesAfter
<1>7. AsTyped'
  BY <1>1, <1>5 DEF AsInv, AsTyped
<1>8. RegionsInv'
  <2>1. ~Alone'
    BY DEF Alone
  <2>2. \A p \in Procs : SpansApart(vma_list'[p])
    BY <1>1 DEF AsInv, RegionsInv
  <2>3. QED BY <2>1, <2>2 DEF RegionsInv
<1>9. QED BY <1>5, <1>6, <1>7, <1>8 DEF AsStep, AsInv

(* Where no region and no user page changes, regions and pages agree as they did. *)
LEMMA RegionsAfter ==
    ASSUME AsInv, UNCHANGED <<as_use, cr3, cur, page_table, state, loose, ragged>>,
           \A p \in Procs : SpansApart(vma_list'[p]), Named(vma_list'[cur]) = Named(vma_list[cur]),
           \A u \in Pages : translate(ram', cr3, u) <=> translate(ram, cr3, u)
    PROVE  RegionsInv'
<1>1. Alone' <=> Alone
  BY DEF Alone
<1>2. Alone' => cr3' = page_table'[cur'] /\ state'[cur'] = "ready"
  BY <1>1 DEF AsInv, RegionsInv
<1>3. ASSUME Alone, ~ragged, NEW u \in Pages
      PROVE  /\ u \in Named(vma_list'[cur]) => translate(ram', cr3, u)
             /\ translate(ram', cr3, u) => u \in Named(vma_list'[cur]) \cup Image \cup loose
  BY <1>3 DEF AsInv, RegionsInv
<1>4. QED BY <1>1, <1>2, <1>3 DEF RegionsInv

LEMMA BrkStep ==
    ASSUME AsInv, NEW v \in Pages, sys_brk(v), UNCHANGED as_use
    PROVE  AsStep
<1>1. PICK l, q, old : l = vma_list[cur] /\ q = vma_list'[cur] /\ old = brk[cur]
  OBVIOUS
<1>2. /\ UNCHANGED <<ram, cr3, cur, page_table, state, heap, dma, loose, ragged>>
      /\ brk' = [brk EXCEPT ![cur] = IF old = Nowhere /\ ~find(l, old) THEN v + 1 ELSE v]
      /\ vma_list' = [vma_list EXCEPT ![cur] =
            IF find(l, old) THEN extend_heap(l, v)
            ELSE IF old = Nowhere THEN add(l, Region(v, 1, "heap", TRUE)) ELSE l]
  BY <1>1 DEF sys_brk, history
<1>3. /\ cur \in Procs /\ vma_list \in [Procs -> Seq(Regions)] /\ l \in Seq(Regions) /\ SpansApart(l)
      /\ (\A p \in Procs : SpansApart(vma_list[p])) /\ brk \in [Procs -> Nat] /\ v \in Nat
  BY <1>1, PagePlace DEF AsInv, AsTyped, RegionsInv
<1>4. q \in Seq(Regions) /\ SpansApart(q) /\ Named(q) = Named(l)
  <2>1. CASE find(l, old)
    <3>1. q = extend_heap(l, v)
      BY <1>1, <1>2, <1>3, <2>1
    <3>2. QED BY <1>3, <3>1, ExtendIs
  <2>2. CASE ~find(l, old) /\ old = Nowhere
    <3>1. PICK r : r = Region(v, 1, "heap", TRUE)
      OBVIOUS
    <3>2. q = add(l, r)
      BY <1>1, <1>2, <1>3, <2>2, <3>1
    <3>3. r \in Regions /\ r.size > 0 /\ r.kind = "heap"
      BY <1>3, <3>1 DEF Region, Regions
    <3>4. r.kind = "mmap" => Span(r) \subseteq Pages
      BY <3>3
    <3>5. QED BY ONLY <1>3, <3>2, <3>3, <3>4, AddIs
  <2>3. CASE ~find(l, old) /\ old # Nowhere
    <3>1. q = l
      BY <1>1, <1>2, <1>3, <2>3
    <3>2. QED BY <1>3, <3>1
  <2>4. QED BY <2>1, <2>2, <2>3
<1>5. vma_list' = [vma_list EXCEPT ![cur] = q]
  BY <1>1, <1>2, <1>3
<1>6. vma_list' \in [Procs -> Seq(Regions)] /\ \A p \in Procs : SpansApart(vma_list'[p])
  BY <1>3, <1>4, <1>5
<1>7. brk' \in [Procs -> Nat]
  <2>1. PICK b : b = IF old = Nowhere /\ ~find(l, old) THEN v + 1 ELSE v
    OBVIOUS
  <2>2. b \in Nat
    BY <1>3, <2>1
  <2>3. brk' = [brk EXCEPT ![cur] = b]
    BY <1>2, <2>1
  <2>4. QED BY <1>3, <2>2, <2>3
<1>8. AsTyped'
  BY <1>2, <1>6, <1>7 DEF AsInv, AsTyped
<1>9. FramesInv'
  <2>1. AllRoots' = AllRoots /\ Live' = Live /\ DmaFrames' = DmaFrames
    BY <1>2 DEF AllRoots, Ready, Live, DmaFrames
  <2>2. QED BY <1>2, <2>1 DEF AsInv, FramesInv, Buffer
<1>10. RegionsInv'
  <2>1. Named(vma_list'[cur]) = Named(vma_list[cur])
    BY <1>1, <1>4
  <2>2. QED BY <1>2, <1>6, <2>1, RegionsAfter
<1>11. PagesKept
  BY <1>2 DEF PagesKept
<1>12. QED BY <1>8, <1>9, <1>10, <1>11 DEF AsStep, AsInv

(* Only the heap's table changes. *)
LEMMA UserEntriesSame ==
    ASSUME NEW m \in Rams, NEW n \in Rams, NEW roots, NEW X, Consistent(m, roots, X), n.p4 = m.p4, \A t \in Frames : n.leaf[t] = m.leaf[t]
    PROVE  \A root \in roots, v \in Pages : EntryOf(n, root, v) = EntryOf(m, root, v)
<1>1. SUFFICES ASSUME NEW root \in roots, NEW v \in Pages PROVE EntryOf(n, root, v) = EntryOf(m, root, v)
  OBVIOUS
<1>2. root \in Frames /\ v \div Slots \in Users
  BY PagePlace DEF Consistent, Marked, Rams
<1>3. PICK t : t = m.p4[root][v \div Slots]
  OBVIOUS
<1>4. t # Nowhere => t \in Frames
  <2>1. t # Nowhere => IsTable(m, roots, t)
    BY <1>2, <1>3 DEF IsTable
  <2>2. QED BY <2>1 DEF Consistent, TablesApart, Rams
<1>5. QED BY <1>2, <1>3, <1>4, EntryIs

LEMMA GrowStep ==
    ASSUME AsInv, NEW n \in 1 .. MaxPages, try_grow_locked(n), UNCHANGED as_use
    PROVE  AsStep
<1> DEFINE pages == IF n < MAX_HEAP - heap THEN n ELSE MAX_HEAP - heap
           from == KernelRoot * Slots + heap
           c == Each("grow", cr3, TRUE, AsCompute(ram), from, pages)
<1>1. /\ Running /\ pages > 0 /\ ram' = c.ram
      /\ heap' = Cardinality({k \in 0 .. Slots - 1 : c.ram.leaf[KernelTable][k].to # Nowhere})
      /\ UNCHANGED <<cr3, cur, page_table, state, vma_list, brk, dma, loose, ragged>>
  BY DEF try_grow_locked, Ends, history
<1>2. heap \in Nat /\ MAX_HEAP \in Nat /\ heap <= MAX_HEAP /\ MAX_HEAP <= Slots /\ Slots \in Nat /\ n \in Nat
  BY AsNumbers, AddressSpaceAssumption DEF AsInv, AsTyped
<1>3. pages \in Nat /\ heap + pages <= MAX_HEAP
  BY <1>1, <1>2
<1> HIDE DEF pages
<1>4. c \in GrownTo(AllRoots, DmaFrames, ram, heap, pages)
  <2>1. PICK x, only, w : x = AsCompute(ram) /\ only = from .. from + pages - 1 /\ w = TRUE
    OBVIOUS
  <2>2. /\ x \in Comps /\ x.ok /\ x.ram = ram /\ Consistent(x.ram, AllRoots, DmaFrames) /\ cr3 \in AllRoots
        /\ HeapIs(x.ram, heap)
    BY <1>1, <2>1, AsHere DEF AsInv, FramesInv
  <2>3. heap + pages <= Slots
    BY <1>2, <1>3
  <2>4. PICK z : z = from
    OBVIOUS
  <2>5. Turns("grow", cr3, w, only, x, z, pages)[pages] \in GrownTo(AllRoots, DmaFrames, x.ram, heap, pages)
    <3>1. only = z .. z + pages - 1 /\ z = KernelRoot * Slots + heap
      BY <2>1, <2>4
    <3>2. QED BY ONLY <1>2, <1>3, <2>2, <2>3, <3>1, GrowsAll
  <2>6. c = Turns("grow", cr3, w, only, x, z, pages)[pages]
    BY <2>1, <2>4 DEF Each
  <2>7. QED BY <2>2, <2>5, <2>6
<1> HIDE DEF c
<1>5. /\ c \in Comps /\ ram' \in Rams /\ Consistent(ram', AllRoots, DmaFrames) /\ ram'.p4 = ram.p4
      /\ \A t \in Frames : ram'.leaf[t] = ram.leaf[t]
  BY <1>1, <1>4 DEF GrownTo, Comps
<1>6. PICK l \in heap .. heap + pages : HeapIs(ram', l)
  BY <1>1, <1>4 DEF GrownTo
<1>7. heap' = l /\ l \in 0 .. MAX_HEAP
  <2>1. l \in Nat /\ l <= MAX_HEAP /\ l <= Slots
    BY <1>2, <1>3
  <2>2. {k \in 0 .. Slots - 1 : ram'.leaf[KernelTable][k].to # Nowhere} = 0 .. l - 1
    <3>1. \A k \in 0 .. Slots - 1 : ram'.leaf[KernelTable][k].to # Nowhere <=> k < l
      BY <1>6, AsNumbers DEF HeapIs, Cells
    <3>2. QED BY <1>2, <2>1, <3>1
  <2>3. Cardinality(0 .. l - 1) = l
    <3>1. Cardinality(0 .. l - 1) = (IF 0 > l - 1 THEN 0 ELSE (l - 1) - 0 + 1)
      BY <2>1, FS_Interval
    <3>2. QED BY <2>1, <3>1
  <2>4. heap' = Cardinality({k \in 0 .. Slots - 1 : ram'.leaf[KernelTable][k].to # Nowhere})
    BY <1>1
  <2>5. heap' = l
    BY ONLY <2>2, <2>3, <2>4
  <2>6. QED BY <1>2, <2>1, <2>5
<1>8. AllRoots' = AllRoots /\ Live' = Live /\ DmaFrames' = DmaFrames
  BY <1>1 DEF AllRoots, Ready, Live, DmaFrames
<1>9. FramesInv'
  <2>1. HeapIs(ram', heap')
    BY <1>6, <1>7
  <2>2. Covers(ram', page_table'[cur'], cr3')
    <3>1. Covers(ram, page_table[cur], cr3)
      BY <1>1 DEF AsInv, FramesInv, Running
    <3>2. QED BY <1>1, <1>5, <3>1 DEF Covers
  <2>3. (\A p, q \in Live : page_table[p] = page_table[q] => p = q)'
    BY <1>1, <1>8 DEF AsInv, FramesInv
  <2>4. (\A a, b \in dma : a # b => Buffer(a) \cap Buffer(b) = {})'
    BY <1>1 DEF AsInv, FramesInv, Buffer
  <2>5. Consistent(ram', AllRoots', DmaFrames')
    BY <1>5, <1>8
  <2>6. QED BY <2>1, <2>2, <2>3, <2>4, <2>5 DEF FramesInv
<1>10. \A u \in Pages : EntryOf(ram', cr3, u) = EntryOf(ram, cr3, u)
  <2>1. ram \in Rams /\ Consistent(ram, AllRoots, DmaFrames) /\ cr3 \in AllRoots
    BY <1>1, AsHere
  <2>2. QED BY <1>5, <2>1, UserEntriesSame
<1>11. AsTyped'
  BY <1>1, <1>5, <1>7 DEF AsInv, AsTyped
<1>12. RegionsInv'
  <2>1. (\A p \in Procs : SpansApart(vma_list'[p])) /\ Named(vma_list'[cur]) = Named(vma_list[cur])
    BY <1>1 DEF AsInv, RegionsInv
  <2>2. \A u \in Pages : translate(ram', cr3, u) <=> translate(ram, cr3, u)
    BY <1>10 DEF translate
  <2>3. QED BY <1>1, <2>1, <2>2, RegionsAfter
<1>13. PagesKept
  BY <1>10 DEF PagesKept
<1>14. QED BY <1>9, <1>11, <1>12, <1>13 DEF AsStep, AsInv

(* Frames are marked and released and no table changes. *)
LEMMA MarksStep ==
    ASSUME AsInv, Running, UNCHANGED <<as_use, cr3, cur, page_table, state, vma_list, brk, heap, loose, ragged>>,
           ram' \in Rams, ram'.p4 = ram.p4, ram'.leaf = ram.leaf, Consistent(ram', AllRoots, DmaFrames'),
           dma' \subseteq [at : Frames, n : Nat \ {0}], \A a, b \in dma' : a # b => Buffer(a) \cap Buffer(b) = {}
    PROVE  AsStep
<1>1. AllRoots' = AllRoots /\ Live' = Live
  BY DEF AllRoots, Ready, Live
<1>2. FramesInv'
  <2>1. HeapIs(ram', heap')
    BY DEF AsInv, FramesInv, HeapIs
  <2>2. Covers(ram', page_table'[cur'], cr3')
    BY DEF AsInv, FramesInv, Running, Covers
  <2>3. (\A p, q \in Live : page_table[p] = page_table[q] => p = q)'
    BY <1>1 DEF AsInv, FramesInv
  <2>4. (\A a, b \in dma : a # b => Buffer(a) \cap Buffer(b) = {})'
    BY DEF Buffer
  <2>5. Consistent(ram', AllRoots', DmaFrames')
    BY <1>1
  <2>6. QED BY <2>1, <2>2, <2>3, <2>4, <2>5 DEF FramesInv
<1>3. \A u \in Pages : EntryOf(ram', cr3, u) = EntryOf(ram, cr3, u)
  BY DEF EntryOf, LeafOf
<1>4. AsTyped'
  BY DEF AsInv, AsTyped
<1>5. RegionsInv'
  <2>1. (\A p \in Procs : SpansApart(vma_list'[p])) /\ Named(vma_list'[cur]) = Named(vma_list[cur])
    BY DEF AsInv, RegionsInv
  <2>2. \A u \in Pages : translate(ram', cr3, u) <=> translate(ram, cr3, u)
    BY <1>3 DEF translate
  <2>3. QED BY <2>1, <2>2, RegionsAfter
<1>6. PagesKept
  BY <1>3 DEF PagesKept
<1>7. QED BY <1>2, <1>4, <1>5, <1>6 DEF AsStep, AsInv

LEMMA TakeStep ==
    ASSUME AsInv, NEW n \in 1 .. MaxPages, alloc_dma(n), UNCHANGED as_use
    PROVE  AsStep
<1> DEFINE c == Each("take", Nowhere, TRUE, AsCompute(ram), 1, n)
           took == c.ram.bitmap \ ram.bitmap
<1>1. /\ Running /\ c.ok /\ Max(took) - Min(took) = n - 1 /\ ram' = c.ram
      /\ dma' = dma \cup {[at |-> Min(took), n |-> n]}
      /\ UNCHANGED <<cr3, cur, page_table, state, vma_list, brk, heap, loose, ragged>>
  BY DEF alloc_dma, Ends, history
<1>2. n \in Nat \ {0} /\ n \in Nat /\ 1 \in Nat
  BY AddressSpaceAssumption
<1>3. c \in TakenIn(ram, n)
  <2>1. PICK x, only, w, one : x = AsCompute(ram) /\ only = 1 .. 1 + n - 1 /\ w = TRUE /\ one = 1
    OBVIOUS
  <2>2. x \in Comps /\ x.ok /\ x.ram = ram
    BY <1>1, <2>1, AsHere
  <2>3. Turns("take", Nowhere, w, only, x, one, n)[n] \in TakenIn(x.ram, n)
    <3>1. one \in Nat /\ only = one .. one + n - 1
      BY <2>1
    <3>2. QED BY ONLY <1>2, <2>2, <3>1, TakesAll
  <2>4. c = Turns("take", Nowhere, w, only, x, one, n)[n]
    BY <2>1 DEF Each
  <2>5. QED BY <2>2, <2>3, <2>4
<1> HIDE DEF c
<1>4. /\ ram' \in Rams /\ ram'.p4 = ram.p4 /\ ram'.leaf = ram.leaf /\ ram.bitmap \subseteq ram'.bitmap
      /\ Cardinality(took) = n /\ took \in SUBSET Frames /\ took = ram'.bitmap \ ram.bitmap
  BY <1>1, <1>3 DEF TakenIn, Comps, Rams
<1> HIDE DEF took
<1>5. PICK b : b = [at |-> Min(took), n |-> n]
  OBVIOUS
<1>6. Min(took) \in Frames /\ took = Min(took) .. Min(took) + n - 1
  BY <1>1, <1>2, <1>4, InARow
<1>7. b \in [at : Frames, n : Nat \ {0}] /\ Buffer(b) = took /\ dma' = dma \cup {b}
  BY <1>1, <1>2, <1>5, <1>6 DEF Buffer
<1>8. DmaFrames' = DmaFrames \cup took
  <2>1. \A f : f \in DmaFrames' <=> f \in DmaFrames \/ f \in took
    BY <1>7 DEF DmaFrames, Buffer
  <2>2. QED BY <2>1
<1>9. Consistent(ram', AllRoots, DmaFrames')
  <2>1. Consistent(ram, AllRoots, DmaFrames) /\ ram \in Rams /\ DmaFrames \subseteq ram.bitmap
    BY <1>1, AsHere
  <2>2. PICK m, k, X, Y : m = ram /\ k = ram' /\ X = DmaFrames /\ Y = DmaFrames'
    OBVIOUS
  <2>3. /\ Y \subseteq k.bitmap /\ X \cap m.bitmap \subseteq Y \cup (m.bitmap \ k.bitmap)
        /\ Y \subseteq X \cup (k.bitmap \ m.bitmap) /\ m.bitmap \ k.bitmap \subseteq X
    BY <1>4, <1>8, <2>1, <2>2
  <2>4. Consistent(k, AllRoots, Y)
    BY <1>4, <2>1, <2>2, <2>3, Remarked
  <2>5. QED BY <2>2, <2>4
<1>10. \A a, d \in dma' : a # d => Buffer(a) \cap Buffer(d) = {}
  <2>1. \A a \in dma : Buffer(a) \subseteq ram.bitmap
    <3>1. \A a \in dma : Buffer(a) \subseteq DmaFrames
      BY DEF DmaFrames, Buffer
    <3>2. QED BY <1>1, <3>1, AsHere
  <2>2. \A a \in dma : Buffer(a) \cap Buffer(b) = {}
    BY <1>4, <1>7, <2>1
  <2>3. QED BY <1>7, <2>2 DEF AsInv, FramesInv
<1>11. dma' \subseteq [at : Frames, n : Nat \ {0}]
  BY <1>7 DEF AsInv, AsTyped
<1>12. QED BY <1>1, <1>4, <1>9, <1>10, <1>11, MarksStep

LEMMA GiveStep ==
    ASSUME AsInv, NEW b \in dma, free_dma(b), UNCHANGED as_use
    PROVE  AsStep
<1> DEFINE c == Each("free", Nowhere, FALSE, AsCompute(ram), b.at, b.n)
<1>1. /\ Running /\ ram' = c.ram /\ dma' = dma \ {b}
      /\ UNCHANGED <<cr3, cur, page_table, state, vma_list, brk, heap, loose, ragged>>
  BY DEF free_dma, Ends, history
<1>2. b.at \in Nat /\ b.n \in Nat /\ b.at \in Frames
  BY AsNumbers DEF AsInv, AsTyped
<1>3. Buffer(b) \subseteq DmaFrames /\ DmaFrames \subseteq ram.bitmap /\ DmaFrames \subseteq Frames
  BY <1>1, AsHere DEF DmaFrames, Buffer, Rams
<1>4. c \in FreedIn(ram, b.at, b.n)
  <2>1. PICK x, only, w, at, n : x = AsCompute(ram) /\ only = at .. at + n - 1 /\ w = FALSE /\ at = b.at /\ n = b.n
    OBVIOUS
  <2>2. x \in Comps /\ x.ram = ram /\ only \subseteq Frames /\ at \in Nat /\ n \in Nat
    BY <1>1, <1>2, <1>3, <2>1, AsHere DEF Buffer
  <2>3. Turns("free", Nowhere, w, only, x, at, n)[n] \in FreedIn(x.ram, at, n)
    <3>1. only = at .. at + n - 1
      BY <2>1
    <3>2. QED BY ONLY <2>2, <3>1, FreesAll
  <2>4. c = Turns("free", Nowhere, w, only, x, at, n)[n]
    BY <2>1 DEF Each
  <2>5. QED BY <2>1, <2>2, <2>3, <2>4
<1> HIDE DEF c
<1>5. ram' \in Rams /\ ram'.p4 = ram.p4 /\ ram'.leaf = ram.leaf /\ ram'.bitmap = ram.bitmap \ Buffer(b)
  BY <1>1, <1>4 DEF FreedIn, Comps, Buffer
<1>6. DmaFrames' = DmaFrames \ Buffer(b)
  <2>1. \A a \in dma : a # b => Buffer(a) \cap Buffer(b) = {}
    BY DEF AsInv, FramesInv
  <2>2. \A f : f \in DmaFrames' <=> \E a \in dma : a # b /\ f \in Buffer(a)
    BY <1>1 DEF DmaFrames, Buffer
  <2>3. \A f : f \in DmaFrames <=> \E a \in dma : f \in Buffer(a)
    BY DEF DmaFrames, Buffer
  <2>4. \A f : f \in DmaFrames' <=> f \in DmaFrames /\ f \notin Buffer(b)
    BY ONLY <2>1, <2>2, <2>3
  <2>5. QED BY <2>4
<1>7. Consistent(ram', AllRoots, DmaFrames')
  <2>1. Consistent(ram, AllRoots, DmaFrames) /\ ram \in Rams
    BY <1>1, AsHere
  <2>2. PICK m, k, X, Y : m = ram /\ k = ram' /\ X = DmaFrames /\ Y = DmaFrames'
    OBVIOUS
  <2>3. /\ Y \subseteq k.bitmap /\ X \cap m.bitmap \subseteq Y \cup (m.bitmap \ k.bitmap)
        /\ Y \subseteq X \cup (k.bitmap \ m.bitmap) /\ m.bitmap \ k.bitmap \subseteq X
    BY <1>3, <1>5, <1>6, <2>2
  <2>4. Consistent(k, AllRoots, Y)
    BY <1>5, <2>1, <2>2, <2>3, Remarked
  <2>5. QED BY <2>2, <2>4
<1>8. (\A a, d \in dma' : a # d => Buffer(a) \cap Buffer(d) = {}) /\ dma' \subseteq [at : Frames, n : Nat \ {0}]
  BY <1>1 DEF AsInv, FramesInv, AsTyped
<1>9. QED BY <1>1, <1>5, <1>7, <1>8, MarksStep

(* A new P4 has the entries of the one in CR3. *)
LEMMA CreateIs ==
    ASSUME AsInv, Running, NEW t, t = create_user_page_table(AsCompute(ram)), NEW g, g = t.got, t.ok
    PROVE  /\ t \in Comps /\ g \in Frames /\ g \notin ram.bitmap /\ t.ram.leaf = ram.leaf
           /\ t.ram.p4[g] = ram.p4[cr3] /\ (\A r \in Frames : r # g => t.ram.p4[r] = ram.p4[r])
           /\ Consistent(t.ram, AllRoots \cup {g}, DmaFrames)
<1>1. PICK m, x, a : m = ram /\ x = AsCompute(ram) /\ a = alloc_frame(x)
  OBVIOUS
<1>2. /\ x \in Comps /\ x.ok /\ x.ram = m /\ m \in Rams /\ Consistent(m, AllRoots, DmaFrames) /\ cr3 \in AllRoots
      /\ DmaFrames \subseteq m.bitmap /\ cr3 \in Frames
  BY <1>1, AsHere
<1>3. /\ a \in Comps
      /\ a.ok => /\ a.got \in Frames /\ a.got \notin m.bitmap
                 /\ a.ram.bitmap = m.bitmap \cup {a.got} /\ a.ram.p4 = m.p4 /\ a.ram.leaf = m.leaf
  BY <1>1, <1>2, AllocIs
<1>4. a.ok /\ t = [a EXCEPT !.ram.p4[a.got] = m.p4[cr3]]
  <2>1. t = IF a.ok THEN [a EXCEPT !.ram.p4[a.got] = m.p4[cr3]] ELSE a
    BY <1>1, <1>2 DEF create_user_page_table
  <2>2. QED BY <2>1
<1>5. t.got = a.got /\ t.ok = a.ok /\ t.panic = a.panic /\ t.ram = [a.ram EXCEPT !.p4[a.got] = m.p4[cr3]]
  BY <1>4 DEF Comps
<1>6. g = a.got /\ g \in Frames /\ g \notin m.bitmap /\ a.ram \in Rams /\ m.p4[cr3] \in P4s /\ a.ram.p4 \in [Frames -> P4s]
  BY <1>2, <1>3, <1>4, <1>5 DEF Comps, Rams
<1>7. t.ram.bitmap = a.ram.bitmap /\ t.ram.leaf = a.ram.leaf /\ t.ram.p4 = [a.ram.p4 EXCEPT ![g] = m.p4[cr3]]
  BY <1>5, <1>6 DEF Rams
<1>8. t.ram \in Rams
  <2>1. t.ram = [bitmap |-> t.ram.bitmap, p4 |-> t.ram.p4, leaf |-> t.ram.leaf]
    BY <1>5, <1>6 DEF Rams
  <2>2. t.ram.p4 \in [Frames -> P4s]
    BY <1>6, <1>7
  <2>3. a.ram.bitmap \in SUBSET Frames /\ a.ram.leaf \in [Frames \cup {KernelTable} -> LeafTables]
    BY <1>6 DEF Rams
  <2>4. QED BY <1>7, <2>1, <2>2, <2>3 DEF Rams
<1>9. t \in Comps
  <2>1. t = [ram |-> t.ram, ok |-> t.ok, panic |-> t.panic, got |-> t.got]
    BY <1>3, <1>4 DEF Comps
  <2>2. QED BY <1>3, <1>5, <1>8, <2>1 DEF Comps
<1>10. PICK Y : Y = DmaFrames \cup {g}
  OBVIOUS
<1>11. Consistent(a.ram, AllRoots, Y)
  <2>1. PICK k, X : k = a.ram /\ X = DmaFrames
    OBVIOUS
  <2>2. /\ Y \subseteq k.bitmap /\ X \cap m.bitmap \subseteq Y \cup (m.bitmap \ k.bitmap)
        /\ Y \subseteq X \cup (k.bitmap \ m.bitmap) /\ m.bitmap \ k.bitmap \subseteq X
    BY <1>2, <1>3, <1>4, <1>6, <1>10, <2>1
  <2>3. k \in Rams /\ k.p4 = m.p4 /\ k.leaf = m.leaf /\ m \in Rams /\ Consistent(m, AllRoots, X)
    BY <1>2, <1>3, <1>4, <1>6, <2>1
  <2>4. Consistent(k, AllRoots, Y)
    BY ONLY <2>2, <2>3, Remarked
  <2>5. QED BY <2>1, <2>4
<1>12. Consistent(t.ram, AllRoots \cup {g}, Y \ {g})
  <2>1. g \in Y /\ t.ram.p4 = [a.ram.p4 EXCEPT ![g] = a.ram.p4[cr3]]
    BY <1>3, <1>4, <1>7, <1>10
  <2>2. PICK k, n : k = a.ram /\ n = t.ram
    OBVIOUS
  <2>3. k \in Rams /\ n \in Rams /\ Consistent(k, AllRoots, Y) /\ n.bitmap = k.bitmap /\ n.leaf = k.leaf
        /\ n.p4 = [k.p4 EXCEPT ![g] = k.p4[cr3]]
    BY <1>6, <1>7, <1>8, <1>11, <2>1, <2>2
  <2>4. Consistent(n, AllRoots \cup {g}, Y \ {g})
    BY ONLY <1>2, <2>1, <2>3, RootCopied
  <2>5. QED BY <2>2, <2>4
<1>13. Y \ {g} = DmaFrames
  BY <1>2, <1>6, <1>10
<1>14. t.ram.p4[g] = ram.p4[cr3] /\ \A r \in Frames : r # g => t.ram.p4[r] = ram.p4[r]
  BY <1>1, <1>3, <1>4, <1>6, <1>7
<1>15. QED BY <1>1, <1>3, <1>4, <1>6, <1>7, <1>9, <1>12, <1>13, <1>14

LEMMA LoadsAll ==
    ASSUME NEW roots, NEW X, NEW root \in roots, NEW c \in Comps, c.ok, Consistent(c.ram, roots, X), NEW P \in SUBSET Pages
    PROVE  Passed("map", root, roots, X, c.ram, P, load_elf(c, root, P))
<1>1. PICK do \in UserCalls, w \in Modes, n \in {Slots * UserRoots}, from \in {0} : do = "map" /\ w = TRUE /\ n = Slots * UserRoots /\ from = 0
  <2>1. "map" \in UserCalls /\ TRUE \in Modes
    BY DEF UserCalls, Modes
  <2>2. QED BY <2>1, Zenon
<1>2. n \in Nat /\ from \in Nat /\ P \subseteq from .. from + n - 1
  BY <1>1, AsNumbers DEF Pages
<1>3. Passed(do, root, roots, X, c.ram, P, Turns(do, root, w, P, c, from, n)[n])
  BY <1>2, PassesAll
<1>4. QED BY <1>1, <1>3 DEF load_elf

LEMMA ProcessStartStep ==
    ASSUME AsInv, NEW p \in Procs, NEW pages \in SUBSET Pages, as_process_start(p, pages), "start" \in as_use, UNCHANGED as_use
    PROVE  AsStep
<1> DEFINE t == create_user_page_table(AsCompute(ram))
           c == load_elf(t, t.got, pages)
<1>1. /\ Running /\ state[p] = "new"
      /\ IF t.ok THEN /\ ram' = c.ram /\ cr3' = t.got /\ page_table' = [page_table EXCEPT ![p] = t.got]
                      /\ state' = [state EXCEPT ![p] = IF c.ok THEN "ready" ELSE @]
         ELSE UNCHANGED <<ram, cr3, page_table, state>>
      /\ UNCHANGED <<cur, vma_list, brk, heap, dma, loose, ragged>>
  BY DEF as_process_start, Ends, history
<1>2. RegionsInv'
  <2>1. ~Alone'
    BY DEF Alone
  <2>2. \A q \in Procs : SpansApart(vma_list'[q])
    BY <1>1 DEF AsInv, RegionsInv
  <2>3. QED BY <2>1, <2>2 DEF RegionsInv
<1>3. CASE ~t.ok
  <2>1. UNCHANGED <<ram, cr3, page_table, state, cur, vma_list, brk, heap, dma>>
    BY <1>1, <1>3
  <2>2. AsTyped' /\ PagesKept
    BY <2>1 DEF AsInv, AsTyped, PagesKept
  <2>3. AllRoots' = AllRoots /\ Live' = Live /\ DmaFrames' = DmaFrames
    BY <2>1 DEF AllRoots, Ready, Live, DmaFrames
  <2>4. FramesInv'
    BY <2>1, <2>3 DEF AsInv, FramesInv, Buffer
  <2>5. QED BY <1>2, <2>2, <2>4 DEF AsStep, AsInv
<1>4. CASE t.ok
  <2>1. PICK g, T : g = t.got /\ T = t.ram
    OBVIOUS
  <2>2. /\ t \in Comps /\ g \in Frames /\ g \notin ram.bitmap /\ T.leaf = ram.leaf
        /\ T.p4[g] = ram.p4[cr3] /\ (\A r \in Frames : r # g => T.p4[r] = ram.p4[r])
        /\ Consistent(T, AllRoots \cup {g}, DmaFrames)
    BY <1>1, <1>4, <2>1, CreateIs
  <2>3. Passed("map", g, AllRoots \cup {g}, DmaFrames, T, pages, c)
    <3> HIDE DEF t
    <3>1. g \in AllRoots \cup {g} /\ t \in Comps /\ t.ok /\ Consistent(t.ram, AllRoots \cup {g}, DmaFrames)
      BY <1>4, <2>1, <2>2
    <3>2. Passed("map", g, AllRoots \cup {g}, DmaFrames, t.ram, pages, load_elf(t, g, pages))
      BY ONLY <3>1, pages \in SUBSET Pages, LoadsAll
    <3>3. QED BY <2>1, <3>2
  <2> HIDE DEF c
  <2>4. /\ ram' \in Rams /\ Consistent(ram', AllRoots \cup {g}, DmaFrames) /\ Kept(T, ram', g)
    BY <1>1, <1>4, <2>3 DEF Passed, Comps
  <2>5. /\ cr3' = g /\ page_table' = [page_table EXCEPT ![p] = g] /\ p # cur /\ p \notin Live
        /\ state' = [state EXCEPT ![p] = IF c.ok THEN "ready" ELSE @] /\ state[cur] = "ready"
    BY <1>1, <1>4, <2>1 DEF Running, Live
  <2> HIDE DEF t
  <2>6. /\ page_table \in [Procs -> Nat] /\ state \in [Procs -> {"new", "ready", "gone"}] /\ cur \in Procs /\ g \in Nat
        /\ Ready \subseteq ram.bitmap /\ cr3 \in ram.bitmap /\ cr3 \in Frames
    BY <1>1, <2>2, AsHere, AsNumbers DEF AsInv, AsTyped
  <2>7. /\ page_table' \in [Procs -> Nat] /\ page_table'[p] = g /\ \A q \in Procs : q # p => page_table'[q] = page_table[q]
    BY <2>5, <2>6
  <2>8. state' \in [Procs -> {"new", "ready", "gone"}] /\ \A q \in Procs : q # p => state'[q] = state[q]
    <3>1. PICK z \in {"new", "ready", "gone"} : z = IF c.ok THEN "ready" ELSE state[p]
      BY <2>6
    <3>2. state' = [state EXCEPT ![p] = z]
      BY <2>5, <3>1
    <3>3. QED BY <2>6, <3>2
  <2>9. \A q \in Live' : q = p \/ (q \in Live /\ q # p)
    BY <2>8 DEF Live
  <2>10. \A q \in Live : page_table[q] \in Ready /\ page_table[q] # g /\ q \in Procs
    BY <2>2, <2>6 DEF Ready, Live
  <2>11. \A q, r \in Live' : page_table'[q] = page_table'[r] => q = r
    <3>1. \A q, r \in Live : page_table[q] = page_table[r] => q = r
      BY DEF AsInv, FramesInv
    <3>2. QED BY <2>7, <2>9, <2>10, <3>1
  <2>12. AllRoots' \in SUBSET (AllRoots \cup {g})
    <3>1. Ready' \subseteq Ready \cup {g}
      <4>1. \A q \in Live' : page_table'[q] \in Ready \cup {g}
        BY <2>7, <2>9, <2>10
      <4>2. QED BY <4>1 DEF Ready
    <3>2. AllRoots' \subseteq Ready' \cup {g} /\ Ready \subseteq AllRoots
      BY <2>5 DEF AllRoots
    <3>3. QED BY <3>1, <3>2
  <2>13. DmaFrames' = DmaFrames
    BY <1>1 DEF DmaFrames
  <2>14. Consistent(ram', AllRoots', DmaFrames')
    <3>1. DmaFrames' \in SUBSET DmaFrames
      BY <2>13
    <3>2. QED BY <2>4, <2>12, <3>1, Fewer
  <2>15. HeapIs(ram', heap')
    <3>1. HeapIs(ram, heap) /\ ram'.leaf[KernelTable] = ram.leaf[KernelTable]
      BY <2>2, <2>4 DEF AsInv, FramesInv, Kept
    <3>2. QED BY <1>1, <3>1 DEF HeapIs
  <2>16. Covers(ram', page_table'[cur'], cr3')
    <3>1. PICK r : r = page_table[cur]
      OBVIOUS
    <3>2. Covers(ram, r, cr3) /\ r # g /\ r \in Frames
      BY <1>1, <2>2, <3>1, AsHere DEF AsInv, FramesInv, Running
    <3>3. ram'.p4[r] = ram.p4[r] /\ T.p4[g] = ram.p4[cr3]
      BY <2>2, <2>4, <3>2 DEF Kept
    <3>4. Covers(ram', r, g)
      BY <2>4, <3>2, <3>3 DEF Covers, Kept
    <3>5. QED BY <1>1, <2>5, <2>6, <2>7, <3>1, <3>4
  <2>17. \A a, b \in dma' : a # b => Buffer(a) \cap Buffer(b) = {}
    BY <1>1 DEF AsInv, FramesInv
  <2>18. FramesInv'
    <3>1. (\A a, b \in dma : a # b => Buffer(a) \cap Buffer(b) = {})'
      BY <2>17 DEF Buffer
    <3>2. QED BY <2>11, <2>14, <2>15, <2>16, <3>1 DEF FramesInv
  <2>19. AsTyped'
    BY <1>1, <2>4, <2>5, <2>6, <2>7, <2>8 DEF AsInv, AsTyped
  <2>20. PagesKept
    BY <2>2, <2>5, <2>6 DEF PagesKept
  <2>21. QED BY <1>2, <2>18, <2>19, <2>20 DEF AsStep, AsInv
<1>5. QED BY <1>3, <1>4

(* No table of the running task is its own: CR3 has them all. *)
LEMMA NothingOwn ==
    ASSUME NEW c, NEW root, NEW own, own = {}
    PROVE  FreeTables(c, root, own)[UserRoots] = c
<1> DEFINE Next1(h, r) == IF r - 1 \in own THEN FreeTable(h[r - 1], c.ram.p4[root][r - 1]) ELSE h[r - 1]
           Is(h) == h = [r \in 0 .. UserRoots |-> IF r = 0 THEN c ELSE Next1(h, r)]
           g == FreeTables(c, root, own)
<1>0. UserRoots \in Nat
  BY AsNumbers
<1>1. g = CHOOSE h : Is(h)
  BY DEF FreeTables
<1>2. PICK f : f = [r \in 0 .. UserRoots |-> c]
  OBVIOUS
<1>3. \A h, r : Next1(h, r) = h[r - 1]
  OBVIOUS
<1> HIDE DEF Next1
<1>4. Is(f)
  <2>1. \A r \in 0 .. UserRoots : r # 0 => Next1(f, r) = c
    <3>1. \A r \in 0 .. UserRoots : r # 0 => r - 1 \in 0 .. UserRoots
      BY <1>0
    <3>2. QED BY <1>2, <1>3, <3>1
  <2>2. QED BY <1>2, <2>1
<1>5. Is(g)
  <2> HIDE DEF Is, g
  <2>1. QED BY <1>1, <1>4
<1> HIDE DEF g
<1>6. g[0] = c /\ \A r \in 1 .. UserRoots : g[r] = g[r - 1]
  <2>1. \A r \in 0 .. UserRoots : g[r] = IF r = 0 THEN c ELSE Next1(g, r)
    BY <1>5
  <2>2. 0 \in 0 .. UserRoots /\ \A r \in 1 .. UserRoots : r \in 0 .. UserRoots /\ r # 0
    BY <1>0
  <2>3. QED BY ONLY <1>3, <2>1, <2>2, ZenonT(30)
<1> HIDE DEF Is
<1> DEFINE S == {r \in 0 .. UserRoots : g[r] = c}
<1>7. \A r \in 0 .. UserRoots : r \in S
  <2>1. 0 \in S
    BY <1>0, <1>6
  <2>2. ASSUME NEW r \in 0 .. UserRoots - 1, r \in S PROVE r + 1 \in S
    <3>1. r + 1 \in 1 .. UserRoots /\ r + 1 \in 0 .. UserRoots /\ (r + 1) - 1 = r /\ g[r] = c
      BY <1>0, <2>2
    <3>2. g[r + 1] = g[r]
      BY <1>6, <3>1
    <3>3. QED BY <3>1, <3>2
  <2> HIDE DEF S
  <2>3. QED BY <1>0, <2>1, <2>2, Induct
<1>8. UserRoots \in 0 .. UserRoots
  BY <1>0
<1>9. QED BY <1>7, <1>8 DEF g

LEMMA ExitStep ==
    ASSUME AsInv, as_process_exit, "start" \in as_use, UNCHANGED as_use
    PROVE  AsStep
<1>1. PICK x, root, c : x = AsCompute(ram) /\ root = page_table[cur] /\ c = free_user_page_table(x, root)
  OBVIOUS
<1>2. /\ Running /\ ram' = c.ram /\ page_table' = [page_table EXCEPT ![cur] = Nowhere]
      /\ state' = [state EXCEPT ![cur] = "gone"]
      /\ UNCHANGED <<cr3, cur, vma_list, brk, heap, dma, loose, ragged>>
  BY <1>1 DEF as_process_exit, Ends, history
<1>3. /\ x \in Comps /\ x.ok /\ x.ram = ram /\ ram \in Rams /\ Consistent(ram, AllRoots, DmaFrames) /\ root \in Frames
      /\ root \in AllRoots /\ root \in Ready /\ cur \in Live /\ cur \in Procs
      /\ page_table \in [Procs -> Nat] /\ state \in [Procs -> {"new", "ready", "gone"}]
  BY <1>1, <1>2, AsHere DEF AsInv, AsTyped
<1>4. c = free_frame(x, root)
  <2>1. PICK own : own = {r \in 0 .. UserRoots - 1 : x.ram.p4[root][r] # Nowhere /\ x.ram.p4[root][r] # x.ram.p4[cr3][r]}
    OBVIOUS
  <2>2. Covers(ram, root, cr3)
    BY <1>1, <1>2 DEF AsInv, FramesInv, Running
  <2>3. own = {}
    BY <1>3, <2>1, <2>2 DEF Covers, Users
  <2>4. c = free_frame(FreeTables(x, root, own)[UserRoots], root)
    BY <1>1, <2>1 DEF free_user_page_table
  <2>5. QED BY <2>3, <2>4, NothingOwn
<1>5. ram' \in Rams /\ ram'.bitmap = ram.bitmap \ {root} /\ ram'.p4 = ram.p4 /\ ram'.leaf = ram.leaf
  <2>1. c \in Comps /\ c.ram.bitmap = x.ram.bitmap \ {root} /\ c.ram.p4 = x.ram.p4 /\ c.ram.leaf = x.ram.leaf
    BY ONLY <1>3, <1>4, FreeIs
  <2>2. QED BY <1>2, <1>3, <2>1 DEF Comps
<1>6. page_table' \in [Procs -> Nat] /\ page_table'[cur] = Nowhere /\ \A q \in Procs : q # cur => page_table'[q] = page_table[q]
  BY <1>2, <1>3 DEF Nowhere
<1>7. state' \in [Procs -> {"new", "ready", "gone"}] /\ state'[cur] = "gone" /\ \A q \in Procs : q # cur => state'[q] = state[q]
  BY <1>2, <1>3
<1>8. \A q : q \in Live' <=> q \in Live /\ q # cur
  BY <1>7 DEF Live
<1>9. \A q, r \in Live : page_table[q] = page_table[r] => q = r
  BY DEF AsInv, FramesInv
<1>10. AllRoots' \in SUBSET AllRoots /\ root \notin AllRoots'
  <2>1. AllRoots' = Ready'
    BY <1>2, <1>7 DEF AllRoots
  <2>2. \A q \in Live' : page_table'[q] \in Ready /\ page_table'[q] # root
    <3>1. ASSUME NEW q \in Live' PROVE page_table'[q] \in Ready /\ page_table'[q] # root
      <4>1. q \in Live /\ q # cur /\ q \in Procs
        BY <1>8 DEF Live
      <4>2. page_table[q] \in Ready
        BY <4>1 DEF Ready
      <4>3. page_table[q] # root
        BY <1>1, <1>3, <1>9, <4>1
      <4>4. QED BY <1>6, <4>1, <4>2, <4>3
    <3>2. QED BY <3>1
  <2>3. Ready' \subseteq Ready /\ root \notin Ready'
    BY <2>2 DEF Ready
  <2>4. Ready \subseteq AllRoots
    BY DEF AllRoots
  <2>5. QED BY <2>1, <2>3, <2>4
<1>11. DmaFrames' = DmaFrames
  BY <1>2 DEF DmaFrames
<1>12. Consistent(ram', AllRoots', DmaFrames')
  <2>1. PICK m, k, Q, X : m = ram /\ k = ram' /\ Q = AllRoots' /\ X = DmaFrames
    OBVIOUS
  <2>2. Consistent(m, Q, X) /\ X \in SUBSET X
    BY <1>3, <1>10, <2>1, Fewer
  <2>3. root \notin Q /\ root \notin X /\ Q \subseteq AllRoots
    BY <1>3, <1>10, <2>1 DEF Consistent, Marked
  <2>4. \A t : IsTable(m, Q, t) => IsTable(m, AllRoots, t)
    BY <2>3 DEF IsTable
  <2>5. \A t : IsLeaf(m, Q, t) => IsLeaf(m, AllRoots, t)
    BY <2>4 DEF IsLeaf
  <2>6. \A t : IsTable(m, Q, t) => t # root
    BY <1>3, <2>1, <2>4 DEF Consistent, TablesApart
  <2>7. \A t : IsLeaf(m, Q, t) => \A i \in Cells : m.leaf[t][i].to \in Frames => m.leaf[t][i].to # root
    BY <1>3, <2>1, <2>5 DEF Consistent, PagesApart
  <2>8. k.p4 = m.p4 /\ k.leaf = m.leaf /\ k.bitmap = m.bitmap \ {root}
    BY <1>5, <2>1
  <2>9. (\A t : IsTable(k, Q, t) <=> IsTable(m, Q, t)) /\ (\A t : IsLeaf(k, Q, t) <=> IsLeaf(m, Q, t))
    BY <2>8 DEF IsTable, IsLeaf
  <2>10. Marked(k, Q, X)
    BY <2>2, <2>3, <2>8 DEF Consistent, Marked
  <2>11. TablesApart(k, Q, X)
    BY <2>2, <2>6, <2>8, <2>9 DEF Consistent, TablesApart
  <2>12. PagesApart(k, Q, X)
    <3>1. PagesApart(m, Q, X)
      BY <2>2 DEF Consistent
    <3>2. QED BY <2>7, <2>8, <2>9, <3>1 DEF PagesApart
  <2>13. Consistent(k, Q, X)
    BY <2>10, <2>11, <2>12 DEF Consistent
  <2>14. QED BY <1>11, <2>1, <2>13
<1>13. FramesInv'
  <2>1. HeapIs(ram', heap')
    BY <1>2, <1>5 DEF AsInv, FramesInv, HeapIs
  <2>2. \A q, r \in Live' : page_table'[q] = page_table'[r] => q = r
    BY <1>6, <1>8, <1>9 DEF Live
  <2>3. (\A a, b \in dma : a # b => Buffer(a) \cap Buffer(b) = {})'
    BY <1>2 DEF AsInv, FramesInv, Buffer
  <2>4. state'[cur'] # "ready"
    BY <1>2, <1>7
  <2>5. QED BY <1>12, <2>1, <2>2, <2>3, <2>4 DEF FramesInv
<1>14. AsTyped'
  BY <1>2, <1>5, <1>6, <1>7 DEF AsInv, AsTyped
<1>15. RegionsInv'
  <2>1. ~Alone'
    BY DEF Alone
  <2>2. \A q \in Procs : SpansApart(vma_list'[q])
    BY <1>2 DEF AsInv, RegionsInv
  <2>3. QED BY <2>1, <2>2 DEF RegionsInv
<1>16. PagesKept
  <2>1. page_table' # page_table
    BY <1>1, <1>3, <1>6, AsNumbers
  <2>2. QED BY <2>1 DEF PagesKept
<1>17. QED BY <1>13, <1>14, <1>15, <1>16 DEF AsStep, AsInv

-----------------------------------------------------------------------------
LEMMA BootIs ==
    /\ BootRam \in Rams /\ Consistent(BootRam, {1}, {})
    /\ \A k \in Cells : BootRam.leaf[KernelTable][k].to = Nowhere
    /\ \A v \in Pages : EntryOf(BootRam, 1, v) = Absent
<1>1. PICK m : m = BootRam
  OBVIOUS
<1>2. /\ m.bitmap = {1} /\ m.p4 = [f \in Frames |-> BootP4] /\ m.leaf = [f \in Frames \cup {KernelTable} |-> NoTable]
      /\ m = [bitmap |-> m.bitmap, p4 |-> m.p4, leaf |-> m.leaf]
  BY <1>1 DEF BootRam
<1>3. BootP4 \in P4s /\ (\A i \in Users : BootP4[i] = Nowhere) /\ BootP4[KernelRoot] = KernelTable
  <2>1. KernelTable \in 0 .. NumFrames + 1 /\ Nowhere \in 0 .. NumFrames + 1 /\ KernelRoot \in 0 .. UserRoots
    BY AsNumbers DEF KernelTable, Nowhere, KernelRoot
  <2>2. \A i \in Users : i \in 0 .. UserRoots /\ i # KernelRoot
    BY AsNumbers DEF Users, KernelRoot
  <2>3. QED BY <2>1, <2>2 DEF BootP4, P4s
<1>4. NoTable \in LeafTables /\ \A k \in Cells : NoTable[k].to = Nowhere
  <2>1. Absent \in Entries /\ Absent.to = Nowhere
    BY AsNumbers DEF Absent, Entries, Nowhere
  <2>2. QED BY <2>1 DEF NoTable, LeafTables, Cells
<1>5. 1 \in Frames /\ Nowhere \notin Frames
  BY AsNumbers
<1>6. m \in Rams
  <2>1. m.p4 \in [Frames -> P4s] /\ m.leaf \in [Frames \cup {KernelTable} -> LeafTables] /\ m.bitmap \in SUBSET Frames
    BY <1>2, <1>3, <1>4, <1>5
  <2>2. QED BY <1>2, <2>1 DEF Rams
<1>7. m.p4[1] = BootP4 /\ m.leaf[KernelTable] = NoTable
  BY <1>2, <1>5
<1>8. \A t : ~IsTable(m, {1}, t)
  BY <1>3, <1>7 DEF IsTable
<1>9. \A t : IsLeaf(m, {1}, t) => t = KernelTable
  BY <1>8 DEF IsLeaf
<1>10. Marked(m, {1}, {})
  BY <1>2, <1>3, <1>7 DEF Marked
<1>11. TablesApart(m, {1}, {})
  <2>1. \A r, q \in {1}, i, j \in Users : m.p4[r][i] # Nowhere /\ m.p4[r][i] = m.p4[q][j] => i = j
    BY <1>3, <1>7
  <2>2. QED BY <1>8, <2>1 DEF TablesApart
<1>12. PagesApart(m, {1}, {})
  <2>1. \A t : IsLeaf(m, {1}, t) => \A k \in Cells : m.leaf[t][k].to \notin Frames
    BY <1>4, <1>5, <1>7, <1>9
  <2>2. QED BY <2>1 DEF PagesApart
<1>13. \A v \in Pages : EntryOf(m, 1, v) = Absent
  <2>1. \A v \in Pages : m.p4[1][v \div Slots] = Nowhere
    BY <1>3, <1>7, PagePlace
  <2>2. QED BY <1>5, <1>6, <2>1, EntryIs
<1>14. QED BY <1>1, <1>4, <1>6, <1>7, <1>10, <1>11, <1>12, <1>13 DEF Consistent

LEMMA StartsSound ==
    ASSUME AsInit
    PROVE  AsInv
<1>1. PICK c, x : c = load_elf(x, 1, Image) /\ x = AsCompute(BootRam)
  OBVIOUS
<1>2. /\ ram = c.ram /\ cr3 = 1 /\ cur = first /\ page_table = [p \in Procs |-> IF p = first THEN 1 ELSE Nowhere]
      /\ state = [p \in Procs |-> IF p = first THEN "ready" ELSE "new"]
      /\ vma_list = [p \in Procs |-> <<>>] /\ brk = [p \in Procs |-> Nowhere] /\ heap = 0 /\ dma = {} /\ loose = {}
  BY <1>1 DEF AsInit
<1>3. x \in Comps /\ x.ok /\ x.ram = BootRam
  BY <1>1, BootIs, AsNumbers DEF AsCompute, Comps, Nowhere
<1>4. PICK roots, X, root : roots = {1} /\ X = {} /\ root = 1
  OBVIOUS
<1>5. Passed("map", root, roots, X, BootRam, Image, c)
  <2>1. root \in roots /\ Consistent(x.ram, roots, X) /\ Image \in SUBSET Pages
    BY <1>3, <1>4, BootIs, AddressSpaceAssumption DEF Pages
  <2>2. Passed("map", root, roots, X, x.ram, Image, load_elf(x, root, Image))
    BY ONLY <1>3, <2>1, LoadsAll
  <2>3. QED BY <1>1, <1>3, <1>4, <2>2
<1>6. ram \in Rams /\ Consistent(ram, {1}, {}) /\ Kept(BootRam, ram, 1)
  BY <1>2, <1>4, <1>5 DEF Passed, Comps
<1>7. first \in Procs /\ MAX_HEAP \in Nat
  BY AddressSpaceAssumption
<1>8. Live = {first} /\ state[cur] = "ready" /\ page_table[first] = 1
  BY <1>2, <1>7 DEF Live
<1>9. Ready = {1} /\ AllRoots = {1} /\ DmaFrames = {}
  <2>1. Ready = {1}
    BY <1>8 DEF Ready
  <2>2. QED BY <1>2, <1>8, <2>1 DEF AllRoots, DmaFrames
<1>10. AsTyped
  <2>1. page_table \in [Procs -> Nat] /\ state \in [Procs -> {"new", "ready", "gone"}] /\ brk \in [Procs -> Nat]
    BY <1>2 DEF Nowhere
  <2>2. vma_list \in [Procs -> Seq(Regions)]
    BY <1>2
  <2>3. QED BY <1>2, <1>6, <1>7, <2>1, <2>2 DEF AsTyped
<1>11. FramesInv
  <2>1. HeapIs(ram, heap)
    BY <1>2, <1>6, BootIs DEF HeapIs, Kept, Cells
  <2>2. Covers(ram, page_table[cur], cr3)
    BY <1>2, <1>8 DEF Covers
  <2>3. (\A p, q \in Live : page_table[p] = page_table[q] => p = q) /\ \A a, b \in dma : a # b => Buffer(a) \cap Buffer(b) = {}
    BY <1>2, <1>8
  <2>4. QED BY <1>6, <1>9, <2>1, <2>2, <2>3 DEF FramesInv
<1>12. RegionsInv
  <2>1. \A p \in Procs : SpansApart(vma_list[p]) /\ Named(vma_list[p]) = {}
    BY <1>2 DEF SpansApart, Named
  <2>2. ASSUME NEW v \in Pages, translate(ram, cr3, v) PROVE v \in Image
    <3>1. SameEntry(BootRam, ram, 1, v) \/ v \in Image
      BY <1>2, <1>4, <1>5 DEF Passed
    <3>2. SameEntry(BootRam, ram, 1, v) => ~translate(ram, cr3, v)
      BY <1>2, BootIs DEF SameEntry, translate, Absent
    <3>3. QED BY <2>2, <3>1, <3>2
  <2>3. cr3 = page_table[cur] /\ state[cur] = "ready" /\ cur \in Procs
    BY <1>2, <1>7, <1>8
  <2>4. QED BY <2>1, <2>2, <2>3 DEF RegionsInv
<1>13. QED BY <1>10, <1>11, <1>12 DEF AsInv

LEMMA StepsSound ==
    ASSUME AsInv, [AsNext]_as_vars
    PROVE  AsStep
<1>1. CASE UNCHANGED as_vars
  <2>1. UNCHANGED <<as_use, ram, cr3, cur, page_table, state, vma_list, brk, heap, dma, loose, ragged>>
    BY <1>1 DEF as_vars
  <2>2. AsTyped' /\ PagesKept
    BY <2>1 DEF AsInv, AsTyped, PagesKept
  <2>3. AllRoots' = AllRoots /\ Live' = Live /\ DmaFrames' = DmaFrames
    BY <2>1 DEF AllRoots, Ready, Live, DmaFrames
  <2>4. FramesInv'
    BY <2>1, <2>3 DEF AsInv, FramesInv, Buffer
  <2>5. RegionsInv'
    BY <2>1, RegionsAfter DEF AsInv, RegionsInv
  <2>6. QED BY <2>2, <2>4, <2>5 DEF AsStep, AsInv
<1>2. CASE AsNext
  <2>0. UNCHANGED as_use /\ TRUE \in Modes /\ Image \in SUBSET Pages /\ Big \in SUBSET Pages
    BY <1>2, AddressSpaceAssumption DEF AsNext, Modes, Pages
  <2>1. ASSUME "start" \in as_use, NEW p \in Procs, as_process_start(p, Image) \/ as_process_start(p, Big) PROVE AsStep
    BY <2>0, <2>1, ProcessStartStep
  <2>2. ASSUME "start" \in as_use, as_process_exit PROVE AsStep
    BY <2>0, <2>2, ExitStep
  <2>3. ASSUME "start" \in as_use, NEW p \in Procs, Switch(p) PROVE AsStep
    BY <2>0, <2>3, SwitchStep
  <2>4. ASSUME NEW v \in Pages, sys_brk(v) PROVE AsStep
    BY <2>0, <2>4, BrkStep
  <2>5. ASSUME NEW v \in Pages, NEW n \in 1 .. MaxPages, sys_mmap(v, n, TRUE) PROVE AsStep
    <3>1. PICK w \in Modes : w = TRUE
      BY <2>0, Zenon
    <3>2. sys_mmap(v, n, w)
      BY <2>5, <3>1
    <3>3. QED BY <2>0, <3>2, MapStep
  <2>6. ASSUME NEW v \in Pages, NEW n \in 1 .. MaxPages, sys_munmap(v, n) PROVE AsStep
    BY <2>0, <2>6, UnmapStep
  <2>7. ASSUME NEW v \in Pages, NEW n \in 1 .. MaxPages, NEW w \in BOOLEAN, sys_mprotect(v, n, w) PROVE AsStep
    <3>1. w \in Modes
      BY DEF Modes
    <3>2. QED BY <2>0, <2>7, <3>1, ProtectStep
  <2>8. ASSUME "mmio" \in as_use, NEW n \in 1 .. MaxPages, sys_mmio_map(n) PROVE AsStep
    BY <2>0, <2>8, DeviceStep
  <2>9. ASSUME "mmio" \in as_use, NEW v \in Pages, NEW n \in 1 .. MaxPages, sys_mmio_unmap(v, n) PROVE AsStep
    BY <2>0, <2>9, ClearStep
  <2>10. ASSUME NEW n \in 1 .. MaxPages, try_grow_locked(n) \/ alloc_dma(n) PROVE AsStep
    BY <2>0, <2>10, GrowStep, TakeStep
  <2>11. ASSUME NEW b \in dma, free_dma(b) PROVE AsStep
    BY <2>0, <2>11, GiveStep
  <2>12. QED BY <1>2, <2>1, <2>2, <2>3, <2>4, <2>5, <2>6, <2>7, <2>8, <2>9, <2>10, <2>11 DEF AsNext
<1>3. QED BY <1>1, <1>2

(* The kernel's table holds as many frames as the heap has pages. *)
LEMMA HeapCounted ==
    ASSUME AsInv
    PROVE  heap = Cardinality(LeavesOf(KernelTable))
<1> DEFINE L == LeavesOf(KernelTable)
<1>1. PICK h \in Nat : h = heap /\ h <= Slots
  BY AsNumbers DEF AsInv, AsTyped
<1>2. PICK f : f = [k \in 0 .. h - 1 |-> ram.leaf[KernelTable][k].to]
  OBVIOUS
<1>3. \A k \in 0 .. h - 1 : k \in Cells
  BY <1>1, AsNumbers DEF Cells
<1>4. \A k \in Cells : IF k < h THEN ram.leaf[KernelTable][k].to \in Frames ELSE ram.leaf[KernelTable][k].to = Nowhere
  BY <1>1 DEF AsInv, FramesInv, HeapIs
<1>5. \A z : z \in L <=> z \in Frames /\ \E k \in Cells : z = ram.leaf[KernelTable][k].to
  BY DEF LeavesOf, Cells
<1> HIDE DEF L
<1>6. f \in [0 .. h - 1 -> L]
  BY <1>2, <1>3, <1>4, <1>5
<1>7. \A i, j \in 0 .. h - 1 : f[i] = f[j] => i = j
  <2>1. IsLeaf(ram, AllRoots, KernelTable) /\ PagesApart(ram, AllRoots, DmaFrames)
    BY DEF IsLeaf, AsInv, FramesInv, Consistent
  <2>2. \A i, j \in Cells : ram.leaf[KernelTable][i].to \in Frames /\ ram.leaf[KernelTable][i].to = ram.leaf[KernelTable][j].to => i = j
    BY <2>1 DEF PagesApart
  <2>3. \A i \in 0 .. h - 1 : ram.leaf[KernelTable][i].to \in Frames
    BY <1>3, <1>4
  <2>4. QED BY <1>2, <1>3, <2>2, <2>3
<1>8. \A z \in L : \E k \in 0 .. h - 1 : f[k] = z
  <2>1. ASSUME NEW z \in L PROVE \E k \in 0 .. h - 1 : f[k] = z
    <3>1. PICK k \in Cells : z = ram.leaf[KernelTable][k].to /\ z \in Frames
      BY <1>5
    <3>2. k < h
      BY <1>4, <3>1, AsNumbers
    <3>3. k \in 0 .. h - 1
      BY <3>2, AsNumbers DEF Cells
    <3>4. QED BY <1>2, <3>1, <3>3
  <2>2. QED BY <2>1
<1>9. f \in Bijection(0 .. h - 1, L)
  BY <1>6, <1>7, <1>8, Fun_IsBij
<1>10. IsFiniteSet(0 .. h - 1) /\ Cardinality(0 .. h - 1) = h
  <2>1. IsFiniteSet(0 .. h - 1) /\ Cardinality(0 .. h - 1) = (IF 0 > h - 1 THEN 0 ELSE (h - 1) - 0 + 1)
    BY FS_Interval
  <2>2. QED BY <2>1
<1>11. Cardinality(L) = h
  BY <1>9, <1>10, FS_Bijection DEF ExistsBijection
<1>12. QED BY <1>1, <1>11 DEF L

LEMMA FramesSound ==
    ASSUME AsInv
    PROVE  OneUsePerFrame
<1> DEFINE tables == UNION {TablesOf(r) : r \in Ready}
           pages == UNION {LeavesOf(t) : t \in tables}
           kernel == LeavesOf(KernelTable)
           all == <<Ready, tables, pages, kernel, DmaFrames>>
<1>1. Consistent(ram, Ready, DmaFrames)
  <2>1. Ready \in SUBSET AllRoots /\ DmaFrames \in SUBSET DmaFrames
    BY DEF AllRoots
  <2>2. QED BY <2>1, Fewer DEF AsInv, FramesInv
<1>2. \A t : t \in tables <=> IsTable(ram, Ready, t)
  BY DEF TablesOf, IsTable, Users
<1> HIDE DEF tables
<1>3. \A z : z \in kernel <=> z \in Frames /\ \E k \in Cells : z = ram.leaf[KernelTable][k].to
  BY DEF LeavesOf, Cells
<1>4. \A z : z \in pages <=> z \in Frames /\ \E t \in tables, k \in Cells : z = ram.leaf[t][k].to
  BY DEF LeavesOf, Cells
<1> HIDE DEF kernel, pages
<1>5. \A t \in tables : IsLeaf(ram, Ready, t) /\ t # KernelTable /\ t \in ram.bitmap /\ t \notin Ready /\ t \notin DmaFrames
  <2>1. ram.bitmap \subseteq Frames
    BY DEF AsInv, AsTyped, Rams
  <2>2. QED BY <1>1, <1>2, <2>1, AsNumbers DEF Consistent, TablesApart, IsLeaf
<1>6. IsLeaf(ram, Ready, KernelTable)
  BY DEF IsLeaf
<1>7. \A t : IsLeaf(ram, Ready, t) => \A k \in Cells : ram.leaf[t][k].to \in Frames =>
         /\ ram.leaf[t][k].to \in ram.bitmap /\ ram.leaf[t][k].to \notin Ready /\ ram.leaf[t][k].to \notin DmaFrames
         /\ ram.leaf[t][k].to \notin tables
  BY <1>1, <1>2 DEF Consistent, PagesApart
<1>8. \A t, u : IsLeaf(ram, Ready, t) /\ IsLeaf(ram, Ready, u) => \A j, k \in Cells :
         ram.leaf[t][j].to \in Frames /\ ram.leaf[t][j].to = ram.leaf[u][k].to => t = u /\ j = k
  BY <1>1 DEF Consistent, PagesApart
<1>9. \A z \in kernel : z \in ram.bitmap /\ z \notin Ready /\ z \notin DmaFrames /\ z \notin tables
  BY <1>3, <1>6, <1>7
<1>10. \A z \in pages : z \in ram.bitmap /\ z \notin Ready /\ z \notin DmaFrames /\ z \notin tables
  BY <1>4, <1>5, <1>7
<1>11. \A z \in pages : z \notin kernel
  BY <1>3, <1>4, <1>5, <1>6, <1>8
<1>12. Ready \subseteq ram.bitmap /\ DmaFrames \subseteq ram.bitmap /\ Ready \cap DmaFrames = {}
  BY <1>1 DEF Consistent, Marked
<1>13. all[1] = Ready /\ all[2] = tables /\ all[3] = pages /\ all[4] = kernel /\ all[5] = DmaFrames
  OBVIOUS
<1> HIDE DEF all
<1>14. \A k \in 1 .. 5 : k = 1 \/ k = 2 \/ k = 3 \/ k = 4 \/ k = 5
  OBVIOUS
<1>15. UNION {all[k] : k \in 1 .. 5} \subseteq ram.bitmap
  <2>1. \A k \in 1 .. 5 : all[k] \subseteq ram.bitmap
    BY <1>5, <1>9, <1>10, <1>12, <1>13, <1>14
  <2>2. QED BY <2>1
<1>16. \A j, k \in 1 .. 5 : j # k => all[j] \cap all[k] = {}
  <2>1. /\ Ready \cap tables = {} /\ Ready \cap pages = {} /\ Ready \cap kernel = {} /\ tables \cap pages = {}
        /\ tables \cap kernel = {} /\ tables \cap DmaFrames = {} /\ pages \cap kernel = {} /\ pages \cap DmaFrames = {}
        /\ kernel \cap DmaFrames = {}
    BY <1>5, <1>9, <1>10, <1>11
  <2>2. \A A, B : A \cap B = B \cap A
    OBVIOUS
  <2>3. QED BY <1>12, <1>13, <1>14, <2>1, <2>2
<1>17. \A t, u \in tables : \A r, k \in 0 .. Slots - 1 :
          ram.leaf[t][r].to = ram.leaf[u][k].to /\ ram.leaf[t][r].to \in Frames => t = u /\ r = k
  BY <1>5, <1>8 DEF Cells
<1>18. heap = Cardinality(kernel)
  BY HeapCounted DEF kernel
<1>19. QED BY <1>15, <1>16, <1>17, <1>18 DEF OneUsePerFrame, Ready, all, tables, pages, kernel

LEMMA RegionsSound ==
    ASSUME AsInv
    PROVE  RegionsMatchPages
<1>1. SUFFICES ASSUME "start" \notin as_use, "mmio" \notin as_use, ~ragged PROVE RegionsMatchPages
  BY DEF RegionsMatchPages
<1>2. PICK l : l = vma_list[cur]
  OBVIOUS
<1> DEFINE mapped == {v \in Pages : translate(ram, cr3, v)}
           regions == {l[k] : k \in {j \in 1 .. Len(l) : l[j].kind = "mmap"}}
           named == UNION {r.start .. r.start + r.size - 1 : r \in regions}
<1>3. SpansApart(l)
  BY <1>2 DEF AsInv, AsTyped, RegionsInv
<1>4. named = Named(l)
  <2>1. \A v : v \in named <=> \E k \in 1 .. Len(l) : l[k].kind = "mmap" /\ v \in Span(l[k])
    BY DEF Span
  <2> HIDE DEF named
  <2>2. \A v : v \in named => v \in Pages
    BY <1>3, <2>1 DEF SpansApart
  <2>3. QED BY <2>1, <2>2 DEF Named
<1>5. \A v \in Pages : /\ v \in Named(l) => translate(ram, cr3, v)
                       /\ translate(ram, cr3, v) => v \in Named(l) \cup Image \cup loose
  BY <1>1, <1>2 DEF AsInv, RegionsInv, Alone
<1>6. Named(l) \subseteq Pages
  BY DEF Named
<1>7. named \subseteq mapped /\ mapped \subseteq named \cup Image \cup loose
  <2> HIDE DEF named
  <2>1. QED BY <1>4, <1>5, <1>6
<1>8. QED BY <1>2, <1>7 DEF RegionsMatchPages

\* AddressSpace.MemorySound, for any number of processes, frames and table entries and any
\* programs: no frame is a table and a page, a heap page or a DMA buffer at once, nor two pages
\* (frame_alloc.rs, free_user_page_table, try_grow_locked, alloc_dma), and a lone task's regions
\* are the pages it has mapped (sys_mmap, sys_munmap, VmaList).
THEOREM MemoryIsSound == AsSpec => []MemorySound
<1>1. AsInit => AsInv
  BY StartsSound
<1>2. AsInv /\ [AsNext]_as_vars => AsInv'
  BY StepsSound DEF AsStep
<1>3. AsInv => MemorySound
  BY FramesSound, RegionsSound DEF MemorySound
<1>4. QED BY <1>1, <1>2, <1>3, PTL DEF AsSpec

\* AddressSpace.MappedPagesStay, for any sizes: a call made by a task that runs on its own table
\* never replaces the frame of a page that is mapped before and after it (find_free_range,
\* find_free_virt_range, map_page_user, protect_page_user).
THEOREM PagesStay == AsSpec => MappedPagesStay
<1>1. AsInit => AsInv
  BY StartsSound
<1>2. AsInv /\ [AsNext]_as_vars => AsInv'
  BY StepsSound DEF AsStep
<1>3. AsInv /\ [AsNext]_as_vars => PagesKept
  BY StepsSound DEF AsStep
<1>4. AsSpec => [][PagesKept]_as_vars
  BY <1>1, <1>2, <1>3, PTL DEF AsSpec
<1>5. QED BY <1>4 DEF MappedPagesStay, PagesKept
=============================================================================
