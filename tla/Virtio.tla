------------------------------- MODULE Virtio -------------------------------
(***************************************************************************)
(* The split virtqueue (drivers/virtio.rs) and the two drivers on top of   *)
(* it, virtio_net.rs (queues rx and tx) and virtio_block.rs (queue blk),   *)
(* with the device as a second actor that reads the available ring and     *)
(* writes the used ring at any moment.                                     *)
(*                                                                         *)
(* A driver call holds the driver's lock.  It is cut where the device can  *)
(* see a difference: the descriptor and the ring slot are written first,   *)
(* the ring index is moved in a step of its own (the release fence of      *)
(* submit_and_notify), and do_sector_io spins until the used ring moves.   *)
(*                                                                         *)
(* The device takes descriptors in ring order and completes them in any.   *)
(* It counts ring slots modulo VQ_SIZE, as the drivers assume.             *)
(***************************************************************************)
EXTENDS Integers, Sequences, SequencesExt

CONSTANTS
    VQ_SIZE,
    IdxSpan,          \* 2^16 in the code: ring indices are u16 and wrap
    Frames,           \* Ethernet frames
    VqSectors, VqValues,  \* of the disk
    VqUses              \* the sets of queues whose drivers are at work

Queues == {"rx", "tx", "blk"}

ASSUME VirtioAssumption ==
    /\ VQ_SIZE \in Nat \ {0, 1, 2}
    /\ IdxSpan \in Nat /\ IdxSpan > VQ_SIZE /\ IdxSpan % VQ_SIZE = 0
    /\ VqValues # {} /\ VqUses \subseteq SUBSET Queues

Desc == 0 .. VQ_SIZE - 1
END == VQ_SIZE          \* the code's 0xFFFF
None == "none"

VARIABLES
    vq_use,     \* the queues at work in this behaviour
    vq,      \* the drivers' VirtQueue of each queue, with its three rings
    step,    \* "idle", the queue whose ring index is to be moved next, or
             \* "wait": do_sector_io spins on the used ring
    buf,     \* buf[q][d]: the buffer of descriptor d of the network queues
    blk,     \* the block driver's buffer frame: header, data and status byte
    vq_answer,  \* result of the last send_frame or do_sector_io
    seen,    \* the device's position in each available ring
    taken,   \* descriptors the device works on, in the order it took them
    vq_disk,    \* the sectors on the device
    came     \* history: what the device put in each buffer of rx's used ring, None
             \* for an empty one, until receive_frame takes it

vq_vars == <<vq_use, vq, step, buf, blk, vq_answer, seen, taken, vq_disk, came>>

(* VirtQueue::new: a free list through all descriptors and empty rings. *)
new ==
    [next |-> [d \in Desc |-> d + 1], free_head |-> 0, num_free |-> VQ_SIZE,
     ring |-> [d \in Desc |-> 0], avail |-> 0,
     used |-> [d \in Desc |-> [id |-> 0, len |-> "full"]], idx |-> 0, next_used |-> 0]

(* virtio_net::init hands every receive descriptor to the device. *)
Presubmitted ==
    [new EXCEPT !.next = [d \in Desc |-> END], !.free_head = END, !.num_free = 0,
                !.ring = [d \in Desc |-> d], !.avail = VQ_SIZE]

VqInit ==
    /\ vq_use \in VqUses
    /\ vq = [q \in Queues |-> IF q = "rx" THEN Presubmitted ELSE new]
    /\ step = "idle"
    /\ buf = [q \in {"rx", "tx"} |-> [d \in Desc |-> None]]
    /\ blk = [write |-> FALSE, sector |-> None, data |-> None, status |-> "ok"]
    /\ vq_answer = <<>>
    /\ seen = [q \in Queues |-> 0]
    /\ taken = [q \in Queues |-> <<>>]
    /\ vq_disk = [s \in VqSectors |-> CHOOSE v \in VqValues : TRUE]
    /\ came = <<>>

-----------------------------------------------------------------------------
(* VirtQueue's methods, as functions of the queue. *)

(* The descriptor allocated is v.free_head. *)
alloc_desc(v) ==
    [v EXCEPT !.free_head = v.next[v.free_head], !.num_free = @ - 1,
              !.next[v.free_head] = END]

free_desc(v, d) ==
    [v EXCEPT !.next[d] = v.free_head, !.free_head = d, !.num_free = @ + 1]

(* submit_and_notify, up to the fence and after it. *)
Offered(v, d) == [v EXCEPT !.ring[v.avail % VQ_SIZE] = d]

Published(v) == [v EXCEPT !.avail = (@ + 1) % IdxSpan]

(* Fault: the index stops at the size of the ring. *)
Polled_Narrow(v) == [v EXCEPT !.next_used = (@ + 1) % VQ_SIZE]

(* poll_used: the element at next_used, when there is one. *)
HasUsed(v) == v.next_used # v.idx
UsedElem(v) == v.used[v.next_used % VQ_SIZE]
Polled(v) == [v EXCEPT !.next_used = (@ + 1) % IdxSpan]

-----------------------------------------------------------------------------
(* Driver calls. *)

Calls(q) == step = "idle" /\ q \in vq_use

submit_and_notify ==
    /\ step \in Queues
    /\ vq' = [vq EXCEPT ![step] = Published(@)]
    /\ step' = IF step = "blk" THEN "wait" ELSE "idle"
    /\ UNCHANGED <<vq_use, buf, blk, vq_answer, seen, taken, vq_disk, came>>

(* send_frame never looks at the used ring of the transmit queue. *)
send_frame(f) ==
    /\ Calls("tx")
    /\ IF vq["tx"].num_free = 0
       THEN vq_answer' = <<"tx queue full">> /\ UNCHANGED <<vq, buf, step>>
       ELSE LET d == vq["tx"].free_head IN
            /\ buf' = [buf EXCEPT !["tx"][d] = f]
            /\ vq' = [vq EXCEPT !["tx"] = Offered(alloc_desc(@), d)]
            /\ step' = "tx"
            /\ vq_answer' = <<"sent">>
    /\ UNCHANGED <<vq_use, blk, seen, taken, vq_disk, came>>

(* receive_frame: a completed buffer is copied out, unless it holds no more *)
(* than the header, and handed back.                                       *)
receive_frame ==
    /\ Calls("rx") /\ HasUsed(vq["rx"])
    /\ LET e == UsedElem(vq["rx"]) IN
       /\ came' = Tail(came)
       /\ vq' = [vq EXCEPT !["rx"] = Offered(Polled(@), e.id)]
    /\ step' = "rx"
    /\ UNCHANGED <<vq_use, buf, blk, vq_answer, seen, taken, vq_disk>>

(* The three descriptors of a request: header, data, status. *)
Chained(v) ==
    LET h == v.free_head
        a == alloc_desc(v)
        d == a.free_head
        b == alloc_desc(a)
        s == b.free_head
    IN  Offered([alloc_desc(b) EXCEPT !.next[h] = d, !.next[d] = s], h)

(* do_sector_io up to the submission. *)
do_sector_io(write, lba, value) ==
    /\ Calls("blk")
    /\ IF vq["blk"].num_free < 3
       THEN vq_answer' = <<"failed">> /\ UNCHANGED <<vq, blk, step>>
       ELSE /\ vq' = [vq EXCEPT !["blk"] = Chained(@)]
            /\ blk' = [write |-> write, sector |-> lba, status |-> "ok",
                       data |-> IF write THEN value ELSE blk.data]
            /\ step' = "blk"
            /\ vq_answer' = <<>>
    /\ UNCHANGED <<vq_use, buf, seen, taken, vq_disk, came>>

(* The descriptors of the chain that starts at h. *)
Chain(v, h) == <<h, v.next[h], v.next[v.next[h]]>>

Result == IF blk.status # "ok" THEN <<"failed">> ELSE <<blk.sector, blk.data>>

Released(v, c) == free_desc(free_desc(free_desc(v, c[1]), c[2]), c[3])

(* Fault: a request that failed is submitted again. *)
sector_io_done_Retries ==
    /\ step = "wait" /\ HasUsed(vq["blk"])
    /\ LET v == vq["blk"]
           h == v.ring[(v.avail - 1) % VQ_SIZE]
       IN  IF blk.status = "ok"
           THEN /\ vq' = [vq EXCEPT !["blk"] = Released(Polled(v), Chain(v, h))]
                /\ vq_answer' = Result
                /\ step' = "idle"
           ELSE /\ vq' = [vq EXCEPT !["blk"] = Offered(Polled(v), h)]
                /\ step' = "blk"
                /\ UNCHANGED vq_answer
    /\ UNCHANGED <<vq_use, buf, blk, seen, taken, vq_disk, came>>

(* do_sector_io once the used ring has moved: whatever the element says,   *)
(* the descriptors of this request are freed.                              *)
sector_io_done ==
    /\ step = "wait" /\ HasUsed(vq["blk"])
    /\ LET v == vq["blk"]
           c == Chain(v, v.ring[(v.avail - 1) % VQ_SIZE])
       IN  vq' = [vq EXCEPT !["blk"] = Released(Polled(v), c)]
    /\ vq_answer' = Result
    /\ step' = "idle"
    /\ UNCHANGED <<vq_use, buf, blk, seen, taken, vq_disk, came>>

-----------------------------------------------------------------------------
(* The device. *)

device_takes(q) ==
    /\ q \in vq_use /\ seen[q] # vq[q].avail
    /\ taken' = [taken EXCEPT ![q] = Append(@, vq[q].ring[seen[q] % VQ_SIZE])]
    /\ seen' = [seen EXCEPT ![q] = (@ + 1) % IdxSpan]
    /\ UNCHANGED <<vq_use, vq, step, buf, blk, vq_answer, vq_disk, came>>

Completes(q, i, len) ==
    /\ i \in DOMAIN taken[q]
    /\ vq' = [vq EXCEPT ![q].used[vq[q].idx % VQ_SIZE] = [id |-> taken[q][i], len |-> len],
                        ![q].idx = (@ + 1) % IdxSpan]
    /\ taken' = [taken EXCEPT ![q] = RemoveAt(@, i)]
    /\ UNCHANGED <<vq_use, step, vq_answer, seen>>

device_sends(i) == Completes("tx", i, "full") /\ UNCHANGED <<buf, blk, vq_disk, came>>

(* A frame from the network, or a completion with nothing in it. *)
device_receives(i, f, len) ==
    /\ "rx" \in vq_use
    /\ Completes("rx", i, len)
    /\ buf' = IF len = "short" THEN buf ELSE [buf EXCEPT !["rx"][taken["rx"][i]] = f]
    /\ came' = Append(came, IF len = "short" THEN None ELSE f)
    /\ UNCHANGED <<blk, vq_disk>>

(* A sector is read or written as a whole, or not at all. *)
device_serves(i, ok) ==
    /\ Completes("blk", i, "full")
    /\ vq_disk' = IF ok /\ blk.write THEN [vq_disk EXCEPT ![blk.sector] = blk.data] ELSE vq_disk
    /\ blk' = [blk EXCEPT !.status = IF ok THEN "ok" ELSE "error",
                          !.data = IF ok /\ ~blk.write THEN vq_disk[blk.sector] ELSE @]
    /\ UNCHANGED <<buf, came>>

Driver ==
    \/ submit_and_notify
    \/ \E f \in Frames : send_frame(f)
    \/ receive_frame
    \/ \E write \in BOOLEAN, s \in VqSectors, x \in VqValues : do_sector_io(write, s, x)
    \/ sector_io_done

Device ==
    \/ \E q \in Queues : device_takes(q)
    \/ \E i \in 1 .. VQ_SIZE : device_sends(i)
    \/ \E i \in 1 .. VQ_SIZE, f \in Frames, len \in {"full", "short"} : device_receives(i, f, len)
    \/ \E i \in 1 .. VQ_SIZE, ok \in BOOLEAN : device_serves(i, ok)

VqNext == Driver \/ Device

(* The device works on what it is given; the driver finishes the call it   *)
(* has begun, since do_sector_io spins and never waits in HLT.             *)
VqFairness ==
    /\ WF_vq_vars(submit_and_notify) /\ WF_vq_vars(sector_io_done)
    /\ WF_vq_vars(device_takes("blk"))
    /\ WF_vq_vars(\E i \in 1 .. VQ_SIZE, ok \in BOOLEAN : device_serves(i, ok))

VqSpec == VqInit /\ [][VqNext]_vq_vars /\ VqFairness

-----------------------------------------------------------------------------
(* The descriptors in each place, as sequences. *)

Span(from, to) == (to - from) % IdxSpan

FreeList(v) ==
    LET walk[k \in 1 .. v.num_free] == IF k = 1 THEN v.free_head
                                     ELSE IF walk[k - 1] = END THEN END ELSE v.next[walk[k - 1]]
    IN  walk

Available(q) == [k \in 1 .. Span(seen[q], vq[q].avail) |->
                    vq[q].ring[(seen[q] + k - 1) % VQ_SIZE]]

Finished(v) == [k \in 1 .. Span(v.next_used, v.idx) |->
                   v.used[(v.next_used + k - 1) % VQ_SIZE]]

FinishedIds(v) == [k \in DOMAIN Finished(v) |-> Finished(v)[k].id]

(* Written to the ring, with the index still to be moved. *)
Pending(q) == IF step = q THEN <<vq[q].ring[vq[q].avail % VQ_SIZE]>> ELSE <<>>

(* A request of the block driver has two more descriptors behind its first. *)
Linked(v, heads) == [k \in DOMAIN heads |-> v.next[heads[k]]]
Heads(q) == Pending(q) \o Available(q) \o taken[q] \o FinishedIds(vq[q])

VqPlaces(q) ==
    <<FreeList(vq[q]), Pending(q), Available(q), taken[q], FinishedIds(vq[q])>>
        \o (IF q = "blk" THEN <<Linked(vq[q], Heads(q)), Linked(vq[q], Linked(vq[q], Heads(q)))>> ELSE <<>>)

(* Types, and the bounds of the free list. *)
VqTypeOK ==
    /\ \A q \in Queues :
          /\ vq[q].next \in [Desc -> Desc \cup {END}] /\ vq[q].ring \in [Desc -> Desc]
          /\ vq[q].free_head \in Desc \cup {END} /\ vq[q].num_free \in 0 .. VQ_SIZE
          /\ {vq[q].avail, vq[q].idx, vq[q].next_used, seen[q]} \subseteq 0 .. IdxSpan - 1
          /\ taken[q] \in Seq(Desc)
    /\ step \in Queues \cup {"idle", "wait"}
    /\ buf \in [{"rx", "tx"} -> [Desc -> Frames \cup {None}]]
    /\ vq_disk \in [VqSectors -> VqValues]

(* Every descriptor of a queue is in exactly one place: the free list, the *)
(* slot being published, the available ring, the device, or the used ring. *)
(* The free list is as long as num_free says and has no cycle; nothing is  *)
(* handed out twice and nothing is lost, across the wrap of the indices.   *)
OneOwner ==
    \A q \in vq_use : LET places == VqPlaces(q) IN
        /\ \A i \in DOMAIN places : IsInjective(places[i])
        /\ \A i, j \in DOMAIN places : i # j => ToSet(places[i]) \cap ToSet(places[j]) = {}
        /\ UNION {ToSet(places[i]) : i \in DOMAIN places} = Desc

(* A frame that is complete stays as the device wrote it until             *)
(* receive_frame returns it, and frames are received in the order of       *)
(* completion, each once.                                                  *)
ReceivedIntact ==
    LET done == Finished(vq["rx"])
    IN  /\ Len(came) = Len(done)
        /\ \A k \in DOMAIN done : done[k].len = "full" => buf["rx"][done[k].id] = came[k]

(* The driver never writes a transmit buffer the device may still read:    *)
(* what goes out is the frame send_frame was called with.                  *)
SentIntact ==
    [][\A d \in ToSet(Available("tx")) \cup ToSet(taken["tx"]) \cup ToSet(Pending("tx")) : buf'["tx"][d] = buf["tx"][d]]_vq_vars

(* What a successful do_sector_io read or wrote is what the sector holds,  *)
(* and the request's own buffers, not those of an earlier one, decide it.  *)
AnswersTrue ==
    vq_answer \in VqSectors \X VqValues => vq_disk[vq_answer[1]] = vq_answer[2]

(* The spin loop of do_sector_io ends. *)
RequestEnds == step = "wait" ~> step = "idle"

(* The rings at any time: every descriptor with one owner, and what the    *)
(* drivers report is what the device did.                                  *)
QueuesIntact == VqTypeOK /\ OneOwner /\ ReceivedIntact /\ AnswersTrue

(* What is under way stays as it was given until the device is done with   *)
(* it, and a disk request comes to an end.                                 *)
TransfersComplete == SentIntact /\ RequestEnds
=============================================================================
