------------------------------ MODULE Drivers -------------------------------
(* Device discovery and the network driver in user space: the PCI bus as the  *)
(* kernel (drivers/pci.rs) and as the device manager (user/devmgr) see it, the *)
(* driver (user/net_driver) that asks the manager for its device, and the two  *)
(* virtqueues the driver shares with the device while clients send and         *)
(* receive frames through it.                                                 *)
EXTENDS Integers, Sequences, FiniteSets, SequencesExt, TLC

CONSTANTS
    Buses,          \* the buses a machine may have: slot -> [0..7 -> function], "none" where empty
    Absent,         \* a function that is not there (vendor 0xFFFF)
    MAX_DEVICES,    \* what the manager's table holds
    VQ_SIZE,        \* descriptors of a queue
    IdxMod,         \* the ring indices wrap at this value, a multiple of VQ_SIZE
    DrvFrames,      \* frames that clients send and the network delivers
    MaxFrames,      \* bound: frames sent, and frames received, in a behaviour
    CapPtrs,        \* places of capabilities in configuration space
    CapSteps        \* how many links find_pci_capability follows

VARIABLES
    drv_use,        \* "manager", "send", "receive" or "msi"
    bus, devices,   \* the bus, and what the manager found on it
    finder,         \* the driver asking: its question's index, what it knows
    tx, rx,         \* the queues
    wire,           \* frames accepted from clients, put on the wire, arrived, given to clients
    caps, msi       \* a device's capabilities: ptr -> [id, next], and its MSI state

manager_vars == <<bus, devices, finder>>
queue_vars == <<tx, rx, wire>>
msi_vars == <<caps, msi>>
drv_vars == <<drv_use, manager_vars, queue_vars, msi_vars>>

(* ----------------------------------------------------------------- the bus *)
Slots(b) == [i \in 1..Len(b) |-> i]
\* The kernel looks at the other functions of a device that says it has several.
Functions(d) == IF d.functions[1] = Absent THEN <<>>
                ELSE IF d.multi THEN SelectSeq(d.functions, LAMBDA f : f # Absent) ELSE <<d.functions[1]>>
scan_bus == FoldLeft(LAMBDA found, i : found \o Functions(bus[i]), <<>>, Slots(bus))
find_device(id) == SelectInSeq(scan_bus, LAMBDA f : f.id = id)
\* The manager asks function 0 of each slot of bus 0 and keeps what its table holds.
scan_pci_bus ==
    /\ devices = <<>>
    /\ LET first == [i \in 1..Len(bus) |-> bus[i].functions[1]]
           present == SelectSeq(first, LAMBDA f : f # Absent)
       IN devices' = SubSeq(present, 1, IF Len(present) < MAX_DEVICES THEN Len(present) ELSE MAX_DEVICES)
    /\ finder' = [finder EXCEPT !.state = "list"] /\ UNCHANGED bus

\* The bytes of a device in an answer, by their offset.
encode_device(d) == (0 :> "vendor" @@ 2 :> d.id @@ 7 :> d.bar @@ 31 :> d.irq)
handle_request(msg) ==
    CASE msg.kind = "list" -> (0 :> Len(devices))
      [] msg.kind = "get" /\ msg.index < Len(devices) -> encode_device(devices[msg.index + 1])
      [] OTHER -> (0 :> 255)
\* find_virtio_net: one question per device; a call that fails passes a device over.
ask_list(failed) ==
    /\ finder.state = "list"
    /\ finder' = IF failed THEN [finder EXCEPT !.state = "none"]
                 ELSE [finder EXCEPT !.state = "get", !.count = handle_request([kind |-> "list"])[0]]
    /\ UNCHANGED <<bus, devices>>
ask_device(failed) ==
    /\ finder.state = "get" /\ finder.index < finder.count
    /\ LET reply == handle_request([kind |-> "get", index |-> finder.index]) IN
       finder' = IF ~failed /\ 31 \in DOMAIN reply /\ reply[2] = "net"
                 THEN [finder EXCEPT !.state = "found", !.bar = reply[7]]
                 ELSE [finder EXCEPT !.index = @ + 1, !.missed = @ \/ failed]
    /\ UNCHANGED <<bus, devices>>
give_up ==
    /\ finder.state = "get" /\ finder.index >= finder.count
    /\ finder' = [finder EXCEPT !.state = "none"] /\ UNCHANGED <<bus, devices>>

(* --------------------------------------------------------------- the queues *)
Descs == 0..(VQ_SIZE - 1)
\* Virtqueue::new and init_descriptors; dev is how far the device has come in avail.
init_descriptors == [next |-> [d \in Descs |-> (d + 1) % VQ_SIZE], free_head |-> 0, num_free |-> VQ_SIZE,
                     bufs |-> [d \in Descs |-> <<>>], avail |-> [d \in Descs |-> 0], avail_idx |-> 0,
                     used |-> [d \in Descs |-> 0], used_pub |-> 0, used_idx |-> 0, dev |-> 0]
\* init_queue gives all of queue 0 to the device.
init_queue == [init_descriptors EXCEPT !.avail = [d \in Descs |-> d], !.avail_idx = VQ_SIZE % IdxMod]
alloc_desc(q) == [q EXCEPT !.free_head = q.next[q.free_head], !.num_free = @ - 1]
\* Fault: a descriptor that is given back is not linked in.
free_desc_Lost(q, d) == [q EXCEPT !.free_head = d, !.num_free = @ + 1]
free_desc(q, d) == [q EXCEPT !.next[d] = q.free_head, !.free_head = d, !.num_free = @ + 1]
submit(q, d) == [q EXCEPT !.avail[q.avail_idx % VQ_SIZE] = d, !.avail_idx = (@ + 1) % IdxMod]
HasUsed(q) == q.used_idx # q.used_pub
UsedDesc(q) == q.used[q.used_idx % VQ_SIZE]
poll_used(q) == [q EXCEPT !.used_idx = (@ + 1) % IdxMod]
RECURSIVE reclaim_used(_)
reclaim_used(q) == IF HasUsed(q) THEN reclaim_used(free_desc(poll_used(q), UsedDesc(q))) ELSE q

\* NET_REQ_SEND: no free descriptor is an error; used ones are reclaimed after the send.
send_frame(f) ==
    /\ Len(wire.accepted) < MaxFrames /\ tx.num_free > 0
    /\ LET d == tx.free_head
           q == [alloc_desc(tx) EXCEPT !.bufs[d] = f, !.next[d] = 0]
       IN tx' = reclaim_used(submit(q, d))
    /\ wire' = [wire EXCEPT !.accepted = Append(@, f)] /\ UNCHANGED rx
\* NET_REQ_RECV: one used buffer is copied out and given back to the device.
recv_frame ==
    /\ HasUsed(rx)
    /\ LET d == UsedDesc(rx) IN
       /\ rx' = submit(poll_used(rx), d)
       /\ wire' = IF rx.bufs[d] = "short" THEN wire ELSE [wire EXCEPT !.given = Append(@, rx.bufs[d])]
    /\ UNCHANGED tx
\* The device takes the next descriptor that was offered and puts it into the used ring.
Complete(q, d) == [q EXCEPT !.used[q.used_pub % VQ_SIZE] = d, !.used_pub = (@ + 1) % IdxMod,
                            !.dev = (@ + 1) % IdxMod]
DeviceSends ==
    /\ tx.dev # tx.avail_idx
    /\ LET d == tx.avail[tx.dev % VQ_SIZE] IN
       tx' = Complete(tx, d) /\ wire' = [wire EXCEPT !.out = Append(@, tx.bufs[d])]
    /\ UNCHANGED rx
DeviceReceives(f) ==
    /\ rx.dev # rx.avail_idx /\ Len(wire.arrived) < MaxFrames
    /\ LET d == rx.avail[rx.dev % VQ_SIZE] IN rx' = Complete([rx EXCEPT !.bufs[d] = f], d)
    /\ wire' = [wire EXCEPT !.arrived = IF f = "short" THEN @ ELSE Append(@, f)] /\ UNCHANGED tx

(* --------------------------------------------------------------------- MSI *)
\* A chain is followed for CapSteps links at most; a pointer below 0x40 or to
\* itself ends it.
RECURSIVE Follow(_, _, _)
Follow(ptr, id, n) ==
    IF n = 0 \/ ptr \notin CapPtrs THEN 0
    ELSE IF caps[ptr].id = id THEN ptr
    ELSE IF caps[ptr].next = ptr THEN 0 ELSE Follow(caps[ptr].next, id, n - 1)
find_pci_capability(id) == Follow(msi.first, id, CapSteps)
enable_msi ==
    /\ msi.state = "off"
    /\ msi' = IF find_pci_capability("msi") = 0 THEN [msi EXCEPT !.state = "failed"]
              ELSE [msi EXCEPT !.state = "on", !.at = find_pci_capability("msi")]
    /\ UNCHANGED caps

DrvInit ==
    /\ drv_use \in {"manager", "send", "receive", "msi"}
    /\ bus \in (IF drv_use = "manager" THEN Buses ELSE {CHOOSE b \in Buses : TRUE}) /\ devices = <<>>
    /\ finder = [state |-> "start", index |-> 0, count |-> 0, bar |-> "none", missed |-> FALSE]
    /\ tx = init_descriptors /\ rx = init_queue
    /\ wire = [accepted |-> <<>>, out |-> <<>>, arrived |-> <<>>, given |-> <<>>]
    /\ caps \in [CapPtrs -> IF drv_use = "msi" THEN [id : {"msi", "other"}, next : CapPtrs \cup {0}]
                            ELSE {[id |-> "other", next |-> 0]}]
    /\ msi \in [state : {"off"}, at : {0}, first : IF drv_use = "msi" THEN CapPtrs \cup {0} ELSE {0}]
DrvNext ==
    /\ UNCHANGED drv_use
    /\ \/ /\ drv_use = "manager" /\ UNCHANGED <<queue_vars, msi_vars>>
          /\ scan_pci_bus \/ give_up \/ (\E failed \in BOOLEAN : ask_list(failed) \/ ask_device(failed))
       \/ /\ drv_use = "send" /\ UNCHANGED <<manager_vars, msi_vars>>
          /\ DeviceSends \/ (\E f \in DrvFrames : send_frame(f))
       \/ /\ drv_use = "receive" /\ UNCHANGED <<manager_vars, msi_vars>>
          /\ recv_frame \/ (\E f \in DrvFrames \cup {"short"} : DeviceReceives(f))
       \/ /\ drv_use = "msi" /\ UNCHANGED <<manager_vars, queue_vars>> /\ enable_msi

(* ------------------------------------------------------------ properties *)
\* The driver ends with the first network device that the manager's table holds,
\* the one the kernel's own search finds when it is function 0, unless a call
\* failed on the way; and MSI is turned on in the capability that the chain
\* reaches, also when the chain runs in a circle.
RECURSIVE Reach(_)
Reach(s) == LET t == s \cup ({caps[p].next : p \in s} \cap CapPtrs) IN IF t = s THEN s ELSE Reach(t)
DeviceFound ==
    /\ finder.state = "found" =>
          \E i \in DOMAIN devices : devices[i].id = "net" /\ devices[i].bar = finder.bar
             /\ (~finder.missed => \A j \in 1..(i - 1) : devices[j].id # "net")
    /\ finder.state = "none" /\ finder.count > 0 /\ ~finder.missed =>
          \A i \in DOMAIN devices : devices[i].id # "net"
    /\ finder.state = "found" /\ ~finder.missed /\ (\A i \in DOMAIN bus : ~bus[i].multi) =>
          scan_bus[find_device("net")].bar = finder.bar
    /\ msi.state = "on" => caps[msi.at].id = "msi"
    /\ msi.state = "failed" => ~\E p \in Reach({msi.first} \cap CapPtrs) : caps[p].id = "msi"

\* What the device sends is what clients gave, in order and whole, although
\* buffers are used again; what clients get is what arrived; and no descriptor
\* is both free and with the device.
RECURSIVE Chain(_, _, _)
Chain(q, d, n) == IF n = 0 THEN <<>> ELSE <<d>> \o Chain(q, q.next[d], n - 1)
InFlight(q) == {q.avail[(q.dev + k) % VQ_SIZE] : k \in 0..(((q.avail_idx - q.dev) % IdxMod) - 1)}
DriverQueuesSound ==
    /\ IsPrefix(wire.out, wire.accepted) /\ IsPrefix(wire.given, wire.arrived)
    /\ LET free == Chain(tx, tx.free_head, tx.num_free) IN
       Cardinality(ToSet(free)) = tx.num_free /\ ToSet(free) \cap InFlight(tx) = {}

\* The user-space drivers find their device and keep their rings.
DriversSound == DeviceFound /\ DriverQueuesSound
=============================================================================
