----------------------------- MODULE MCStorage ------------------------------
(* The sector cache and the virtqueues side by side: a behaviour is of one of *)
(* them.                                                                      *)
EXTENDS BlockCache, Virtio
VARIABLE storage_part

(* Each queue at work with its device. *)
Network == {"rx"}
Transmit == {"tx"}
Disk == {"blk"}
OneAtATime == {Network, Transmit, Disk}

Blank == [s \in Sectors |-> CHOOSE v \in Values : TRUE]

storage_vars == <<storage_part, cache_vars, vq_vars>>
Init ==
    /\ storage_part \in {"cache", "virtio"}
    /\ vq_use \in (IF storage_part = "virtio" THEN VqUses ELSE {Disk})
    /\ device \in (IF storage_part = "cache" THEN [Sectors -> Values] ELSE {Blank})
    /\ CacheInit /\ VqInit
OfVirtio(A) == storage_part = "virtio" /\ A /\ UNCHANGED <<storage_part, cache_vars>>
Next ==
    \/ storage_part = "cache" /\ CacheNext /\ UNCHANGED <<storage_part, vq_vars>>
    \/ OfVirtio(VqNext)

(* The virtio devices and drivers go on, as Virtio assumes. *)
Fairness ==
    /\ WF_storage_vars(OfVirtio(submit_and_notify)) /\ WF_storage_vars(OfVirtio(sector_io_done))
    /\ WF_storage_vars(OfVirtio(device_takes("blk")))
    /\ WF_storage_vars(OfVirtio(\E i \in 1 .. VQ_SIZE, ok \in BOOLEAN : device_serves(i, ok)))
Spec == Init /\ [][Next]_storage_vars /\ Fairness
=============================================================================
