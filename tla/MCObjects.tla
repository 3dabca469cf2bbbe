----------------------------- MODULE MCObjects ------------------------------
(* What tasks name and the kernel keeps for them, side by side: objects behind *)
(* handles, pipes behind descriptors and segments behind keys.  A behaviour is *)
(* of one of them.                                                             *)
EXTENDS HandleTable, Pipe, Shm
VARIABLE objects_part

Symmetry == Permutations(ShmTasks)

ObjectsInit ==
    /\ objects_part \in {"handles", "pipe", "shm"}
    /\ Init /\ PipeInit /\ ShmInit
ObjectsNext ==
    /\ UNCHANGED objects_part
    /\ \/ objects_part = "handles" /\ Next /\ UNCHANGED <<pipe_vars, shm_vars>>
       \/ objects_part = "pipe" /\ PipeNext /\ UNCHANGED <<vars, shm_vars>>
       \/ objects_part = "shm" /\ ShmNext /\ UNCHANGED <<vars, pipe_vars>>
ObjectsSpec == ObjectsInit /\ [][ObjectsNext]_<<objects_part, vars, pipe_vars, shm_vars>>
=============================================================================
