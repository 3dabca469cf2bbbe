----------------------------- MODULE BlockStore -----------------------------
(***************************************************************************)
(* What the sector cache promises its caller, whatever it keeps in memory: *)
(* a store of sectors in which a read sees the last write, written data    *)
(* becomes durable at some later time, and a restart falls back to what is *)
(* durable.                                                                *)
(***************************************************************************)
CONSTANTS Sectors, Values, NoAnswer

VARIABLES
    latest,    \* latest[s]: the last value written to s since the restart
    durable,   \* durable[s]: what the device holds
    answer     \* the last read: <<sector, value>>, or NoAnswer

vars == <<latest, durable, answer>>

Init ==
    /\ durable \in [Sectors -> Values]
    /\ latest = durable
    /\ answer = NoAnswer

(* A read answers the last value written, or fails. *)
Read(s) ==
    /\ answer' \in {<<s, latest[s]>>, NoAnswer}
    /\ UNCHANGED <<latest, durable>>

Write(s, v) ==
    /\ latest' = [latest EXCEPT ![s] = v]
    /\ UNCHANGED <<durable, answer>>

(* Any set of sectors is brought up to date on the device. *)
WriteBack(S) ==
    /\ durable' = [s \in Sectors |-> IF s \in S THEN latest[s] ELSE durable[s]]
    /\ UNCHANGED <<latest, answer>>

Restart ==
    /\ latest' = durable
    /\ answer' = NoAnswer
    /\ UNCHANGED durable

Next ==
    \/ \E s \in Sectors : Read(s)
    \/ \E s \in Sectors, v \in Values : Write(s, v)
    \/ \E S \in SUBSET Sectors : WriteBack(S)
    \/ Restart

Spec == Init /\ [][Next]_vars
=============================================================================
