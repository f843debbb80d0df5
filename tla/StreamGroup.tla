------------------------------ MODULE StreamGroup ------------------------------
(***************************************************************************)
(* What a stream with one consumer group promises to the two services at   *)
(* its ends, and no more: entries are delivered in order, at most once,    *)
(* and a batch only after the one before it; each delivered entry is       *)
(* settled once, in order, by an acknowledgement or by being given up;     *)
(* entries that nobody has read are dropped only for MaxLen newer ones.    *)
(***************************************************************************)
EXTENDS StreamConsumer

CONSTANTS
    Entry,  \* numbers of the entries
    MaxLen  \* the length that XADD keeps

VARIABLE st

Init == st \in [Entry -> {"absent", "queued"}]

Publish(e) ==
    /\ st[e] = "absent"
    /\ \A d \in Entry : d > e => st[d] = "absent"
    /\ \E cut \in Trimmable(st, e, MaxLen) : st' = Added(st, e, cut)

Deliver == Idle(st) /\ \E n \in Entry : st' = Delivered(st, n)

Settle(e) ==
    /\ Turn(st, e)
    /\ \E how \in Settled : st' = [st EXCEPT ![e] = how]

Crash == st' = Abandoned(st)

Next == Deliver \/ Crash \/ \E e \in Entry : Publish(e) \/ Settle(e)

Spec == Init /\ [][Next]_st
=============================================================================
