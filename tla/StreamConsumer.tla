---------------------------- MODULE StreamConsumer ----------------------------
(***************************************************************************)
(* The streams of RedisManager and the loop that every consumer service    *)
(* runs over one: read a batch of new entries, handle one after the other, *)
(* acknowledge what was handled.  st gives the state of every entry, in    *)
(* stream order: not published, "queued", in the hands of the loop (at a   *)
(* step of its handler), acknowledged ("done"), never acknowledged         *)
(* ("stuck": the group reads only new entries) or trimmed before anyone    *)
(* read it.                                                                *)
(***************************************************************************)
EXTENDS Naturals, FiniteSets

Unread  == {"absent", "queued", "trimmed"}
Settled == {"done", "stuck"}

InHand(st, e) == st[e] \notin Unread \cup Settled

\* The loop handles the entries of a batch in order.
Turn(st, e) == InHand(st, e) /\ \A d \in DOMAIN st : d < e => ~InHand(st, d)

Idle(st) == \A e \in DOMAIN st : ~InHand(st, e)

\* XREADGROUP ">" with some COUNT: the new entries up to number n are delivered.
Delivered(st, n) ==
    [e \in DOMAIN st |-> IF st[e] = "queued" /\ e <= n THEN "inbox" ELSE st[e]]

\* XADD with an approximate MAXLEN may drop old entries, read or not, as long as
\* max entries remain.
Trimmable(st, e, max) ==
    {0} \cup {c \in DOMAIN st :
                max <= Cardinality({d \in DOMAIN st : c < d /\ d <= e /\ (st[d] # "absent" \/ d = e)})}

Added(st, e, cut) ==
    [d \in DOMAIN st |->
        IF d = e THEN "queued" ELSE IF d <= cut /\ st[d] = "queued" THEN "trimmed" ELSE st[d]]

\* The loop's process dies: what it had in hand is never delivered again.
Abandoned(st) == [e \in DOMAIN st |-> IF InHand(st, e) THEN "stuck" ELSE st[e]]

\* What the group sees of an entry: not at which step of the handler it is.
Seen(st) == [e \in DOMAIN st |-> IF InHand(st, e) THEN "inbox" ELSE st[e]]
=============================================================================
