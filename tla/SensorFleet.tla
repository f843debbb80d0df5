------------------------------ MODULE SensorFleet ------------------------------
(***************************************************************************)
(* One sensor and the ingest gateway it reports to.  The sensor captures   *)
(* packets into a bounded buffer, posts them in batches and puts a batch   *)
(* back if the post fails; it also sends heartbeats.  The gateway verifies *)
(* the key against the sensor's row, then works on, await by await.  A     *)
(* monitor marks the sensor offline, an admin revokes it.                  *)
(***************************************************************************)
EXTENDS Naturals, Sequences, SequencesExt, FiniteSets, FiniteSetsExt

CONSTANTS
    Beat,        \* heartbeats handled at a time
    Post,        \* posts handled at a time
    Packets,     \* bound on the packets captured
    BatchSize,   \* packets per batch
    BufferSize,  \* max_size of the buffer
    IngestLimit, \* packets per window
    Retries,     \* bound on how often a packet is put back
    FleetFaults  \* bound on silences, failures, timeouts and crashes

NoPost  == "none"
Monitor == "monitor"

ASSUME FleetAssumption ==
    /\ {Packets, IngestLimit, Retries, FleetFaults} \subseteq Nat
    /\ {BatchSize, BufferSize} \subseteq Nat \ {0}
    /\ IsFiniteSet(Post) /\ NoPost \notin Post /\ Monitor \notin Beat

Status == {"pending", "active", "offline", "revoked"}

VARIABLES
    sensor,       \* the sensor's row: its status, and whether its heartbeat is 5 minutes old
    beats,     \* per heartbeat: its progress, and the status its row was loaded with
    stale,     \* whether the monitor has the row among its stale_sensors
    late,      \* who was already at work when the sensor was revoked
    captured,  \* packets captured so far
    buffer,    \* buffer.packets
    batch,     \* the batch the sensor is sending
    sending,   \* the post the sensor waits for, if any
    posts,     \* per post: its progress in the gateway, its packets, the published ones
    published, \* how often each packet was published
    lost,      \* packets dropped at a full buffer or with a crash
    retries,   \* how often each packet was put back
    ingested,   \* the sensor's counter of the limiter's window
    mischiefs  \* faults so far

sensorRowVars == <<sensor, beats, stale, late>>
packetVars == <<captured, buffer, batch, sending, posts, published, lost, retries, ingested>>
fleetVars == <<sensor, beats, stale, late, captured, buffer, batch, sending, posts,
               published, lost, retries, ingested, mischiefs>>

NoBeat == [pc |-> "idle", loaded |-> "pending"]
Free   == [pc |-> "idle", packets |-> <<>>, done |-> 0]

FleetInit ==
    /\ sensor = [status |-> "pending", stale |-> FALSE]
    /\ beats = [h \in Beat |-> NoBeat]
    /\ stale = FALSE
    /\ late = {}
    /\ captured = 0
    /\ buffer = <<>>
    /\ batch = <<>>
    /\ sending = NoPost
    /\ posts = [q \in Post |-> Free]
    /\ published = [p \in 1..Packets |-> 0]
    /\ lost = {}
    /\ retries = [p \in 1..Packets |-> 0]
    /\ ingested = 0
    /\ mischiefs = 0

Mischief == mischiefs < FleetFaults /\ mischiefs' = mischiefs + 1

\* Mutant: a revoked key is looked up like any other.
VerifiedAny(status) == status \in {"active", "pending", "revoked"}

\* verify_sensor_key, of the row as it is read.
Verified(status) == status \in {"active", "pending"}

-----------------------------------------------------------------------------
(* Heartbeats, the monitor and the admin. *)

SendBeat(h) ==
    /\ beats[h].pc = "idle"
    /\ Verified(sensor.status)
    /\ beats' = [beats EXCEPT ![h].pc = "verified"]
    /\ UNCHANGED <<sensor, stale, late, mischiefs>>

LoadRow(h) ==
    /\ beats[h].pc = "verified"
    /\ beats' = [beats EXCEPT ![h] = [pc |-> "loaded", loaded |-> sensor.status]]
    /\ UNCHANGED <<sensor, stale, late, mischiefs>>

\* The ORM writes the columns that differ from what was loaded: the status only if it
\* was not "active".
CommitBeat(h) ==
    /\ beats[h].pc = "loaded"
    /\ sensor' = [status |-> IF beats[h].loaded = "active" THEN sensor.status ELSE "active",
               stale |-> FALSE]
    /\ beats' = [beats EXCEPT ![h] = NoBeat]
    /\ late' = late \ {h}
    /\ UNCHANGED <<stale, mischiefs>>

\* The heartbeat's database error is logged, and answered with "ok".
BeatFails(h) ==
    /\ beats[h].pc \in {"verified", "loaded"}
    /\ Mischief
    /\ beats' = [beats EXCEPT ![h] = NoBeat]
    /\ late' = late \ {h}
    /\ UNCHANGED <<sensor, stale>>

\* No heartbeat for 5 minutes: the network, or the sensor, is down.
FallSilent ==
    /\ sensor.status # "pending" /\ ~sensor.stale
    /\ Mischief
    /\ sensor' = [sensor EXCEPT !.stale = TRUE]
    /\ UNCHANGED <<beats, stale, late>>

MonitorSelect ==
    /\ ~stale
    /\ sensor.status = "active" /\ sensor.stale
    /\ stale' = TRUE
    /\ UNCHANGED <<sensor, beats, late, mischiefs>>

MonitorCommit ==
    /\ stale
    /\ \/ sensor' = [sensor EXCEPT !.status = "offline"] /\ UNCHANGED mischiefs
       \/ Mischief /\ UNCHANGED sensor
    /\ stale' = FALSE
    /\ late' = late \ {Monitor}
    /\ UNCHANGED beats

Revoke ==
    /\ sensor.status # "revoked"
    /\ sensor' = [sensor EXCEPT !.status = "revoked"]
    /\ late' = {h \in Beat : beats[h].pc # "idle"} \cup (IF stale THEN {Monitor} ELSE {})
    /\ UNCHANGED <<beats, stale, mischiefs>>

SensorRowNext ==
    \/ \E h \in Beat : SendBeat(h) \/ LoadRow(h) \/ CommitBeat(h) \/ BeatFails(h)
    \/ FallSilent \/ MonitorSelect \/ MonitorCommit \/ Revoke

-----------------------------------------------------------------------------
(* Packets. *)

Room == BufferSize - Len(buffer)

\* Mutant: a batch is put back whole, whatever max_size is.
PutUnbounded(ps) == buffer' = buffer \o ps /\ UNCHANGED lost

\* PacketBuffer.add of each packet: what finds the buffer full is dropped.
Put(ps) ==
    /\ buffer' = buffer \o SubSeq(ps, 1, Min({Room, Len(ps)}))
    /\ lost' = lost \cup {ps[i] : i \in (Room + 1)..Len(ps)}

Capture ==
    /\ captured < Packets
    /\ captured' = captured + 1
    /\ Put(<<captured + 1>>)
    /\ UNCHANGED <<batch, sending, posts, published, retries, ingested, mischiefs>>

\* batch_sender_loop: flush, then post.
SendBatch(q) ==
    LET n == Min({BatchSize, Len(buffer)})
    IN  /\ sending = NoPost /\ buffer # <<>>
        /\ posts[q].pc = "idle"
        /\ batch' = SubSeq(buffer, 1, n)
        /\ buffer' = SubSeq(buffer, n + 1, Len(buffer))
        /\ sending' = q
        /\ posts' = [posts EXCEPT ![q] = [pc |-> "sent", packets |-> batch', done |-> 0]]
        /\ UNCHANGED <<captured, published, lost, retries, ingested, mischiefs>>

PostTo(q, pc) == posts' = [posts EXCEPT ![q].pc = pc]

VerifyPost(q) ==
    /\ posts[q].pc = "sent"
    /\ PostTo(q, IF Verified(sensor.status) THEN "verified" ELSE "refused")
    /\ UNCHANGED <<captured, buffer, batch, sending, published, lost, retries, ingested, mischiefs>>

\* IngestRateLimiter.check counts first and refuses then; without Redis it lets pass.
Admit(q) ==
    /\ posts[q].pc = "verified"
    /\ \/ /\ ingested' = ingested + Len(posts[q].packets)
          /\ PostTo(q, IF ingested' > IngestLimit THEN "refused" ELSE "publishing")
          /\ UNCHANGED mischiefs
       \/ Mischief /\ PostTo(q, "publishing") /\ UNCHANGED ingested
    /\ UNCHANGED <<captured, buffer, batch, sending, published, lost, retries>>

LimitTurns ==
    /\ ingested > 0
    /\ ingested' = 0
    /\ UNCHANGED <<captured, buffer, batch, sending, posts, published, lost, retries, mischiefs>>

\* The packets are published one by one; an error leaves the rest unpublished.
PublishPacket(q) ==
    LET n == posts[q].done + 1
    IN  /\ posts[q].pc = "publishing"
        /\ \/ /\ published' = [published EXCEPT ![posts[q].packets[n]] = @ + 1]
              /\ posts' = [posts EXCEPT ![q].done = n,
                               ![q].pc = IF n = Len(posts[q].packets) THEN "accepted" ELSE @]
              /\ UNCHANGED mischiefs
           \/ Mischief /\ PostTo(q, "refused") /\ UNCHANGED published
        /\ UNCHANGED <<captured, buffer, batch, sending, lost, retries, ingested>>

\* Mutant: any answer ends the batch, whatever its status.
AnswerAny(q) ==
    /\ posts[q].pc \in {"accepted", "refused"}
    /\ posts' = [posts EXCEPT ![q] = Free]
    /\ batch' = IF sending = q THEN <<>> ELSE batch
    /\ sending' = IF sending = q THEN NoPost ELSE sending
    /\ UNCHANGED <<captured, buffer, published, lost, retries, ingested, mischiefs>>

PutBack ==
    /\ \A p \in Range(batch) : retries[p] < Retries
    /\ Put(batch)
    /\ batch' = <<>>
    /\ sending' = NoPost
    /\ retries' = [p \in 1..Packets |-> retries[p] + (IF p \in Range(batch) THEN 1 ELSE 0)]

\* Only 200 ends the batch; anything else puts it back at the end of the buffer.
Answer(q) ==
    /\ posts[q].pc \in {"accepted", "refused"}
    /\ posts' = [posts EXCEPT ![q] = Free]
    /\ \/ /\ sending = q /\ posts[q].pc = "accepted"
          /\ batch' = <<>> /\ sending' = NoPost
          /\ UNCHANGED <<buffer, lost, retries>>
       \/ /\ sending = q /\ posts[q].pc = "refused"
          /\ PutBack
       \/ /\ sending # q
          /\ UNCHANGED <<buffer, batch, sending, lost, retries>>
    /\ UNCHANGED <<captured, published, ingested, mischiefs>>

\* The sensor gives a post up after 10 seconds; the gateway may be still at work on it,
\* or never see it.
GiveUp ==
    /\ sending # NoPost
    /\ Mischief
    /\ PutBack
    /\ \/ posts' = [posts EXCEPT ![sending] = Free] /\ posts[sending].pc = "sent"
       \/ UNCHANGED posts
    /\ UNCHANGED <<captured, published, ingested>>

SensorCrash ==
    /\ Mischief
    /\ lost' = lost \cup Range(buffer) \cup Range(batch)
    /\ buffer' = <<>> /\ batch' = <<>> /\ sending' = NoPost
    /\ UNCHANGED <<captured, posts, published, retries, ingested>>

PacketNext ==
    \/ Capture
    \/ \E q \in Post : SendBatch(q) \/ VerifyPost(q) \/ Admit(q) \/ PublishPacket(q) \/ Answer(q)
    \/ LimitTurns \/ GiveUp \/ SensorCrash

FleetNext ==
    \/ SensorRowNext /\ UNCHANGED packetVars
    \/ PacketNext /\ UNCHANGED sensorRowVars

FleetSpec == FleetInit /\ [][FleetNext]_fleetVars

-----------------------------------------------------------------------------

FleetTypeOK ==
    /\ sensor \in [status : Status, stale : BOOLEAN]
    /\ beats \in [Beat -> [pc : {"idle", "verified", "loaded"}, loaded : Status]]
    /\ stale \in BOOLEAN
    /\ late \subseteq Beat \cup {Monitor}
    /\ captured \in 0..Packets
    /\ buffer \in Seq(1..captured) /\ Len(buffer) <= BufferSize
    /\ batch \in Seq(1..captured) /\ Len(batch) <= BatchSize
    /\ sending \in Post \cup {NoPost}
    /\ \A q \in Post : posts[q].packets \in Seq(1..captured) /\ posts[q].done <= Len(posts[q].packets)
    /\ {published, retries} \subseteq [1..Packets -> Nat]
    /\ lost \subseteq 1..captured
    /\ {ingested, mischiefs} \subseteq Nat

\* A captured packet is on its way, published or lost to a full buffer or a crash, and
\* it is published again only for a post that failed or was given up, whatever the
\* gateway still does with that post (sensor/main.py:159-171, ingest_gateway/main.py:115-124).
PacketsKept ==
    \A p \in 1..captured :
       /\ published[p] > 0 \/ p \in lost \cup Range(buffer) \cup Range(batch)
       /\ published[p] <= retries[p] + 1

\* A revoked sensor leaves that status only by a heartbeat or a monitor that was at
\* work before the revocation (ingest_gateway/main.py:150-155, monitor.py:45).
RevokedStays ==
    [][sensor.status = "revoked" /\ sensor'.status # "revoked" => late' # late]_fleetVars
=============================================================================
