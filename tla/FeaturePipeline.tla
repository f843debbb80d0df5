---------------------------- MODULE FeaturePipeline ----------------------------
(***************************************************************************)
(* From packets to alerts: the extractor consumes stream:raw_packets and   *)
(* publishes features, the ML engine consumes stream:features and          *)
(* publishes alerts to stream:alerts.  A packet, its features and its      *)
(* alert have the packet's number.  Inference is a choice; an action is    *)
(* one awaited call to Redis, with the local work before or after it.      *)
(***************************************************************************)
EXTENDS StreamConsumer

CONSTANTS
    Packets,    \* number of packets in stream:raw_packets
    Source,     \* tenants (or none) with their addresses
    SourceOf,   \* the source of a packet
    BadPacket,  \* packets without an address, or with a bad size
    BadFeature, \* packets whose features the engine's validation rejects
    Chaos,      \* CHAOS_MODE
    FeatureMax, \* MAXLEN of stream:features
    MaxLives,   \* bound on how often a cooldown key is set
    FlowFaults  \* bound on errors and crashes

Packet == 1..Packets

ASSUME FlowAssumption ==
    /\ Packets \in Nat
    /\ SourceOf \in [Packet -> Source]
    /\ BadPacket \subseteq Packet
    /\ BadFeature \subseteq Packet
    /\ Chaos \in BOOLEAN
    /\ FeatureMax \in Nat
    /\ MaxLives \in Nat
    /\ FlowFaults \in Nat

VARIABLES
    raw,      \* stream:raw_packets: where the extractor has got to with a packet
    feats,    \* stream:features: where the engine has got to with its features
    alerts,   \* packets whose alert is in stream:alerts
    loaded,   \* the engine has a model
    blocked,  \* sources in the blocked set of their tenant
    cooling,  \* sources whose cooldown key exists
    lives,    \* per source: the number of the key's present or next life
    life,     \* per packet: the life of the key that it began, or 0
    fate,     \* per packet: why it was dropped, or the engine's verdict
    flowFaults

flowVars == <<raw, feats, alerts, loaded, blocked, cooling, lives, life, fate, flowFaults>>

Dropped == {"invalid", "blocked", "nomodel", "chaos"}
Fate    == {"open", "benign", "malicious", "suppressed"} \cup Dropped

RawStep  == Unread \cup Settled \cup {"inbox", "publish", "ack"}
FeatStep == Unread \cup Settled \cup {"inbox", "cooldown", "publish", "ack"}

FlowInit ==
    /\ raw = [p \in Packet |-> "queued"]
    /\ feats = [p \in Packet |-> "absent"]
    /\ alerts = {}
    /\ loaded \in BOOLEAN
    /\ blocked = {}
    /\ cooling = {}
    /\ lives = [s \in Source |-> 1]
    /\ life = [p \in Packet |-> 0]
    /\ fate = [p \in Packet |-> "open"]
    /\ flowFaults = 0

cooldown == <<cooling, lives, life>>

FlowFault == flowFaults < FlowFaults /\ flowFaults' = flowFaults + 1

\* The entry whose turn it is moves from one step of its handler to another.
ToRaw(p, from, to)  == Turn(raw, p) /\ raw[p] = from /\ raw' = [raw EXCEPT ![p] = to]
ToFeat(p, from, to) == Turn(feats, p) /\ feats[p] = from /\ feats' = [feats EXCEPT ![p] = to]

Meets(p, f) == fate' = [fate EXCEPT ![p] = f]

(***************************************************************************)
(* The extractor.                                                          *)
(***************************************************************************)

ReadRaw(n) ==
    /\ Idle(raw)
    /\ raw' = Delivered(raw, n)
    /\ UNCHANGED <<feats, alerts, loaded, blocked, cooldown, fate, flowFaults>>

\* A packet is dropped, and will be acknowledged, if it is invalid or its source
\* is blocked; in chaos mode also by chance.
DropPacket(p, why) ==
    /\ CASE why = "chaos"   -> Chaos
         [] why = "invalid" -> p \in BadPacket
         [] why = "blocked" -> p \notin BadPacket /\ SourceOf[p] \in blocked
    /\ ToRaw(p, "inbox", "ack")
    /\ Meets(p, why)
    /\ UNCHANGED <<feats, alerts, loaded, blocked, cooldown, flowFaults>>

TakePacket(p) ==
    /\ p \notin BadPacket
    /\ SourceOf[p] \notin blocked
    /\ ToRaw(p, "inbox", "publish")
    /\ UNCHANGED <<feats, alerts, loaded, blocked, cooldown, fate, flowFaults>>

\* The window is updated and read (TrafficWindow), then the features go out.
PublishFeatures(p) ==
    /\ ToRaw(p, "publish", "ack")
    /\ \E cut \in Trimmable(feats, p, FeatureMax) : feats' = Added(feats, p, cut)
    /\ UNCHANGED <<alerts, loaded, blocked, cooldown, fate, flowFaults>>

AckPacket(p) ==
    /\ ToRaw(p, "ack", "done")
    /\ UNCHANGED <<feats, alerts, loaded, blocked, cooldown, fate, flowFaults>>

\* Mutant: the entry of a packet that failed is acknowledged like any other.
PacketErrorAcked(p) ==
    /\ FlowFault
    /\ Turn(raw, p)
    /\ raw' = [raw EXCEPT ![p] = "done"]
    /\ UNCHANGED <<feats, alerts, loaded, blocked, cooldown, fate>>

\* An exception (chaos raises one on purpose) is logged and the entry left.
PacketError(p) ==
    /\ FlowFault
    /\ Turn(raw, p)
    /\ raw' = [raw EXCEPT ![p] = "stuck"]
    /\ UNCHANGED <<feats, alerts, loaded, blocked, cooldown, fate>>

ExtractorCrash ==
    /\ FlowFault
    /\ raw' = Abandoned(raw)
    /\ UNCHANGED <<feats, alerts, loaded, blocked, cooldown, fate>>

(***************************************************************************)
(* The ML engine.                                                          *)
(***************************************************************************)

\* Mutant: a batch is read while entries of the one before are in hand.
ReadFeaturesEarly(n) ==
    /\ feats' = Delivered(feats, n)
    /\ UNCHANGED <<raw, alerts, loaded, blocked, cooldown, fate, flowFaults>>

ReadFeatures(n) ==
    /\ Idle(feats)
    /\ feats' = Delivered(feats, n)
    /\ UNCHANGED <<raw, alerts, loaded, blocked, cooldown, fate, flowFaults>>

\* The order of the checks: chaos, validation, model, blocked source.
DropFeatures(p, why) ==
    /\ CASE why = "chaos"   -> Chaos
         [] why = "invalid" -> p \in BadFeature
         [] why = "nomodel" -> p \notin BadFeature /\ ~loaded
         [] why = "blocked" -> p \notin BadFeature /\ loaded /\ SourceOf[p] \in blocked
    /\ ToFeat(p, "inbox", "ack")
    /\ Meets(p, why)
    /\ UNCHANGED <<raw, alerts, loaded, blocked, cooldown, flowFaults>>

Predict(p, verdict) ==
    /\ p \notin BadFeature
    /\ loaded
    /\ SourceOf[p] \notin blocked
    /\ ToFeat(p, "inbox", IF verdict = "malicious" THEN "cooldown" ELSE "ack")
    /\ Meets(p, verdict)
    /\ UNCHANGED <<raw, alerts, loaded, blocked, cooldown, flowFaults>>

\* Mutant: the cooldown key has no tenant prefix (a source is a pair).
KeyShared(s) == {r \in Source : r[2] = s[2]}

\* The sources that share a cooldown key with s: their key has tenant and address.
KeyOf(s) == {s}

\* Mutant: every malicious prediction takes the key, whether it exists or not.
ShouldAlertAlways(p) ==
    LET s == SourceOf[p]
    IN  /\ ToFeat(p, "cooldown", "publish")
        /\ cooling' = cooling \cup KeyOf(s)
        /\ life' = [life EXCEPT ![p] = lives[s]]
        /\ UNCHANGED <<lives, fate>>

\* SET NX EX: who sets the key may alert, all others are suppressed.
ShouldAlert(p) ==
    LET s == SourceOf[p]
    IN  IF s \in cooling
        THEN /\ ToFeat(p, "cooldown", "ack")
             /\ Meets(p, "suppressed")
             /\ UNCHANGED cooldown
        ELSE /\ ToFeat(p, "cooldown", "publish")
             /\ cooling' = cooling \cup KeyOf(s)
             /\ life' = [life EXCEPT ![p] = lives[s]]
             /\ UNCHANGED <<lives, fate>>

AskCooldown(p) ==
    /\ ShouldAlert(p)
    /\ UNCHANGED <<raw, alerts, loaded, blocked, flowFaults>>

PublishAlert(p) ==
    /\ ToFeat(p, "publish", "ack")
    /\ alerts' = alerts \cup {p}
    /\ UNCHANGED <<raw, loaded, blocked, cooldown, fate, flowFaults>>

\* Mutant: features are put back in the stream instead of acknowledged.
AckFeaturesAgain(p) ==
    /\ ToFeat(p, "ack", "queued")
    /\ UNCHANGED <<raw, alerts, loaded, blocked, cooldown, fate, flowFaults>>

AckFeatures(p) ==
    /\ ToFeat(p, "ack", "done")
    /\ UNCHANGED <<raw, alerts, loaded, blocked, cooldown, fate, flowFaults>>

FeaturesError(p) ==
    /\ FlowFault
    /\ Turn(feats, p)
    /\ feats' = [feats EXCEPT ![p] = "stuck"]
    /\ UNCHANGED <<raw, alerts, loaded, blocked, cooldown, fate>>

\* After a restart the engine has a model if a file can be loaded.
EngineRestart(ok) ==
    /\ FlowFault
    /\ feats' = Abandoned(feats)
    /\ loaded' = ok
    /\ UNCHANGED <<raw, alerts, blocked, cooldown, fate>>

(***************************************************************************)
(* The surroundings: the model's file appears, the blocklist changes, the  *)
(* cooldown key expires.                                                   *)
(***************************************************************************)

ModelAppears ==
    /\ ~loaded
    /\ loaded' = TRUE
    /\ UNCHANGED <<raw, feats, alerts, blocked, cooldown, fate, flowFaults>>

BlockSource(s) ==
    /\ s \notin blocked
    /\ blocked' = blocked \cup {s}
    /\ UNCHANGED <<raw, feats, alerts, loaded, cooldown, fate, flowFaults>>

UnblockSource(s) ==
    /\ s \in blocked
    /\ blocked' = blocked \ {s}
    /\ UNCHANGED <<raw, feats, alerts, loaded, cooldown, fate, flowFaults>>

CooldownEnds(s) ==
    /\ s \in cooling
    /\ lives[s] < MaxLives
    /\ cooling' = cooling \ {s}
    /\ lives' = [lives EXCEPT ![s] = @ + 1]
    /\ UNCHANGED <<raw, feats, alerts, loaded, blocked, life, fate, flowFaults>>

Extractor ==
    \/ \E n \in Packet : ReadRaw(n) /\ raw' # raw
    \/ \E p \in Packet :
        \/ \E why \in {"chaos", "invalid", "blocked"} : DropPacket(p, why)
        \/ TakePacket(p) \/ PublishFeatures(p) \/ AckPacket(p)

Engine ==
    \/ \E n \in Packet : ReadFeatures(n) /\ feats' # feats
    \/ \E p \in Packet :
        \/ \E why \in Dropped : DropFeatures(p, why)
        \/ \E v \in {"benign", "malicious"} : Predict(p, v)
        \/ AskCooldown(p) \/ PublishAlert(p) \/ AckFeatures(p)

Surroundings ==
    \/ ExtractorCrash \/ ModelAppears
    \/ \E ok \in BOOLEAN : EngineRestart(ok)
    \/ \E p \in Packet : PacketError(p) \/ FeaturesError(p)
    \/ \E s \in Source : BlockSource(s) \/ UnblockSource(s) \/ CooldownEnds(s)

FlowNext == Extractor \/ Engine \/ Surroundings

FlowSpec == FlowInit /\ [][FlowNext]_flowVars

-----------------------------------------------------------------------------

\* Every variable of the pipeline keeps its type.
FlowTypeOK ==
    /\ raw \in [Packet -> RawStep]
    /\ feats \in [Packet -> FeatStep]
    /\ alerts \subseteq Packet
    /\ loaded \in BOOLEAN
    /\ blocked \subseteq Source
    /\ cooling \subseteq Source
    /\ lives \in [Source -> Nat \ {0}]
    /\ life \in [Packet -> Nat]
    /\ fate \in [Packet -> Fate]
    /\ flowFaults \in Nat

\* Nothing is acknowledged unhandled: an acknowledged packet has features in the
\* stream or was dropped for a reason that existed, and acknowledged features
\* have a verdict or such a reason; an exception leaves the entry pending.
AckedAccounted ==
    \A p \in Packet :
        /\ raw[p] = "done" => feats[p] # "absent" \/ fate[p] \in {"invalid", "blocked", "chaos"}
        /\ feats[p] = "done" =>
              \/ fate[p] \in {"benign", "suppressed"} \cup Dropped
              \/ fate[p] = "malicious" /\ p \in alerts
        /\ fate[p] = "chaos" => Chaos
        /\ fate[p] = "invalid" => p \in BadPacket \cup BadFeature

\* A source alerts once per life of its cooldown key, whoever fails or restarts
\* in between: the LLM is not flooded.
OneAlertPerCooldown ==
    \A p, q \in alerts :
        p # q /\ SourceOf[p] = SourceOf[q] => life[p] # life[q]

\* While nothing fails, features are suppressed only behind an alert of the same
\* tenant's same address that is out, or on its way.
SuppressionJustified ==
    flowFaults = 0 =>
        \A p \in Packet : fate[p] = "suppressed" =>
            \E q \in Packet : /\ q < p
                              /\ SourceOf[q] = SourceOf[p]
                              /\ q \in alerts

\* The cooldown does its work and no more: OneAlertPerCooldown and SuppressionJustified.
CooldownSound == OneAlertPerCooldown /\ SuppressionJustified

\* Both streams keep the promises of StreamGroup: the entries of a batch are
\* settled in order, once, before the next batch is read.
RawGroup  == INSTANCE StreamGroup WITH Entry <- Packet, MaxLen <- Packets, st <- Seen(raw)
FeatGroup == INSTANCE StreamGroup WITH Entry <- Packet, MaxLen <- FeatureMax, st <- Seen(feats)
RawKept   == RawGroup!Spec
StreamsKept == RawGroup!Spec /\ FeatGroup!Spec

\* Every packet is read and settled in the end, and so are its features unless they
\* are trimmed before the engine reads them; errors and restarts stop no loop.
PacketsDrained ==
    \A p \in Packet : raw[p] \in Settled /\ feats[p] \in Settled \cup {"absent", "trimmed"}

PacketsServed == <>[]PacketsDrained
=============================================================================
