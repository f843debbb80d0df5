--------------------------- MODULE FeaturePipelineProofs ---------------------------
(***************************************************************************)
(* Proofs about FeaturePipeline, for every number of packets, every set of *)
(* sources and any number of errors and crashes: the streams keep the      *)
(* promises of StreamGroup, nothing is acknowledged unhandled, and a       *)
(* source alerts once per life of its cooldown key.                        *)
(***************************************************************************)
EXTENDS FeaturePipeline, TLAPS

(***************************************************************************)
(* Streams.                                                                *)
(***************************************************************************)

Begun(st, e) == InHand(st, e) /\ st[e] # "inbox"

\* What is unread comes after what was read, what is in hand after what is settled,
\* and only the first entry in hand is being handled.
Ordered(st) ==
    \A d, e \in Packet :
        /\ st[d] \notin Unread /\ st[e] = "queued" => d < e
        /\ st[d] \in Settled /\ InHand(st, e) => d < e
        /\ Begun(st, e) /\ d < e => ~InHand(st, d)

LEMMA PacketNat == Packet \subseteq Nat
BY FlowAssumption DEF Packet

LEMMA OrderedDelivered ==
    ASSUME NEW S, NEW st \in [Packet -> S], Ordered(st), Idle(st), NEW n \in Packet
    PROVE  Ordered(Delivered(st, n))
<1> DEFINE new == Delivered(st, n)
<1>1. \A e \in Packet : new[e] = IF st[e] = "queued" /\ e <= n THEN "inbox" ELSE st[e]
  BY DEF Delivered
<1>2. SUFFICES ASSUME NEW d \in Packet, NEW e \in Packet
               PROVE  /\ new[d] \notin Unread /\ new[e] = "queued" => d < e
                      /\ new[d] \in Settled /\ InHand(new, e) => d < e
                      /\ Begun(new, e) /\ d < e => ~InHand(new, d)
  BY DEF Ordered
<1>3. ~InHand(st, d) /\ ~InHand(st, e)
  BY DEF Idle
<1>. QED
  BY <1>1, <1>3, PacketNat DEF Ordered, Begun, InHand, Unread, Settled

LEMMA OrderedMoved ==
    ASSUME NEW S, NEW st \in [Packet -> S], Ordered(st), NEW p \in Packet, Turn(st, p),
           NEW to, to \notin Unread
    PROVE  Ordered([st EXCEPT ![p] = to])
<1> DEFINE new == [st EXCEPT ![p] = to]
<1>1. \A e \in Packet : new[e] = IF e = p THEN to ELSE st[e]
  OBVIOUS
<1>2. SUFFICES ASSUME NEW d \in Packet, NEW e \in Packet
               PROVE  /\ new[d] \notin Unread /\ new[e] = "queued" => d < e
                      /\ new[d] \in Settled /\ InHand(new, e) => d < e
                      /\ Begun(new, e) /\ d < e => ~InHand(new, d)
  BY DEF Ordered
<1>3. InHand(st, p) /\ \A c \in Packet : c < p => ~InHand(st, c)
  BY DEF Turn
<1>4. to # "queued"
  BY DEF Unread
<1>. QED
  BY <1>1, <1>3, <1>4, PacketNat DEF Ordered, Begun, InHand, Unread, Settled

LEMMA OrderedAbandoned ==
    ASSUME NEW S, NEW st \in [Packet -> S], Ordered(st)
    PROVE  Ordered(Abandoned(st))
<1>1. \A e \in Packet : Abandoned(st)[e] = IF InHand(st, e) THEN "stuck" ELSE st[e]
  BY DEF Abandoned
<1>. QED
  BY <1>1, PacketNat DEF Ordered, Begun, InHand, Unread, Settled

LEMMA OrderedAdded ==
    ASSUME NEW S, NEW st \in [Packet -> S], Ordered(st), NEW p \in Packet, NEW cut,
           \A d \in Packet : p <= d => st[d] = "absent"
    PROVE  Ordered(Added(st, p, cut))
<1> DEFINE new == Added(st, p, cut)
<1>1. \A e \in Packet : new[e] = IF e = p THEN "queued"
                                 ELSE IF e <= cut /\ st[e] = "queued" THEN "trimmed" ELSE st[e]
  BY DEF Added
<1>2. SUFFICES ASSUME NEW d \in Packet, NEW e \in Packet
               PROVE  /\ new[d] \notin Unread /\ new[e] = "queued" => d < e
                      /\ new[d] \in Settled /\ InHand(new, e) => d < e
                      /\ Begun(new, e) /\ d < e => ~InHand(new, d)
  BY DEF Ordered
<1>. QED
  BY <1>1, PacketNat DEF Ordered, Begun, InHand, Unread, Settled

(***************************************************************************)
(* What a step does to the two streams.                                    *)
(***************************************************************************)

LEMMA RawMoves ==
    ASSUME FlowNext
    PROVE  \/ raw' = raw
           \/ \E n \in Packet : Idle(raw) /\ raw' = Delivered(raw, n)
           \/ \E p \in Packet, to \in RawStep \ Unread :
                 /\ Turn(raw, p)
                 /\ raw[p] = "ack" => to \in Settled
                 /\ raw' = [raw EXCEPT ![p] = to]
           \/ raw' = Abandoned(raw)
<1> USE DEF RawStep, Unread, Settled
<1>1. ASSUME NEW n \in Packet, ReadRaw(n) PROVE Idle(raw) /\ raw' = Delivered(raw, n)
  BY <1>1 DEF ReadRaw
<1>2. ASSUME NEW p \in Packet,
             \/ \E why \in {"chaos", "invalid", "blocked"} : DropPacket(p, why)
             \/ TakePacket(p) \/ PublishFeatures(p) \/ AckPacket(p) \/ PacketError(p)
      PROVE  \E to \in RawStep \ Unread : /\ Turn(raw, p)
                                          /\ raw[p] = "ack" => to \in Settled
                                          /\ raw' = [raw EXCEPT ![p] = to]
  BY <1>2 DEF DropPacket, TakePacket, PublishFeatures, AckPacket, PacketError, ToRaw
<1>3. CASE ExtractorCrash
  BY <1>3 DEF ExtractorCrash
<1>4. CASE Engine
  BY <1>4 DEF Engine, ReadFeatures, DropFeatures, Predict, AskCooldown, PublishAlert, AckFeatures
<1>5. CASE Surroundings
  BY <1>2, <1>3, <1>5
     DEF Surroundings, ModelAppears, EngineRestart, FeaturesError, BlockSource, UnblockSource,
         CooldownEnds
<1>. QED
  BY <1>1, <1>2, <1>4, <1>5 DEF FlowNext, Extractor

LEMMA FeatMoves ==
    ASSUME FlowNext
    PROVE  \/ feats' = feats
           \/ \E n \in Packet : Idle(feats) /\ feats' = Delivered(feats, n)
           \/ \E p \in Packet, to \in FeatStep \ Unread :
                 Turn(feats, p) /\ feats' = [feats EXCEPT ![p] = to]
           \/ feats' = Abandoned(feats)
           \/ \E p \in Packet : /\ Turn(raw, p) /\ raw[p] = "publish"
                                /\ raw' = [raw EXCEPT ![p] = "ack"]
                                /\ \E cut \in Trimmable(feats, p, FeatureMax) :
                                       feats' = Added(feats, p, cut)
<1> USE DEF FeatStep, Unread, Settled
<1>1. ASSUME NEW n \in Packet, ReadFeatures(n) PROVE Idle(feats) /\ feats' = Delivered(feats, n)
  BY <1>1 DEF ReadFeatures
<1>2. ASSUME NEW p \in Packet,
             \/ \E why \in Dropped : DropFeatures(p, why)
             \/ \E v \in {"benign", "malicious"} : Predict(p, v)
             \/ AskCooldown(p) \/ PublishAlert(p) \/ AckFeatures(p) \/ FeaturesError(p)
      PROVE  \E to \in FeatStep \ Unread : Turn(feats, p) /\ feats' = [feats EXCEPT ![p] = to]
  BY <1>2 DEF DropFeatures, Predict, AskCooldown, ShouldAlert, PublishAlert, AckFeatures,
              FeaturesError, ToFeat
<1>3. ASSUME NEW ok \in BOOLEAN, EngineRestart(ok) PROVE feats' = Abandoned(feats)
  BY <1>3 DEF EngineRestart
<1>4. ASSUME NEW p \in Packet, PublishFeatures(p)
      PROVE  /\ Turn(raw, p) /\ raw[p] = "publish" /\ raw' = [raw EXCEPT ![p] = "ack"]
             /\ \E cut \in Trimmable(feats, p, FeatureMax) : feats' = Added(feats, p, cut)
  BY <1>4 DEF PublishFeatures, ToRaw
<1>5. CASE Engine
  BY <1>1, <1>2, <1>5 DEF Engine
<1>6. CASE Extractor
  BY <1>4, <1>6 DEF Extractor, ReadRaw, DropPacket, TakePacket, AckPacket
<1>7. CASE Surroundings
  BY <1>2, <1>3, <1>7
     DEF Surroundings, ModelAppears, ExtractorCrash, PacketError, BlockSource, UnblockSource,
         CooldownEnds
<1>. QED
  BY <1>5, <1>6, <1>7 DEF FlowNext
LEMMA FlowStart == FlowInit => FlowTypeOK
BY FlowAssumption DEF FlowInit, FlowTypeOK, RawStep, FeatStep, Unread, Settled, Fate

LEMMA RawTyped == FlowTypeOK /\ FlowNext => raw' \in [Packet -> RawStep]
<1>1. raw \in [Packet -> RawStep] => /\ Abandoned(raw) \in [Packet -> RawStep]
                                     /\ \A n \in Packet : Delivered(raw, n) \in [Packet -> RawStep]
  BY DEF Abandoned, Delivered, RawStep, Settled
<1>. QED
  BY <1>1, RawMoves DEF FlowTypeOK

LEMMA FeatTyped == FlowTypeOK /\ FlowNext => feats' \in [Packet -> FeatStep]
<1>1. feats \in [Packet -> FeatStep] =>
          /\ Abandoned(feats) \in [Packet -> FeatStep]
          /\ \A n \in Packet : Delivered(feats, n) \in [Packet -> FeatStep]
          /\ \A p \in Packet : \A cut : Added(feats, p, cut) \in [Packet -> FeatStep]
  BY DEF Abandoned, Delivered, Added, FeatStep, Settled, Unread
<1>. QED
  BY <1>1, FeatMoves DEF FlowTypeOK

LEMMA FlowTypeStep == FlowTypeOK /\ FlowNext => FlowTypeOK'
<1>. SUFFICES ASSUME FlowTypeOK, FlowNext PROVE FlowTypeOK'
  OBVIOUS
<1> DEFINE Rest == /\ alerts' \subseteq Packet
                   /\ loaded' \in BOOLEAN
                   /\ blocked' \subseteq Source
                   /\ cooling' \subseteq Source
                   /\ lives' \in [Source -> Nat \ {0}]
                   /\ life' \in [Packet -> Nat]
                   /\ fate' \in [Packet -> Fate]
                   /\ flowFaults' \in Nat
<1> USE DEF FlowTypeOK, cooldown
<1>1. ASSUME Extractor PROVE Rest
  <2>1. fate' \in [Packet -> Fate]
    BY <1>1 DEF Extractor, ReadRaw, DropPacket, TakePacket, PublishFeatures, AckPacket, Meets,
                Fate, Dropped
  <2>2. UNCHANGED <<alerts, loaded, blocked, cooling, lives, life, flowFaults>>
    BY <1>1 DEF Extractor, ReadRaw, DropPacket, TakePacket, PublishFeatures, AckPacket
  <2>. QED
    BY <2>1, <2>2
<1>2. ASSUME Engine PROVE Rest
  <2>1. ASSUME NEW p \in Packet, AskCooldown(p) PROVE Rest
    <3>1. SourceOf[p] \in Source
      BY FlowAssumption
    <3>2. CASE SourceOf[p] \in cooling
      BY <2>1, <3>2 DEF AskCooldown, ShouldAlert, Meets, Fate
    <3>3. CASE SourceOf[p] \notin cooling
      BY <2>1, <3>1, <3>3 DEF AskCooldown, ShouldAlert, KeyOf
    <3>. QED
      BY <3>2, <3>3
  <2>2. ASSUME NEW p \in Packet, \/ \E why \in Dropped : DropFeatures(p, why)
                                 \/ \E v \in {"benign", "malicious"} : Predict(p, v)
        PROVE  Rest
    <3>1. fate' \in [Packet -> Fate]
      BY <2>2 DEF DropFeatures, Predict, Meets, Fate, Dropped
    <3>2. UNCHANGED <<alerts, loaded, blocked, cooling, lives, life, flowFaults>>
      BY <2>2 DEF DropFeatures, Predict
    <3>. QED
      BY <3>1, <3>2
  <2>3. ASSUME NEW p \in Packet, PublishAlert(p) \/ AckFeatures(p) PROVE Rest
    BY <2>3 DEF PublishAlert, AckFeatures
  <2>4. ASSUME NEW n \in Packet, ReadFeatures(n) PROVE Rest
    BY <2>4 DEF ReadFeatures
  <2>. QED
    BY <1>2, <2>1, <2>2, <2>3, <2>4 DEF Engine
<1>3. ASSUME Surroundings PROVE Rest
  <2>1. CASE \E s \in Source : BlockSource(s) \/ UnblockSource(s) \/ CooldownEnds(s)
    BY <2>1 DEF BlockSource, UnblockSource, CooldownEnds
  <2>2. CASE \/ ExtractorCrash \/ ModelAppears \/ \E ok \in BOOLEAN : EngineRestart(ok)
             \/ \E p \in Packet : PacketError(p) \/ FeaturesError(p)
    <3>1. UNCHANGED <<alerts, blocked, cooling, lives, life, fate>>
      BY <2>2 DEF ExtractorCrash, ModelAppears, EngineRestart, PacketError, FeaturesError
    <3>2. loaded' = loaded \/ loaded' \in BOOLEAN
      BY <2>2 DEF ExtractorCrash, ModelAppears, EngineRestart, PacketError, FeaturesError
    <3>3. flowFaults' = flowFaults \/ flowFaults' = flowFaults + 1
      BY <2>2 DEF ExtractorCrash, ModelAppears, EngineRestart, PacketError, FeaturesError, FlowFault
    <3>. QED
      BY <3>1, <3>2, <3>3
  <2>. QED
    BY <1>3, <2>1, <2>2 DEF Surroundings
<1>4. Rest
  BY <1>1, <1>2, <1>3 DEF FlowNext
<1>. QED
  BY <1>4, RawTyped, FeatTyped

(***************************************************************************)
(* The two streams stay ordered, and features follow their packet.         *)
(***************************************************************************)

\* Features exist only of packets that the extractor has published or settled.
Follows == \A p \in Packet : feats[p] # "absent" => raw[p] \in {"ack", "done", "stuck"}

InOrder == FlowTypeOK /\ Ordered(raw) /\ Ordered(feats) /\ Follows

LEMMA InOrderStart == FlowInit => InOrder
<1>. SUFFICES ASSUME FlowInit PROVE InOrder
  OBVIOUS
<1>1. Ordered(raw) /\ Ordered(feats) /\ Follows
  BY DEF FlowInit, Ordered, Begun, InHand, Unread, Settled, Follows
<1>. QED
  BY <1>1, FlowStart DEF InOrder

LEMMA NothingAfter ==
    ASSUME InOrder, NEW p \in Packet, Turn(raw, p), raw[p] = "publish"
    PROVE  \A d \in Packet : p <= d => feats[d] = "absent"
<1>. SUFFICES ASSUME NEW d \in Packet, p <= d, feats[d] # "absent" PROVE FALSE
  OBVIOUS
<1>1. raw[d] \in {"ack", "done", "stuck"}
  BY DEF InOrder, Follows
<1>2. p < d
  BY <1>1, PacketNat
<1>3. InHand(raw, p)
  BY DEF Turn
<1>4. CASE raw[d] = "ack"
  BY <1>2, <1>3, <1>4 DEF InOrder, Ordered, Begun, InHand, Unread, Settled
<1>5. CASE raw[d] \in Settled
  BY <1>2, <1>3, <1>5, PacketNat DEF InOrder, Ordered
<1>. QED
  BY <1>1, <1>4, <1>5 DEF Settled

LEMMA RawOrdered == InOrder /\ FlowNext => Ordered(raw)'
<1>. SUFFICES ASSUME InOrder, FlowNext PROVE Ordered(raw)'
  OBVIOUS
<1>1. PICK new : raw' = new
  OBVIOUS
<1>2. Ordered(new)
  <2>1. raw \in [Packet -> RawStep] /\ Ordered(raw)
    BY DEF InOrder, FlowTypeOK
  <2>. QED
    BY <1>1, <2>1, RawMoves, OrderedDelivered, OrderedMoved, OrderedAbandoned
<1>. QED
  BY <1>1, <1>2 DEF Ordered, Begun, InHand

LEMMA FeatsOrdered == InOrder /\ FlowNext => Ordered(feats)'
<1>. SUFFICES ASSUME InOrder, FlowNext PROVE Ordered(feats)'
  OBVIOUS
<1>1. PICK new : feats' = new
  OBVIOUS
<1>2. Ordered(new)
  <2>1. feats \in [Packet -> FeatStep] /\ Ordered(feats)
    BY DEF InOrder, FlowTypeOK
  <2>. QED
    BY <1>1, <2>1, FeatMoves, NothingAfter, OrderedDelivered, OrderedMoved, OrderedAbandoned,
       OrderedAdded
<1>. QED
  BY <1>1, <1>2 DEF Ordered, Begun, InHand

LEMMA FollowsStep == InOrder /\ FlowNext => Follows'
<1>. SUFFICES ASSUME InOrder, FlowNext, NEW p \in Packet, feats'[p] # "absent"
              PROVE  raw'[p] \in {"ack", "done", "stuck"}
  BY DEF Follows
<1> USE DEF InOrder, FlowTypeOK
<1>1. CASE \E q \in Packet : /\ raw[q] = "publish" /\ raw' = [raw EXCEPT ![q] = "ack"]
                             /\ \E cut : feats' = Added(feats, q, cut)
  <2>1. PICK q \in Packet : /\ raw[q] = "publish" /\ raw' = [raw EXCEPT ![q] = "ack"]
                            /\ \E cut : feats' = Added(feats, q, cut)
    BY <1>1
  <2>2. p # q => feats[p] # "absent"
    BY <2>1 DEF Added
  <2>. QED
    BY <2>1, <2>2 DEF Follows
<1>2. CASE feats[p] # "absent"
  <2>1. raw[p] \in {"ack", "done", "stuck"}
    BY <1>2 DEF Follows
  <2>2. CASE \E n \in Packet : raw' = Delivered(raw, n)
    BY <2>1, <2>2 DEF Delivered
  <2>3. CASE raw' = Abandoned(raw)
    BY <2>1, <2>3 DEF Abandoned
  <2>4. ASSUME NEW q \in Packet, NEW to, Turn(raw, q), raw[q] = "ack" => to \in Settled,
               raw' = [raw EXCEPT ![q] = to]
        PROVE  raw'[p] \in {"ack", "done", "stuck"}
    BY <2>1, <2>4 DEF Turn, InHand, Settled
  <2>. QED
    BY <2>1, <2>2, <2>3, <2>4, RawMoves
<1> DEFINE Moved == \/ feats' = feats
                    \/ \E n \in Packet : feats' = Delivered(feats, n)
                    \/ \E q \in Packet : \E to : Turn(feats, q) /\ feats' = [feats EXCEPT ![q] = to]
                    \/ feats' = Abandoned(feats)
<1>3. CASE feats[p] = "absent" /\ Moved
  <2>1. feats'[p] = "absent"
    BY <1>3 DEF Delivered, Abandoned, Turn, InHand, Unread
  <2>. QED
    BY <2>1
<1>4. Moved \/ \E q \in Packet : /\ raw[q] = "publish" /\ raw' = [raw EXCEPT ![q] = "ack"]
                                 /\ \E cut : feats' = Added(feats, q, cut)
  BY FeatMoves
<1>. QED
  BY <1>1, <1>2, <1>3, <1>4

LEMMA InOrderStep == InOrder /\ [FlowNext]_flowVars => InOrder'
<1>1. InOrder /\ FlowNext => InOrder'
  BY FlowTypeStep, RawOrdered, FeatsOrdered, FollowsStep DEF InOrder
<1>2. InOrder /\ UNCHANGED flowVars => InOrder'
  BY DEF flowVars, InOrder, FlowTypeOK, Ordered, Begun, InHand, Follows
<1>. QED
  BY <1>1, <1>2

LEMMA FlowOrder == FlowSpec => []InOrder
BY InOrderStart, InOrderStep, PTL DEF FlowSpec

(***************************************************************************)
(* Refinement: both streams implement StreamGroup.                         *)
(***************************************************************************)

LEMMA SeenSame ==
    ASSUME NEW S, NEW st \in [Packet -> S]
    PROVE  /\ Seen(st) \in [Packet -> S \cup {"inbox"}]
           /\ \A e \in Packet : Seen(st)[e] = IF InHand(st, e) THEN "inbox" ELSE st[e]
           /\ \A e \in Packet : InHand(Seen(st), e) <=> InHand(st, e)
           /\ \A e \in Packet : Turn(Seen(st), e) <=> Turn(st, e)
           /\ Idle(Seen(st)) <=> Idle(st)
<1>1. \A e \in Packet : Seen(st)[e] = IF InHand(st, e) THEN "inbox" ELSE st[e]
  BY DEF Seen
<1>2. Seen(st) \in [Packet -> S \cup {"inbox"}]
  BY DEF Seen
<1>3. \A e \in Packet : InHand(Seen(st), e) <=> InHand(st, e)
  BY <1>1 DEF InHand, Unread, Settled
<1>. QED
  BY <1>1, <1>2, <1>3 DEF Turn, Idle

LEMMA SeenDelivered ==
    ASSUME NEW S, NEW st \in [Packet -> S], NEW n \in Packet
    PROVE  Seen(Delivered(st, n)) = Delivered(Seen(st), n)
<1> DEFINE new == Delivered(st, n)
<1>1. new \in [Packet -> S \cup {"inbox"}]
  BY DEF Delivered
<1>2. \A e \in Packet : new[e] = IF st[e] = "queued" /\ e <= n THEN "inbox" ELSE st[e]
  BY DEF Delivered
<1>3. \A e \in Packet : Seen(new)[e] = IF Seen(st)[e] = "queued" /\ e <= n THEN "inbox" ELSE Seen(st)[e]
  <2>1. \A e \in Packet : Seen(new)[e] = IF InHand(new, e) THEN "inbox" ELSE new[e]
    BY <1>1 DEF Seen
  <2>2. \A e \in Packet : Seen(st)[e] = IF InHand(st, e) THEN "inbox" ELSE st[e]
    BY DEF Seen
  <2>3. \A e \in Packet : InHand(new, e) <=> InHand(st, e) \/ (st[e] = "queued" /\ e <= n)
    BY <1>2 DEF InHand, Unread, Settled
  <2>4. \A e \in Packet : st[e] = "queued" => ~InHand(st, e)
    BY DEF InHand, Unread
  <2>. QED
    BY <1>2, <2>1, <2>2, <2>3, <2>4
<1>4. DOMAIN Seen(st) = Packet /\ DOMAIN Seen(new) = Packet
  BY <1>1, SeenSame DEF Seen
<1> HIDE DEF new
<1>5. Delivered(Seen(st), n)
        = [e \in Packet |-> IF Seen(st)[e] = "queued" /\ e <= n THEN "inbox" ELSE Seen(st)[e]]
  BY <1>4 DEF Delivered
<1>6. Seen(new) = [e \in Packet |-> Seen(new)[e]]
  BY <1>1, <1>4 DEF Seen
<1>. QED
  BY <1>3, <1>5, <1>6 DEF new

LEMMA SeenMoved ==
    ASSUME NEW S, NEW st \in [Packet -> S], NEW p \in Packet, Turn(st, p), NEW to, to \notin Unread
    PROVE  LET new == [st EXCEPT ![p] = to]
           IN  \/ Seen(new) = Seen(st)
               \/ to \in Settled /\ Seen(new) = [Seen(st) EXCEPT ![p] = to]
<1> DEFINE new == [st EXCEPT ![p] = to]
<1>1. new \in [Packet -> S \cup {to}] /\ \A e \in Packet : new[e] = IF e = p THEN to ELSE st[e]
  OBVIOUS
<1>2. InHand(st, p)
  BY DEF Turn
<1>3. CASE to \in Settled
  <2>1. \A e \in Packet : Seen(new)[e] = IF e = p THEN to ELSE Seen(st)[e]
    <3>1. \A e \in Packet : Seen(new)[e] = IF InHand(new, e) THEN "inbox" ELSE new[e]
      BY <1>1 DEF Seen
    <3>2. \A e \in Packet : Seen(st)[e] = IF InHand(st, e) THEN "inbox" ELSE st[e]
      BY DEF Seen
    <3>. QED
      BY <1>1, <1>3, <3>1, <3>2 DEF InHand
  <2>2. Seen(new) = [e \in Packet |-> Seen(new)[e]]
    BY <1>1 DEF Seen
  <2>3. [Seen(st) EXCEPT ![p] = to] = [e \in Packet |-> IF e = p THEN to ELSE Seen(st)[e]]
    BY DEF Seen
  <2>. QED
    BY <1>3, <2>1, <2>2, <2>3
<1>4. CASE to \notin Settled
  <2>1. \A e \in Packet : InHand(new, e) <=> InHand(st, e)
    BY <1>1, <1>2, <1>4 DEF InHand
  <2>2. \A e \in Packet : (IF InHand(new, e) THEN "inbox" ELSE new[e])
                          = (IF InHand(st, e) THEN "inbox" ELSE st[e])
    BY <1>1, <1>2, <2>1
  <2>. QED
    BY <1>1, <2>2 DEF Seen
<1>. QED
  BY <1>3, <1>4

LEMMA SeenAbandoned ==
    ASSUME NEW S, NEW st \in [Packet -> S]
    PROVE  Seen(Abandoned(st)) = Abandoned(Seen(st))
<1>1. \A e \in Packet : Abandoned(st)[e] = IF InHand(st, e) THEN "stuck" ELSE st[e]
  BY DEF Abandoned
<1>2. \A e \in Packet : ~InHand(Abandoned(st), e)
  BY <1>1 DEF InHand, Settled
<1>3. DOMAIN Abandoned(st) = Packet /\ DOMAIN Seen(st) = Packet
  BY DEF Abandoned, Seen
<1>4. Seen(Abandoned(st)) = [e \in Packet |-> Abandoned(st)[e]]
  BY <1>2, <1>3 DEF Seen
<1>5. Abandoned(Seen(st)) = [e \in Packet |-> IF InHand(st, e) THEN "stuck" ELSE st[e]]
  <2>1. Abandoned(Seen(st)) = [e \in Packet |-> IF InHand(Seen(st), e) THEN "stuck" ELSE Seen(st)[e]]
    BY <1>3 DEF Abandoned
  <2>2. \A e \in Packet : (IF InHand(Seen(st), e) THEN "stuck" ELSE Seen(st)[e])
                          = (IF InHand(st, e) THEN "stuck" ELSE st[e])
    BY SeenSame
  <2>. QED
    BY <2>1, <2>2
<1>. QED
  BY <1>1, <1>4, <1>5

LEMMA SeenAdded ==
    ASSUME NEW S, NEW st \in [Packet -> S], NEW p \in Packet, NEW cut, st[p] = "absent"
    PROVE  Seen(Added(st, p, cut)) = Added(Seen(st), p, cut)
<1> DEFINE new == Added(st, p, cut)
<1>1. \A e \in Packet : new[e] = IF e = p THEN "queued"
                                 ELSE IF e <= cut /\ st[e] = "queued" THEN "trimmed" ELSE st[e]
  BY DEF Added
<1>2. DOMAIN new = Packet /\ DOMAIN Seen(st) = Packet
  BY DEF Added, Seen
<1>3. \A e \in Packet : (IF InHand(new, e) THEN "inbox" ELSE new[e])
          = IF e = p THEN "queued"
            ELSE IF e <= cut /\ Seen(st)[e] = "queued" THEN "trimmed" ELSE Seen(st)[e]
  BY <1>1, SeenSame DEF InHand, Unread, Settled
<1> HIDE DEF new
<1>4. Seen(new) = [e \in Packet |-> IF InHand(new, e) THEN "inbox" ELSE new[e]]
  BY <1>2 DEF Seen
<1>5. Added(Seen(st), p, cut)
        = [e \in Packet |-> IF e = p THEN "queued"
                            ELSE IF e <= cut /\ Seen(st)[e] = "queued" THEN "trimmed" ELSE Seen(st)[e]]
  BY <1>2 DEF Added
<1>. QED
  BY <1>3, <1>4, <1>5 DEF new

LEMMA SeenTrimmable ==
    ASSUME NEW S, NEW st \in [Packet -> S], NEW p \in Packet, NEW max
    PROVE  Trimmable(Seen(st), p, max) = Trimmable(st, p, max)
<1>1. DOMAIN Seen(st) = Packet
  BY DEF Seen
<1>2. \A d \in Packet : Seen(st)[d] # "absent" <=> st[d] # "absent"
  BY SeenSame DEF InHand, Unread
<1>3. \A c \in Packet : {d \in DOMAIN Seen(st) : c < d /\ d <= p /\ (Seen(st)[d] # "absent" \/ d = p)}
                        = {d \in DOMAIN st : c < d /\ d <= p /\ (st[d] # "absent" \/ d = p)}
  BY <1>1, <1>2
<1>. QED
  BY <1>1, <1>3 DEF Trimmable

LEMMA RawGroupStart == FlowInit => RawGroup!Init
<1>. SUFFICES ASSUME FlowInit PROVE Seen(raw) \in [Packet -> {"absent", "queued"}]
  BY DEF RawGroup!Init
<1>. QED
  BY DEF FlowInit, Seen, InHand, Unread

LEMMA FeatGroupStart == FlowInit => FeatGroup!Init
<1>. SUFFICES ASSUME FlowInit PROVE Seen(feats) \in [Packet -> {"absent", "queued"}]
  BY DEF FeatGroup!Init
<1>. QED
  BY DEF FlowInit, Seen, InHand, Unread

LEMMA RawGroupStep == InOrder /\ FlowNext => [RawGroup!Next]_(Seen(raw))
<1>. SUFFICES ASSUME InOrder, FlowNext PROVE [RawGroup!Next]_(Seen(raw))
  OBVIOUS
<1>1. PICK new : raw' = new
  OBVIOUS
<1>2. (Seen(raw))' = Seen(new)
  BY <1>1 DEF Seen, InHand
<1>3. raw \in [Packet -> RawStep]
  BY DEF InOrder, FlowTypeOK
<1>4. ASSUME NEW n \in Packet, Idle(raw), new = Delivered(raw, n) PROVE RawGroup!Deliver
  <2>1. Seen(new) = Delivered(Seen(raw), n) /\ Idle(Seen(raw))
    BY <1>3, <1>4, SeenDelivered, SeenSame
  <2>. QED
    BY <1>2, <2>1
       DEF RawGroup!Deliver, RawGroup!Idle, RawGroup!Delivered, RawGroup!InHand, RawGroup!Unread,
           RawGroup!Settled, Idle, Delivered, InHand, Unread, Settled
<1>5. ASSUME NEW p \in Packet, NEW to \in RawStep \ Unread, Turn(raw, p),
             new = [raw EXCEPT ![p] = to]
      PROVE  Seen(new) = Seen(raw) \/ RawGroup!Settle(p)
  <2>1. CASE to \in Settled /\ Seen(new) = [Seen(raw) EXCEPT ![p] = to]
    <3>1. Turn(Seen(raw), p)
      BY <1>3, <1>5, SeenSame
    <3>. QED
      BY <1>2, <2>1, <3>1
         DEF RawGroup!Settle, RawGroup!Turn, RawGroup!InHand, RawGroup!Unread, RawGroup!Settled,
             Turn, InHand, Unread, Settled
  <2>2. \/ Seen(new) = Seen(raw)
        \/ to \in Settled /\ Seen(new) = [Seen(raw) EXCEPT ![p] = to]
    BY <1>3, <1>5, SeenMoved
  <2>. QED
    BY <2>1, <2>2
<1>6. ASSUME new = Abandoned(raw) PROVE RawGroup!Crash
  <2>1. Seen(new) = Abandoned(Seen(raw))
    BY <1>3, <1>6, SeenAbandoned
  <2>. QED
    <3>1. RawGroup!Abandoned(Seen(raw)) = Abandoned(Seen(raw))
      BY DEF RawGroup!Abandoned, RawGroup!InHand, RawGroup!Unread, RawGroup!Settled, Abandoned, InHand, Unread,
             Settled
    <3>. QED
      BY <1>2, <2>1, <3>1 DEF RawGroup!Crash
<1>7. \/ new = raw
      \/ \E n \in Packet : Idle(raw) /\ new = Delivered(raw, n)
      \/ \E p \in Packet, to \in RawStep \ Unread : Turn(raw, p) /\ new = [raw EXCEPT ![p] = to]
      \/ new = Abandoned(raw)
  BY <1>1, RawMoves
<1>. QED
  BY <1>2, <1>4, <1>5, <1>6, <1>7 DEF RawGroup!Next

LEMMA FeatGroupStep == InOrder /\ FlowNext => [FeatGroup!Next]_(Seen(feats))
<1>. SUFFICES ASSUME InOrder, FlowNext PROVE [FeatGroup!Next]_(Seen(feats))
  OBVIOUS
<1>1. PICK new : feats' = new
  OBVIOUS
<1>2. (Seen(feats))' = Seen(new)
  BY <1>1 DEF Seen, InHand
<1>3. feats \in [Packet -> FeatStep]
  BY DEF InOrder, FlowTypeOK
<1>4. ASSUME NEW n \in Packet, Idle(feats), new = Delivered(feats, n) PROVE FeatGroup!Deliver
  <2>1. Seen(new) = Delivered(Seen(feats), n) /\ Idle(Seen(feats))
    BY <1>3, <1>4, SeenDelivered, SeenSame
  <2>. QED
    BY <1>2, <2>1
       DEF FeatGroup!Deliver, FeatGroup!Idle, FeatGroup!Delivered, FeatGroup!InHand,
           FeatGroup!Unread, FeatGroup!Settled, Idle, Delivered, InHand, Unread, Settled
<1>5. ASSUME NEW p \in Packet, NEW to \in FeatStep \ Unread, Turn(feats, p),
             new = [feats EXCEPT ![p] = to]
      PROVE  Seen(new) = Seen(feats) \/ FeatGroup!Settle(p)
  <2>1. CASE to \in Settled /\ Seen(new) = [Seen(feats) EXCEPT ![p] = to]
    <3>1. Turn(Seen(feats), p)
      BY <1>3, <1>5, SeenSame
    <3>. QED
      BY <1>2, <2>1, <3>1
         DEF FeatGroup!Settle, FeatGroup!Turn, FeatGroup!InHand, FeatGroup!Unread,
             FeatGroup!Settled, Turn, InHand, Unread, Settled
  <2>2. \/ Seen(new) = Seen(feats)
        \/ to \in Settled /\ Seen(new) = [Seen(feats) EXCEPT ![p] = to]
    BY <1>3, <1>5, SeenMoved
  <2>. QED
    BY <2>1, <2>2
<1>6. ASSUME new = Abandoned(feats) PROVE FeatGroup!Crash
  <2>1. Seen(new) = Abandoned(Seen(feats))
    BY <1>3, <1>6, SeenAbandoned
  <2>. QED
    <3>1. FeatGroup!Abandoned(Seen(feats)) = Abandoned(Seen(feats))
      BY DEF FeatGroup!Abandoned, FeatGroup!InHand, FeatGroup!Unread, FeatGroup!Settled, Abandoned, InHand, Unread,
             Settled
    <3>. QED
      BY <1>2, <2>1, <3>1 DEF FeatGroup!Crash
<1>7. ASSUME NEW p \in Packet, Turn(raw, p), raw[p] = "publish",
             NEW cut \in Trimmable(feats, p, FeatureMax), new = Added(feats, p, cut)
      PROVE  FeatGroup!Publish(p)
  <2>1. \A d \in Packet : p <= d => feats[d] = "absent"
    BY <1>7, NothingAfter
  <2>2. feats[p] = "absent" /\ \A d \in Packet : d > p => feats[d] = "absent"
    BY <2>1, PacketNat
  <2>3. \A d \in Packet : Seen(feats)[d] = "absent" <=> feats[d] = "absent"
    BY <1>3, SeenSame DEF InHand, Unread
  <2>4. Seen(new) = Added(Seen(feats), p, cut)
    BY <1>3, <1>7, <2>2, SeenAdded
  <2>5. cut \in Trimmable(Seen(feats), p, FeatureMax)
    BY <1>3, SeenTrimmable
  <2>. QED
    <3>1. FeatGroup!Added(Seen(feats), p, cut) = Added(Seen(feats), p, cut)
      BY DEF FeatGroup!Added, Added
    <3>2. \A X : FeatGroup!Cardinality(X) = Cardinality(X)
      BY DEF FeatGroup!Cardinality, Cardinality
    <3>3. FeatGroup!Trimmable(Seen(feats), p, FeatureMax) = Trimmable(Seen(feats), p, FeatureMax)
      BY <3>2 DEF FeatGroup!Trimmable, Trimmable
    <3>. QED
      BY <1>2, <2>2, <2>3, <2>4, <2>5, <3>1, <3>3 DEF FeatGroup!Publish
<1>8. \/ new = feats
      \/ \E n \in Packet : Idle(feats) /\ new = Delivered(feats, n)
      \/ \E p \in Packet, to \in FeatStep \ Unread :
            Turn(feats, p) /\ new = [feats EXCEPT ![p] = to]
      \/ new = Abandoned(feats)
      \/ \E p \in Packet : /\ Turn(raw, p) /\ raw[p] = "publish"
                           /\ \E cut \in Trimmable(feats, p, FeatureMax) : new = Added(feats, p, cut)
  BY <1>1, FeatMoves
<1>. QED
  BY <1>2, <1>4, <1>5, <1>6, <1>7, <1>8 DEF FeatGroup!Next

\* Refinement: seen from outside, the stream of packets and the stream of features
\* each behave as StreamGroup allows, whatever fails: in order, at most once, a batch
\* after the other, trimmed only for newer entries (StreamsKept).
THEOREM StreamsImplemented == FlowSpec => StreamsKept
<1>1. InOrder /\ [FlowNext]_flowVars => [RawGroup!Next]_(Seen(raw)) /\ [FeatGroup!Next]_(Seen(feats))
  <2>1. UNCHANGED flowVars => UNCHANGED <<Seen(raw), Seen(feats)>>
    BY DEF flowVars, Seen, InHand
  <2>. QED
    BY <2>1, RawGroupStep, FeatGroupStep
<1>. QED
  BY <1>1, FlowOrder, RawGroupStart, FeatGroupStart, PTL
     DEF FlowSpec, StreamsKept, RawGroup!Spec, FeatGroup!Spec

(***************************************************************************)
(* The cooldown.                                                           *)
(***************************************************************************)

\* A life of a key belongs to one packet, the present life only while the key exists;
\* who alerts, or is about to, has begun one.
Lives ==
    /\ \A p \in Packet : life[p] # 0 =>
          /\ SourceOf[p] \in cooling => life[p] <= lives[SourceOf[p]]
          /\ SourceOf[p] \notin cooling => life[p] < lives[SourceOf[p]]
    /\ \A p, q \in Packet :
          p # q /\ SourceOf[p] = SourceOf[q] /\ life[p] # 0 /\ life[q] # 0 => life[p] # life[q]
    /\ \A p \in Packet : feats[p] = "publish" \/ p \in alerts => life[p] # 0

\* All other steps leave cooldown and alerts alone and bring no packet to its alert,
\* suppress none, and turn none from its alert unless they fail.
Quiet ==
    /\ UNCHANGED <<alerts, cooling, lives, life>>
    /\ \A p \in Packet : feats'[p] = "publish" => feats[p] = "publish"
    /\ \A p \in Packet : fate'[p] = "suppressed" => fate[p] = "suppressed"
    /\ flowFaults' = 0 => /\ flowFaults = 0
                          /\ \A p \in Packet : feats[p] = "publish" => feats'[p] = "publish"

LEMMA QuietSteps ==
    ASSUME InOrder, FlowNext
    PROVE  \/ \E p \in Packet : AskCooldown(p) \/ PublishAlert(p)
           \/ \E s \in Source : CooldownEnds(s)
           \/ Quiet
<1> USE DEF InOrder, FlowTypeOK, cooldown
<1>1. CASE Extractor
  <2>1. UNCHANGED <<alerts, cooling, lives, life, flowFaults>>
    BY <1>1 DEF Extractor, ReadRaw, DropPacket, TakePacket, PublishFeatures, AckPacket
  <2>2. \/ feats' = feats
        \/ \E p \in Packet : \E cut : feats[p] = "absent" /\ feats' = Added(feats, p, cut)
    <3>1. ASSUME NEW p \in Packet, PublishFeatures(p)
          PROVE  feats[p] = "absent" /\ \E cut : feats' = Added(feats, p, cut)
      BY <3>1, NothingAfter, PacketNat DEF PublishFeatures, ToRaw
    <3>. QED
      BY <1>1, <3>1 DEF Extractor, ReadRaw, DropPacket, TakePacket, AckPacket
  <2>3. \A p \in Packet : feats'[p] = "publish" <=> feats[p] = "publish"
    BY <2>2 DEF Added
  <2>4. fate' = fate \/ \E p \in Packet, f \in Dropped : fate' = [fate EXCEPT ![p] = f]
    BY <1>1 DEF Extractor, ReadRaw, DropPacket, TakePacket, PublishFeatures, AckPacket, Meets,
                Dropped
  <2>5. \A p \in Packet : fate'[p] = "suppressed" => fate[p] = "suppressed"
    BY <2>4 DEF Dropped
  <2>. QED
    BY <2>1, <2>3, <2>5 DEF Quiet
<1>2. ASSUME NEW n \in Packet, ReadFeatures(n) PROVE Quiet
  BY <1>2 DEF ReadFeatures, Delivered, Quiet
<1>3. ASSUME NEW p \in Packet,
             \/ \E why \in Dropped : DropFeatures(p, why)
             \/ \E v \in {"benign", "malicious"} : Predict(p, v)
             \/ AckFeatures(p)
      PROVE  Quiet
  <2>1. UNCHANGED <<alerts, cooling, lives, life, flowFaults>>
    BY <1>3 DEF DropFeatures, Predict, AckFeatures
  <2>2. PICK to \in {"ack", "cooldown", "done"} :
            feats[p] # "publish" /\ feats' = [feats EXCEPT ![p] = to]
    BY <1>3 DEF DropFeatures, Predict, AckFeatures, ToFeat
  <2>3. \A q \in Packet : feats'[q] = "publish" <=> feats[q] = "publish"
    BY <2>2
  <2>4. fate' = fate \/ \E f \in Dropped \cup {"benign", "malicious"} : fate' = [fate EXCEPT ![p] = f]
    BY <1>3 DEF DropFeatures, Predict, AckFeatures, Meets
  <2>5. \A q \in Packet : fate'[q] = "suppressed" => fate[q] = "suppressed"
    BY <2>4 DEF Dropped
  <2>. QED
    BY <2>1, <2>3, <2>5 DEF Quiet
<1>4. CASE Surroundings
  <2>1. \/ \E s \in Source : CooldownEnds(s)
        \/ UNCHANGED <<alerts, cooling, lives, life, fate>>
    BY <1>4 DEF Surroundings, ExtractorCrash, ModelAppears, EngineRestart, PacketError,
                FeaturesError, BlockSource, UnblockSource
  <2>2. \/ feats' = feats /\ flowFaults' = flowFaults
        \/ flowFaults' = flowFaults + 1
    BY <1>4 DEF Surroundings, ExtractorCrash, ModelAppears, EngineRestart, PacketError,
                FeaturesError, BlockSource, UnblockSource, CooldownEnds, FlowFault
  <2>3. \/ feats' = feats \/ feats' = Abandoned(feats)
        \/ \E p \in Packet : feats' = [feats EXCEPT ![p] = "stuck"]
    BY <1>4 DEF Surroundings, ExtractorCrash, ModelAppears, EngineRestart, PacketError,
                FeaturesError, BlockSource, UnblockSource, CooldownEnds
  <2>4. \A p \in Packet : feats'[p] = "publish" => feats[p] = "publish"
    BY <2>3 DEF Abandoned
  <2>. QED
    BY <2>1, <2>2, <2>4 DEF Quiet
<1>5. CASE Engine
  BY <1>2, <1>3, <1>5 DEF Engine
<1>. QED
  BY <1>1, <1>4, <1>5 DEF FlowNext

LEMMA LivesStart == FlowInit => Lives
BY DEF FlowInit, Lives

LEMMA LivesStep == InOrder /\ Lives /\ [FlowNext]_flowVars => Lives'
<1>. SUFFICES ASSUME InOrder, Lives, [FlowNext]_flowVars PROVE Lives'
  OBVIOUS
<1>0. SourceOf \in [Packet -> Source]
  BY FlowAssumption
<1>t. lives \in [Source -> Nat \ {0}] /\ life \in [Packet -> Nat] /\ feats \in [Packet -> FeatStep]
  BY DEF InOrder, FlowTypeOK
<1>1. ASSUME NEW p \in Packet, AskCooldown(p) PROVE Lives'
  <2>1. CASE SourceOf[p] \in cooling
    <3>1. UNCHANGED <<alerts, cooling, lives, life>>
      BY <1>1, <2>1 DEF AskCooldown, ShouldAlert, cooldown
    <3>2. \A q \in Packet : feats'[q] = "publish" => feats[q] = "publish"
      BY <1>1, <2>1, <1>t DEF AskCooldown, ShouldAlert, ToFeat
    <3>. QED
      BY <3>1, <3>2 DEF Lives
  <2>2. CASE SourceOf[p] \notin cooling
    <3>1. /\ cooling' = cooling \cup {SourceOf[p]}
          /\ life' = [life EXCEPT ![p] = lives[SourceOf[p]]]
          /\ lives' = lives /\ alerts' = alerts
          /\ feats' = [feats EXCEPT ![p] = "publish"]
      BY <1>1, <2>2 DEF AskCooldown, ShouldAlert, KeyOf, ToFeat
    <3>2. \A q \in Packet : life'[q] = IF q = p THEN lives[SourceOf[p]] ELSE life[q]
      BY <3>1, <1>t
    <3>3. \A q \in Packet : q # p /\ SourceOf[q] = SourceOf[p] /\ life[q] # 0
                            => life[q] < lives[SourceOf[p]]
      BY <2>2 DEF Lives
    <3>4. \A q \in Packet : life'[q] # 0 =>
              /\ SourceOf[q] \in cooling' => life'[q] <= lives'[SourceOf[q]]
              /\ SourceOf[q] \notin cooling' => life'[q] < lives'[SourceOf[q]]
      <4>. SUFFICES ASSUME NEW q \in Packet, life'[q] # 0
                    PROVE  /\ SourceOf[q] \in cooling' => life'[q] <= lives'[SourceOf[q]]
                           /\ SourceOf[q] \notin cooling' => life'[q] < lives'[SourceOf[q]]
        OBVIOUS
      <4>1. life[q] \in Nat /\ lives[SourceOf[q]] \in Nat /\ lives[SourceOf[p]] \in Nat
        BY <1>0, <1>t
      <4>. QED
        BY <4>1, <2>2, <3>1, <3>2 DEF Lives
    <3>5. \A q, r \in Packet :
              q # r /\ SourceOf[q] = SourceOf[r] /\ life'[q] # 0 /\ life'[r] # 0 => life'[q] # life'[r]
      BY <1>0, <1>t, <3>2, <3>3 DEF Lives
    <3>6. \A q \in Packet : feats'[q] = "publish" \/ q \in alerts' => life'[q] # 0
      <4>1. lives[SourceOf[p]] # 0
        BY <1>0, <1>t
      <4>. QED
        BY <4>1, <1>t, <3>1, <3>2 DEF Lives
    <3>. QED
      BY <3>4, <3>5, <3>6 DEF Lives
  <2>. QED
    BY <2>1, <2>2
<1>2. ASSUME NEW p \in Packet, PublishAlert(p) PROVE Lives'
  <2>1. /\ UNCHANGED <<cooling, lives, life>> /\ alerts' = alerts \cup {p}
        /\ feats[p] = "publish" /\ feats' = [feats EXCEPT ![p] = "ack"]
    BY <1>2 DEF PublishAlert, ToFeat, cooldown
  <2>. QED
    BY <2>1, <1>t DEF Lives
<1>3. ASSUME NEW s \in Source, CooldownEnds(s) PROVE Lives'
  <2>1. /\ UNCHANGED <<alerts, life, feats>> /\ s \in cooling /\ cooling' = cooling \ {s}
        /\ lives' = [lives EXCEPT ![s] = lives[s] + 1]
    BY <1>3 DEF CooldownEnds
  <2>2. \A q \in Packet : life'[q] # 0 =>
            /\ SourceOf[q] \in cooling' => life'[q] <= lives'[SourceOf[q]]
            /\ SourceOf[q] \notin cooling' => life'[q] < lives'[SourceOf[q]]
    BY <1>0, <1>t, <2>1 DEF Lives
  <2>. QED
    BY <2>1, <2>2 DEF Lives
<1>4. ASSUME Quiet PROVE Lives'
  BY <1>4 DEF Quiet, Lives
<1>5. ASSUME UNCHANGED flowVars PROVE Lives'
  BY <1>5 DEF flowVars, Lives
<1>. QED
  BY <1>1, <1>2, <1>3, <1>4, <1>5, QuietSteps

LEMMA OneAlert == FlowSpec => []OneAlertPerCooldown
<1>1. InOrder /\ Lives /\ [FlowNext]_flowVars => Lives'
  BY LivesStep
<1>2. InOrder /\ Lives => OneAlertPerCooldown
  <2>1. InOrder => alerts \subseteq Packet
    BY DEF InOrder, FlowTypeOK
  <2>. QED
    BY <2>1 DEF Lives, OneAlertPerCooldown
<1>. QED
  BY <1>1, <1>2, FlowOrder, LivesStart, PTL DEF FlowSpec

\* While nothing fails, an existing key has its alert; an alert's features are past the
\* engine; and suppression is justified.
Backed ==
    /\ \A p \in alerts : feats[p] \in {"ack", "done", "stuck"}
    /\ flowFaults = 0 =>
          \A s \in cooling : \E q \in Packet : SourceOf[q] = s /\ (q \in alerts \/ feats[q] = "publish")
    /\ SuppressionJustified

LEMMA PastStays ==
    ASSUME InOrder, FlowNext, NEW p \in Packet, feats[p] \in {"ack", "done", "stuck"}
    PROVE  feats'[p] \in {"ack", "done", "stuck"}
<1> USE DEF InOrder, FlowTypeOK
<1>1. CASE Extractor
  <2>1. \/ feats' = feats
        \/ \E q \in Packet : \E cut : feats[q] = "absent" /\ feats' = Added(feats, q, cut)
    <3>1. ASSUME NEW q \in Packet, PublishFeatures(q)
          PROVE  feats[q] = "absent" /\ \E cut : feats' = Added(feats, q, cut)
      BY <3>1, NothingAfter, PacketNat DEF PublishFeatures, ToRaw
    <3>. QED
      BY <1>1, <3>1 DEF Extractor, ReadRaw, DropPacket, TakePacket, AckPacket
  <2>. QED
    BY <2>1 DEF Added
<1>2. ASSUME NEW n \in Packet, ReadFeatures(n) PROVE feats'[p] \in {"ack", "done", "stuck"}
  BY <1>2 DEF ReadFeatures, Delivered
<1>3. ASSUME NEW q \in Packet,
             \/ \E why \in Dropped : DropFeatures(q, why)
             \/ \E v \in {"benign", "malicious"} : Predict(q, v)
             \/ AskCooldown(q) \/ PublishAlert(q) \/ AckFeatures(q)
      PROVE  feats'[p] \in {"ack", "done", "stuck"}
  <2>1. \E to : /\ feats[q] \notin {"done", "stuck"} /\ feats' = [feats EXCEPT ![q] = to]
                /\ feats[q] = "ack" => to = "done"
    BY <1>3 DEF DropFeatures, Predict, AskCooldown, ShouldAlert, PublishAlert, AckFeatures, ToFeat
  <2>. QED
    BY <2>1
<1>4. CASE Surroundings
  <2>1. \/ feats' = feats \/ feats' = Abandoned(feats)
        \/ \E q \in Packet : feats' = [feats EXCEPT ![q] = "stuck"]
    BY <1>4 DEF Surroundings, ExtractorCrash, ModelAppears, EngineRestart, PacketError,
                FeaturesError, BlockSource, UnblockSource, CooldownEnds
  <2>. QED
    BY <2>1 DEF Abandoned
<1>5. CASE Engine
  BY <1>2, <1>3, <1>5 DEF Engine
<1>. QED
  BY <1>1, <1>4, <1>5 DEF FlowNext

LEMMA BackedStep == InOrder /\ Backed /\ [FlowNext]_flowVars => Backed'
<1>. SUFFICES ASSUME InOrder, Backed, FlowNext PROVE Backed'
  BY DEF flowVars, Backed, SuppressionJustified
<1>t. /\ feats \in [Packet -> FeatStep] /\ fate \in [Packet -> Fate] /\ alerts \subseteq Packet
      /\ cooling \subseteq Source /\ flowFaults \in Nat
  BY DEF InOrder, FlowTypeOK
<1>1. ASSUME NEW p \in Packet, AskCooldown(p) PROVE Backed'
  <2>1. Turn(feats, p) /\ feats[p] = "cooldown" /\ UNCHANGED <<alerts, flowFaults>>
    BY <1>1 DEF AskCooldown, ShouldAlert, ToFeat
  <2>2. p \notin alerts
    BY <2>1 DEF Backed
  <2>3. CASE SourceOf[p] \in cooling
    <3>1. /\ feats' = [feats EXCEPT ![p] = "ack"] /\ fate' = [fate EXCEPT ![p] = "suppressed"]
          /\ cooling' = cooling
      BY <1>1, <2>3 DEF AskCooldown, ShouldAlert, ToFeat, Meets, cooldown
    <3>2. ASSUME flowFaults = 0
          PROVE  \E q \in Packet : q < p /\ SourceOf[q] = SourceOf[p] /\ q \in alerts
      <4>1. PICK q \in Packet : SourceOf[q] = SourceOf[p] /\ (q \in alerts \/ feats[q] = "publish")
        BY <2>3, <3>2 DEF Backed
      <4>2. feats[q] \in {"ack", "done", "stuck", "publish"} /\ q # p
        BY <2>1, <2>2, <4>1 DEF Backed
      <4>3. InHand(feats, p) /\ Begun(feats, p)
        BY <2>1 DEF Turn, Begun
      <4>4. Ordered(feats) /\ (q < p \/ p < q)
        BY <4>2, PacketNat DEF InOrder
      <4>5. ~Begun(feats, q)
        <5>1. CASE q < p
          BY <4>3, <4>4, <5>1 DEF Ordered, Begun
        <5>2. CASE p < q
          BY <4>3, <4>4, <5>2 DEF Ordered
        <5>. QED
          BY <4>4, <5>1, <5>2
      <4>6. feats[q] \in Settled
        BY <4>2, <4>5 DEF Begun, InHand, Unread, Settled
      <4>7. q < p
        BY <4>3, <4>4, <4>6 DEF Ordered
      <4>. QED
        BY <4>1, <4>6, <4>7 DEF Settled
    <3>3. SuppressionJustified'
      BY <1>t, <2>1, <3>1, <3>2 DEF Backed, SuppressionJustified
    <3>4. flowFaults' = 0 => \A s \in cooling' : \E q \in Packet :
              SourceOf[q] = s /\ (q \in alerts' \/ feats'[q] = "publish")
      <4>1. \A q \in Packet : feats[q] = "publish" => feats'[q] = "publish"
        BY <1>t, <2>1, <3>1
      <4>. QED
        BY <2>1, <3>1, <4>1 DEF Backed
    <3>. QED
      BY <1>t, <2>1, <3>1, <3>3, <3>4 DEF Backed
  <2>4. CASE SourceOf[p] \notin cooling
    <3>1. /\ feats' = [feats EXCEPT ![p] = "publish"] /\ fate' = fate
          /\ cooling' = cooling \cup {SourceOf[p]}
      BY <1>1, <2>4 DEF AskCooldown, ShouldAlert, ToFeat, KeyOf
    <3>2. SuppressionJustified'
      BY <2>1, <3>1 DEF Backed, SuppressionJustified
    <3>3. flowFaults' = 0 => \A s \in cooling' : \E q \in Packet :
              SourceOf[q] = s /\ (q \in alerts' \/ feats'[q] = "publish")
      <4>1. feats'[p] = "publish" /\ \A q \in Packet : feats[q] = "publish" => feats'[q] = "publish"
        BY <1>t, <3>1
      <4>. QED
        BY <2>1, <3>1, <4>1 DEF Backed
    <3>. QED
      BY <1>t, <2>1, <2>2, <3>1, <3>2, <3>3 DEF Backed
  <2>. QED
    BY <2>3, <2>4
<1>2. ASSUME NEW p \in Packet, PublishAlert(p) PROVE Backed'
  <2>1. /\ UNCHANGED <<cooling, fate, flowFaults>> /\ alerts' = alerts \cup {p}
        /\ feats' = [feats EXCEPT ![p] = "ack"]
    BY <1>2 DEF PublishAlert, ToFeat, cooldown
  <2>2. SuppressionJustified'
    BY <2>1 DEF Backed, SuppressionJustified
  <2>3. \A q \in Packet : q \in alerts \/ feats[q] = "publish" => q \in alerts' \/ feats'[q] = "publish"
    BY <1>t, <2>1
  <2>4. \A q \in alerts' : feats'[q] \in {"ack", "done", "stuck"}
    BY <1>t, <2>1 DEF Backed
  <2>. QED
    BY <2>1, <2>2, <2>3, <2>4 DEF Backed
<1>3. ASSUME NEW s \in Source, CooldownEnds(s) PROVE Backed'
  BY <1>3 DEF CooldownEnds, Backed, SuppressionJustified
<1>4. ASSUME Quiet PROVE Backed'
  <2>1. \A q \in alerts' : feats'[q] \in {"ack", "done", "stuck"}
    BY <1>4, <1>t, PastStays DEF Quiet, Backed
  <2>. QED
    BY <1>4, <2>1 DEF Quiet, Backed, SuppressionJustified
<1>. QED
  BY <1>1, <1>2, <1>3, <1>4, QuietSteps

\* Invariance of CooldownSound: the cooldown floods nobody, a source alerts once per life
\* of its key whatever fails; and without failures it silences nobody, an alert is
\* suppressed only behind one of the same source that is out.
THEOREM CooldownHolds == FlowSpec => []CooldownSound
<1>1. FlowInit => Backed
  BY DEF FlowInit, Backed, SuppressionJustified
<1>2. []InOrder /\ [][FlowNext]_flowVars /\ Backed => []Backed
  BY BackedStep, PTL
<1>. QED
  BY <1>1, <1>2, FlowOrder, OneAlert, PTL DEF FlowSpec, CooldownSound, Backed

(***************************************************************************)
(* Nothing is acknowledged unhandled.                                      *)
(***************************************************************************)

\* What is known of a packet at each step of the two loops.
Verdict(p) ==
    /\ raw[p] \in {"ack", "done"} => feats[p] # "absent" \/ fate[p] \in {"invalid", "blocked", "chaos"}
    /\ feats[p] \in {"cooldown", "publish"} => fate[p] = "malicious"
    /\ feats[p] \in {"ack", "done"} =>
          \/ fate[p] \in {"benign", "suppressed"} \cup Dropped
          \/ fate[p] = "malicious" /\ p \in alerts
    /\ fate[p] = "chaos" => Chaos
    /\ fate[p] = "invalid" => p \in BadPacket \cup BadFeature

Verdicts == \A p \in Packet : Verdict(p)

\* A step that decides nothing about a packet.
Undecided(p) ==
    /\ fate'[p] = fate[p] /\ alerts' = alerts
    /\ feats[p] # "absent" => feats'[p] # "absent"
    /\ feats'[p] \in {"cooldown", "publish", "ack", "done"} =>
          feats[p] = feats'[p] \/ (feats[p] = "ack" /\ feats'[p] = "done")
    /\ raw'[p] \in {"ack", "done"} =>
          raw[p] \in {"ack", "done"} \/ feats'[p] # "absent"

LEMMA UndecidedKeeps ==
    ASSUME NEW p \in Packet, Verdict(p), Undecided(p) PROVE Verdict(p)'
BY DEF Verdict, Undecided

LEMMA VerdictsStep == InOrder /\ Verdicts /\ [FlowNext]_flowVars => Verdicts'
<1>. SUFFICES ASSUME InOrder, Verdicts, FlowNext, NEW p \in Packet PROVE Verdict(p)'
  BY DEF flowVars, Verdicts, Verdict
<1>v. Verdict(p)
  BY DEF Verdicts
<1>t. /\ raw \in [Packet -> RawStep] /\ feats \in [Packet -> FeatStep]
      /\ fate \in [Packet -> Fate] /\ alerts \subseteq Packet
  BY DEF InOrder, FlowTypeOK
<1>1. ASSUME NEW n \in Packet, ReadRaw(n) PROVE Verdict(p)'
  <2>1. Undecided(p)
    BY <1>t, <1>1 DEF ReadRaw, Delivered, Undecided
  <2>. QED
    BY <2>1, <1>v, UndecidedKeeps
<1>2. ASSUME NEW q \in Packet, NEW why \in {"chaos", "invalid", "blocked"}, DropPacket(q, why)
      PROVE  Verdict(p)'
  <2>1. /\ raw[q] = "inbox" /\ raw' = [raw EXCEPT ![q] = "ack"]
        /\ fate' = [fate EXCEPT ![q] = why] /\ feats' = feats /\ alerts' = alerts
    BY <1>2 DEF DropPacket, ToRaw, Meets
  <2>2. (why = "chaos" => Chaos) /\ (why = "invalid" => q \in BadPacket)
    BY <1>2 DEF DropPacket
  <2>3. feats[q] = "absent"
    BY <2>1 DEF InOrder, Follows
  <2>4. CASE p = q
    BY <1>t, <2>1, <2>2, <2>3, <2>4 DEF Verdict
  <2>5. CASE p # q
    BY <1>t, <1>v, <2>1, <2>5, UndecidedKeeps DEF Undecided
  <2>. QED
    BY <2>4, <2>5
<1>3. ASSUME NEW q \in Packet, TakePacket(q) PROVE Verdict(p)'
  BY <1>t, <1>v, <1>3, UndecidedKeeps DEF TakePacket, ToRaw, Undecided
<1>4. ASSUME NEW q \in Packet, PublishFeatures(q) PROVE Verdict(p)'
  <2>1. /\ raw' = [raw EXCEPT ![q] = "ack"] /\ fate' = fate /\ alerts' = alerts
        /\ \E cut : feats' = Added(feats, q, cut)
    BY <1>4 DEF PublishFeatures, ToRaw
  <2>2. /\ feats'[q] = "queued"
        /\ p # q => feats'[p] = feats[p] \/ feats'[p] = "trimmed"
    BY <1>t, <2>1 DEF Added
  <2>3. CASE p = q
    BY <1>t, <1>v, <2>1, <2>2, <2>3 DEF Verdict
  <2>4. CASE p # q
    BY <1>t, <1>v, <2>1, <2>2, <2>4, UndecidedKeeps DEF Undecided
  <2>. QED
    BY <2>3, <2>4
<1>5. ASSUME NEW q \in Packet, AckPacket(q) PROVE Verdict(p)'
  BY <1>t, <1>v, <1>5, UndecidedKeeps DEF AckPacket, ToRaw, Undecided
<1>6. ASSUME NEW n \in Packet, ReadFeatures(n) PROVE Verdict(p)'
  <2>1. Undecided(p)
    BY <1>t, <1>6 DEF ReadFeatures, Delivered, Undecided
  <2>. QED
    BY <2>1, <1>v, UndecidedKeeps
<1>7. ASSUME NEW q \in Packet, NEW why \in Dropped, DropFeatures(q, why) PROVE Verdict(p)'
  <2>1. /\ feats[q] = "inbox" /\ feats' = [feats EXCEPT ![q] = "ack"]
        /\ fate' = [fate EXCEPT ![q] = why] /\ raw' = raw /\ alerts' = alerts
    BY <1>7 DEF DropFeatures, ToFeat, Meets
  <2>2. (why = "chaos" => Chaos) /\ (why = "invalid" => q \in BadFeature)
    BY <1>7 DEF DropFeatures
  <2>3. CASE p = q
    BY <1>t, <1>v, <2>1, <2>2, <2>3 DEF Verdict
  <2>4. CASE p # q
    BY <1>t, <1>v, <2>1, <2>4, UndecidedKeeps DEF Undecided
  <2>. QED
    BY <2>3, <2>4
<1>8. ASSUME NEW q \in Packet, NEW v \in {"benign", "malicious"}, Predict(q, v) PROVE Verdict(p)'
  <2>1. /\ feats[q] = "inbox"
        /\ feats' = [feats EXCEPT ![q] = IF v = "malicious" THEN "cooldown" ELSE "ack"]
        /\ fate' = [fate EXCEPT ![q] = v] /\ raw' = raw /\ alerts' = alerts
    BY <1>8 DEF Predict, ToFeat, Meets
  <2>2. CASE p = q
    BY <1>t, <1>v, <2>1, <2>2 DEF Verdict
  <2>3. CASE p # q
    BY <1>t, <1>v, <2>1, <2>3, UndecidedKeeps DEF Undecided
  <2>. QED
    BY <2>2, <2>3
<1>9. ASSUME NEW q \in Packet, AskCooldown(q) PROVE Verdict(p)'
  <2>1. /\ feats[q] = "cooldown" /\ raw' = raw /\ alerts' = alerts
        /\ \/ feats' = [feats EXCEPT ![q] = "ack"] /\ fate' = [fate EXCEPT ![q] = "suppressed"]
           \/ feats' = [feats EXCEPT ![q] = "publish"] /\ fate' = fate
    BY <1>9 DEF AskCooldown, ShouldAlert, ToFeat, Meets
  <2>2. CASE p = q
    BY <1>t, <1>v, <2>1, <2>2 DEF Verdict
  <2>3. CASE p # q
    BY <1>t, <1>v, <2>1, <2>3, UndecidedKeeps DEF Undecided
  <2>. QED
    BY <2>2, <2>3
<1>10. ASSUME NEW q \in Packet, PublishAlert(q) PROVE Verdict(p)'
  <2>1. /\ feats[q] = "publish" /\ feats' = [feats EXCEPT ![q] = "ack"]
        /\ raw' = raw /\ fate' = fate /\ alerts' = alerts \cup {q}
    BY <1>10 DEF PublishAlert, ToFeat
  <2>. QED
    BY <1>t, <1>v, <2>1 DEF Verdict
<1>11. ASSUME NEW q \in Packet, AckFeatures(q) PROVE Verdict(p)'
  BY <1>t, <1>v, <1>11, UndecidedKeeps DEF AckFeatures, ToFeat, Undecided
<1>12. CASE Surroundings
  <2>1. fate' = fate /\ alerts' = alerts
    BY <1>12 DEF Surroundings, ExtractorCrash, ModelAppears, EngineRestart, PacketError,
                 FeaturesError, BlockSource, UnblockSource, CooldownEnds
  <2>2. \/ raw' = raw \/ raw' = Abandoned(raw)
        \/ \E q \in Packet : raw' = [raw EXCEPT ![q] = "stuck"]
    BY <1>12 DEF Surroundings, ExtractorCrash, ModelAppears, EngineRestart, PacketError,
                 FeaturesError, BlockSource, UnblockSource, CooldownEnds
  <2>3. \/ feats' = feats \/ feats' = Abandoned(feats)
        \/ \E q \in Packet : feats' = [feats EXCEPT ![q] = "stuck"]
    BY <1>12 DEF Surroundings, ExtractorCrash, ModelAppears, EngineRestart, PacketError,
                 FeaturesError, BlockSource, UnblockSource, CooldownEnds
  <2>4. raw'[p] = raw[p] \/ raw'[p] = "stuck"
    BY <1>t, <2>2 DEF Abandoned
  <2>5. feats'[p] = feats[p] \/ feats'[p] = "stuck"
    BY <1>t, <2>3 DEF Abandoned
  <2>. QED
    BY <1>v, <2>1, <2>4, <2>5, UndecidedKeeps DEF Undecided
<1>. QED
  BY <1>1, <1>2, <1>3, <1>4, <1>5, <1>6, <1>7, <1>8, <1>9, <1>10, <1>11, <1>12
     DEF FlowNext, Extractor, Engine

\* Invariance of AckedAccounted: an entry is acknowledged only when its packet has come to
\* something: features in the stream, a verdict, an alert that is out, or a drop with a
\* reason that existed.
THEOREM AckedHandled == FlowSpec => []AckedAccounted
<1>1. FlowInit => Verdicts
  BY DEF FlowInit, Verdicts, Verdict
<1>2. Verdicts => AckedAccounted
  BY DEF Verdicts, Verdict, AckedAccounted
<1>. QED
  BY <1>1, <1>2, VerdictsStep, FlowOrder, PTL DEF FlowSpec
=============================================================================
