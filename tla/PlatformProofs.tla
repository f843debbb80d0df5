----------------------------- MODULE PlatformProofs -----------------------------
(***************************************************************************)
(* Proofs about the services around detection: the offline queue of the    *)
(* mobile app, the sensors and their posts, the WebSockets, the lists, and *)
(* the composition of all of them; for all values of their constants.      *)
(***************************************************************************)
EXTENDS MCPlatform, AccountProofs, SequenceTheorems

(***************************************************************************)
(* The offline queue: types.                                               *)
(***************************************************************************)

Shape ==
    /\ session \in 0..Sessions /\ logins \in 0..Sessions /\ active \in BOOLEAN
    /\ leaving \in {"no", "revoking", "clearing"}
    /\ queue \in Seq(Decision)
    /\ flush \in [pc : {"idle", "token", "sending"}, rest : Seq(Decision),
                  survivors : Seq(Decision), as : 0..Sessions]
    /\ made \in [Decision -> [by : 0..Sessions,
                              pc : {"new", "asking", "done", "refused", "saved", "cut"}]]
    /\ served \in [Decision -> Seq(1..Sessions)]
    /\ fate \in [refused : SUBSET Decision, cleared : SUBSET Decision]
    /\ during \subseteq Decision
    /\ netFaults \in 0..NetFaults /\ kills \in 0..Kills
    /\ \A d \in Decision : made[d].pc = "asking" => made[d].by > 0
    /\ flush.pc # "idle" => flush.rest # <<>>
    /\ flush.pc = "idle" => flush.rest = <<>> /\ flush.survivors = <<>>

LEMMA ShapeStart == QueueInit => Shape
BY QueueAssumption DEF QueueInit, Shape, NoFlush

LEMMA FlushingShape ==
    ASSUME Shape
    PROVE  /\ Flushing \in [pc : {"idle", "token", "sending"}, rest : Seq(Decision),
                            survivors : Seq(Decision), as : 0..Sessions]
           /\ Flushing.pc # "idle" => Flushing.rest # <<>>
           /\ Flushing.pc = "idle" => Flushing.rest = <<>> /\ Flushing.survivors = <<>>
<1>1. CASE Idle /\ queue # <<>>
  <2>1. Flushing = [pc |-> "token", rest |-> queue, survivors |-> <<>>, as |-> 0]
    BY <1>1 DEF Flushing, NoFlush
  <2>2. 0 \in 0..Sessions /\ <<>> \in Seq(Decision) /\ queue \in Seq(Decision)
    BY QueueAssumption DEF Shape
  <2>. QED
    BY <1>1, <2>1, <2>2
<1>2. CASE ~(Idle /\ queue # <<>>)
  BY <1>2 DEF Flushing, Shape
<1>. QED
  BY <1>1, <1>2

LEMMA ShapeStep == Shape /\ [QueueNext]_queueVars => Shape'
<1>. SUFFICES ASSUME Shape, [QueueNext]_queueVars PROVE Shape'
  OBVIOUS
<1> DEFINE Flushes == [pc : {"idle", "token", "sending"}, rest : Seq(Decision),
                       survivors : Seq(Decision), as : 0..Sessions]
           Fates == [refused : SUBSET Decision, cleared : SUBSET Decision]
<1>t. /\ session \in 0..Sessions /\ logins \in 0..Sessions /\ active \in BOOLEAN
      /\ leaving \in {"no", "revoking", "clearing"}
      /\ queue \in Seq(Decision) /\ flush \in Flushes
      /\ served \in [Decision -> Seq(1..Sessions)] /\ fate \in Fates
      /\ netFaults \in 0..NetFaults /\ kills \in 0..Kills
      /\ \A d \in Decision : made[d].pc = "asking" => made[d].by > 0
      /\ Sessions \in Nat /\ NetFaults \in Nat /\ Kills \in Nat
  BY QueueAssumption DEF Shape
<1>c. Sessions \in Nat
  BY QueueAssumption
<1>s. 0 \in 0..Sessions /\ session \in 0..Sessions
  BY <1>c DEF Shape
<1>g. fate \in Fates /\ fate.refused \subseteq Decision /\ fate.cleared \subseteq Decision
  BY DEF Shape
<1>n. NetFault => netFaults' \in 0..NetFaults
  BY <1>t DEF NetFault
<1>a. \A d \in Decision : \A who \in 1..Sessions : Take(d, who) => served' \in [Decision -> Seq(1..Sessions)]
  <2>. SUFFICES ASSUME NEW d \in Decision, NEW who \in 1..Sessions, Take(d, who)
                PROVE  served' \in [Decision -> Seq(1..Sessions)]
    OBVIOUS
  <2>1. Append(served[d], who) \in Seq(1..Sessions)
    BY <1>t, AppendRange
  <2>2. served' = [served EXCEPT ![d] = Append(served[d], who)]
    BY DEF Take
  <2>. QED
    BY <1>t, <2>1, <2>2
<1>u. \A d \in Decision : \A who \in 0..Sessions : Unreached(d, who) =>
          served' \in [Decision -> Seq(1..Sessions)] /\ netFaults' \in 0..NetFaults
  <2>. SUFFICES ASSUME NEW d \in Decision, NEW who \in 0..Sessions, Unreached(d, who)
                PROVE  served' \in [Decision -> Seq(1..Sessions)] /\ netFaults' \in 0..NetFaults
    OBVIOUS
  <2>1. who > 0 => who \in 1..Sessions
    BY <1>c, who \in 0..Sessions
  <2>2. (served' = served \/ (who > 0 /\ Take(d, who))) /\ NetFault
    BY DEF Unreached
  <2>. QED
    BY <1>t, <1>n, <1>a, <2>1, <2>2
<1>1. ASSUME NEW d \in Decision, SubmitDecision(d) PROVE Shape'
  <2>1. made' = [made EXCEPT ![d] = [by |-> session, pc |-> "asking"]] /\ session > 0
    BY <1>1 DEF SubmitDecision
  <2>2. /\ made' \in [Decision -> [by : 0..Sessions,
                                   pc : {"new", "asking", "done", "refused", "saved", "cut"}]]
        /\ \A e \in Decision : made'[e].pc = "asking" => made'[e].by > 0
    BY <1>t, <2>1 DEF Shape
  <2>. QED
    BY <1>1, <2>2 DEF SubmitDecision, Shape
<1>2. ASSUME NEW d \in Decision, Answered(d) \/ Enqueue(d) PROVE Shape'
  <2>1. \E s \in {"done", "refused", "saved"} : made' = [made EXCEPT ![d].pc = s]
    BY <1>2 DEF Answered, Enqueue
  <2>2. /\ made' \in [Decision -> [by : 0..Sessions,
                                   pc : {"new", "asking", "done", "refused", "saved", "cut"}]]
        /\ \A e \in Decision : made'[e].pc = "asking" => made'[e].by > 0
    <3>1. made[d] \in [by : 0..Sessions, pc : {"new", "asking", "done", "refused", "saved", "cut"}]
      BY DEF Shape
    <3>2. PICK s \in {"done", "refused", "saved"} : made' = [made EXCEPT ![d].pc = s]
      BY <2>1
    <3>3. \A e \in Decision : made'[e] = IF e = d THEN [made[d] EXCEPT !.pc = s] ELSE made[e]
      BY <3>2 DEF Shape
    <3>4. [made[d] EXCEPT !.pc = s]
              \in [by : 0..Sessions, pc : {"new", "asking", "done", "refused", "saved", "cut"}]
      BY <3>1
    <3>5. [made[d] EXCEPT !.pc = s].pc = s
      BY <3>1
    <3>. QED
      BY <3>2, <3>3, <3>4, <3>5 DEF Shape
  <2>3. made[d].by \in 1..Sessions
    BY <1>2, <1>t DEF Answered, Enqueue, Shape
  <2>4. served' \in [Decision -> Seq(1..Sessions)] /\ netFaults' \in 0..NetFaults
    BY <1>2, <1>t, <1>a, <1>u, <2>3 DEF Answered, Enqueue
  <2>5. queue' \in Seq(Decision) /\ during' \subseteq Decision
    <3>1. Append(queue, d) \in Seq(Decision)
      BY <1>t, AppendRange
    <3>2. queue' \in {queue, Append(queue, d)} /\ during' \in {during, during \cup {d}}
      BY <1>2 DEF Answered, Enqueue
    <3>. QED
      BY <1>t, <3>1, <3>2 DEF Shape
  <2>6. UNCHANGED <<session, logins, leaving, active, flush, fate, kills>>
    BY <1>2 DEF Answered, Enqueue
  <2>. QED
    BY <2>2, <2>4, <2>5, <2>6 DEF Shape
<1>3. CASE Connected
  BY <1>3, FlushingShape DEF Connected, Shape
<1>4. CASE FlushSend
  BY <1>4 DEF FlushSend, Shape
<1>5. CASE FlushSent
  <2> DEFINE d == Head(flush.rest)
  <2>1. d \in Decision /\ Tail(flush.rest) \in Seq(Decision) /\ flush.survivors \in Seq(Decision)
    BY <1>5, <1>t, TailRange DEF FlushSent, Shape
  <2>2. Append(flush.survivors, d) \in Seq(Decision)
    BY <2>1, AppendRange
  <2>3. flush.as \in 0..Sessions
    BY <1>t
  <2>4. served' \in [Decision -> Seq(1..Sessions)] /\ netFaults' \in 0..NetFaults
    <3>1. \/ flush.as > 0 /\ Take(d, flush.as) /\ netFaults' = netFaults
          \/ UNCHANGED <<served, netFaults>>
          \/ Unreached(d, flush.as)
      BY <1>5 DEF FlushSent
    <3> HIDE DEF d
    <3>2. flush.as > 0 => flush.as \in 1..Sessions
      BY <2>3
    <3>. QED
      BY <1>t, <1>a, <1>u, <2>1, <2>3, <3>1, <3>2
  <2>5. fate' \in Fates
    <3>1. fate' = fate \/ fate' = [fate EXCEPT !.refused = fate.refused \cup {d}]
      BY <1>5 DEF FlushSent
    <3> HIDE DEF d
    <3>2. fate.refused \cup {d} \subseteq Decision
      BY <1>g, <2>1
    <3>. QED
      BY <1>g, <3>1, <3>2
  <2>6. \E ks \in {flush.survivors, Append(flush.survivors, d)} : Loop(Tail(flush.rest), ks)
    BY <1>5 DEF FlushSent
  <2>7. ASSUME NEW rest \in Seq(Decision), NEW ks \in Seq(Decision), Loop(rest, ks)
        PROVE  /\ queue' \in Seq(Decision) /\ flush' \in Flushes
               /\ flush'.pc # "idle" => flush'.rest # <<>>
               /\ flush'.pc = "idle" => flush'.rest = <<>> /\ flush'.survivors = <<>>
    <3>1. ks \o rest \in Seq(Decision) /\ 0 \in 0..Sessions /\ <<>> \in Seq(Decision)
      BY <1>t, ConcatRange
    <3>2. CASE rest = <<>> \/ ~active
      <4>1. /\ flush' = [pc |-> "idle", rest |-> <<>>, survivors |-> <<>>, as |-> 0]
            /\ queue' = ks \o rest
        BY <2>7, <3>2 DEF Loop, NoFlush
      <4>. QED
        BY <3>1, <4>1
    <3>3. CASE ~(rest = <<>> \/ ~active)
      <4>1. flush' = [pc |-> "token", rest |-> rest, survivors |-> ks, as |-> 0] /\ queue' = queue
        BY <2>7, <3>3 DEF Loop
      <4>. QED
        BY <1>t, <3>1, <3>3, <4>1
    <3>. QED
      BY <3>2, <3>3
  <2>8. /\ queue' \in Seq(Decision) /\ flush' \in Flushes
        /\ flush'.pc # "idle" => flush'.rest # <<>>
        /\ flush'.pc = "idle" => flush'.rest = <<>> /\ flush'.survivors = <<>>
    BY <2>1, <2>2, <2>6, <2>7
  <2>9. UNCHANGED <<session, logins, leaving, active, made, during, kills>>
    BY <1>5 DEF FlushSent
  <2>. QED
    BY <2>4, <2>5, <2>8, <2>9 DEF Shape
<1>6. CASE Login
  <2>1. session' \in 0..Sessions /\ logins' \in 0..Sessions
    BY <1>6, <1>t DEF Login
  <2>. QED
    BY <1>6, <2>1, FlushingShape DEF Login, Shape
<1>7. CASE LogoutPause \/ LogoutWipe \/ ForceLogout
  <2>1. session' \in 0..Sessions /\ active' \in BOOLEAN /\ leaving' \in {"no", "revoking", "clearing"}
    <3>1. session' \in {session, 0} /\ active' \in {active, FALSE}
          /\ leaving' \in {leaving, "revoking", "clearing"}
      BY <1>7 DEF LogoutPause, LogoutWipe, ForceLogout
    <3>2. session' \in 0..Sessions
      BY <1>s, <3>1
    <3>. QED
      BY <1>t, <3>1, <3>2
  <2>2. UNCHANGED <<logins, queue, flush, made, served, fate, during, netFaults, kills>>
    BY <1>7 DEF LogoutPause, LogoutWipe, ForceLogout
  <2>. QED
    BY <2>1, <2>2 DEF Shape
<1>8. CASE LogoutClear
  <2>1. Range(queue) \subseteq Decision
    BY <1>t DEF Range
  <2>2. fate' \in Fates /\ queue' \in Seq(Decision)
    <3>1. fate' = [fate EXCEPT !.cleared = fate.cleared \cup Range(queue)] /\ queue' = <<>>
      BY <1>8 DEF LogoutClear
    <3>2. fate.cleared \cup Range(queue) \subseteq Decision
      BY <1>g, <2>1
    <3>. QED
      BY <1>g, <3>1, <3>2
  <2>. QED
    BY <1>8, <2>2 DEF LogoutClear, Shape
<1>9. CASE Restart
  <2>1. kills' \in 0..Kills
    BY <1>9, <1>t DEF Restart
  <2>2. /\ made' \in [Decision -> [by : 0..Sessions,
                                   pc : {"new", "asking", "done", "refused", "saved", "cut"}]]
        /\ \A e \in Decision : made'[e].pc = "asking" => made'[e].by > 0
    BY <1>9, <1>t DEF Restart, Shape
  <2>3. /\ flush' \in Flushes
        /\ flush'.pc # "idle" => flush'.rest # <<>>
        /\ flush'.pc = "idle" => flush'.rest = <<>> /\ flush'.survivors = <<>>
    <3>1. 0 \in 0..Sessions /\ <<>> \in Seq(Decision)
      BY <1>t
    <3>. QED
      BY <1>9, <1>t, <3>1 DEF Restart, NoFlush
  <2>. QED
    BY <1>9, <2>1, <2>2, <2>3 DEF Restart, Shape
<1>10. CASE UNCHANGED queueVars
  BY <1>10 DEF queueVars, Shape
<1>. QED
  BY <1>1, <1>2, <1>3, <1>4, <1>5, <1>6, <1>7, <1>8, <1>9, <1>10 DEF QueueNext

(***************************************************************************)
(* The offline queue: each decision is in one place.                       *)
(***************************************************************************)

Held == Range(flush.rest) \cup Range(flush.survivors)

Apart ==
    /\ Distinct(queue) /\ Distinct(flush.rest) /\ Distinct(flush.survivors)
    /\ Range(flush.rest) \cap Range(flush.survivors) = {}
    /\ \A d \in Decision : d \in Range(queue) \cup Held => made[d].pc = "saved"

\* What a flush that has tried one decision leaves of it.
LEMMA LoopRanges ==
    ASSUME NEW rest \in Seq(Decision), NEW ks \in Seq(Decision), Loop(rest, ks),
           Distinct(rest), Distinct(ks), Range(rest) \cap Range(ks) = {}
    PROVE  \/ /\ flush'.pc = "idle" /\ flush'.rest = <<>> /\ flush'.survivors = <<>>
              /\ Range(queue') = Range(rest) \cup Range(ks) /\ Distinct(queue')
           \/ /\ flush'.pc = "token" /\ flush'.rest = rest /\ flush'.survivors = ks
              /\ queue' = queue
<1>1. CASE rest = <<>> \/ ~active
  <2>1. /\ flush' = [pc |-> "idle", rest |-> <<>>, survivors |-> <<>>, as |-> 0]
        /\ queue' = ks \o rest
    BY <1>1 DEF Loop, NoFlush
  <2>2. Range(ks \o rest) = Range(ks) \cup Range(rest) /\ Distinct(ks \o rest)
    BY ConcatRange
  <2>. QED
    BY <2>1, <2>2
<1>2. CASE ~(rest = <<>> \/ ~active)
  BY <1>2 DEF Loop
<1>. QED
  BY <1>1, <1>2

\* A flush that begins reads the queue.
LEMMA FlushingRanges ==
    ASSUME Shape
    PROVE  \/ Flushing = flush
           \/ /\ flush.pc = "idle" /\ Flushing.pc = "token"
              /\ Flushing.rest = queue /\ Flushing.survivors = <<>>
BY DEF Flushing, NoFlush, Idle

\* What a step of the flush does, d being the decision that was sent: it leaves the flush
\* or is kept, and what was decided about it is written.
Sent(d, kept) ==
    /\ d \in Decision /\ flush.pc = "sending" /\ d \in Range(flush.rest)
    /\ \E rest, ks \in Seq(Decision) :
          /\ Loop(rest, ks) /\ Distinct(rest) /\ Distinct(ks) /\ Range(rest) \cap Range(ks) = {}
          /\ Range(rest) \cup Range(ks) = IF kept THEN Held ELSE Held \ {d}
    /\ UNCHANGED <<session, logins, leaving, active, made, during, kills>>

LEMMA FlushSentMoves ==
    ASSUME Shape, Apart, FlushSent
    PROVE  \E d \in Decision :
              \/ \E who \in 1..Sessions : /\ Sent(d, FALSE) /\ Take(d, who)
                                          /\ UNCHANGED <<fate, netFaults>>
              \/ /\ Sent(d, FALSE) /\ fate' = [fate EXCEPT !.refused = fate.refused \cup {d}]
                 /\ UNCHANGED <<served, netFaults>>
              \/ \E who \in 0..Sessions : Sent(d, TRUE) /\ Unreached(d, who) /\ UNCHANGED fate
<1>1. /\ flush.rest \in Seq(Decision) /\ flush.survivors \in Seq(Decision) /\ flush.rest # <<>>
      /\ flush.pc = "sending" /\ flush.as \in 0..Sessions
  BY DEF Shape, FlushSent
<1>2. PICK d : d = Head(flush.rest)
  OBVIOUS
<1>3. PICK rest : rest = Tail(flush.rest)
  OBVIOUS
<1>4. PICK kept : kept = Append(flush.survivors, d)
  OBVIOUS
<1>5. /\ d \in Decision /\ rest \in Seq(Decision) /\ Range(flush.rest) = {d} \cup Range(rest)
      /\ Distinct(rest) /\ d \notin Range(rest)
  BY <1>1, <1>2, <1>3, TailRange DEF Apart
<1>6. /\ Distinct(flush.survivors) /\ d \notin Range(flush.survivors)
      /\ Range(rest) \cap Range(flush.survivors) = {}
  BY <1>5 DEF Apart
<1>7. /\ kept \in Seq(Decision) /\ Range(kept) = Range(flush.survivors) \cup {d} /\ Distinct(kept)
  BY <1>1, <1>4, <1>5, <1>6, AppendRange
<1>8. /\ Range(rest) \cup Range(flush.survivors) = Held \ {d}
      /\ Range(rest) \cup Range(kept) = Held /\ Range(rest) \cap Range(kept) = {}
  BY <1>5, <1>6, <1>7 DEF Held
<1>9. /\ UNCHANGED <<session, logins, leaving, active, made, during, kills>>
      /\ \/ /\ flush.as > 0 /\ Take(d, flush.as) /\ Loop(rest, flush.survivors)
            /\ UNCHANGED <<fate, netFaults>>
         \/ /\ fate' = [fate EXCEPT !.refused = fate.refused \cup {d}]
            /\ Loop(rest, flush.survivors)
            /\ UNCHANGED <<served, netFaults>>
         \/ Unreached(d, flush.as) /\ Loop(rest, kept) /\ UNCHANGED fate
  BY <1>2, <1>3, <1>4 DEF FlushSent
<1>10. Loop(rest, flush.survivors) => Sent(d, FALSE)
  BY <1>1, <1>5, <1>6, <1>8, <1>9 DEF Sent
<1>11. Loop(rest, kept) => Sent(d, TRUE)
  BY <1>1, <1>5, <1>7, <1>8, <1>9 DEF Sent
<1>12. flush.as > 0 => flush.as \in 1..Sessions
  BY <1>1, QueueAssumption
<1>. QED
  BY <1>1, <1>5, <1>9, <1>10, <1>11, <1>12

LEMMA SentRanges ==
    ASSUME Shape, NEW d \in Decision, NEW kept \in BOOLEAN, Sent(d, kept)
    PROVE  LET left == IF kept THEN Held ELSE Held \ {d}
           IN  \/ /\ flush'.pc = "idle" /\ Held' = {} /\ Range(queue') = left
                  /\ Distinct(queue') /\ Distinct(flush'.rest) /\ Distinct(flush'.survivors)
                  /\ Range(flush'.rest) \cap Range(flush'.survivors) = {}
               \/ /\ flush'.pc = "token" /\ Held' = left /\ queue' = queue
                  /\ Distinct(flush'.rest) /\ Distinct(flush'.survivors)
                  /\ Range(flush'.rest) \cap Range(flush'.survivors) = {}
BY LoopRanges, EmptyRange DEF Sent, Held

LEMMA ApartStep == Shape /\ Apart /\ [QueueNext]_queueVars => Apart'
<1>. SUFFICES ASSUME Shape, Apart, [QueueNext]_queueVars PROVE Apart'
  OBVIOUS
<1>t. /\ queue \in Seq(Decision) /\ Range(queue) \subseteq Decision /\ Held \subseteq Decision
  BY DEF Shape, Held, Range
<1>s. ASSUME UNCHANGED <<queue, flush>>,
             \A d \in Decision : made[d].pc = "saved" => made'[d].pc = "saved"
      PROVE  Apart'
  BY <1>s DEF Apart, Held
<1>b. ASSUME flush' = Flushing, queue' = queue, made' = made PROVE Apart'
  BY <1>b, FlushingRanges, EmptyRange DEF Apart, Held
<1>1. ASSUME NEW d \in Decision, SubmitDecision(d) \/ Answered(d) PROVE Apart'
  <2>1. /\ UNCHANGED <<queue, flush>> /\ made[d].pc \in {"new", "asking"}
        /\ \E m : made' = [made EXCEPT ![d] = m]
    BY <1>1 DEF SubmitDecision, Answered
  <2>2. \A e \in Decision : made[e].pc = "saved" => made'[e].pc = "saved"
    BY <2>1 DEF Shape
  <2>. QED
    BY <1>s, <2>1, <2>2
<1>2. ASSUME NEW d \in Decision, Enqueue(d) PROVE Apart'
  <2>1. /\ made[d].pc = "asking" /\ made' = [made EXCEPT ![d].pc = "saved"]
        /\ queue' = Append(queue, d) /\ flush' = flush
    BY <1>2 DEF Enqueue
  <2>2. d \notin Range(queue)
    BY <2>1 DEF Apart
  <2>3. Range(queue') = Range(queue) \cup {d} /\ Distinct(queue')
    BY <1>t, <2>1, <2>2, AppendRange DEF Apart
  <2>4. made'[d].pc = "saved" /\ \A e \in Decision : made[e].pc = "saved" => made'[e].pc = "saved"
    BY <2>1 DEF Shape
  <2>. QED
    BY <2>1, <2>3, <2>4 DEF Apart, Held
<1>3. CASE Connected \/ Login
  BY <1>3, <1>b DEF Connected, Login
<1>4. CASE FlushSend
  <2>1. /\ flush'.rest = flush.rest /\ flush'.survivors = flush.survivors /\ UNCHANGED <<queue, made>>
    BY <1>4 DEF FlushSend, Shape
  <2>. QED
    BY <2>1 DEF Apart, Held
<1>5. CASE FlushSent
  <2>1. PICK d \in Decision, kept \in BOOLEAN : Sent(d, kept)
    BY <1>5, FlushSentMoves
  <2>2. made' = made
    BY <2>1 DEF Sent
  <2>. QED
    BY <2>1, <2>2, SentRanges DEF Apart
<1>6. CASE LogoutPause \/ LogoutWipe \/ ForceLogout
  BY <1>6, <1>s DEF LogoutPause, LogoutWipe, ForceLogout
<1>7. CASE LogoutClear
  BY <1>7, EmptyRange DEF LogoutClear, Apart, Held
<1>8. CASE Restart
  <2>1. /\ queue' = queue /\ flush'.survivors = <<>> /\ flush'.rest \in {queue, <<>>}
        /\ \A e \in Decision : made[e].pc = "saved" => made'[e].pc = "saved"
    BY <1>8 DEF Restart, NoFlush
  <2>. QED
    BY <2>1, EmptyRange DEF Apart, Held
<1>9. CASE UNCHANGED queueVars
  BY <1>9, <1>s DEF queueVars
<1>. QED
  BY <1>1, <1>2, <1>3, <1>4, <1>5, <1>6, <1>7, <1>8, <1>9 DEF QueueNext

(***************************************************************************)
(* The offline queue: no saved decision is lost, none is sent too often.   *)
(***************************************************************************)

Settled(d) == served[d] # <<>> \/ d \in fate.refused \cup fate.cleared \cup during

Placed(d) ==
    /\ made[d].pc = "saved" => d \in Range(queue) \cup Held \/ Settled(d)
    /\ flush.pc # "idle" /\ d \in Range(queue) => d \in Held \/ Settled(d)
    /\ d \in Held => d \in Range(queue) \cup fate.cleared

\* The server may still be asked to take the decision.
Unsettled(d) ==
    \/ made[d].pc \in {"new", "asking"}
    \/ d \in Held
    \/ flush.pc = "idle" /\ d \in Range(queue)

Afforded(d) ==
    /\ Len(served[d]) <= 1 + netFaults + kills
    /\ Unsettled(d) => Len(served[d]) <= netFaults + kills

Fine == \A d \in Decision : Placed(d) /\ Afforded(d)

LEMMA ApartStart == QueueInit => Apart
BY EmptyRange DEF QueueInit, NoFlush, Apart, Held

LEMMA FineStart == QueueInit => Fine
<1>. SUFFICES ASSUME QueueInit, NEW d \in Decision PROVE Placed(d) /\ Afforded(d)
  BY DEF Fine
<1>1. Len(served[d]) = 0 /\ netFaults = 0 /\ kills = 0
  BY DEF QueueInit
<1>2. Range(queue) = {} /\ Held = {} /\ made[d].pc = "new"
  BY EmptyRange DEF QueueInit, NoFlush, Held
<1>. QED
  BY <1>1, <1>2 DEF Placed, Afforded

LEMMA TakeLength ==
    ASSUME Shape, NEW d \in Decision, NEW who \in 1..Sessions, Take(d, who)
    PROVE  /\ served'[d] # <<>> /\ Len(served'[d]) = Len(served[d]) + 1
           /\ \A e \in Decision \ {d} : served'[e] = served[e]
<1>1. served \in [Decision -> Seq(1..Sessions)] /\ served[d] \in Seq(1..Sessions)
  BY DEF Shape
<1>2. served' = [served EXCEPT ![d] = Append(served[d], who)]
  BY DEF Take
<1>3. served'[d] = Append(served[d], who) /\ \A e \in Decision \ {d} : served'[e] = served[e]
  BY <1>1, <1>2
<1>4. Len(Append(served[d], who)) = Len(served[d]) + 1 /\ Append(served[d], who) # <<>>
  <2>1. ASSUME NEW s \in Seq(1..Sessions)
        PROVE  Len(Append(s, who)) = Len(s) + 1 /\ Append(s, who) # <<>>
    OBVIOUS
  <2>. QED
    BY <1>1, <2>1
<1>. QED
  BY <1>3, <1>4

LEMMA UnreachedLength ==
    ASSUME Shape, NEW d \in Decision, NEW who \in 0..Sessions, Unreached(d, who)
    PROVE  /\ netFaults' = netFaults + 1 /\ Len(served'[d]) <= Len(served[d]) + 1
           /\ served[d] # <<>> => served'[d] # <<>>
           /\ \A e \in Decision \ {d} : served'[e] = served[e]
<1>1. Len(served[d]) \in Nat
  BY DEF Shape
<1>2. who > 0 => who \in 1..Sessions
  BY QueueAssumption, who \in 0..Sessions
<1>3. CASE served' = served
  BY <1>1, <1>3 DEF Unreached, NetFault
<1>4. CASE who > 0 /\ Take(d, who)
  BY <1>1, <1>2, <1>4, TakeLength DEF Unreached, NetFault
<1>. QED
  BY <1>3, <1>4 DEF Unreached

\* A step that leaves what is queued, held and settled of a decision where it was.
LEMMA FineUnmoved ==
    ASSUME Shape, Shape', NEW d \in Decision, Placed(d), Afforded(d),
           Range(queue') = Range(queue), Held' = Held, (flush'.pc = "idle") = (flush.pc = "idle"),
           UNCHANGED <<fate, during, kills>>, served'[d] = served[d],
           netFaults' \in {netFaults, netFaults + 1},
           \/ made'[d].pc = made[d].pc
           \/ made[d].pc \in {"new", "asking"} /\ made'[d].pc # "saved"
    PROVE  Placed(d)' /\ Afforded(d)'
<1>1. Len(served[d]) \in Nat /\ netFaults \in Nat /\ kills \in Nat
  BY QueueAssumption DEF Shape
<1>2. Placed(d)'
  BY DEF Placed, Settled
<1>3. Unsettled(d)' => Unsettled(d)
  BY DEF Unsettled
<1>. QED
  BY <1>1, <1>2, <1>3 DEF Afforded

\* A flush starts: it has read the whole queue.
LEMMA FineFlushing ==
    ASSUME Shape, Shape', NEW d \in Decision, Placed(d), Afforded(d),
           flush' = Flushing, UNCHANGED <<queue, made, served, fate, during, netFaults, kills>>
    PROVE  Placed(d)' /\ Afforded(d)'
<1>1. CASE flush' = flush
  <2>1. Held' = Held
    BY <1>1 DEF Held
  <2>. QED
    BY <1>1, <2>1, FineUnmoved
<1>2. CASE flush.pc = "idle" /\ flush'.pc = "token" /\ flush'.rest = queue /\ flush'.survivors = <<>>
  <2>1. Held' = Range(queue) /\ Held = {}
    BY <1>2, EmptyRange DEF Held, Shape
  <2>2. Placed(d)'
    BY <1>2, <2>1 DEF Placed, Settled
  <2>3. Unsettled(d)' => Unsettled(d)
    BY <1>2, <2>1 DEF Unsettled
  <2>. QED
    BY <2>2, <2>3 DEF Afforded
<1>. QED
  BY <1>1, <1>2, FlushingRanges

\* The flush has tried decision e.
LEMMA FineSent ==
    ASSUME Shape, Shape', Apart, NEW d \in Decision, Placed(d), Afforded(d), FlushSent
    PROVE  Placed(d)' /\ Afforded(d)'
<1>n. Len(served[d]) \in Nat /\ netFaults \in Nat /\ kills \in Nat
  BY QueueAssumption DEF Shape
<1>1. PICK e \in Decision :
              \/ \E who \in 1..Sessions : /\ Sent(e, FALSE) /\ Take(e, who)
                                          /\ UNCHANGED <<fate, netFaults>>
              \/ /\ Sent(e, FALSE) /\ fate' = [fate EXCEPT !.refused = fate.refused \cup {e}]
                 /\ UNCHANGED <<served, netFaults>>
              \/ \E who \in 0..Sessions : Sent(e, TRUE) /\ Unreached(e, who) /\ UNCHANGED fate
  BY FlushSentMoves
<1>2. PICK kept \in BOOLEAN : Sent(e, kept)
  BY <1>1
<1>3. PICK left : left = IF kept THEN Held ELSE Held \ {e}
  OBVIOUS
<1>4. \/ flush'.pc = "idle" /\ Held' = {} /\ Range(queue') = left
      \/ flush'.pc = "token" /\ Held' = left /\ queue' = queue
  BY <1>2, <1>3, SentRanges
<1>5. /\ flush.pc = "sending" /\ e \in Held /\ made[e].pc = "saved"
      /\ UNCHANGED <<made, during, kills>>
  <2>1. flush.pc = "sending" /\ e \in Held /\ UNCHANGED <<made, during, kills>>
    BY <1>2 DEF Sent, Held
  <2>. QED
    BY <2>1 DEF Apart
<1>6. ASSUME e = d => d \in left \/ served'[d] # <<>> \/ d \in fate'.refused,
             served[d] # <<>> => served'[d] # <<>>,
             fate.refused \subseteq fate'.refused, fate'.cleared = fate.cleared
      PROVE  Placed(d)'
  <2>1. d \in Held => d \in left \/ Settled(d)'
    BY <1>3, <1>6 DEF Settled
  <2>2. Settled(d) => Settled(d)'
    BY <1>5, <1>6 DEF Settled
  <2>3. left \subseteq Held
    BY <1>3
  <2>. QED
    BY <1>4, <1>5, <1>6, <2>1, <2>2, <2>3 DEF Placed
<1>7. (Unsettled(d)' => Unsettled(d)) /\ (e = d => Unsettled(d)) /\ (e = d /\ Unsettled(d)' => d \in left)
  <2>1. left \subseteq Held
    BY <1>3
  <2>. QED
    BY <1>4, <1>5, <2>1 DEF Unsettled
<1>8. CASE \E who \in 1..Sessions : Sent(e, FALSE) /\ Take(e, who) /\ UNCHANGED <<fate, netFaults>>
  <2>1. /\ served'[e] # <<>> /\ Len(served'[e]) = Len(served[e]) + 1
        /\ \A c \in Decision \ {e} : served'[c] = served[c]
    BY <1>8, TakeLength
  <2>2. Placed(d)'
    BY <1>6, <1>8, <2>1
  <2>3. e = d => ~Unsettled(d)'
    <3>1. CASE kept = FALSE
      BY <1>3, <1>7, <3>1
    <3>2. CASE kept = TRUE
      <4>1. \/ flush'.pc = "idle" /\ Held' = {} /\ Range(queue') = Held \ {e}
            \/ flush'.pc = "token" /\ Held' = Held \ {e} /\ queue' = queue
        BY <1>8, SentRanges
      <4>. QED
        BY <1>5, <4>1 DEF Unsettled
    <3>. QED
      BY <3>1, <3>2
  <2>. QED
    BY <1>n, <1>5, <1>7, <1>8, <2>1, <2>2, <2>3 DEF Afforded
<1>9. CASE /\ Sent(e, FALSE) /\ fate' = [fate EXCEPT !.refused = fate.refused \cup {e}]
           /\ UNCHANGED <<served, netFaults>>
  <2>1. fate'.refused = fate.refused \cup {e} /\ fate'.cleared = fate.cleared
    BY <1>9 DEF Shape
  <2>. QED
    BY <1>n, <1>5, <1>6, <1>7, <1>9, <2>1 DEF Afforded
<1>10. CASE \E who \in 0..Sessions : Sent(e, TRUE) /\ Unreached(e, who) /\ UNCHANGED fate
  <2>1. /\ netFaults' = netFaults + 1 /\ Len(served'[e]) <= Len(served[e]) + 1
        /\ served[e] # <<>> => served'[e] # <<>>
        /\ \A c \in Decision \ {e} : served'[c] = served[c]
    BY <1>10, UnreachedLength
  <2>2. \/ flush'.pc = "idle" /\ Held' = {} /\ Range(queue') = Held
        \/ flush'.pc = "token" /\ Held' = Held /\ queue' = queue
    BY <1>10, SentRanges
  <2>3. Placed(d)'
    <3>1. Settled(d) => Settled(d)'
      BY <1>5, <1>10, <2>1 DEF Settled
    <3>. QED
      BY <1>5, <1>10, <2>2, <3>1 DEF Placed
  <2>4. Len(served'[d]) <= Len(served[d]) + 1 /\ (d # e => served'[d] = served[d])
    BY <1>n, <2>1
  <2>5. Len(served'[d]) \in Nat
    BY DEF Shape
  <2>. QED
    BY <1>n, <1>5, <1>7, <2>1, <2>3, <2>4, <2>5 DEF Afforded
<1>. QED
  BY <1>1, <1>8, <1>9, <1>10

LEMMA FineStep == Shape /\ Shape' /\ Apart /\ Fine /\ [QueueNext]_queueVars => Fine'
<1>. SUFFICES ASSUME Shape, Shape', Apart, [QueueNext]_queueVars,
                     NEW d \in Decision, Placed(d), Afforded(d)
              PROVE  Placed(d)' /\ Afforded(d)'
  BY DEF Fine
<1>n. Len(served[d]) \in Nat /\ netFaults \in Nat /\ kills \in Nat
  BY QueueAssumption DEF Shape
<1>q. queue \in Seq(Decision)
  BY DEF Shape
<1>1. ASSUME NEW e \in Decision, SubmitDecision(e) PROVE Placed(d)' /\ Afforded(d)'
  <2>1. /\ UNCHANGED <<queue, flush, fate, during, kills, served, netFaults>> /\ Held' = Held
        /\ \/ made'[d].pc = made[d].pc
           \/ made[d].pc \in {"new", "asking"} /\ made'[d].pc # "saved"
    BY <1>1 DEF SubmitDecision, Shape, Held
  <2>. QED
    BY <2>1, FineUnmoved
<1>2. ASSUME NEW e \in Decision, Answered(e) PROVE Placed(d)' /\ Afforded(d)'
  <2>1. /\ UNCHANGED <<queue, flush, fate, during, kills, netFaults>> /\ Held' = Held
        /\ made[e].pc = "asking"
    BY <1>2 DEF Answered, Held
  <2>2. /\ made'[e].pc \in {"done", "refused"}
        /\ \A c \in Decision \ {e} : made'[c] = made[c]
    BY <1>2 DEF Answered, Shape
  <2>3. CASE served' = served
    BY <2>1, <2>2, <2>3, FineUnmoved
  <2>4. CASE Take(e, made[e].by)
    <3>1. made[e].by \in 1..Sessions
      <4>1. made[e].by \in 0..Sessions /\ made[e].by > 0
        BY <2>1 DEF Shape
      <4>2. Sessions \in Nat
        BY QueueAssumption
      <4>. QED
        BY <4>1, <4>2
    <3>2. /\ Len(served'[e]) = Len(served[e]) + 1
          /\ \A c \in Decision \ {e} : served'[c] = served[c]
      BY <2>4, <3>1, TakeLength
    <3>3. CASE d # e
      <4>1. served'[d] = served[d] /\ made'[d] = made[d]
        BY <2>2, <3>2, <3>3
      <4>. QED
        BY <2>1, <4>1, FineUnmoved
    <3>4. CASE d = e
      <4>1. Unsettled(d) /\ d \notin Range(queue) \cup Held
        BY <2>1, <3>4 DEF Unsettled, Apart
      <4>2. ~Unsettled(d)'
        BY <2>1, <2>2, <3>4, <4>1 DEF Unsettled
      <4>3. Placed(d)'
        BY <2>1, <2>2, <3>4, <4>1 DEF Placed
      <4>. QED
        BY <1>n, <2>1, <3>2, <3>4, <4>1, <4>2, <4>3 DEF Afforded
    <3>. QED
      BY <3>3, <3>4
  <2>. QED
    BY <1>2, <2>3, <2>4 DEF Answered
<1>3. ASSUME NEW e \in Decision, Enqueue(e) PROVE Placed(d)' /\ Afforded(d)'
  <2>1. /\ UNCHANGED <<flush, fate, kills>> /\ Held' = Held /\ made[e].pc = "asking"
        /\ queue' = Append(queue, e)
        /\ during' = IF flush.pc = "idle" THEN during ELSE during \cup {e}
    BY <1>3 DEF Enqueue, Held, Idle
  <2>2. /\ made'[e].pc = "saved" /\ \A c \in Decision \ {e} : made'[c] = made[c]
    BY <1>3 DEF Enqueue, Shape
  <2>3. Range(queue') = Range(queue) \cup {e}
    BY <1>q, <2>1, AppendRange
  <2>4. /\ netFaults' = netFaults + 1 /\ Len(served'[e]) <= Len(served[e]) + 1
        /\ served[e] # <<>> => served'[e] # <<>>
        /\ \A c \in Decision \ {e} : served'[c] = served[c]
    <3>1. Unreached(e, made[e].by) /\ made[e].by \in 0..Sessions
      BY <1>3 DEF Enqueue, Shape
    <3>. QED
      BY <3>1, UnreachedLength
  <2>5. CASE d # e
    <3>1. Placed(d)'
      BY <2>1, <2>2, <2>3, <2>4, <2>5 DEF Placed, Settled
    <3>2. Unsettled(d)' => Unsettled(d)
      BY <2>1, <2>2, <2>3, <2>5 DEF Unsettled
    <3>3. served'[d] = served[d]
      BY <2>4, <2>5
    <3>. QED
      BY <1>n, <2>1, <2>4, <3>1, <3>2, <3>3 DEF Afforded
  <2>6. CASE d = e
    <3>1. Unsettled(d) /\ d \notin Held
      BY <2>1, <2>6 DEF Unsettled, Apart
    <3>2. Placed(d)'
      BY <2>1, <2>2, <2>3, <2>6, <3>1 DEF Placed, Settled
    <3>3. Len(served'[d]) \in Nat
      BY DEF Shape
    <3>. QED
      BY <1>n, <2>1, <2>4, <2>6, <3>1, <3>2, <3>3 DEF Afforded
  <2>. QED
    BY <2>5, <2>6
<1>4. CASE Connected \/ Login
  BY <1>4, FineFlushing DEF Connected, Login
<1>5. CASE FlushSend
  <2>1. /\ flush'.rest = flush.rest /\ flush'.survivors = flush.survivors
        /\ flush.pc = "token" /\ flush'.pc = "sending"
        /\ UNCHANGED <<queue, made, served, fate, during, netFaults, kills>>
    BY <1>5 DEF FlushSend, Shape
  <2>2. Held' = Held
    BY <2>1 DEF Held
  <2>. QED
    BY <2>1, <2>2, FineUnmoved
<1>6. CASE FlushSent
  BY <1>6, FineSent
<1>7. CASE LogoutPause \/ LogoutWipe \/ ForceLogout
  <2>1. UNCHANGED <<queue, flush, made, served, fate, during, netFaults, kills>> /\ Held' = Held
    BY <1>7 DEF LogoutPause, LogoutWipe, ForceLogout, Held
  <2>. QED
    BY <2>1, FineUnmoved
<1>8. CASE LogoutClear
  <2>1. /\ fate' = [fate EXCEPT !.cleared = fate.cleared \cup Range(queue)]
        /\ UNCHANGED <<flush, made, served, during, netFaults, kills>> /\ Held' = Held
    BY <1>8 DEF LogoutClear, Held
  <2>2. Range(queue') = {} /\ fate'.cleared = fate.cleared \cup Range(queue)
        /\ fate'.refused = fate.refused
    BY <1>8, <2>1, EmptyRange DEF LogoutClear, Shape
  <2>3. Placed(d)'
    BY <2>1, <2>2 DEF Placed, Settled
  <2>4. Unsettled(d)' => Unsettled(d)
    BY <2>1, <2>2 DEF Unsettled
  <2>. QED
    BY <2>1, <2>3, <2>4 DEF Afforded
<1>9. CASE Restart
  <2>1. /\ UNCHANGED <<queue, served, fate, during, netFaults>> /\ kills' = kills + 1
        /\ made'[d].pc = "saved" => made[d].pc = "saved"
    BY <1>9 DEF Restart, Shape
  <2>2. Held' = Range(queue)
    <3>1. CASE queue = <<>>
      BY <1>9, <3>1, EmptyRange DEF Restart, NoFlush, Held
    <3>2. CASE queue # <<>>
      BY <1>9, <3>2, EmptyRange DEF Restart, NoFlush, Held
    <3>. QED
      BY <3>1, <3>2
  <2>3. Placed(d)'
    BY <2>1, <2>2 DEF Placed, Settled
  <2>. QED
    BY <1>n, <2>1, <2>3 DEF Afforded
<1>10. CASE UNCHANGED queueVars
  <2>1. UNCHANGED <<queue, flush, made, served, fate, during, netFaults, kills>> /\ Held' = Held
    BY <1>10 DEF queueVars, Held
  <2>. QED
    BY <2>1, FineUnmoved
<1>. QED
  BY <1>1, <1>2, <1>3, <1>4, <1>5, <1>6, <1>7, <1>8, <1>9, <1>10 DEF QueueNext

\* No flush, pause, restart or logout loses a saved decision, except those saved during a
\* flush (that these may be lost is QueueDurable's violation), and
\* the server gets a decision at most once for each network error and restart and once
\* more (offline_queue_service.dart:95-232), for any number of decisions, logins, network
\* errors and restarts: decisions queued, held by the flush and being tried are apart, a
\* flush holds all that was queued when it began, and what can still be sent was not sent
\* yet but for those faults.
THEOREM QueueHolds == QueueSpec => []QueueKept
<1>1. QueueInit => Shape /\ Apart /\ Fine
  BY ShapeStart, ApartStart, FineStart
<1>2. Shape /\ Apart /\ Fine /\ [QueueNext]_queueVars => Shape' /\ Apart' /\ Fine'
  BY ShapeStep, ApartStep, FineStep
<1>3. Fine => QueueKept
  BY DEF Fine, Placed, Afforded, Settled, Held, QueueKept, SafeOrEnded
<1>. QED
  BY <1>1, <1>2, <1>3, PTL DEF QueueSpec

\* The app keeps the types of what it holds, whatever the network, the logins and the
\* restarts do (offline_queue_service.dart, auth_cubit.dart).
THEOREM QueueTypes == QueueSpec => []QueueTypeOK
<1>1. Shape => QueueTypeOK
  BY DEF Shape, QueueTypeOK
<1>. QED
  BY <1>1, ShapeStart, ShapeStep, PTL DEF QueueSpec

(***************************************************************************)
(* The sensor's row.                                                       *)
(***************************************************************************)

RowTyped ==
    /\ sensor \in [status : Status, stale : BOOLEAN]
    /\ beats \in [Beat -> [pc : {"idle", "verified", "loaded"}, loaded : Status]]
    /\ stale \in BOOLEAN
    /\ late \subseteq Beat \cup {Monitor}

\* Whoever is at work on the row of a revoked sensor was so before the revocation.
Warned ==
    sensor.status = "revoked" =>
        /\ \A h \in Beat : beats[h].pc # "idle" => h \in late
        /\ stale => Monitor \in late

LEMMA RowStart == FleetInit => RowTyped /\ Warned
<1>. SUFFICES ASSUME FleetInit PROVE RowTyped /\ Warned
  OBVIOUS
<1>1. /\ sensor = [status |-> "pending", stale |-> FALSE] /\ stale = FALSE /\ late = {}
      /\ beats = [h \in Beat |-> NoBeat]
  BY DEF FleetInit
<1>2. NoBeat \in [pc : {"idle", "verified", "loaded"}, loaded : Status] /\ "pending" \in Status
  BY DEF NoBeat, Status
<1>. QED
  BY <1>1, <1>2 DEF RowTyped, Warned

LEMMA RowStep ==
    ASSUME RowTyped, Warned, SensorRowNext
    PROVE  /\ RowTyped' /\ Warned'
           /\ sensor.status = "revoked" /\ sensor'.status # "revoked" => late' # late
           /\ sensor'.status \in Status
<1>a. Monitor \notin Beat
  BY FleetAssumption
<1>i. NoBeat \in [pc : {"idle", "verified", "loaded"}, loaded : Status] /\ NoBeat.pc = "idle"
  BY DEF NoBeat, Status
<1>1. ASSUME NEW h \in Beat, SendBeat(h) PROVE RowTyped' /\ Warned' /\ sensor' = sensor
  <2>1. /\ sensor.status # "revoked" /\ beats' = [beats EXCEPT ![h].pc = "verified"]
        /\ UNCHANGED <<sensor, stale, late>>
    BY <1>1 DEF SendBeat, Verified
  <2>2. [beats[h] EXCEPT !.pc = "verified"]
            \in [pc : {"idle", "verified", "loaded"}, loaded : Status]
    BY DEF RowTyped
  <2>3. beats' = [beats EXCEPT ![h] = [beats[h] EXCEPT !.pc = "verified"]]
    BY <2>1
  <2>. QED
    BY <2>1, <2>2, <2>3 DEF RowTyped, Warned
<1>2. ASSUME NEW h \in Beat, LoadRow(h) PROVE RowTyped' /\ Warned' /\ sensor' = sensor
  <2>1. /\ beats[h].pc = "verified"
        /\ beats' = [beats EXCEPT ![h] = [pc |-> "loaded", loaded |-> sensor.status]]
        /\ UNCHANGED <<sensor, stale, late>>
    BY <1>2 DEF LoadRow
  <2>2. sensor.status \in Status
    BY DEF RowTyped
  <2>. QED
    BY <2>1, <2>2 DEF RowTyped, Warned
<1>3. ASSUME NEW h \in Beat, CommitBeat(h)
      PROVE  /\ RowTyped' /\ Warned'
             /\ sensor.status = "revoked" /\ sensor'.status # "revoked" => late' # late
  <2>1. /\ beats[h].pc = "loaded" /\ beats' = [beats EXCEPT ![h] = NoBeat]
        /\ late' = late \ {h} /\ stale' = stale
    BY <1>3 DEF CommitBeat
  <2>2. PICK s \in {sensor.status, "active"} : sensor' = [status |-> s, stale |-> FALSE]
    BY <1>3 DEF CommitBeat
  <2>3. s \in Status /\ sensor'.status = s
    BY <2>2 DEF RowTyped, Status
  <2>4. RowTyped'
    BY <1>i, <2>1, <2>2, <2>3 DEF RowTyped
  <2>5. sensor'.status = "revoked" => sensor.status = "revoked"
    BY <2>2, <2>3
  <2>6. Warned'
    BY <1>a, <1>i, <2>1, <2>5 DEF Warned, RowTyped
  <2>7. sensor.status = "revoked" => late' # late
    BY <2>1 DEF Warned
  <2>. QED
    BY <2>4, <2>6, <2>7
<1>4. ASSUME NEW h \in Beat, BeatFails(h) PROVE RowTyped' /\ Warned' /\ sensor' = sensor
  BY <1>4, <1>a, <1>i DEF BeatFails, RowTyped, Warned
<1>5. CASE FallSilent
  <2>1. /\ sensor' = [sensor EXCEPT !.stale = TRUE] /\ UNCHANGED <<beats, stale, late>>
    BY <1>5 DEF FallSilent
  <2>2. sensor' \in [status : Status, stale : BOOLEAN] /\ sensor'.status = sensor.status
    BY <2>1 DEF RowTyped
  <2>. QED
    BY <2>1, <2>2 DEF RowTyped, Warned
<1>6. CASE MonitorSelect
  BY <1>6 DEF MonitorSelect, RowTyped, Warned
<1>7. CASE MonitorCommit
  <2>1. /\ stale = TRUE /\ stale' = FALSE /\ late' = late \ {Monitor} /\ beats' = beats
        /\ sensor' \in {sensor, [sensor EXCEPT !.status = "offline"]}
    BY <1>7 DEF MonitorCommit, RowTyped
  <2>2. /\ sensor' \in [status : Status, stale : BOOLEAN]
        /\ sensor'.status \in {sensor.status, "offline"}
    BY <2>1 DEF RowTyped, Status
  <2>3. Warned'
    BY <1>a, <2>1, <2>2 DEF Warned
  <2>4. sensor.status = "revoked" => late' # late
    BY <2>1 DEF Warned
  <2>. QED
    BY <2>1, <2>2, <2>3, <2>4 DEF RowTyped
<1>8. CASE Revoke
  <2>1. /\ sensor' = [sensor EXCEPT !.status = "revoked"] /\ UNCHANGED <<beats, stale>>
        /\ late' = {h \in Beat : beats[h].pc # "idle"} \cup (IF stale THEN {Monitor} ELSE {})
        /\ sensor.status # "revoked"
    BY <1>8 DEF Revoke
  <2>2. sensor' \in [status : Status, stale : BOOLEAN]
    BY <2>1 DEF RowTyped, Status
  <2>. QED
    BY <2>1, <2>2 DEF RowTyped, Warned
<1>9. RowTyped' => sensor'.status \in Status
  BY DEF RowTyped
<1>. QED
  BY <1>1, <1>2, <1>3, <1>4, <1>5, <1>6, <1>7, <1>8, <1>9 DEF SensorRowNext

\* A revoked sensor leaves that status only by a heartbeat or a monitor that was at work
\* before the revocation (ingest_gateway/main.py:150-155, monitor.py:45), for any number
\* of heartbeats at a time: nobody else is at work on a revoked sensor's row.
THEOREM RevocationKept == FleetSpec => RevokedStays
<1> DEFINE Step == sensor.status = "revoked" /\ sensor'.status # "revoked" => late' # late
<1>1. RowTyped /\ Warned /\ [FleetNext]_fleetVars => RowTyped' /\ Warned' /\ [Step]_fleetVars
  <2>1. RowTyped /\ Warned /\ UNCHANGED sensorRowVars => RowTyped' /\ Warned' /\ Step
    BY DEF sensorRowVars, RowTyped, Warned
  <2>2. UNCHANGED fleetVars => UNCHANGED sensorRowVars
    BY DEF fleetVars, sensorRowVars
  <2>. QED
    BY <2>1, <2>2, RowStep DEF FleetNext
<1>. QED
  BY <1>1, RowStart, PTL DEF FleetSpec, RevokedStays

(***************************************************************************)
(* Pieces of sequences.                                                    *)
(***************************************************************************)

LEMMA PieceOf ==
    ASSUME NEW S, NEW s \in Seq(S), NEW m \in 1..(Len(s) + 1), NEW n \in 0..Len(s), m <= n + 1
    PROVE  /\ SubSeq(s, m, n) \in Seq(S) /\ Len(SubSeq(s, m, n)) = n - m + 1
           /\ \A i \in 1..(n - m + 1) : SubSeq(s, m, n)[i] = s[m + i - 1]
<1>1. Len(s) \in Nat /\ \A i \in 1..Len(s) : s[i] \in S
  OBVIOUS
<1>2. m \in Int /\ n \in Int /\ n - m + 1 \in Nat /\ \A i \in m..n : i \in 1..Len(s)
  BY <1>1
<1>3. \A i \in m..n : s[i] \in S
  BY <1>1, <1>2
<1>4. /\ SubSeq(s, m, n) \in Seq(S)
      /\ Len(SubSeq(s, m, n)) = IF m <= n THEN n - m + 1 ELSE 0
      /\ \A i \in 1..(n - m + 1) : SubSeq(s, m, n)[i] = s[m + i - 1]
  BY <1>2, <1>3, SubSeqProperties
<1>. QED
  BY <1>2, <1>4

LEMMA RemoveAtRange ==
    ASSUME NEW S, NEW s \in Seq(S), Distinct(s), NEW k \in DOMAIN s
    PROVE  /\ RemoveAt(s, k) \in Seq(S) /\ Len(RemoveAt(s, k)) = Len(s) - 1
           /\ \A i \in 1..(k - 1) : RemoveAt(s, k)[i] = s[i]
           /\ \A i \in k..(Len(s) - 1) : RemoveAt(s, k)[i] = s[i + 1]
           /\ Range(RemoveAt(s, k)) = Range(s) \ {s[k]} /\ Distinct(RemoveAt(s, k))
<1>1. /\ Len(s) \in Nat /\ DOMAIN s = 1..Len(s) /\ k \in 1..Len(s)
      /\ k \in Nat /\ 1 <= k /\ k <= Len(s)
  OBVIOUS
<1>2. PICK a : a = SubSeq(s, 1, k - 1)
  OBVIOUS
<1>3. PICK b : b = SubSeq(s, k + 1, Len(s))
  OBVIOUS
<1>4. /\ a \in Seq(S) /\ Len(a) = k - 1 /\ \A i \in 1..(k - 1) : a[i] = s[i]
  <2>1. /\ 1 \in 1..(Len(s) + 1) /\ k - 1 \in 0..Len(s) /\ 1 <= (k - 1) + 1
        /\ (k - 1) - 1 + 1 = k - 1 /\ \A i \in 1..(k - 1) : 1 + i - 1 = i
    BY <1>1
  <2>. QED
    BY <1>2, <2>1, PieceOf
<1>5. /\ b \in Seq(S) /\ Len(b) = Len(s) - k /\ \A i \in 1..(Len(s) - k) : b[i] = s[k + i]
  <2>1. /\ k + 1 \in 1..(Len(s) + 1) /\ Len(s) \in 0..Len(s) /\ k + 1 <= Len(s) + 1
        /\ Len(s) - (k + 1) + 1 = Len(s) - k
        /\ \A i \in 1..(Len(s) - k) : (k + 1) + i - 1 = k + i
    BY <1>1
  <2>. QED
    BY <1>3, <2>1, PieceOf
<1>6. PICK t : t = a \o b
  OBVIOUS
<1>7. /\ t \in Seq(S) /\ Len(t) = Len(s) - 1
      /\ \A i \in 1..(Len(s) - 1) : t[i] = IF i <= k - 1 THEN a[i] ELSE b[i - (k - 1)]
  <2>1. /\ a \o b \in Seq(S) /\ Len(a \o b) = Len(a) + Len(b)
        /\ \A i \in 1..(Len(a) + Len(b)) : (a \o b)[i] = IF i <= Len(a) THEN a[i] ELSE b[i - Len(a)]
    BY <1>4, <1>5
  <2>2. Len(a) + Len(b) = Len(s) - 1
    BY <1>1, <1>4, <1>5
  <2>. QED
    BY <1>4, <1>6, <2>1, <2>2
<1>8. /\ \A i \in 1..(k - 1) : t[i] = s[i]
      /\ \A i \in k..(Len(s) - 1) : t[i] = s[i + 1]
  <2>1. ASSUME NEW i \in 1..(k - 1) PROVE t[i] = s[i]
    <3>1. i \in 1..(Len(s) - 1) /\ i <= k - 1
      BY <1>1
    <3>. QED
      BY <1>4, <1>7, <3>1
  <2>2. ASSUME NEW i \in k..(Len(s) - 1) PROVE t[i] = s[i + 1]
    <3>1. /\ i \in 1..(Len(s) - 1) /\ ~(i <= k - 1) /\ i - (k - 1) \in 1..(Len(s) - k)
          /\ k + (i - (k - 1)) = i + 1
      BY <1>1
    <3>2. t[i] = b[i - (k - 1)] /\ b[i - (k - 1)] = s[k + (i - (k - 1))]
      BY <1>5, <1>7, <3>1
    <3>. QED
      BY <3>1, <3>2
  <2>. QED
    BY <2>1, <2>2
<1>9. DOMAIN t = 1..(Len(s) - 1)
  BY <1>7
<1>10. Range(t) = Range(s) \ {s[k]}
  <2>1. ASSUME NEW i \in DOMAIN t PROVE \E j \in DOMAIN s \ {k} : t[i] = s[j]
    <3>1. CASE i <= k - 1
      BY <1>1, <1>8, <1>9, <3>1
    <3>2. CASE ~(i <= k - 1)
      <4>1. i \in k..(Len(s) - 1) /\ i + 1 \in DOMAIN s \ {k}
        BY <1>1, <1>9, <3>2
      <4>. QED
        BY <1>8, <4>1
    <3>. QED
      BY <3>1, <3>2
  <2>2. ASSUME NEW j \in DOMAIN s \ {k} PROVE \E i \in DOMAIN t : t[i] = s[j]
    <3>1. CASE j < k
      <4>1. j \in 1..(k - 1) /\ j \in DOMAIN t
        BY <1>1, <1>9, <3>1
      <4>. QED
        BY <1>8, <4>1
    <3>2. CASE ~(j < k)
      <4>1. j - 1 \in k..(Len(s) - 1) /\ j - 1 \in DOMAIN t /\ (j - 1) + 1 = j
        BY <1>1, <1>9, <3>2
      <4>. QED
        BY <1>8, <4>1
    <3>. QED
      BY <3>1, <3>2
  <2>3. \A j \in DOMAIN s \ {k} : s[j] # s[k]
    BY DEF Distinct
  <2>. QED
    BY <2>1, <2>2, <2>3 DEF Range
<1>11. Distinct(t)
  <2>. SUFFICES ASSUME NEW i \in DOMAIN t, NEW j \in DOMAIN t, t[i] = t[j], i < j PROVE FALSE
    BY <1>9 DEF Distinct
  <2>1. \E m \in DOMAIN s, n \in DOMAIN s : m < n /\ t[i] = s[m] /\ t[j] = s[n]
    <3>1. i \in 1..(k - 1) \/ i \in k..(Len(s) - 1)
      BY <1>1, <1>9
    <3>2. j \in 1..(k - 1) \/ j \in k..(Len(s) - 1)
      BY <1>1, <1>9
    <3>3. i \in DOMAIN s /\ j \in DOMAIN s /\ i + 1 \in DOMAIN s /\ j + 1 \in DOMAIN s
      BY <1>1, <1>9
    <3>4. i < j + 1 /\ i + 1 < j + 1 /\ (i \in k..(Len(s) - 1) => j \in k..(Len(s) - 1))
      BY <1>1, <1>9
    <3>. QED
      BY <1>8, <3>1, <3>2, <3>3, <3>4
  <2>2. \A m, n \in DOMAIN s : m < n => s[m] # s[n]
    BY <1>1 DEF Distinct
  <2>. QED
    BY <2>1, <2>2
<1>12. t = RemoveAt(s, k)
  BY <1>2, <1>3, <1>6 DEF RemoveAt
<1>. QED
  BY <1>7, <1>8, <1>10, <1>11, <1>12

(***************************************************************************)
(* WebSockets: types.                                                      *)
(***************************************************************************)

CastPcs == {"idle", "sending", "sent", "clean", "ack", "done"}

Casts == [pc : CastPcs, list : BOOLEAN,
          next : Nat \ {0}, sent : Nat, reached : SUBSET Socket, failed : SUBSET Socket,
          stayed : SUBSET Socket, removed : Nat, pushed : BOOLEAN]

Linked ==
    /\ hub \in Hubs
    /\ socket \in [Socket -> {"away", "open", "gone", "closed", "ghost"}]
    /\ conns \in Seq(Socket) /\ Distinct(conns)
    /\ \A c \in Range(conns) : socket[c] # "away"
    /\ cast \in Casts
    /\ unsent \in Nat /\ unacked \in Nat /\ misses \in Nat

LEMMA LinkedStart == HubInit => Linked
<1>1. Quiet \in Casts
  BY DEF Quiet, Casts, CastPcs
<1>. QED
  BY <1>1, EmptyRange, HubAssumption DEF HubInit, Linked

\* What the steps do to the broadcast.
Reaching(k, n, m, R) == [k EXCEPT !.next = n, !.sent = m, !.reached = R]

LEMMA CastReached ==
    ASSUME NEW k \in Casts, NEW n \in Nat \ {0}, NEW m \in Nat, NEW R \in SUBSET Socket
    PROVE  \A e : e = Reaching(k, n, m, R) =>
           /\ e \in Casts /\ e.next = n /\ e.sent = m /\ e.reached = R
           /\ e.pc = k.pc /\ e.list = k.list /\ e.failed = k.failed /\ e.stayed = k.stayed
           /\ e.removed = k.removed /\ e.pushed = k.pushed
BY DEF Casts, Reaching

Failing(k, n, F) == [k EXCEPT !.next = n, !.failed = F]

LEMMA CastFailed ==
    ASSUME NEW k \in Casts, NEW n \in Nat \ {0}, NEW F \in SUBSET Socket
    PROVE  \A e : e = Failing(k, n, F) =>
           /\ e \in Casts /\ e.next = n /\ e.failed = F
           /\ e.pc = k.pc /\ e.list = k.list /\ e.reached = k.reached /\ e.sent = k.sent
           /\ e.stayed = k.stayed /\ e.removed = k.removed /\ e.pushed = k.pushed
BY DEF Casts, Failing

Shortened(k, l, n) == [k EXCEPT !.list = l, !.removed = n]

LEMMA CastShorter ==
    ASSUME NEW k \in Casts, NEW l \in BOOLEAN, NEW n \in Nat
    PROVE  \A e : e = Shortened(k, l, n) =>
           /\ e \in Casts /\ e.list = l /\ e.removed = n
           /\ e.pc = k.pc /\ e.next = k.next /\ e.reached = k.reached /\ e.sent = k.sent
           /\ e.stayed = k.stayed /\ e.failed = k.failed /\ e.pushed = k.pushed
BY DEF Casts, Shortened

Staying(k, T) == [k EXCEPT !.stayed = T]

LEMMA CastLeft ==
    ASSUME NEW k \in Casts, NEW T \in SUBSET Socket
    PROVE  \A e : e = Staying(k, T) =>
           /\ e \in Casts /\ e.stayed = T
           /\ e.pc = k.pc /\ e.next = k.next /\ e.reached = k.reached /\ e.sent = k.sent
           /\ e.list = k.list /\ e.failed = k.failed /\ e.pushed = k.pushed
           /\ e.removed = k.removed
BY DEF Casts, Staying

Moving(k, p, b) == [k EXCEPT !.pc = p, !.pushed = b]

LEMMA CastMoves ==
    ASSUME NEW k \in Casts, NEW p \in CastPcs,
           NEW b \in BOOLEAN
    PROVE  \A e : e = Moving(k, p, b) =>
           /\ e \in Casts /\ e.pc = p /\ e.pushed = b
           /\ e.stayed = k.stayed /\ e.next = k.next /\ e.reached = k.reached
           /\ e.sent = k.sent /\ e.list = k.list /\ e.failed = k.failed
           /\ e.removed = k.removed
BY DEF Casts, Moving

LEMMA CastOnly ==
    ASSUME NEW k \in Casts, NEW p \in CastPcs
    PROVE  [k EXCEPT !.pc = p] = Moving(k, p, k.pushed)
BY DEF Casts, Moving

Begun(l, T) == [Quiet EXCEPT !.pc = "sending", !.list = l, !.stayed = T]

LEMMA CastBegun ==
    ASSUME NEW l \in BOOLEAN, NEW T \in SUBSET Socket, NEW e, e = Begun(l, T)
    PROVE  /\ e \in Casts /\ e.pc = "sending" /\ e.list = l /\ e.stayed = T
           /\ e.next = 1 /\ e.sent = 0 /\ e.reached = {} /\ e.failed = {} /\ e.removed = 0
<1>1. Quiet \in Casts
  BY DEF Casts, Quiet, CastPcs
<1>2. PICK k \in Casts : k = Quiet
  BY <1>1
<1>3. e = [k EXCEPT !.pc = "sending", !.list = l, !.stayed = T]
  BY <1>2 DEF Begun
<1>4. /\ e \in Casts /\ e.pc = "sending" /\ e.list = l /\ e.stayed = T
      /\ e.next = k.next /\ e.sent = k.sent /\ e.reached = k.reached /\ e.failed = k.failed
      /\ e.removed = k.removed
  BY <1>3 DEF Casts, CastPcs
<1>. QED
  BY <1>2, <1>4 DEF Quiet

\* The step of a broadcast to socket c.
Tried(c) ==
    /\ c \in Socket /\ cast.pc = "sending" /\ cast.list = TRUE
    /\ cast.next \in DOMAIN conns /\ c = conns[cast.next]
    /\ UNCHANGED <<hub, socket, conns, unsent, unacked>> /\ misses' \in Nat
    /\ cast' \in Casts /\ cast'.next = cast.next + 1
    /\ cast'.pc = cast.pc /\ cast'.list = cast.list /\ cast'.stayed = cast.stayed
    /\ cast'.removed = cast.removed /\ cast'.pushed = cast.pushed
    /\ \/ /\ cast'.reached = cast.reached \cup {c} /\ cast'.sent = cast.sent + 1
          /\ cast'.failed = cast.failed
       \/ /\ cast'.failed = cast.failed \cup {c}
          /\ cast'.reached = cast.reached /\ cast'.sent = cast.sent

LEMMA SendTries == ASSUME Linked, SendNext PROVE \E c \in Socket : Tried(c)
<1>1. PICK c : c = conns[cast.next]
  OBVIOUS
<1>2. PICK n : n = cast.next + 1
  OBVIOUS
<1>3. PICK m : m = cast.sent + 1
  OBVIOUS
<1>4. /\ cast.next \in Nat \ {0} /\ cast.sent \in Nat /\ cast.list \in BOOLEAN
      /\ cast.reached \in SUBSET Socket /\ cast.failed \in SUBSET Socket
      /\ cast \in Casts /\ conns \in Seq(Socket) /\ misses \in Nat
  BY DEF Linked, Casts
<1>5. n \in Nat \ {0} /\ m \in Nat
  BY <1>2, <1>3, <1>4
<1>6. cast.pc = "sending" /\ cast.list = TRUE /\ cast.next \in DOMAIN conns
  BY <1>4 DEF SendNext, More
<1>7. c \in Socket
  BY <1>1, <1>4, <1>6
<1>8. UNCHANGED <<hub, socket, conns, unsent, unacked>> /\ misses' \in Nat
  BY <1>4 DEF SendNext, Miss
<1>9. \/ cast' = [cast EXCEPT !.next = n, !.sent = m, !.reached = cast.reached \cup {c}]
      \/ cast' = [cast EXCEPT !.next = n, !.failed = cast.failed \cup {c}]
  BY <1>1, <1>2, <1>3 DEF SendNext
<1>10. CASE cast' = [cast EXCEPT !.next = n, !.sent = m, !.reached = cast.reached \cup {c}]
  <2>1. PICK R \in SUBSET Socket : R = cast.reached \cup {c}
    BY <1>4, <1>7
  <2>2. cast' = Reaching(cast, n, m, R)
    BY <1>10, <2>1 DEF Reaching
  <2>3. /\ cast' \in Casts /\ cast'.next = n /\ cast'.sent = m /\ cast'.reached = R
        /\ cast'.pc = cast.pc /\ cast'.list = cast.list /\ cast'.failed = cast.failed
        /\ cast'.stayed = cast.stayed /\ cast'.removed = cast.removed
        /\ cast'.pushed = cast.pushed
    BY <1>4, <1>5, <2>2, CastReached
  <2>. QED
    BY <1>1, <1>2, <1>3, <1>6, <1>7, <1>8, <2>1, <2>3 DEF Tried
<1>11. CASE cast' = [cast EXCEPT !.next = n, !.failed = cast.failed \cup {c}]
  <2>1. PICK F \in SUBSET Socket : F = cast.failed \cup {c}
    BY <1>4, <1>7
  <2>2. cast' = Failing(cast, n, F)
    BY <1>11, <2>1 DEF Failing
  <2>3. /\ cast' \in Casts /\ cast'.next = n /\ cast'.failed = F
        /\ cast'.pc = cast.pc /\ cast'.list = cast.list /\ cast'.reached = cast.reached
        /\ cast'.sent = cast.sent /\ cast'.stayed = cast.stayed
        /\ cast'.removed = cast.removed /\ cast'.pushed = cast.pushed
    BY <1>4, <1>5, <2>2, CastFailed
  <2>. QED
    BY <1>1, <1>2, <1>6, <1>7, <1>8, <2>1, <2>3 DEF Tried
<1>. QED
  BY <1>7, <1>9, <1>10, <1>11

\* The step of disconnect of socket c, at place k of the list.
Unlisted(c, k) ==
    /\ k \in DOMAIN conns /\ conns[k] = c /\ socket[c] \in {"gone", "closed"}
    /\ conns' = RemoveAt(conns, k)
    /\ UNCHANGED <<hub, socket, unsent, unacked, misses>>
    /\ cast' \in Casts /\ (cast'.list <=> cast.list /\ conns' # <<>>)
    /\ cast'.removed = IF cast.pc # "idle" THEN cast.removed + 1 ELSE cast.removed
    /\ cast'.pc = cast.pc /\ cast'.next = cast.next /\ cast'.reached = cast.reached
    /\ cast'.sent = cast.sent /\ cast'.stayed = cast.stayed /\ cast'.failed = cast.failed
    /\ cast'.pushed = cast.pushed

LEMMA DisconnectUnlists ==
    ASSUME Linked, NEW c \in Socket, Disconnect(c)
    PROVE  \E k \in DOMAIN conns : Unlisted(c, k)
<1>1. PICK k : k = PlaceOf(c)
  OBVIOUS
<1>2. k \in DOMAIN conns /\ conns[k] = c
  BY <1>1 DEF Disconnect, PlaceOf, Range
<1>3. PICK rest : rest = RemoveAt(conns, k)
  OBVIOUS
<1>4. PICK l : l = (cast.list /\ rest # <<>>)
  OBVIOUS
<1>5. PICK n : n = IF cast.pc # "idle" THEN cast.removed + 1 ELSE cast.removed
  OBVIOUS
<1>6. l \in BOOLEAN /\ n \in Nat /\ cast \in Casts /\ cast.list \in BOOLEAN
  BY <1>4, <1>5 DEF Linked, Casts
<1>7. Without(c) = rest
  BY <1>1, <1>3 DEF Without
<1>8. cast' = Shortened(cast, l, n)
  BY <1>4, <1>5, <1>7 DEF Disconnect, Removal, Busy, Shortened
<1>9. /\ cast' \in Casts /\ cast'.list = l /\ cast'.removed = n
      /\ cast'.pc = cast.pc /\ cast'.next = cast.next /\ cast'.reached = cast.reached
      /\ cast'.sent = cast.sent /\ cast'.stayed = cast.stayed /\ cast'.failed = cast.failed
      /\ cast'.pushed = cast.pushed
  BY <1>6, <1>8, CastShorter
<1>10. /\ conns' = rest /\ socket[c] \in {"gone", "closed"}
       /\ UNCHANGED <<hub, socket, unsent, unacked, misses>>
  BY <1>7 DEF Disconnect
<1>. QED
  BY <1>2, <1>3, <1>4, <1>5, <1>9, <1>10 DEF Unlisted

LEMMA ClosedLeaves ==
    ASSUME Linked, NEW c \in Socket, NEW how, Closed(c, how)
    PROVE  /\ cast' \in Casts /\ cast'.stayed = cast.stayed \ {c}
           /\ cast'.pc = cast.pc /\ cast'.next = cast.next /\ cast'.reached = cast.reached
           /\ cast'.sent = cast.sent /\ cast'.list = cast.list /\ cast'.failed = cast.failed
           /\ cast'.pushed = cast.pushed /\ cast'.removed = cast.removed
<1>1. PICK T : T = cast.stayed \ {c}
  OBVIOUS
<1>2. T \in SUBSET Socket /\ cast \in Casts
  BY <1>1 DEF Linked, Casts
<1>3. cast' = Staying(cast, T)
  BY <1>1 DEF Closed, Staying
<1>. QED
  BY <1>1, <1>2, <1>3, CastLeft

\* Between and after the sends only the progress moves.
Moved(p, q, b) ==
    /\ cast.pc = p /\ cast' \in Casts /\ cast'.pc = q /\ cast'.pushed = b
    /\ cast'.stayed = cast.stayed /\ cast'.next = cast.next /\ cast'.reached = cast.reached
    /\ cast'.sent = cast.sent /\ cast'.list = cast.list /\ cast'.failed = cast.failed
    /\ cast'.removed = cast.removed

LEMMA CastStep ==
    ASSUME Linked
    PROVE  /\ SendEnds => Moved("sending", IF hub = "mobile" THEN "sent" ELSE "clean", cast.pushed)
           /\ PushOrNot => Moved("sent", "ack", (cast.sent = 0))
           /\ AckBroadcast => Moved("ack", "done", cast.pushed)
           /\ RemoveFailed => Moved("clean", "done", cast.pushed)
<1>1. cast \in Casts /\ cast.pushed \in BOOLEAN
  BY DEF Linked, Casts
<1>2. PICK z : z = (cast.sent = 0)
  OBVIOUS
<1>3. z \in BOOLEAN
  BY <1>2
<1>4. ASSUME NEW p, NEW q \in CastPcs,
             NEW b \in BOOLEAN, cast.pc = p, cast' = Moving(cast, q, b)
      PROVE  Moved(p, q, b)
  <2>1. /\ cast' \in Casts /\ cast'.pc = q /\ cast'.pushed = b
        /\ cast'.stayed = cast.stayed /\ cast'.next = cast.next
        /\ cast'.reached = cast.reached
        /\ cast'.sent = cast.sent /\ cast'.list = cast.list /\ cast'.failed = cast.failed
        /\ cast'.removed = cast.removed
    <3>1. PICK k \in Casts : k = cast
      BY <1>1
    <3>2. cast' = Moving(k, q, b)
      BY <1>4, <3>1
    <3>3. /\ cast' \in Casts /\ cast'.pc = q /\ cast'.pushed = b
          /\ cast'.stayed = k.stayed /\ cast'.next = k.next /\ cast'.reached = k.reached
          /\ cast'.sent = k.sent /\ cast'.list = k.list /\ cast'.failed = k.failed
          /\ cast'.removed = k.removed
      BY <3>2, CastMoves
    <3>. QED
      BY <3>1, <3>3
  <2>. QED
    BY <1>4, <2>1 DEF Moved
<1>5. ASSUME NEW p, NEW q \in CastPcs,
             cast.pc = p, cast' = [cast EXCEPT !.pc = q]
      PROVE  Moved(p, q, cast.pushed)
  <2>1. cast' = Moving(cast, q, cast.pushed)
    BY <1>1, <1>5, CastOnly
  <2>. QED
    BY <1>1, <1>4, <1>5, <2>1
<1>6. SendEnds => Moved("sending", IF hub = "mobile" THEN "sent" ELSE "clean", cast.pushed)
  BY <1>5 DEF CastPcs, SendEnds
<1>7. PushOrNot => Moved("sent", "ack", (cast.sent = 0))
  <2>1. PushOrNot => cast.pc = "sent" /\ cast' = Moving(cast, "ack", z)
    BY <1>2 DEF PushOrNot, Moving
  <2>2. PushOrNot => Moved("sent", "ack", z)
    BY <1>3, <1>4, <2>1 DEF CastPcs
  <2>. QED
    BY <1>2, <2>2
<1>8. AckBroadcast => Moved("ack", "done", cast.pushed)
  BY <1>5 DEF CastPcs, AckBroadcast
<1>9. RemoveFailed => Moved("clean", "done", cast.pushed)
  BY <1>5 DEF CastPcs, RemoveFailed
<1>. QED
  BY <1>6, <1>7, <1>8, <1>9

LEMMA RangeFinite == ASSUME NEW S, NEW s \in Seq(S) PROVE IsFiniteSet(Range(s)) /\ Range(s) \subseteq S
<1>1. DOMAIN s = 1..Len(s) /\ Len(s) \in Nat /\ \A i \in 1..Len(s) : s[i] \in S
  OBVIOUS
<1>2. IsFiniteSet(1..Len(s))
  BY <1>1, FS_Interval
<1>3. s \in Surjection(1..Len(s), Range(s))
  BY <1>1 DEF Surjection, Range
<1>4. IsFiniteSet(Range(s))
  BY <1>2, <1>3, FS_Surjection
<1>. QED
  BY <1>1, <1>4 DEF Range

LEMMA SequenceOfSet ==
    ASSUME NEW S, IsFiniteSet(S), NEW s \in SetToSeqs(S)
    PROVE  s \in Seq(S) /\ Distinct(s)
<1>1. Cardinality(S) \in Nat
  BY FS_CardinalityType
<1>2. /\ s \in [1..Cardinality(S) -> S]
      /\ \A i, j \in 1..Cardinality(S) : i # j => s[i] # s[j]
  BY DEF SetToSeqs
<1>. QED
  BY <1>1, <1>2 DEF Distinct

LEMMA LinkedStep == Linked /\ [HubNext]_hubVars => Linked'
<1>. SUFFICES ASSUME Linked, [HubNext]_hubVars PROVE Linked'
  OBVIOUS
<1>t. /\ conns \in Seq(Socket) /\ Distinct(conns) /\ Range(conns) \subseteq Socket /\ cast \in Casts
      /\ socket \in [Socket -> {"away", "open", "gone", "closed", "ghost"}] /\ hub \in Hubs
      /\ \A c \in Range(conns) : socket[c] # "away"
      /\ unsent \in Nat /\ unacked \in Nat /\ misses \in Nat
  BY RangeFinite DEF Linked
<1>1. ASSUME NEW c \in Socket, Connect(c) PROVE Linked'
  <2>1. /\ socket[c] = "away" /\ socket' = [socket EXCEPT ![c] = "open"]
        /\ conns' = Append(conns, c) /\ UNCHANGED <<hub, cast, unsent, unacked, misses>>
    BY <1>1 DEF Connect
  <2>2. c \notin Range(conns)
    BY <1>t, <2>1
  <2>3. /\ conns' \in Seq(Socket) /\ Range(conns') = Range(conns) \cup {c} /\ Distinct(conns')
    BY <1>t, <2>1, <2>2, AppendRange
  <2>4. /\ socket' \in [Socket -> {"away", "open", "gone", "closed", "ghost"}]
        /\ \A d \in Range(conns') : socket'[d] # "away"
    BY <1>t, <2>1, <2>3
  <2>. QED
    BY <1>t, <2>1, <2>3, <2>4 DEF Linked
<1>2. ASSUME NEW c \in Socket, PeerGone(c) \/ TokenEnds(c) \/ Oversize(c) PROVE Linked'
  <2>1. PICK how \in {"gone", "closed", "ghost"} : Closed(c, how)
    BY <1>2 DEF PeerGone, TokenEnds, Oversize
  <2>2. socket' = [socket EXCEPT ![c] = how] /\ UNCHANGED <<hub, conns, unsent, unacked, misses>>
    BY <2>1 DEF Closed
  <2>3. cast' \in Casts
    BY <2>1, ClosedLeaves
  <2>. QED
    BY <1>t, <2>2, <2>3 DEF Linked
<1>3. ASSUME NEW c \in Socket, Disconnect(c) PROVE Linked'
  <2>1. PICK k \in DOMAIN conns : Unlisted(c, k)
    BY <1>3, DisconnectUnlists
  <2>2. conns' \in Seq(Socket) /\ Distinct(conns') /\ Range(conns') \subseteq Range(conns)
    BY <1>t, <2>1, RemoveAtRange DEF Unlisted
  <2>3. cast' \in Casts /\ UNCHANGED <<hub, socket, unsent, unacked, misses>>
    BY <2>1 DEF Unlisted
  <2>. QED
    BY <1>t, <2>2, <2>3 DEF Linked
<1>4. CASE StartBroadcast
  <2>1. PICK T : T = {c \in Range(conns) : socket[c] = "open"}
    OBVIOUS
  <2>2. PICK l : l = (conns # <<>>)
    OBVIOUS
  <2>3. /\ T \in SUBSET Socket /\ l \in BOOLEAN
        /\ cast' = Begun(l, T)
    BY <1>4, <1>t, <2>1, <2>2 DEF StartBroadcast, Begun
  <2>4. cast' \in Casts
    BY <2>3, CastBegun
  <2>5. unsent' \in Nat /\ UNCHANGED <<hub, socket, conns, unacked, misses>>
    BY <1>4, <1>t DEF StartBroadcast
  <2>. QED
    BY <1>t, <2>4, <2>5 DEF Linked
<1>5. CASE SendNext
  BY <1>5, <1>t, SendTries DEF Tried, Linked
<1>6. CASE SendEnds \/ PushOrNot
  <2>1. cast' \in Casts
    BY <1>6, CastStep DEF Moved
  <2>. QED
    BY <1>6, <1>t, <2>1 DEF SendEnds, PushOrNot, Linked
<1>7. CASE AckBroadcast
  <2>1. cast' \in Casts
    BY <1>7, CastStep DEF Moved
  <2>2. unacked' \in Nat /\ misses' \in Nat
    BY <1>7, <1>t DEF AckBroadcast, Miss
  <2>. QED
    BY <1>7, <1>t, <2>1, <2>2 DEF AckBroadcast, Linked
<1>8. CASE RemoveFailed
  <2>1. cast' \in Casts
    BY <1>8, CastStep DEF Moved
  <2>2. PICK S : S = Range(conns) \ cast.failed
    OBVIOUS
  <2>3. IsFiniteSet(S) /\ S \subseteq Range(conns)
    <3>1. IsFiniteSet(Range(conns))
      BY <1>t, RangeFinite
    <3>. QED
      BY <2>2, <3>1, FS_Subset
  <2>4. conns' \in SetToSeqs(S)
    BY <1>8, <2>2 DEF RemoveFailed
  <2>5. conns' \in Seq(S) /\ Distinct(conns')
    BY <2>3, <2>4, SequenceOfSet
  <2>6. conns' \in Seq(Socket) /\ Range(conns') \subseteq Range(conns)
    <3>1. Range(conns') \subseteq S
      BY <2>5, RangeFinite
    <3>2. S \subseteq Socket
      BY <1>t, <2>3
    <3>. QED
      BY <2>3, <2>5, <3>1, <3>2, SeqMonotonic
  <2>. QED
    BY <1>8, <1>t, <2>1, <2>5, <2>6 DEF RemoveFailed, Linked
<1>9. CASE BroadcastDone
  <2>1. Quiet \in Casts
    BY DEF Quiet, Casts, CastPcs
  <2>. QED
    BY <1>9, <1>t, <2>1 DEF BroadcastDone, Linked
<1>10. CASE UNCHANGED hubVars
  BY <1>10 DEF hubVars, Linked
<1>. QED
  BY <1>1, <1>2, <1>3, <1>4, <1>5, <1>6, <1>7, <1>8, <1>9, <1>10 DEF HubNext

\* The sockets, the list of them and the broadcast keep their types: no socket is listed
\* twice (mobile_gateway/main.py:81-98, gateway/main.py:99-121), for any number of
\* sockets, messages and failures.
THEOREM HubTypes == HubSpec => []HubTypeOK
<1>1. Linked => HubTypeOK
  <2>. SUFFICES ASSUME Linked PROVE HubTypeOK
    OBVIOUS
  <2>1. cast.pc \in CastPcs /\ cast.reached \cup cast.failed \cup cast.stayed \subseteq Socket
    BY DEF Linked, Casts
  <2>2. IsInjective(conns)
    BY DEF Linked, Distinct, IsInjective
  <2>. QED
    BY <2>1, <2>2 DEF Linked, HubTypeOK, CastPcs
<1>. QED
  BY <1>1, LinkedStart, LinkedStep, PTL DEF HubSpec

(***************************************************************************)
(* WebSockets: whom a broadcast reaches.                                   *)
(***************************************************************************)

Hit == cast.reached \cup cast.failed

\* Sockets that moved up, past the place of the broadcast, when another was removed.
Skipped == {c \in cast.stayed \ Hit : \E i \in DOMAIN conns : i < cast.next /\ conns[i] = c}

Tallied ==
    cast.pc # "idle" =>
        /\ IsFiniteSet(cast.stayed) /\ IsFiniteSet(cast.reached)
        /\ cast.reached \cap cast.failed = {} /\ cast.sent = Cardinality(cast.reached)
        /\ \A c \in cast.stayed : socket[c] = "open"
        /\ \A c \in Hit : socket[c] # "away"

Swept ==
    /\ cast.pc = "sending" /\ cast.list =>
          /\ cast.stayed \subseteq Range(conns)
          /\ \A i \in DOMAIN conns : i >= cast.next => conns[i] \notin Hit
          /\ Cardinality(Skipped) <= cast.removed
    /\ cast.pc = "sending" /\ ~cast.list => cast.stayed = {}

Finished ==
    /\ cast.pc \in {"sent", "clean", "ack", "done"} => Cardinality(cast.stayed \ Hit) <= cast.removed
    /\ cast.pc = "clean" => hub # "mobile"
    /\ cast.pc \in {"ack", "done"} /\ hub = "mobile" => (cast.pushed <=> cast.sent = 0)

LEMMA NoLarger ==
    ASSUME NEW S, IsFiniteSet(S), NEW T, T \subseteq S, NEW n \in Nat, Cardinality(S) <= n
    PROVE  IsFiniteSet(T) /\ Cardinality(T) \in Nat /\ Cardinality(T) <= n
<1>1. T \in SUBSET S
  OBVIOUS
<1>2. IsFiniteSet(T) /\ Cardinality(T) <= Cardinality(S)
  BY <1>1, FS_Subset
<1>3. Cardinality(T) \in Nat /\ Cardinality(S) \in Nat
  BY <1>2, FS_CardinalityType
<1>. QED
  BY <1>2, <1>3

LEMMA OneLarger ==
    ASSUME NEW S, IsFiniteSet(S), NEW x, NEW T, T \subseteq S \cup {x}, NEW n \in Nat,
           Cardinality(S) <= n
    PROVE  IsFiniteSet(T) /\ Cardinality(T) \in Nat /\ Cardinality(T) <= n + 1
<1>1. /\ IsFiniteSet(S \cup {x})
      /\ Cardinality(S \cup {x}) = IF x \in S THEN Cardinality(S) ELSE Cardinality(S) + 1
  BY FS_AddElement
<1>2. Cardinality(S) \in Nat
  BY FS_CardinalityType
<1>3. Cardinality(S \cup {x}) <= n + 1 /\ n + 1 \in Nat
  BY <1>1, <1>2
<1>. QED
  BY <1>1, <1>3, NoLarger

LEMMA CastTypes ==
    ASSUME Linked
    PROVE  /\ conns \in Seq(Socket) /\ DOMAIN conns = 1..Len(conns) /\ Len(conns) \in Nat
           /\ cast.next \in Nat \ {0} /\ cast.removed \in Nat /\ cast.sent \in Nat
           /\ cast.list \in BOOLEAN /\ cast.pushed \in BOOLEAN
           /\ cast.pc \in {"idle", "sending", "sent", "clean", "ack", "done"}
           /\ (cast.pc # "idle" <=> cast.pc = "sending" \/ cast.pc \in {"sent", "clean", "ack", "done"})
BY DEF Linked, Casts, CastPcs

\* A socket that joins comes behind all that are there.
LEMMA ConnectSweeps ==
    ASSUME Linked, Tallied, Swept, Finished, NEW c \in Socket, Connect(c)
    PROVE  Tallied' /\ Swept' /\ Finished'
<1>1. /\ socket[c] = "away" /\ socket' = [socket EXCEPT ![c] = "open"]
      /\ conns' = Append(conns, c) /\ UNCHANGED <<hub, cast>>
  BY DEF Connect
<1>t. /\ conns \in Seq(Socket) /\ DOMAIN conns = 1..Len(conns) /\ Len(conns) \in Nat
      /\ cast.next \in Nat \ {0} /\ cast.removed \in Nat
      /\ socket \in [Socket -> {"away", "open", "gone", "closed", "ghost"}]
      /\ \A d \in Range(conns) : socket[d] # "away"
  BY CastTypes DEF Linked
<1>2. /\ Range(conns') = Range(conns) \cup {c}
      /\ DOMAIN conns' = DOMAIN conns \cup {Len(conns) + 1} /\ conns'[Len(conns) + 1] = c
      /\ \A i \in DOMAIN conns : conns'[i] = conns[i]
  <2>1. Range(conns') = Range(conns) \cup {c}
    BY <1>1, <1>t, AppendRange
  <2>. QED
    BY <1>1, <1>t, <2>1
<1>3. CASE cast.pc = "idle"
  BY <1>1, <1>3 DEF Tallied, Swept, Finished
<1>4. CASE cast.pc # "idle"
  <2>1. /\ IsFiniteSet(cast.stayed) /\ c \notin cast.stayed /\ c \notin Hit
        /\ \A d \in cast.stayed : socket[d] = "open"
        /\ \A d \in Hit : socket[d] # "away"
    BY <1>1, <1>4 DEF Tallied
  <2>2. Hit' = Hit /\ cast' = cast
    BY <1>1 DEF Hit
  <2>3. Tallied'
    <3>1. \A d : socket'[d] = socket[d] \/ d = c \/ d \notin Socket
      BY <1>1, <1>t
    <3>2. cast.stayed \subseteq Socket /\ Hit \subseteq Socket
      BY DEF Linked, Casts, Hit
    <3>3. (\A d \in cast.stayed : socket'[d] = "open") /\ (\A d \in Hit : socket'[d] # "away")
      BY <2>1, <3>1, <3>2
    <3>. QED
      BY <1>4, <2>2, <3>3 DEF Tallied
  <2>4. Skipped' \subseteq Skipped
    BY <1>2, <2>1, <2>2 DEF Skipped
  <2>5. ASSUME cast.pc = "sending", cast.list PROVE Cardinality(Skipped') <= cast.removed
    <3>1. IsFiniteSet(Skipped)
      BY <2>1, FS_Subset DEF Skipped
    <3>. QED
      BY <1>t, <2>4, <2>5, <3>1, NoLarger DEF Swept
  <2>6. \A i \in DOMAIN conns' : conns'[i] = c \/ (i \in DOMAIN conns /\ conns'[i] = conns[i])
    BY <1>2
  <2>7. Swept'
    BY <1>2, <2>1, <2>2, <2>5, <2>6 DEF Swept
  <2>. QED
    BY <1>1, <2>2, <2>3, <2>7 DEF Finished
<1>. QED
  BY <1>3, <1>4

LEMMA ClosedSweeps ==
    ASSUME Linked, Tallied, Swept, Finished, NEW c \in Socket,
           NEW how \in {"gone", "closed", "ghost"}, Closed(c, how)
    PROVE  Tallied' /\ Swept' /\ Finished'
<1>1. /\ socket' = [socket EXCEPT ![c] = how] /\ UNCHANGED <<hub, conns>>
  BY DEF Closed
<1>2. /\ cast'.stayed = cast.stayed \ {c}
      /\ cast'.pc = cast.pc /\ cast'.next = cast.next /\ cast'.reached = cast.reached
      /\ cast'.sent = cast.sent /\ cast'.list = cast.list /\ cast'.failed = cast.failed
      /\ cast'.pushed = cast.pushed /\ cast'.removed = cast.removed
  BY ClosedLeaves
<1>3. Hit' = Hit
  BY <1>2 DEF Hit
<1>4. CASE cast.pc = "idle"
  BY <1>2, <1>4 DEF Tallied, Swept, Finished
<1>5. CASE cast.pc # "idle"
  <2>1. IsFiniteSet(cast.stayed) /\ cast.removed \in Nat
    BY <1>5, CastTypes DEF Tallied
  <2>2. Tallied'
    <3>1. IsFiniteSet(cast.stayed \ {c})
      BY <2>1, FS_RemoveElement
    <3>2. \A d \in Socket : socket'[d] = IF d = c THEN how ELSE socket[d]
      BY <1>1 DEF Linked
    <3>3. cast.stayed \subseteq Socket /\ Hit \subseteq Socket
      BY DEF Linked, Casts, Hit
    <3>4. /\ \A d \in cast.stayed \ {c} : socket'[d] = "open"
          /\ \A d \in Hit : socket'[d] # "away"
      BY <1>5, <3>2, <3>3 DEF Tallied
    <3>. QED
      BY <1>2, <1>3, <1>5, <3>1, <3>4 DEF Tallied
  <2>3. Skipped' \subseteq Skipped /\ cast'.stayed \ Hit' \subseteq cast.stayed \ Hit
    BY <1>1, <1>2, <1>3 DEF Skipped
  <2>4. IsFiniteSet(Skipped) /\ IsFiniteSet(cast.stayed \ Hit)
    BY <2>1, FS_Subset DEF Skipped
  <2>5. /\ Cardinality(Skipped) <= cast.removed => Cardinality(Skipped') <= cast.removed
        /\ Cardinality(cast.stayed \ Hit) <= cast.removed
              => Cardinality(cast'.stayed \ Hit') <= cast.removed
    BY <2>1, <2>3, <2>4, NoLarger
  <2>6. Swept'
    BY <1>1, <1>2, <1>3, <2>5 DEF Swept
  <2>7. Finished'
    BY <1>1, <1>2, <1>3, <2>5 DEF Finished
  <2>. QED
    BY <2>2, <2>6, <2>7
<1>. QED
  BY <1>4, <1>5

\* A removal moves at most the next socket past the place of the broadcast.
LEMMA UnlistedSweeps ==
    ASSUME Linked, Tallied, Swept, Finished, NEW c \in Socket, NEW k \in DOMAIN conns, Unlisted(c, k)
    PROVE  Tallied' /\ Swept' /\ Finished'
<1>1. /\ conns[k] = c /\ socket[c] \in {"gone", "closed"} /\ conns' = RemoveAt(conns, k)
      /\ UNCHANGED <<hub, socket>>
      /\ cast'.pc = cast.pc /\ cast'.next = cast.next /\ cast'.reached = cast.reached
      /\ cast'.sent = cast.sent /\ cast'.stayed = cast.stayed /\ cast'.failed = cast.failed
      /\ cast'.pushed = cast.pushed
      /\ (cast'.list <=> cast.list /\ conns' # <<>>)
      /\ cast'.removed = IF cast.pc # "idle" THEN cast.removed + 1 ELSE cast.removed
  BY DEF Unlisted
<1>t. /\ conns \in Seq(Socket) /\ Distinct(conns) /\ DOMAIN conns = 1..Len(conns)
      /\ Len(conns) \in Nat /\ cast.next \in Nat \ {0} /\ cast.removed \in Nat
  BY CastTypes DEF Linked
<1>2. /\ Range(conns') = Range(conns) \ {c} /\ DOMAIN conns' = 1..(Len(conns) - 1)
      /\ \A i \in 1..(k - 1) : conns'[i] = conns[i]
      /\ \A i \in k..(Len(conns) - 1) : conns'[i] = conns[i + 1]
  <2>1. PICK rest : rest = RemoveAt(conns, k)
    OBVIOUS
  <2>2. /\ rest \in Seq(Socket) /\ Len(rest) = Len(conns) - 1
        /\ \A i \in 1..(k - 1) : rest[i] = conns[i]
        /\ \A i \in k..(Len(conns) - 1) : rest[i] = conns[i + 1]
        /\ Range(rest) = Range(conns) \ {conns[k]}
    BY <1>t, <2>1, RemoveAtRange
  <2>3. DOMAIN rest = 1..(Len(conns) - 1)
    BY <1>t, <2>2
  <2>. QED
    BY <1>1, <2>1, <2>2, <2>3
<1>3. Hit' = Hit
  BY <1>1 DEF Hit
<1>4. CASE cast.pc = "idle"
  BY <1>1, <1>4 DEF Tallied, Swept, Finished
<1>5. CASE cast.pc # "idle"
  <2>1. /\ IsFiniteSet(cast.stayed) /\ c \notin cast.stayed /\ cast'.removed = cast.removed + 1
        /\ \A d \in cast.stayed : socket[d] = "open"
    BY <1>1, <1>5 DEF Tallied
  <2>2. Tallied'
    BY <1>1, <1>3, <1>5 DEF Tallied
  <2>3. \A i \in DOMAIN conns' :
           \/ i \in DOMAIN conns /\ conns'[i] = conns[i]
           \/ i + 1 \in DOMAIN conns /\ conns'[i] = conns[i + 1]
    <3>1. ASSUME NEW i \in DOMAIN conns'
          PROVE  i \in DOMAIN conns /\ i + 1 \in DOMAIN conns /\ (i \in 1..(k - 1) \/ i \in k..(Len(conns) - 1))
      BY <1>t, <1>2
    <3>. QED
      BY <1>2, <3>1
  <2>4. Skipped' \subseteq Skipped \cup {conns[cast.next]}
    <3>. SUFFICES ASSUME NEW d \in cast.stayed \ Hit, NEW i \in DOMAIN conns',
                         i < cast.next, conns'[i] = d
                  PROVE  d \in Skipped \cup {conns[cast.next]}
      BY <1>1, <1>3 DEF Skipped
    <3>1. CASE i \in DOMAIN conns /\ conns'[i] = conns[i]
      BY <3>1 DEF Skipped
    <3>2. CASE i + 1 \in DOMAIN conns /\ conns'[i] = conns[i + 1]
      <4>1. i + 1 = cast.next \/ i + 1 < cast.next
        BY <1>t, <1>2
      <4>. QED
        BY <3>2, <4>1 DEF Skipped
    <3>. QED
      BY <2>3, <3>1, <3>2
  <2>5. ASSUME Cardinality(Skipped) <= cast.removed PROVE Cardinality(Skipped') <= cast.removed + 1
    <3>1. IsFiniteSet(Skipped)
      BY <2>1, FS_Subset DEF Skipped
    <3>. QED
      BY <1>t, <2>4, <2>5, <3>1, OneLarger
  <2>6. ASSUME NEW i \in DOMAIN conns', \A j \in DOMAIN conns : j >= cast.next => conns[j] \notin Hit,
               i >= cast.next
        PROVE  conns'[i] \notin Hit
    <3>1. i + 1 >= cast.next
      BY <1>t, <1>2, <2>6
    <3>. QED
      BY <2>3, <2>6, <3>1
  <2>7. Swept'
    <3>1. ASSUME cast.pc = "sending", cast'.list
          PROVE  /\ cast.stayed \subseteq Range(conns')
                 /\ \A i \in DOMAIN conns' : i >= cast.next => conns'[i] \notin Hit
                 /\ Cardinality(Skipped') <= cast.removed + 1
      BY <1>1, <1>2, <2>1, <2>5, <2>6, <3>1 DEF Swept
    <3>2. ASSUME cast.pc = "sending", ~cast'.list PROVE cast.stayed = {}
      <4>1. CASE cast.list
        <5>1. conns' = <<>> /\ cast.stayed \subseteq Range(conns')
          BY <1>1, <1>2, <2>1, <3>2, <4>1 DEF Swept
        <5>. QED
          BY <5>1, EmptyRange
      <4>2. CASE ~cast.list
        BY <3>2, <4>2 DEF Swept
      <4>. QED
        BY <4>1, <4>2
    <3>. QED
      BY <1>1, <1>3, <2>1, <3>1, <3>2 DEF Swept
  <2>8. Finished'
    <3>1. cast.pc \in {"sent", "clean", "ack", "done"} => Cardinality(cast.stayed \ Hit) <= cast.removed + 1
      <4>1. IsFiniteSet(cast.stayed \ Hit)
        BY <2>1, FS_Subset
      <4>2. Cardinality(cast.stayed \ Hit) \in Nat
        BY <4>1, FS_CardinalityType
      <4>. QED
        BY <1>t, <4>2 DEF Finished
    <3>. QED
      BY <1>1, <1>3, <2>1, <3>1 DEF Finished
  <2>. QED
    BY <2>2, <2>7, <2>8
<1>. QED
  BY <1>4, <1>5

LEMMA StartSweeps ==
    ASSUME Linked, StartBroadcast
    PROVE  Tallied' /\ Swept' /\ Finished'
<1>1. PICK T : T = {c \in Range(conns) : socket[c] = "open"}
  OBVIOUS
<1>2. PICK l : l = (conns # <<>>)
  OBVIOUS
<1>3. /\ T \in SUBSET Socket /\ l \in BOOLEAN /\ IsFiniteSet(T) /\ T \subseteq Range(conns)
      /\ cast' = Begun(l, T)
      /\ UNCHANGED <<hub, socket, conns>>
  <2>1. IsFiniteSet(Range(conns)) /\ Range(conns) \subseteq Socket
    BY RangeFinite DEF Linked
  <2>2. IsFiniteSet(T)
    BY <1>1, <2>1, FS_Subset
  <2>. QED
    BY <1>1, <1>2, <2>1, <2>2 DEF StartBroadcast, Begun
<1>4. /\ cast'.pc = "sending" /\ cast'.list = l /\ cast'.stayed = T /\ cast'.next = 1
      /\ cast'.sent = 0 /\ cast'.reached = {} /\ cast'.failed = {} /\ cast'.removed = 0
  BY <1>3, CastBegun
<1>5. Hit' = {}
  BY <1>4 DEF Hit
<1>6. Skipped' = {}
  <2>1. \A i \in DOMAIN conns : ~(i < 1)
    BY CastTypes
  <2>. QED
    BY <1>3, <1>4, <2>1 DEF Skipped
<1>7. IsFiniteSet({}) /\ Cardinality({}) = 0
  BY FS_EmptySet
<1>8. Tallied'
  BY <1>1, <1>3, <1>4, <1>5, <1>7 DEF Tallied
<1>9. Swept'
  <2>1. conns = <<>> => T = {}
    BY <1>3, EmptyRange
  <2>2. Cardinality(Skipped') <= cast'.removed
    BY <1>4, <1>6, <1>7
  <2>3. T \subseteq Range(conns')
    BY <1>3
  <2>. QED
    BY <1>2, <1>3, <1>4, <1>5, <2>1, <2>2, <2>3 DEF Swept
<1>. QED
  BY <1>4, <1>8, <1>9 DEF Finished

LEMMA TriedSweeps ==
    ASSUME Linked, Tallied, Swept, NEW c \in Socket, Tried(c)
    PROVE  Tallied' /\ Swept' /\ Finished'
<1>1. /\ cast.pc = "sending" /\ cast.list = TRUE
      /\ cast.next \in DOMAIN conns /\ c = conns[cast.next]
      /\ UNCHANGED <<hub, socket, conns>>
      /\ cast'.next = cast.next + 1
      /\ cast'.pc = cast.pc /\ cast'.list = cast.list /\ cast'.stayed = cast.stayed
      /\ cast'.removed = cast.removed
      /\ \/ /\ cast'.reached = cast.reached \cup {c} /\ cast'.sent = cast.sent + 1
            /\ cast'.failed = cast.failed
         \/ /\ cast'.failed = cast.failed \cup {c}
            /\ cast'.reached = cast.reached /\ cast'.sent = cast.sent
  BY DEF Tried
<1>t. /\ conns \in Seq(Socket) /\ Distinct(conns) /\ DOMAIN conns = 1..Len(conns)
      /\ Len(conns) \in Nat /\ cast.next \in Nat \ {0} /\ cast.removed \in Nat
      /\ \A d \in Range(conns) : socket[d] # "away"
  BY CastTypes DEF Linked
<1>2. /\ IsFiniteSet(cast.stayed) /\ IsFiniteSet(cast.reached)
      /\ cast.reached \cap cast.failed = {} /\ cast.sent = Cardinality(cast.reached)
      /\ \A d \in cast.stayed : socket[d] = "open"
      /\ \A d \in Hit : socket[d] # "away"
      /\ cast.stayed \subseteq Range(conns)
      /\ \A i \in DOMAIN conns : i >= cast.next => conns[i] \notin Hit
      /\ Cardinality(Skipped) <= cast.removed
  BY <1>1 DEF Tallied, Swept
<1>3. Hit' = Hit \cup {c} /\ c \notin Hit /\ socket[c] # "away"
  <2>1. cast.next >= cast.next
    BY <1>t
  <2>2. c \in Range(conns)
    BY <1>1 DEF Range
  <2>. QED
    BY <1>1, <1>2, <1>t, <2>1, <2>2 DEF Hit
<1>4. /\ IsFiniteSet(cast'.reached) /\ cast'.sent = Cardinality(cast'.reached)
      /\ cast'.reached \cap cast'.failed = {}
  <2>1. c \notin cast.reached /\ c \notin cast.failed
    BY <1>3 DEF Hit
  <2>2. /\ IsFiniteSet(cast.reached \cup {c})
        /\ Cardinality(cast.reached \cup {c}) = Cardinality(cast.reached) + 1
    BY <1>2, <2>1, FS_AddElement
  <2>. QED
    BY <1>1, <1>2, <2>1, <2>2
<1>5. Tallied'
  BY <1>1, <1>2, <1>3, <1>4 DEF Tallied
<1>6. ASSUME NEW i \in DOMAIN conns, i >= cast.next + 1 PROVE conns[i] \notin Hit'
  <2>1. i >= cast.next /\ i # cast.next
    BY <1>t, <1>6
  <2>2. conns[i] # c
    BY <1>1, <1>t, <2>1 DEF Distinct
  <2>. QED
    BY <1>2, <1>3, <2>1, <2>2
<1>7. Skipped' \subseteq Skipped
  <2>. SUFFICES ASSUME NEW d \in cast.stayed \ Hit', NEW i \in DOMAIN conns,
                       i < cast.next + 1, conns[i] = d
                PROVE  d \in Skipped
    BY <1>1 DEF Skipped
  <2>1. i # cast.next /\ d \notin Hit
    BY <1>1, <1>3
  <2>2. i < cast.next
    BY <1>t, <2>1
  <2>. QED
    BY <2>1, <2>2 DEF Skipped
<1>8. Cardinality(Skipped') <= cast.removed
  <2>1. IsFiniteSet(Skipped)
    BY <1>2, FS_Subset DEF Skipped
  <2>. QED
    BY <1>2, <1>7, <1>t, <2>1, NoLarger
<1>9. Swept'
  BY <1>1, <1>2, <1>6, <1>8 DEF Swept
<1>. QED
  BY <1>1, <1>5, <1>9 DEF Finished

LEMMA SendEndsSweeps ==
    ASSUME Linked, Tallied, Swept, SendEnds
    PROVE  Tallied' /\ Swept' /\ Finished'
<1>1. /\ ~More /\ cast.pc = "sending" /\ UNCHANGED <<hub, socket, conns>>
      /\ cast'.pc = (IF hub = "mobile" THEN "sent" ELSE "clean")
      /\ cast'.stayed = cast.stayed /\ cast'.next = cast.next /\ cast'.reached = cast.reached
      /\ cast'.sent = cast.sent /\ cast'.failed = cast.failed /\ cast'.removed = cast.removed
  BY CastStep DEF SendEnds, Moved
<1>2. Hit' = Hit
  BY <1>1 DEF Hit
<1>3. IsFiniteSet(cast.stayed) /\ cast.removed \in Nat
  BY <1>1, CastTypes DEF Tallied
<1>4. Cardinality(cast.stayed \ Hit) <= cast.removed
  <2>1. CASE cast.list
    <3>1. \A i \in DOMAIN conns : i < cast.next
      BY <1>1, <2>1, CastTypes DEF More
    <3>2. cast.stayed \ Hit \subseteq Skipped
      BY <1>1, <2>1, <3>1 DEF Swept, Skipped, Range
    <3>3. IsFiniteSet(Skipped)
      BY <1>3, FS_Subset DEF Skipped
    <3>. QED
      BY <1>1, <1>3, <2>1, <3>2, <3>3, NoLarger DEF Swept
  <2>2. CASE ~cast.list
    <3>1. cast.stayed \ Hit = {}
      BY <1>1, <2>2 DEF Swept
    <3>. QED
      BY <1>3, <3>1, FS_EmptySet
  <2>. QED
    BY <2>1, <2>2
<1>5. Tallied'
  BY <1>1, <1>2 DEF Tallied
<1>6. Swept' /\ Finished'
  BY <1>1, <1>2, <1>4 DEF Swept, Finished
<1>. QED
  BY <1>5, <1>6

LEMMA AfterSends ==
    ASSUME Linked, Tallied, Finished, PushOrNot \/ AckBroadcast \/ RemoveFailed
    PROVE  Tallied' /\ Swept' /\ Finished'
<1>1. /\ \/ Moved("sent", "ack", (cast.sent = 0))
         \/ Moved("ack", "done", cast.pushed)
         \/ Moved("clean", "done", cast.pushed)
      /\ UNCHANGED <<hub, socket>>
  BY CastStep DEF PushOrNot, AckBroadcast, RemoveFailed
<1>2. /\ cast'.stayed = cast.stayed /\ cast'.reached = cast.reached /\ cast'.sent = cast.sent
      /\ cast'.failed = cast.failed /\ cast'.removed = cast.removed
  BY <1>1 DEF Moved
<1>3. Hit' = Hit
  BY <1>2 DEF Hit
<1>4. /\ cast.pc \in {"sent", "clean", "ack"} /\ cast'.pc \in {"ack", "done"}
      /\ hub' = "mobile" => (cast'.pushed <=> cast'.sent = 0)
  BY <1>1, <1>2 DEF Moved, Finished
<1>. QED
  BY <1>1, <1>2, <1>3, <1>4 DEF Tallied, Swept, Finished

\* When a broadcast is through, every socket that was open all the while has been tried,
\* but for at most one per removal meanwhile; none is tried twice, and a push is made
\* exactly if nothing was sent (mobile_gateway/main.py:94-109, gateway/main.py:111-121),
\* for any number of sockets that come and go: what is behind the place of the broadcast
\* was not tried yet, and a removal moves at most one socket past that place.
THEOREM BroadcastReaches == HubSpec => []AlertsReachClients
<1>1. HubInit => Tallied /\ Swept /\ Finished
  BY DEF HubInit, Quiet, Tallied, Swept, Finished
<1>2. Linked /\ Tallied /\ Swept /\ Finished /\ [HubNext]_hubVars => Tallied' /\ Swept' /\ Finished'
  <2>. SUFFICES ASSUME Linked, Tallied, Swept, Finished, [HubNext]_hubVars
                PROVE  Tallied' /\ Swept' /\ Finished'
    OBVIOUS
  <2>1. ASSUME NEW c \in Socket, PeerGone(c) \/ TokenEnds(c) \/ Oversize(c)
        PROVE  Tallied' /\ Swept' /\ Finished'
    BY <2>1, ClosedSweeps DEF PeerGone, TokenEnds, Oversize
  <2>2. ASSUME NEW c \in Socket, Disconnect(c) PROVE Tallied' /\ Swept' /\ Finished'
    BY <2>2, DisconnectUnlists, UnlistedSweeps
  <2>3. CASE SendNext
    BY <2>3, SendTries, TriedSweeps
  <2>4. CASE BroadcastDone
    BY <2>4 DEF BroadcastDone, Quiet, Tallied, Swept, Finished
  <2>5. CASE UNCHANGED hubVars
    BY <2>5 DEF hubVars, Hit, Skipped, Tallied, Swept, Finished
  <2>. QED
    BY <2>1, <2>2, <2>3, <2>4, <2>5, ConnectSweeps, StartSweeps, SendEndsSweeps, AfterSends
       DEF HubNext
<1>3. Linked /\ Tallied /\ Finished => AlertsReachClients
  <2>. SUFFICES ASSUME Linked, Tallied, Finished, cast.pc = "done"
                PROVE  /\ Cardinality(cast.stayed \ Hit) <= cast.removed
                       /\ cast.reached \cap cast.failed = {}
                       /\ cast.sent = Cardinality(cast.reached)
                       /\ hub = "mobile" => (cast.pushed <=> cast.reached = {})
    BY DEF AlertsReachClients, Hit
  <2>1. /\ IsFiniteSet(cast.reached) /\ cast.sent = Cardinality(cast.reached)
        /\ cast.reached \cap cast.failed = {}
    BY DEF Tallied
  <2>2. cast.sent = 0 <=> cast.reached = {}
    BY <2>1, FS_EmptySet
  <2>. QED
    BY <2>1, <2>2 DEF Finished
<1>. QED
  BY <1>1, <1>2, <1>3, LinkedStart, LinkedStep, PTL DEF HubSpec

(***************************************************************************)
(* Packets: the pieces of the buffer.                                      *)
(***************************************************************************)

LEMMA SequenceIn ==
    ASSUME NEW T, NEW s \in Seq(T), NEW S, Range(s) \subseteq S
    PROVE  s \in Seq(S)
<1>1. Len(s) \in Nat /\ DOMAIN s = 1..Len(s) /\ s \in [1..Len(s) -> T]
  OBVIOUS
<1>2. \A i \in 1..Len(s) : s[i] \in S
  BY <1>1 DEF Range
<1>3. s \in [1..Len(s) -> S]
  BY <1>1, <1>2
<1>. QED
  BY <1>1, <1>3

FirstOf(s, n) == SubSeq(s, 1, n)
RestOf(s, n)  == SubSeq(s, n + 1, Len(s))

LEMMA CutRange ==
    ASSUME NEW S, NEW s \in Seq(S), Distinct(s), NEW n \in 0..Len(s),
           NEW a, a = FirstOf(s, n), NEW b, b = RestOf(s, n)
    PROVE  /\ a \in Seq(S) /\ Len(a) = n /\ Distinct(a)
           /\ b \in Seq(S) /\ Len(b) = Len(s) - n /\ Distinct(b)
           /\ Range(a) \cup Range(b) = Range(s) /\ Range(a) \cap Range(b) = {}
           /\ Range(b) = {s[i] : i \in (n + 1)..Len(s)}
<1>1. Len(s) \in Nat /\ DOMAIN s = 1..Len(s) /\ n \in Nat /\ n <= Len(s)
  OBVIOUS
<1>2. a \in Seq(S) /\ Len(a) = n /\ \A i \in 1..n : a[i] = s[i]
  <2>1. /\ 1 \in 1..(Len(s) + 1) /\ 1 <= n + 1 /\ n - 1 + 1 = n
        /\ \A i \in 1..n : 1 + i - 1 = i
    BY <1>1
  <2>. QED
    BY <2>1, PieceOf DEF FirstOf
<1>3. b \in Seq(S) /\ Len(b) = Len(s) - n /\ \A i \in 1..(Len(s) - n) : b[i] = s[n + i]
  <2>1. PICK m : m = n + 1
    OBVIOUS
  <2>2. /\ m \in 1..(Len(s) + 1) /\ Len(s) \in 0..Len(s) /\ m <= Len(s) + 1
        /\ Len(s) - m + 1 = Len(s) - n
        /\ \A i \in 1..(Len(s) - n) : m + i - 1 = n + i
    BY <1>1, <2>1
  <2>3. b = SubSeq(s, m, Len(s))
    BY <2>1 DEF RestOf
  <2>4. /\ b \in Seq(S) /\ Len(b) = Len(s) - m + 1
        /\ \A i \in 1..(Len(s) - m + 1) : b[i] = s[m + i - 1]
    BY <2>2, <2>3, PieceOf
  <2>. QED
    BY <2>2, <2>4
<1>4. /\ DOMAIN a = 1..n /\ DOMAIN b = 1..(Len(s) - n)
  BY <1>2, <1>3
<1>5. /\ \A i \in DOMAIN a : i \in DOMAIN s /\ a[i] = s[i]
      /\ \A i \in DOMAIN b : n + i \in DOMAIN s /\ b[i] = s[n + i]
  <2>1. /\ \A i \in DOMAIN a : i \in DOMAIN s
        /\ \A i \in DOMAIN b : n + i \in DOMAIN s
    BY <1>1, <1>4
  <2>. QED
    BY <1>2, <1>3, <1>4, <2>1
<1>6. Range(b) = {s[i] : i \in (n + 1)..Len(s)}
  <2>1. \A i \in (n + 1)..Len(s) : i - n \in DOMAIN b /\ b[i - n] = s[i]
    <3>1. \A i \in (n + 1)..Len(s) : i - n \in DOMAIN b /\ n + (i - n) = i
      BY <1>1, <1>4
    <3>. QED
      BY <1>5, <3>1
  <2>2. \A i \in DOMAIN b : n + i \in (n + 1)..Len(s)
    BY <1>1, <1>4
  <2>. QED
    BY <1>5, <2>1, <2>2 DEF Range
<1>7. Range(a) \cup Range(b) = Range(s)
  <2>1. \A i \in DOMAIN s : i \in DOMAIN a \/ i \in (n + 1)..Len(s)
    BY <1>1, <1>4
  <2>2. Range(s) \subseteq Range(a) \cup Range(b)
    BY <1>5, <1>6, <2>1 DEF Range
  <2>3. Range(a) \subseteq Range(s) /\ Range(b) \subseteq Range(s)
    BY <1>5 DEF Range
  <2>. QED
    BY <2>2, <2>3
<1>8. Range(a) \cap Range(b) = {}
  <2>1. \A i \in DOMAIN a, j \in DOMAIN b : i # n + j
    BY <1>1, <1>4
  <2>. QED
    BY <1>5, <2>1 DEF Range, Distinct
<1>9. Distinct(a)
  BY <1>5 DEF Distinct
<1>10. Distinct(b)
  <2>1. \A i, j \in DOMAIN b : n + i = n + j => i = j
    BY <1>1, <1>4
  <2>. QED
    BY <1>5, <2>1 DEF Distinct
<1>. QED
  BY <1>2, <1>3, <1>6, <1>7, <1>8, <1>9, <1>10

LEMMA MinPair ==
    ASSUME NEW a \in Nat, NEW b \in Nat
    PROVE  Min({a, b}) = IF a <= b THEN a ELSE b
<1>1. \E x \in {a, b} : \A y \in {a, b} : x <= y
  <2>1. a <= b \/ b <= a
    OBVIOUS
  <2>. QED
    BY <2>1
<1>2. /\ Min({a, b}) \in {a, b} /\ \A y \in {a, b} : Min({a, b}) <= y
  BY <1>1 DEF Min
<1>. QED
  BY <1>2

\* What is put into the buffer is there afterwards, or lost.
LEMMA PutRange ==
    ASSUME NEW S, buffer \in Seq(S), Distinct(buffer), Len(buffer) <= BufferSize,
           NEW ps \in Seq(S), Distinct(ps), Range(buffer) \cap Range(ps) = {}, Put(ps)
    PROVE  /\ buffer' \in Seq(S) /\ Distinct(buffer') /\ Len(buffer') <= BufferSize
           /\ Range(buffer) \subseteq Range(buffer')
           /\ Range(buffer') \subseteq Range(buffer) \cup Range(ps)
           /\ lost \subseteq lost' /\ lost' \subseteq lost \cup Range(ps)
           /\ Range(ps) \subseteq Range(buffer') \cup lost'
<1>1. /\ Len(buffer) \in Nat /\ Len(ps) \in Nat /\ BufferSize \in Nat
      /\ Room \in Nat /\ Room = BufferSize - Len(buffer)
  <2>1. BufferSize \in Nat /\ Len(buffer) \in Nat /\ Len(ps) \in Nat
    BY FleetAssumption
  <2>. QED
    BY <2>1 DEF Room
<1>2. PICK n : n = Min({Room, Len(ps)})
  OBVIOUS
<1>3. n = IF Room <= Len(ps) THEN Room ELSE Len(ps)
  BY <1>1, <1>2, MinPair
<1>4. n \in 0..Len(ps) /\ n <= Room /\ (n < Len(ps) => n = Room)
  BY <1>1, <1>3
<1>5. PICK a : a = FirstOf(ps, n)
  OBVIOUS
<1>6. PICK b : b = RestOf(ps, n)
  OBVIOUS
<1>7. /\ a \in Seq(S) /\ Len(a) = n /\ Distinct(a)
      /\ Range(a) \cup Range(b) = Range(ps)
      /\ Range(b) = {ps[i] : i \in (n + 1)..Len(ps)}
  <2>1. n \in 0..Len(ps)
    BY <1>4
  <2>. QED
    BY <2>1, <1>5, <1>6, CutRange
<1>8. buffer' = buffer \o a /\ lost' = lost \cup {ps[i] : i \in (Room + 1)..Len(ps)}
  BY <1>2, <1>5 DEF Put, FirstOf
<1>9. {ps[i] : i \in (Room + 1)..Len(ps)} = Range(b)
  <2>1. CASE n < Len(ps)
    BY <1>4, <1>7, <2>1
  <2>2. CASE ~(n < Len(ps))
    <3>1. (n + 1)..Len(ps) = {} /\ (Room + 1)..Len(ps) = {}
      BY <1>1, <1>4, <2>2
    <3>. QED
      BY <1>7, <3>1
  <2>. QED
    BY <2>1, <2>2
<1>10. /\ buffer \o a \in Seq(S) /\ Range(buffer \o a) = Range(buffer) \cup Range(a)
       /\ Distinct(buffer \o a)
  BY <1>7, ConcatRange
<1>11. Len(buffer \o a) <= BufferSize
  <2>1. Len(buffer \o a) = Len(buffer) + n
    BY <1>7
  <2>. QED
    BY <1>1, <1>4, <2>1
<1>. QED
  BY <1>7, <1>8, <1>9, <1>10, <1>11

(***************************************************************************)
(* Packets: where they are.                                                *)
(***************************************************************************)

PostPcs == {"idle", "sent", "verified", "publishing", "accepted", "refused"}
PostRows == [pc : PostPcs, packets : Seq(1..Packets), done : Nat]

\* What a post carries when n packets were captured.
Fits(r, n) ==
    /\ r \in PostRows
    /\ Distinct(r.packets) /\ Range(r.packets) \subseteq 1..n /\ r.done <= Len(r.packets)
    /\ r.pc = "idle" => r.packets = <<>>
    /\ r.pc \in {"sent", "verified"} => r.done = 0 /\ r.packets # <<>>
    /\ r.pc = "publishing" => r.done < Len(r.packets)
    /\ r.pc = "accepted" => r.done = Len(r.packets)

Shipped ==
    /\ captured \in 0..Packets
    /\ buffer \in Seq(1..Packets) /\ Distinct(buffer) /\ Len(buffer) <= BufferSize
    /\ batch \in Seq(1..Packets) /\ Distinct(batch) /\ Len(batch) <= BatchSize
    /\ Range(buffer) \cup Range(batch) \subseteq 1..captured
    /\ Range(buffer) \cap Range(batch) = {}
    /\ sending \in Post \cup {NoPost} /\ (sending = NoPost => batch = <<>>)
    /\ DOMAIN posts = Post /\ posts = [q \in Post |-> posts[q]]
    /\ \A q \in Post : Fits(posts[q], captured)
    /\ sending \in Post => posts[sending].pc # "idle" /\ posts[sending].packets = batch
    /\ published \in [1..Packets -> Nat] /\ retries \in [1..Packets -> Nat]
    /\ lost \subseteq 1..captured
    /\ ingested \in Nat

LEMMA ShippedStart == FleetInit => Shipped /\ mischiefs \in Nat
<1>. SUFFICES ASSUME FleetInit PROVE Shipped /\ mischiefs \in Nat
  OBVIOUS
<1>1. Packets \in Nat /\ BatchSize \in Nat /\ BufferSize \in Nat
  BY FleetAssumption
<1>2. <<>> \in Seq(1..Packets) /\ Len(<<>>) = 0 /\ Range(<<>>) = {} /\ Distinct(<<>>)
  BY EmptyRange
<1>3. Fits(Free, 0)
  <2>1. /\ Free.pc = "idle" /\ Free.packets = <<>> /\ Free.done = 0
        /\ Free \in [pc : {"idle"}, packets : Seq(1..Packets), done : Nat]
    BY <1>2 DEF Free
  <2>2. Free \in PostRows
    BY <2>1 DEF PostRows, PostPcs
  <2>. QED
    BY <1>2, <2>1, <2>2 DEF Fits
<1>4. /\ captured = 0 /\ buffer = <<>> /\ batch = <<>> /\ sending = NoPost
      /\ posts = [q \in Post |-> Free] /\ lost = {} /\ ingested = 0 /\ mischiefs = 0
      /\ published = [p \in 1..Packets |-> 0] /\ retries = [p \in 1..Packets |-> 0]
  BY DEF FleetInit
<1>5. NoPost \notin Post
  BY FleetAssumption
<1>. QED
  BY <1>1, <1>2, <1>3, <1>4, <1>5 DEF Shipped

LEMMA CapturedIn ==
    ASSUME Shipped
    PROVE  /\ captured \in Nat /\ Packets \in Nat /\ captured <= Packets
           /\ 1..captured \subseteq 1..Packets
<1>1. captured \in 0..Packets /\ Packets \in Nat
  BY FleetAssumption DEF Shipped
<1>. QED
  BY <1>1

\* Changing the row of one post, and no other packet.
RowStepTo(q, r) ==
    /\ q \in Post /\ posts' = [posts EXCEPT ![q] = r]
    /\ UNCHANGED <<captured, buffer, batch, sending, lost, retries>>
    /\ ingested' \in Nat /\ r.packets = posts[q].packets

LEMMA RowShips ==
    ASSUME Shipped, NEW q \in Post, NEW r, RowStepTo(q, r), Fits(r, captured), r.pc # "idle",
           published' \in [1..Packets -> Nat]
    PROVE  Shipped'
<1>1. /\ posts' = [posts EXCEPT ![q] = r] /\ DOMAIN posts = Post
      /\ UNCHANGED <<captured, buffer, batch, sending, lost, retries>>
      /\ ingested' \in Nat /\ r.packets = posts[q].packets
  BY DEF RowStepTo, Shipped
<1>2. /\ posts'[q] = r /\ \A o \in Post \ {q} : posts'[o] = posts[o]
      /\ DOMAIN posts' = Post /\ posts' = [o \in Post |-> posts'[o]]
  BY <1>1
<1>3. \A o \in Post : Fits(posts'[o], captured')
  BY <1>1, <1>2 DEF Shipped
<1>4. sending' \in Post => posts'[sending'].pc # "idle" /\ posts'[sending'].packets = batch'
  BY <1>1, <1>2 DEF Shipped
<1>. QED
  BY <1>1, <1>2, <1>3, <1>4 DEF Shipped

\* The rows that the steps of a post leave.
Shifted(r, pc)     == [r EXCEPT !.pc = pc]
Progress(r, pc, n) == [r EXCEPT !.done = n, !.pc = pc]

LEMMA ShiftedFields ==
    ASSUME NEW r \in PostRows, NEW pc \in PostPcs
    PROVE  /\ Shifted(r, pc) \in PostRows /\ Shifted(r, pc).pc = pc
           /\ Shifted(r, pc).packets = r.packets /\ Shifted(r, pc).done = r.done
BY DEF Shifted, PostRows

LEMMA ProgressFields ==
    ASSUME NEW r \in PostRows, NEW pc \in PostPcs, NEW n \in Nat
    PROVE  /\ Progress(r, pc, n) \in PostRows /\ Progress(r, pc, n).pc = pc
           /\ Progress(r, pc, n).packets = r.packets /\ Progress(r, pc, n).done = n
BY DEF Progress, PostRows

\* VerifyPost, Admit and a failure of PublishPacket move a post on, or end it.
LEMMA MoveShips ==
    ASSUME Shipped, NEW q \in Post, NEW pc,
           \/ posts[q].pc = "sent" /\ pc \in {"verified", "refused"}
           \/ posts[q].pc = "verified" /\ pc \in {"publishing", "refused"}
           \/ posts[q].pc = "publishing" /\ pc = "refused",
           PostTo(q, pc), published' = published, ingested' \in Nat,
           UNCHANGED <<captured, buffer, batch, sending, lost, retries>>
    PROVE  /\ Shipped' /\ posts'[q].pc = pc /\ posts'[q].done = posts[q].done
           /\ posts'[q].packets = posts[q].packets
           /\ \A o \in Post \ {q} : posts'[o] = posts[o]
<1>1. Fits(posts[q], captured) /\ DOMAIN posts = Post
  BY DEF Shipped
<1>2. posts[q] \in PostRows /\ pc \in PostPcs
  BY <1>1 DEF Fits, PostPcs
<1>3. PICK r : r = Shifted(posts[q], pc)
  OBVIOUS
<1>4. r \in PostRows /\ r.pc = pc /\ r.packets = posts[q].packets /\ r.done = posts[q].done
  BY <1>2, <1>3, ShiftedFields
<1>5. posts' = [posts EXCEPT ![q] = r]
  BY <1>3 DEF PostTo, Shifted
<1>6. /\ posts[q].done \in Nat /\ Len(posts[q].packets) \in Nat
      /\ posts[q].packets # <<>> => 0 < Len(posts[q].packets)
  BY <1>2 DEF PostRows
<1>7. Fits(r, captured) /\ r.pc # "idle"
  BY <1>1, <1>4, <1>6 DEF Fits
<1>8. Shipped'
  BY <1>4, <1>5, <1>7, RowShips DEF RowStepTo, Shipped
<1>. QED
  BY <1>1, <1>4, <1>5, <1>8

\* One packet is published, and the post goes on or is through.
Publishes(q, n, pc) ==
    /\ n = posts[q].done + 1 /\ posts[q].pc = "publishing"
    /\ published' = [published EXCEPT ![posts[q].packets[n]] = @ + 1]
    /\ pc = IF n = Len(posts[q].packets) THEN "accepted" ELSE "publishing"
    /\ posts' = [posts EXCEPT ![q] = Progress(posts[q], pc, n)]
    /\ UNCHANGED <<captured, buffer, batch, sending, lost, retries, ingested>>

LEMMA PublishShips ==
    ASSUME Shipped, NEW q \in Post, NEW n, NEW pc, Publishes(q, n, pc)
    PROVE  /\ Shipped' /\ posts'[q].pc = pc /\ posts'[q].done = n /\ n \in DOMAIN posts[q].packets
           /\ posts'[q].packets = posts[q].packets
           /\ \A o \in Post \ {q} : posts'[o] = posts[o]
           /\ posts[q].packets[n] \in 1..captured
<1>1. Fits(posts[q], captured) /\ DOMAIN posts = Post /\ posts[q] \in PostRows
  BY DEF Shipped, Fits
<1>p. /\ n = posts[q].done + 1 /\ posts[q].pc = "publishing"
      /\ published' = [published EXCEPT ![posts[q].packets[n]] = @ + 1]
      /\ pc = IF n = Len(posts[q].packets) THEN "accepted" ELSE "publishing"
      /\ posts' = [posts EXCEPT ![q] = Progress(posts[q], pc, n)]
      /\ UNCHANGED <<captured, buffer, batch, sending, lost, retries, ingested>>
  BY DEF Publishes
<1>2. /\ posts[q].done \in Nat /\ Len(posts[q].packets) \in Nat
      /\ posts[q].packets \in Seq(1..Packets)
      /\ DOMAIN posts[q].packets = 1..Len(posts[q].packets)
      /\ posts[q].done < Len(posts[q].packets)
  <2>1. posts[q].done \in Nat /\ posts[q].packets \in Seq(1..Packets)
    BY <1>1 DEF PostRows
  <2>2. posts[q].done < Len(posts[q].packets)
    BY <1>1, <1>p DEF Fits
  <2>. QED
    BY <2>1, <2>2
<1>3. n \in Nat /\ n \in DOMAIN posts[q].packets /\ n <= Len(posts[q].packets)
      /\ (n # Len(posts[q].packets) => n < Len(posts[q].packets))
  BY <1>2, <1>p
<1>4. pc \in {"accepted", "publishing"} /\ pc \in PostPcs
  BY <1>p DEF PostPcs
<1>5. PICK r : r = Progress(posts[q], pc, n)
  OBVIOUS
<1>6. r \in PostRows /\ r.pc = pc /\ r.packets = posts[q].packets /\ r.done = n
  BY <1>1, <1>3, <1>4, <1>5, ProgressFields
<1>7. Fits(r, captured) /\ r.pc # "idle"
  <2>1. /\ pc = "accepted" => n = Len(posts[q].packets)
        /\ pc = "publishing" => n < Len(posts[q].packets)
    BY <1>3, <1>p
  <2>. QED
    BY <1>1, <1>3, <1>4, <1>6, <2>1 DEF Fits
<1>8. published' \in [1..Packets -> Nat] /\ posts[q].packets[n] \in 1..captured
  <2>1. posts[q].packets[n] \in Range(posts[q].packets)
    BY <1>3 DEF Range
  <2>2. posts[q].packets[n] \in 1..captured
    BY <1>1, <2>1 DEF Fits
  <2>3. PICK p : p = posts[q].packets[n]
    OBVIOUS
  <2>4. p \in 1..Packets /\ published[p] \in Nat
    BY <2>2, <2>3, CapturedIn DEF Shipped
  <2>5. published' = [published EXCEPT ![p] = published[p] + 1]
    BY <1>p, <2>3
  <2>6. published' \in [1..Packets -> Nat]
    BY <2>4, <2>5 DEF Shipped
  <2>. QED
    BY <2>2, <2>6
<1>9. posts' = [posts EXCEPT ![q] = r]
  BY <1>p, <1>5
<1>10. Shipped'
  BY <1>p, <1>6, <1>7, <1>8, <1>9, RowShips DEF RowStepTo, Shipped
<1>. QED
  BY <1>1, <1>3, <1>6, <1>8, <1>9, <1>10

\* A row that is free owes nothing, and fits.
LEMMA FreeFits == ASSUME NEW n \in Nat PROVE Fits(Free, n) /\ Free.pc = "idle" /\ Free.done = 0
<1>1. <<>> \in Seq(1..Packets) /\ Len(<<>>) = 0 /\ Range(<<>>) = {} /\ Distinct(<<>>)
  BY EmptyRange
<1>2. /\ Free.pc = "idle" /\ Free.packets = <<>> /\ Free.done = 0
      /\ Free \in [pc : {"idle"}, packets : Seq(1..Packets), done : Nat]
  BY <1>1 DEF Free
<1>3. Free \in PostRows
  BY <1>2 DEF PostRows, PostPcs
<1>. QED
  BY <1>1, <1>2, <1>3 DEF Fits

\* The batch is put back, and the post it was sent with ends, or not.
LEMMA PutBackShips ==
    ASSUME Shipped, PutBack, captured' = captured, published' = published, ingested' \in Nat,
           \/ posts' = posts
           \/ \E q \in Post : posts' = [posts EXCEPT ![q] = Free]
    PROVE  /\ Shipped'
           /\ Range(buffer) \subseteq Range(buffer')
           /\ Range(buffer') \subseteq Range(buffer) \cup Range(batch)
           /\ lost \subseteq lost' /\ Range(batch) \subseteq Range(buffer') \cup lost'
           /\ \A p \in 1..Packets :
                 retries'[p] = retries[p] + (IF p \in Range(batch) THEN 1 ELSE 0)
<1>1. /\ Put(batch) /\ batch' = <<>> /\ sending' = NoPost
      /\ retries' = [p \in 1..Packets |-> retries[p] + (IF p \in Range(batch) THEN 1 ELSE 0)]
  BY DEF PutBack
<1>2. /\ buffer \in Seq(1..Packets) /\ Distinct(buffer) /\ Len(buffer) <= BufferSize
      /\ batch \in Seq(1..Packets) /\ Distinct(batch)
      /\ Range(buffer) \cap Range(batch) = {}
  BY DEF Shipped
<1>3. /\ buffer' \in Seq(1..Packets) /\ Distinct(buffer') /\ Len(buffer') <= BufferSize
      /\ Range(buffer) \subseteq Range(buffer')
      /\ Range(buffer') \subseteq Range(buffer) \cup Range(batch)
      /\ lost \subseteq lost' /\ lost' \subseteq lost \cup Range(batch)
      /\ Range(batch) \subseteq Range(buffer') \cup lost'
  BY <1>1, <1>2, PutRange
<1>4. /\ batch' \in Seq(1..Packets) /\ Distinct(batch') /\ Len(batch') <= BatchSize
      /\ Range(batch') = {}
  BY <1>1, EmptyRange, FleetAssumption
<1>5. /\ DOMAIN posts' = Post /\ posts' = [q \in Post |-> posts'[q]]
      /\ \A q \in Post : Fits(posts'[q], captured')
  <2>1. Fits(Free, captured)
    BY FreeFits DEF Shipped
  <2>2. \A q \in Post : posts'[q] \in {posts[q], Free}
    BY DEF Shipped
  <2>. QED
    BY <2>1, <2>2 DEF Shipped
<1>6. retries' \in [1..Packets -> Nat]
  <2>1. \A p \in 1..Packets : retries[p] + (IF p \in Range(batch) THEN 1 ELSE 0) \in Nat
    BY DEF Shipped
  <2>. QED
    BY <1>1, <2>1
<1>7. Range(buffer') \cup Range(batch') \subseteq 1..captured' /\ lost' \subseteq 1..captured'
  BY <1>3, <1>4 DEF Shipped
<1>8. NoPost \notin Post
  BY FleetAssumption
<1>9. Shipped'
  BY <1>1, <1>3, <1>4, <1>5, <1>6, <1>7, <1>8 DEF Shipped
<1>. QED
  BY <1>1, <1>3, <1>9

\* The batch was accepted, or the post is none that the sensor waits for.
LEMMA AnswerShips ==
    ASSUME Shipped, NEW q \in Post, posts' = [posts EXCEPT ![q] = Free],
           \/ sending = q /\ batch' = <<>> /\ sending' = NoPost
           \/ sending # q /\ UNCHANGED <<batch, sending>>,
           UNCHANGED <<captured, buffer, published, lost, retries, ingested>>
    PROVE  Shipped' /\ posts'[q] = Free /\ \A o \in Post \ {q} : posts'[o] = posts[o]
<1>1. /\ posts'[q] = Free /\ \A o \in Post \ {q} : posts'[o] = posts[o]
      /\ DOMAIN posts' = Post /\ posts' = [o \in Post |-> posts'[o]]
  BY DEF Shipped
<1>2. \A o \in Post : Fits(posts'[o], captured')
  <2>1. Fits(Free, captured)
    BY FreeFits DEF Shipped
  <2>. QED
    BY <1>1, <2>1 DEF Shipped
<1>3. /\ batch' \in Seq(1..Packets) /\ Distinct(batch') /\ Len(batch') <= BatchSize
      /\ Range(batch') \subseteq Range(batch)
  <2>1. /\ <<>> \in Seq(1..Packets) /\ Len(<<>>) <= BatchSize
    BY FleetAssumption
  <2>. QED
    BY <2>1, EmptyRange DEF Shipped
<1>4. /\ sending' \in Post \cup {NoPost} /\ (sending' = NoPost => batch' = <<>>)
      /\ sending' \in Post => posts'[sending'].pc # "idle" /\ posts'[sending'].packets = batch'
  <2>1. NoPost \notin Post
    BY FleetAssumption
  <2>. QED
    BY <1>1, <2>1 DEF Shipped
<1>5. Range(buffer') \cup Range(batch') \subseteq 1..captured' /\ Range(buffer') \cap Range(batch') = {}
  BY <1>3 DEF Shipped
<1>6. Shipped'
  BY <1>1, <1>2, <1>3, <1>4, <1>5 DEF Shipped
<1>. QED
  BY <1>1, <1>6

\* A batch leaves the buffer with a post.
LEMMA SendShips ==
    ASSUME Shipped, NEW q \in Post, SendBatch(q)
    PROVE  /\ Shipped' /\ posts[q].pc = "idle" /\ posts'[q].packets = batch' /\ posts'[q].done = 0
           /\ \A o \in Post \ {q} : posts'[o] = posts[o]
           /\ Range(buffer') \cup Range(batch') = Range(buffer) /\ batch = <<>>
           /\ UNCHANGED <<captured, published, lost, retries>>
<1>1. PICK n : n = Min({BatchSize, Len(buffer)})
  OBVIOUS
<1>2. BatchSize \in Nat \ {0} /\ Len(buffer) \in Nat /\ NoPost \notin Post
  BY FleetAssumption DEF Shipped
<1>3. /\ sending = NoPost /\ buffer # <<>> /\ posts[q].pc = "idle"
      /\ batch' = FirstOf(buffer, n) /\ buffer' = RestOf(buffer, n)
      /\ sending' = q /\ posts' = [posts EXCEPT ![q] = [pc |-> "sent", packets |-> batch', done |-> 0]]
      /\ UNCHANGED <<captured, published, lost, retries, ingested, mischiefs>>
  BY <1>1 DEF SendBatch, FirstOf, RestOf
<1>4. Len(buffer) # 0
  BY <1>3 DEF Shipped
<1>5. n \in 0..Len(buffer) /\ n \in Nat \ {0} /\ n <= BatchSize
  <2>1. n = IF BatchSize <= Len(buffer) THEN BatchSize ELSE Len(buffer)
    BY <1>1, <1>2, MinPair
  <2>. QED
    BY <1>2, <1>4, <2>1
<1>6. /\ batch' \in Seq(1..Packets) /\ Len(batch') = n /\ Distinct(batch')
      /\ buffer' \in Seq(1..Packets) /\ Len(buffer') = Len(buffer) - n /\ Distinct(buffer')
      /\ Range(batch') \cup Range(buffer') = Range(buffer)
      /\ Range(batch') \cap Range(buffer') = {}
  <2>1. PICK a : a = FirstOf(buffer, n)
    OBVIOUS
  <2>2. PICK b : b = RestOf(buffer, n)
    OBVIOUS
  <2>3. buffer \in Seq(1..Packets) /\ Distinct(buffer)
    BY DEF Shipped
  <2>4. /\ a \in Seq(1..Packets) /\ Len(a) = n /\ Distinct(a)
        /\ b \in Seq(1..Packets) /\ Len(b) = Len(buffer) - n /\ Distinct(b)
        /\ Range(a) \cup Range(b) = Range(buffer) /\ Range(a) \cap Range(b) = {}
    BY <1>5, <2>1, <2>2, <2>3, CutRange
  <2>. QED
    BY <1>3, <2>1, <2>2, <2>4
<1>7. Len(buffer') <= BufferSize /\ Len(batch') <= BatchSize /\ batch' # <<>>
  <2>1. BufferSize \in Nat /\ Len(buffer) <= BufferSize
    BY FleetAssumption DEF Shipped
  <2>2. Len(<<>>) = 0
    OBVIOUS
  <2>. QED
    BY <1>2, <1>5, <1>6, <2>1, <2>2
<1>8. PICK r : r = [pc |-> "sent", packets |-> batch', done |-> 0]
  OBVIOUS
<1>9. /\ r \in PostRows /\ r.pc = "sent" /\ r.packets = batch' /\ r.done = 0
  BY <1>6, <1>8 DEF PostRows, PostPcs
<1>10. Fits(r, captured)
  <2>1. 0 <= Len(batch') /\ Range(batch') \subseteq 1..captured
    BY <1>5, <1>6 DEF Shipped
  <2>. QED
    BY <1>6, <1>7, <1>9, <2>1 DEF Fits
<1>11. /\ posts'[q] = r /\ \A o \in Post \ {q} : posts'[o] = posts[o]
       /\ DOMAIN posts' = Post /\ posts' = [o \in Post |-> posts'[o]]
  BY <1>3, <1>8 DEF Shipped
<1>12. \A o \in Post : Fits(posts'[o], captured')
  BY <1>3, <1>10, <1>11 DEF Shipped
<1>13. Range(buffer') \cup Range(batch') \subseteq 1..captured'
  BY <1>3, <1>6 DEF Shipped
<1>14. /\ sending' \in Post \cup {NoPost} /\ sending' # NoPost
       /\ posts'[sending'].pc # "idle" /\ posts'[sending'].packets = batch'
  BY <1>2, <1>3, <1>9, <1>11
<1>15. Shipped'
  BY <1>3, <1>6, <1>7, <1>11, <1>12, <1>13, <1>14 DEF Shipped
<1>16. batch = <<>>
  BY <1>3 DEF Shipped
<1>. QED
  BY <1>3, <1>6, <1>9, <1>11, <1>15, <1>16

LEMMA CaptureShips ==
    ASSUME Shipped, Capture
    PROVE  /\ Shipped' /\ captured' = captured + 1 /\ captured + 1 \in 1..Packets
           /\ Range(buffer) \subseteq Range(buffer')
           /\ Range(buffer') \subseteq Range(buffer) \cup {captured + 1}
           /\ lost \subseteq lost' /\ captured + 1 \in Range(buffer') \cup lost'
           /\ UNCHANGED <<batch, sending, posts, published, retries>>
<1>1. PICK p : p = captured + 1
  OBVIOUS
<1>2. /\ captured < Packets /\ captured' = p /\ Put(<<p>>)
      /\ UNCHANGED <<batch, sending, posts, published, retries, ingested>>
  BY <1>1 DEF Capture
<1>3. /\ captured \in Nat /\ p \in 1..Packets /\ p \notin 1..captured /\ p \in 0..Packets
      /\ 1..p = (1..captured) \cup {p}
  BY <1>1, <1>2, CapturedIn
<1>4. /\ <<p>> \in Seq(1..Packets) /\ Range(<<p>>) = {p} /\ Distinct(<<p>>)
  <2>1. /\ <<p>> \in Seq(1..Packets) /\ DOMAIN <<p>> = {1} /\ <<p>>[1] = p
    BY <1>3
  <2>. QED
    BY <2>1 DEF Range, Distinct
<1>5. /\ buffer \in Seq(1..Packets) /\ Distinct(buffer) /\ Len(buffer) <= BufferSize
      /\ Range(buffer) \subseteq 1..captured /\ Range(batch) \subseteq 1..captured
      /\ Range(buffer) \cap Range(batch) = {}
  BY DEF Shipped
<1>6. /\ buffer' \in Seq(1..Packets) /\ Distinct(buffer') /\ Len(buffer') <= BufferSize
      /\ Range(buffer) \subseteq Range(buffer')
      /\ Range(buffer') \subseteq Range(buffer) \cup {p}
      /\ lost \subseteq lost' /\ lost' \subseteq lost \cup {p}
      /\ p \in Range(buffer') \cup lost'
  <2>1. Range(buffer) \cap Range(<<p>>) = {}
    BY <1>3, <1>4, <1>5
  <2>2. /\ buffer' \in Seq(1..Packets) /\ Distinct(buffer') /\ Len(buffer') <= BufferSize
        /\ Range(buffer) \subseteq Range(buffer')
        /\ Range(buffer') \subseteq Range(buffer) \cup Range(<<p>>)
        /\ lost \subseteq lost' /\ lost' \subseteq lost \cup Range(<<p>>)
        /\ Range(<<p>>) \subseteq Range(buffer') \cup lost'
    BY <1>2, <1>4, <1>5, <2>1, PutRange
  <2>. QED
    BY <1>4, <2>2
<1>7. ASSUME NEW r, Fits(r, captured) PROVE Fits(r, p)
  BY <1>3, <1>7 DEF Fits
<1>8. Range(buffer') \cup Range(batch') \subseteq 1..p /\ lost' \subseteq 1..p
      /\ Range(buffer') \cap Range(batch') = {}
  BY <1>2, <1>3, <1>5, <1>6 DEF Shipped
<1>9. \A q \in Post : Fits(posts'[q], captured')
  BY <1>2, <1>7 DEF Shipped
<1>10. Shipped'
  BY <1>2, <1>3, <1>6, <1>8, <1>9 DEF Shipped
<1>. QED
  BY <1>1, <1>2, <1>3, <1>6, <1>10

LEMMA CrashShips ==
    ASSUME Shipped, SensorCrash
    PROVE  /\ Shipped' /\ Range(buffer') = {} /\ Range(batch') = {}
           /\ lost' = lost \cup Range(buffer) \cup Range(batch)
           /\ UNCHANGED <<captured, posts, published, retries>>
<1>1. /\ lost' = lost \cup Range(buffer) \cup Range(batch)
      /\ buffer' = <<>> /\ batch' = <<>> /\ sending' = NoPost
      /\ UNCHANGED <<captured, posts, published, retries, ingested>>
  BY DEF SensorCrash
<1>2. /\ <<>> \in Seq(1..Packets) /\ Distinct(<<>>) /\ Range(<<>>) = {}
      /\ Len(<<>>) <= BatchSize /\ Len(<<>>) <= BufferSize /\ NoPost \notin Post
  BY EmptyRange, FleetAssumption
<1>. QED
  BY <1>1, <1>2 DEF Shipped

(***************************************************************************)
(* Packets: how often they can be published.                               *)
(***************************************************************************)

\* A post in the gateway that may publish packet p yet.
Owes(r, p) ==
    /\ r.pc \in {"sent", "verified", "publishing"}
    /\ \E i \in DOMAIN r.packets : i > r.done /\ r.packets[i] = p

OwedIn(rows, p) == {q \in Post : Owes(rows[q], p)}

LEMMA OwedFinite ==
    ASSUME NEW rows, NEW p
    PROVE  IsFiniteSet(OwedIn(rows, p)) /\ Cardinality(OwedIn(rows, p)) \in Nat
<1>1. OwedIn(rows, p) \in SUBSET Post /\ IsFiniteSet(Post)
  BY FleetAssumption DEF OwedIn
<1>2. IsFiniteSet(OwedIn(rows, p))
  BY <1>1, FS_Subset
<1>. QED
  BY <1>2, FS_CardinalityType

LEMMA OwedNoMore ==
    ASSUME NEW old, NEW new, NEW p, \A q \in Post : Owes(new[q], p) => Owes(old[q], p)
    PROVE  Cardinality(OwedIn(new, p)) <= Cardinality(OwedIn(old, p))
<1>1. OwedIn(new, p) \in SUBSET OwedIn(old, p)
  BY DEF OwedIn
<1>. QED
  BY <1>1, OwedFinite, FS_Subset

LEMMA OwedOneMore ==
    ASSUME NEW old, NEW new, NEW p, NEW q \in Post,
           \A o \in Post \ {q} : Owes(new[o], p) => Owes(old[o], p)
    PROVE  Cardinality(OwedIn(new, p)) <= Cardinality(OwedIn(old, p)) + 1
<1>1. OwedIn(new, p) \subseteq OwedIn(old, p) \cup {q}
  BY DEF OwedIn
<1>2. IsFiniteSet(OwedIn(old, p)) /\ Cardinality(OwedIn(old, p)) \in Nat
  BY OwedFinite
<1>. QED
  BY <1>1, <1>2, OneLarger

LEMMA OwedOneLess ==
    ASSUME NEW old, NEW new, NEW p, NEW q \in Post,
           \A o \in Post \ {q} : Owes(new[o], p) => Owes(old[o], p),
           Owes(old[q], p), ~Owes(new[q], p)
    PROVE  Cardinality(OwedIn(new, p)) <= Cardinality(OwedIn(old, p)) - 1
<1>1. OwedIn(new, p) \in SUBSET (OwedIn(old, p) \ {q}) /\ q \in OwedIn(old, p)
  BY DEF OwedIn
<1>2. IsFiniteSet(OwedIn(old, p))
  BY OwedFinite
<1>3. /\ IsFiniteSet(OwedIn(old, p) \ {q})
      /\ Cardinality(OwedIn(old, p) \ {q}) = Cardinality(OwedIn(old, p)) - 1
  BY <1>1, <1>2, FS_RemoveElement
<1>4. Cardinality(OwedIn(new, p)) <= Cardinality(OwedIn(old, p) \ {q})
  BY <1>1, <1>3, FS_Subset
<1>. QED
  BY <1>3, <1>4

Buffered(p) == IF p \in Range(buffer) THEN 1 ELSE 0

Accounted(p) ==
    /\ published[p] + Cardinality(OwedIn(posts, p)) + Buffered(p) <= retries[p] + 1
    /\ published[p] > 0 \/ p \in lost \cup Range(buffer) \cup Range(batch)

Told ==
    /\ \A p \in 1..captured : Accounted(p)
    /\ \A p \in 1..Packets : p \notin 1..captured => published[p] = 0
    /\ \A q \in Post : \A i \in 1..posts[q].done : published[posts[q].packets[i]] > 0

LEMMA PacketNumbers ==
    ASSUME Shipped, NEW p \in 1..captured
    PROVE  /\ p \in 1..Packets /\ published[p] \in Nat /\ retries[p] \in Nat
           /\ Cardinality(OwedIn(posts, p)) \in Nat /\ Buffered(p) \in {0, 1}
<1>1. p \in 1..Packets
  BY CapturedIn
<1>. QED
  BY <1>1, OwedFinite DEF Shipped, Buffered

\* Nothing is published, no post owes more, and the buffer gets nothing that was not in
\* the batch, which is one more retry.
LEMMA ToldKept ==
    ASSUME Shipped, Shipped', Told, captured' = captured, published' = published,
           \A q \in Post : \A p : Owes(posts'[q], p) => Owes(posts[q], p),
           \A p \in 1..Packets : \/ retries'[p] = retries[p] /\ (p \in Range(buffer') => p \in Range(buffer))
                                 \/ retries'[p] = retries[p] + 1 /\ p \notin Range(buffer),
           lost \subseteq lost',
           \A p \in Range(buffer) \cup Range(batch) :
               p \in lost' \cup Range(buffer') \cup Range(batch') \/ published[p] > 0,
           \A q \in Post : \A i \in 1..posts'[q].done :
               i \in 1..posts[q].done /\ posts'[q].packets[i] = posts[q].packets[i]
    PROVE  Told'
<1>1. ASSUME NEW p \in 1..captured PROVE Accounted(p)'
  <2>1. /\ p \in 1..Packets /\ published[p] \in Nat /\ retries[p] \in Nat
        /\ Cardinality(OwedIn(posts, p)) \in Nat /\ Buffered(p) \in {0, 1}
    BY PacketNumbers
  <2>2. /\ Cardinality(OwedIn(posts', p)) <= Cardinality(OwedIn(posts, p))
        /\ Cardinality(OwedIn(posts', p)) \in Nat
    <3>1. PICK new : new = posts'
      OBVIOUS
    <3>2. \A q \in Post : Owes(new[q], p) => Owes(posts[q], p)
      BY <3>1
    <3>3. /\ Cardinality(OwedIn(new, p)) <= Cardinality(OwedIn(posts, p))
          /\ Cardinality(OwedIn(new, p)) \in Nat
      BY <3>2, OwedNoMore, OwedFinite
    <3>. QED
      BY <3>1, <3>3
  <2>3. Buffered(p)' \in {0, 1} /\ retries'[p] + 1 >= retries[p] + 1 + (Buffered(p)' - Buffered(p))
    BY <2>1 DEF Buffered
  <2>4. /\ published[p] + Cardinality(OwedIn(posts, p)) + Buffered(p) <= retries[p] + 1
        /\ published[p] > 0 \/ p \in lost \cup Range(buffer) \cup Range(batch)
    BY DEF Told, Accounted
  <2>5. retries'[p] \in Nat
    BY <2>1 DEF Shipped
  <2>6. published[p] + Cardinality(OwedIn(posts', p)) + Buffered(p)' <= retries'[p] + 1
    BY <2>1, <2>2, <2>3, <2>4, <2>5
  <2>. QED
    BY <2>4, <2>6 DEF Accounted
<1>2. \A q \in Post : \A i \in 1..posts'[q].done : published'[posts'[q].packets[i]] > 0
  BY DEF Told
<1>3. \A p \in 1..Packets : p \notin 1..captured' => published'[p] = 0
  BY DEF Told
<1>. QED
  BY <1>1, <1>2, <1>3 DEF Told

LEMMA MoveTells ==
    ASSUME Shipped, Told, NEW q \in Post, NEW pc,
           \/ posts[q].pc = "sent" /\ pc \in {"verified", "refused"}
           \/ posts[q].pc = "verified" /\ pc \in {"publishing", "refused"}
           \/ posts[q].pc = "publishing" /\ pc = "refused",
           PostTo(q, pc), published' = published, ingested' \in Nat,
           UNCHANGED <<captured, buffer, batch, sending, lost, retries>>
    PROVE  Shipped' /\ Told'
<1>1. /\ Shipped' /\ posts'[q].pc = pc /\ posts'[q].done = posts[q].done
      /\ posts'[q].packets = posts[q].packets
      /\ \A o \in Post \ {q} : posts'[o] = posts[o]
  BY MoveShips
<1>2. \A o \in Post : \A p : Owes(posts'[o], p) => Owes(posts[o], p)
  BY <1>1 DEF Owes
<1>3. \A o \in Post : posts'[o].done = posts[o].done /\ posts'[o].packets = posts[o].packets
  BY <1>1
<1>. QED
  BY <1>1, <1>2, <1>3, ToldKept

\* A row that is free owes nothing.
LEMMA FreeOwes == \A p : ~Owes(Free, p)
BY DEF Free, Owes

LEMMA PutBackTells ==
    ASSUME Shipped, Told, PutBack, captured' = captured, published' = published, ingested' \in Nat,
           \/ posts' = posts
           \/ \E q \in Post : posts' = [posts EXCEPT ![q] = Free]
    PROVE  Shipped' /\ Told'
<1>1. /\ Shipped'
      /\ Range(buffer) \subseteq Range(buffer')
      /\ Range(buffer') \subseteq Range(buffer) \cup Range(batch)
      /\ lost \subseteq lost' /\ Range(batch) \subseteq Range(buffer') \cup lost'
      /\ \A p \in 1..Packets :
            retries'[p] = retries[p] + (IF p \in Range(batch) THEN 1 ELSE 0)
  BY PutBackShips
<1>2. \A q \in Post : posts'[q] = posts[q] \/ posts'[q] = Free
  BY DEF Shipped
<1>3. \A q \in Post : \A p : Owes(posts'[q], p) => Owes(posts[q], p)
  BY <1>2, FreeOwes
<1>4. \A q \in Post : \A i \in 1..posts'[q].done :
          i \in 1..posts[q].done /\ posts'[q].packets[i] = posts[q].packets[i]
  <2>1. Free.done = 0 /\ 1..0 = {}
    BY DEF Free
  <2>. QED
    BY <1>2, <2>1
<1>5. \A p \in 1..Packets : \/ retries'[p] = retries[p] /\ (p \in Range(buffer') => p \in Range(buffer))
                            \/ retries'[p] = retries[p] + 1 /\ p \notin Range(buffer)
  <2>1. \A p \in 1..Packets : retries[p] \in Nat
    BY DEF Shipped
  <2>2. Range(buffer) \cap Range(batch) = {}
    BY DEF Shipped
  <2>. QED
    BY <1>1, <2>1, <2>2
<1>6. \A p \in Range(buffer) \cup Range(batch) :
          p \in lost' \cup Range(buffer') \cup Range(batch') \/ published[p] > 0
  BY <1>1
<1>. QED
  BY <1>1, <1>3, <1>4, <1>5, <1>6, ToldKept

LEMMA AnswerTells ==
    ASSUME Shipped, Told, NEW q \in Post, Answer(q)
    PROVE  Shipped' /\ Told'
<1>1. /\ posts' = [posts EXCEPT ![q] = Free] /\ UNCHANGED <<captured, published, ingested>>
      /\ ingested \in Nat
  BY DEF Answer, Shipped
<1>2. CASE sending = q /\ posts[q].pc = "refused" /\ PutBack
  BY <1>1, <1>2, PutBackTells
<1>3. CASE \/ sending = q /\ posts[q].pc = "accepted" /\ batch' = <<>> /\ sending' = NoPost
                /\ UNCHANGED <<buffer, lost, retries>>
           \/ sending # q /\ UNCHANGED <<buffer, batch, sending, lost, retries>>
  <2>1. Shipped' /\ posts'[q] = Free /\ \A o \in Post \ {q} : posts'[o] = posts[o]
    BY <1>1, <1>3, AnswerShips
  <2>2. \A o \in Post : \A p : Owes(posts'[o], p) => Owes(posts[o], p)
    BY <2>1, FreeOwes
  <2>3. \A o \in Post : \A i \in 1..posts'[o].done :
            i \in 1..posts[o].done /\ posts'[o].packets[i] = posts[o].packets[i]
    <3>1. Free.done = 0 /\ 1..0 = {}
      BY DEF Free
    <3>. QED
      BY <2>1, <3>1
  <2>4. \A p \in Range(batch) : p \in Range(batch') \/ published[p] > 0
    <3>1. CASE sending # q
      BY <1>3, <3>1
    <3>2. CASE sending = q
      <4>1. /\ posts[q].packets = batch /\ posts[q].done = Len(batch) /\ batch \in Seq(1..Packets)
        BY <1>3, <3>2 DEF Shipped, Fits
      <4>2. \A i \in 1..Len(batch) : published[batch[i]] > 0
        BY <4>1 DEF Told
      <4>. QED
        BY <4>1, <4>2 DEF Range
    <3>. QED
      BY <3>1, <3>2
  <2>. QED
    BY <1>1, <1>3, <2>1, <2>2, <2>3, <2>4, ToldKept
<1>. QED
  BY <1>2, <1>3 DEF Answer

LEMMA GiveUpTells == ASSUME Shipped, Told, GiveUp PROVE Shipped' /\ Told'
<1>1. /\ sending \in Post /\ PutBack /\ UNCHANGED <<captured, published, ingested>> /\ ingested \in Nat
      /\ posts' = posts \/ posts' = [posts EXCEPT ![sending] = Free]
  BY DEF GiveUp, Shipped
<1>. QED
  BY <1>1, PutBackTells

LEMMA CrashTells == ASSUME Shipped, Told, SensorCrash PROVE Shipped' /\ Told'
<1>1. /\ Shipped' /\ Range(buffer') = {} /\ Range(batch') = {}
      /\ lost' = lost \cup Range(buffer) \cup Range(batch)
      /\ UNCHANGED <<captured, posts, published, retries>>
  BY CrashShips
<1>. QED
  BY <1>1, ToldKept

\* A packet leaves the buffer, and the post with it owes it.
LEMMA SendTells == ASSUME Shipped, Told, NEW q \in Post, SendBatch(q) PROVE Shipped' /\ Told'
<1>1. /\ Shipped' /\ posts[q].pc = "idle" /\ posts'[q].packets = batch' /\ posts'[q].done = 0
      /\ \A o \in Post \ {q} : posts'[o] = posts[o]
      /\ Range(buffer') \cup Range(batch') = Range(buffer) /\ batch = <<>>
      /\ UNCHANGED <<captured, published, lost, retries>>
  BY SendShips
<1>2. Range(buffer') \cap Range(batch') = {}
  BY <1>1 DEF Shipped
<1>3. \A p : Owes(posts'[q], p) => p \in Range(batch')
  BY <1>1 DEF Owes, Range
<1>4. ASSUME NEW p \in 1..captured PROVE Accounted(p)'
  <2>1. /\ p \in 1..Packets /\ published[p] \in Nat /\ retries[p] \in Nat
        /\ Cardinality(OwedIn(posts, p)) \in Nat /\ Buffered(p) \in {0, 1}
    BY PacketNumbers
  <2>2. PICK new : new = posts'
    OBVIOUS
  <2>3. Cardinality(OwedIn(new, p)) \in Nat
    BY OwedFinite
  <2>4. \A o \in Post \ {q} : Owes(new[o], p) => Owes(posts[o], p)
    BY <1>1, <2>2
  <2>5. /\ published[p] + Cardinality(OwedIn(posts, p)) + Buffered(p) <= retries[p] + 1
        /\ published[p] > 0 \/ p \in lost \cup Range(buffer) \cup Range(batch)
    BY DEF Told, Accounted
  <2>6. Cardinality(OwedIn(new, p)) + Buffered(p)' <= Cardinality(OwedIn(posts, p)) + Buffered(p)
    <3>1. CASE p \in Range(batch')
      <4>1. Buffered(p) = 1 /\ Buffered(p)' = 0
        BY <1>1, <1>2, <3>1 DEF Buffered
      <4>2. Cardinality(OwedIn(new, p)) <= Cardinality(OwedIn(posts, p)) + 1
        BY <2>4, OwedOneMore
      <4>. QED
        BY <2>1, <2>3, <4>1, <4>2
    <3>2. CASE p \notin Range(batch')
      <4>1. Buffered(p)' = Buffered(p)
        BY <1>1, <3>2 DEF Buffered
      <4>2. \A o \in Post : Owes(new[o], p) => Owes(posts[o], p)
        BY <1>3, <2>2, <2>4, <3>2
      <4>3. Cardinality(OwedIn(new, p)) <= Cardinality(OwedIn(posts, p))
        BY <4>2, OwedNoMore
      <4>. QED
        BY <2>1, <2>3, <4>1, <4>3
    <3>. QED
      BY <3>1, <3>2
  <2>7. Buffered(p)' \in {0, 1}
    BY DEF Buffered
  <2>8. published[p] + Cardinality(OwedIn(new, p)) + Buffered(p)' <= retries[p] + 1
    BY <2>1, <2>3, <2>5, <2>6, <2>7
  <2>9. published[p] > 0 \/ p \in lost \cup Range(buffer') \cup Range(batch')
    BY <1>1, <2>5, EmptyRange
  <2>. QED
    BY <1>1, <2>2, <2>8, <2>9 DEF Accounted
<1>5. \A o \in Post : \A i \in 1..posts'[o].done : published'[posts'[o].packets[i]] > 0
  <2>1. 1..0 = {}
    OBVIOUS
  <2>. QED
    BY <1>1, <2>1 DEF Told
<1>. QED
  BY <1>1, <1>4, <1>5 DEF Told

\* A new packet is owed by no post.
LEMMA CaptureTells == ASSUME Shipped, Told, Capture PROVE Shipped' /\ Told'
<1>1. PICK n : n = captured + 1
  OBVIOUS
<1>2. /\ Shipped' /\ captured' = n /\ n \in 1..Packets
      /\ Range(buffer) \subseteq Range(buffer')
      /\ Range(buffer') \subseteq Range(buffer) \cup {n}
      /\ lost \subseteq lost' /\ n \in Range(buffer') \cup lost'
      /\ UNCHANGED <<batch, sending, posts, published, retries>>
  BY <1>1, CaptureShips
<1>3. n \notin 1..captured /\ 1..n = (1..captured) \cup {n}
  BY <1>1, CapturedIn
<1>4. ASSUME NEW p \in 1..captured PROVE Accounted(p)'
  <2>1. Buffered(p)' = Buffered(p)
    BY <1>2, <1>3 DEF Buffered
  <2>. QED
    BY <1>2, <2>1 DEF Told, Accounted
<1>5. Accounted(n)'
  <2>1. published[n] = 0 /\ retries[n] \in Nat
    BY <1>2, <1>3 DEF Told, Shipped
  <2>2. OwedIn(posts, n) = {}
    <3>1. \A q \in Post : Range(posts[q].packets) \subseteq 1..captured
      BY DEF Shipped, Fits
    <3>2. \A q \in Post : ~Owes(posts[q], n)
      BY <1>3, <3>1 DEF Owes, Range
    <3>. QED
      BY <3>2 DEF OwedIn
  <2>3. Cardinality(OwedIn(posts, n)) = 0
    BY <2>2, FS_EmptySet
  <2>4. Buffered(n)' \in {0, 1}
    BY DEF Buffered
  <2>5. published[n] + Cardinality(OwedIn(posts, n)) + Buffered(n)' <= retries[n] + 1
    BY <2>1, <2>3, <2>4
  <2>. QED
    BY <1>2, <2>5 DEF Accounted
<1>6. \A p \in 1..captured' : Accounted(p)'
  BY <1>2, <1>3, <1>4, <1>5
<1>7. \A p \in 1..Packets : p \notin 1..captured' => published'[p] = 0
  BY <1>2, <1>3 DEF Told
<1>8. \A q \in Post : \A i \in 1..posts'[q].done : published'[posts'[q].packets[i]] > 0
  BY <1>2 DEF Told
<1>. QED
  BY <1>2, <1>6, <1>7, <1>8 DEF Told

\* What is published is not owed any more.
LEMMA PublishTells == ASSUME Shipped, Told, NEW q \in Post, PublishPacket(q) PROVE Shipped' /\ Told'
<1>1. PICK n : n = posts[q].done + 1
  OBVIOUS
<1>2. posts[q].pc = "publishing" /\ UNCHANGED <<captured, buffer, batch, sending, lost, retries, ingested>>
      /\ ingested \in Nat
  BY DEF PublishPacket, Shipped
<1>3. CASE PostTo(q, "refused") /\ published' = published
  BY <1>2, <1>3, MoveTells
<1>4. CASE /\ published' = [published EXCEPT ![posts[q].packets[n]] = @ + 1]
           /\ posts' = [posts EXCEPT ![q].done = n,
                            ![q].pc = IF n = Len(posts[q].packets) THEN "accepted" ELSE @]
  <2>1. PICK pc : pc = IF n = Len(posts[q].packets) THEN "accepted" ELSE "publishing"
    OBVIOUS
  <2>2. posts' = [posts EXCEPT ![q] = Progress(posts[q], pc, n)]
    <3>1. posts' = [posts EXCEPT ![q].done = n, ![q].pc = pc]
      <4>1. DOMAIN posts = Post
        BY DEF Shipped
      <4>2. [posts EXCEPT ![q].done = n][q] = [posts[q] EXCEPT !.done = n]
        BY <4>1
      <4>3. posts[q] \in PostRows
        BY DEF Shipped, Fits
      <4>4. [posts[q] EXCEPT !.done = n].pc = posts[q].pc
        BY <4>3 DEF PostRows
      <4>. QED
        BY <1>2, <1>4, <2>1, <4>1, <4>2, <4>4
    <3>2. DOMAIN posts = Post
      BY DEF Shipped
    <3>. QED
      BY <3>1, <3>2 DEF Progress
  <2>3. /\ Shipped' /\ posts'[q].pc = pc /\ posts'[q].done = n /\ n \in DOMAIN posts[q].packets
        /\ posts'[q].packets = posts[q].packets
        /\ \A o \in Post \ {q} : posts'[o] = posts[o]
        /\ posts[q].packets[n] \in 1..captured
    <3>1. Publishes(q, n, pc)
      BY <1>1, <1>2, <1>4, <2>1, <2>2 DEF Publishes
    <3>. QED
      BY <3>1, PublishShips
  <2>4. PICK m \in 1..captured : m = posts[q].packets[n]
    BY <2>3
  <2>5. /\ m \in 1..Packets /\ published[m] \in Nat /\ published' = [published EXCEPT ![m] = published[m] + 1]
        /\ published'[m] = published[m] + 1
        /\ \A p \in 1..Packets \ {m} : published'[p] = published[p]
    <3>1. m \in 1..Packets /\ published[m] \in Nat
      BY PacketNumbers
    <3>2. published' = [published EXCEPT ![m] = published[m] + 1]
      BY <1>4, <2>4
    <3>. QED
      BY <3>1, <3>2 DEF Shipped
  <2>6. posts[q].done \in Nat /\ posts[q].packets \in Seq(1..Packets) /\ Distinct(posts[q].packets)
    BY DEF Shipped, Fits, PostRows
  <2>7. \A o \in Post \ {q} : \A p : Owes(posts'[o], p) => Owes(posts[o], p)
    BY <2>3
  <2>8. \A p : Owes(posts'[q], p) => Owes(posts[q], p)
    <3>1. ASSUME NEW i \in DOMAIN posts[q].packets, i > n PROVE i > posts[q].done
      BY <1>1, <2>6, <3>1
    <3>. QED
      BY <1>2, <2>3, <3>1 DEF Owes
  <2>9. Owes(posts[q], m) /\ ~Owes(posts'[q], m)
    <3>1. n > posts[q].done
      BY <1>1, <2>6
    <3>2. \A i \in DOMAIN posts[q].packets : i > n => posts[q].packets[i] # m
      <4>1. \A i \in DOMAIN posts[q].packets : i > n => i # n
        BY <1>1, <2>6
      <4>. QED
        BY <2>3, <2>4, <2>6, <4>1 DEF Distinct
    <3>. QED
      BY <1>2, <2>3, <2>4, <3>1, <3>2 DEF Owes
  <2>10. ASSUME NEW p \in 1..captured PROVE Accounted(p)'
    <3>1. /\ p \in 1..Packets /\ published[p] \in Nat /\ retries[p] \in Nat
          /\ Cardinality(OwedIn(posts, p)) \in Nat /\ Buffered(p) \in {0, 1}
      BY PacketNumbers
    <3>2. PICK new : new = posts'
      OBVIOUS
    <3>3. Cardinality(OwedIn(new, p)) \in Nat
      BY OwedFinite
    <3>4. /\ published[p] + Cardinality(OwedIn(posts, p)) + Buffered(p) <= retries[p] + 1
          /\ published[p] > 0 \/ p \in lost \cup Range(buffer) \cup Range(batch)
      BY DEF Told, Accounted
    <3>5. /\ published'[p] \in Nat
          /\ published'[p] + Cardinality(OwedIn(new, p)) <= published[p] + Cardinality(OwedIn(posts, p))
          /\ published[p] > 0 => published'[p] > 0
      <4>1. CASE p = m
        <5>1. Cardinality(OwedIn(new, p)) <= Cardinality(OwedIn(posts, p)) - 1
          BY <2>7, <2>9, <3>2, <4>1, OwedOneLess
        <5>. QED
          BY <2>5, <3>1, <3>3, <4>1, <5>1
      <4>2. CASE p # m
        <5>1. published'[p] = published[p]
          BY <2>5, <3>1, <4>2
        <5>2. Cardinality(OwedIn(new, p)) <= Cardinality(OwedIn(posts, p))
          BY <2>7, <2>8, <3>2, OwedNoMore
        <5>. QED
          BY <3>1, <3>3, <5>1, <5>2
      <4>. QED
        BY <4>1, <4>2
    <3>6. Buffered(p)' = Buffered(p)
      BY <1>2 DEF Buffered
    <3>7. published'[p] + Cardinality(OwedIn(new, p)) + Buffered(p)' <= retries[p] + 1
      BY <3>1, <3>3, <3>4, <3>5, <3>6
    <3>. QED
      BY <1>2, <3>2, <3>4, <3>5, <3>7 DEF Accounted
  <2>11. \A p \in 1..Packets : p \notin 1..captured' => published'[p] = 0
    BY <1>2, <2>5 DEF Told
  <2>12. \A o \in Post : \A i \in 1..posts'[o].done : published'[posts'[o].packets[i]] > 0
    <3>1. \A p \in 1..Packets : published[p] > 0 => published'[p] > 0
      BY <2>5
    <3>2. \A o \in Post : \A i \in 1..posts[o].done : posts[o].packets[i] \in 1..Packets
      <4>1. \A o \in Post : /\ posts[o].packets \in Seq(1..Packets) /\ posts[o].done \in Nat
                            /\ posts[o].done <= Len(posts[o].packets)
        BY DEF Shipped, Fits, PostRows
      <4>2. ASSUME NEW o \in Post, NEW i \in 1..posts[o].done PROVE i \in DOMAIN posts[o].packets
        <5>1. /\ Len(posts[o].packets) \in Nat /\ posts[o].done \in Nat
              /\ posts[o].done <= Len(posts[o].packets)
              /\ DOMAIN posts[o].packets = 1..Len(posts[o].packets)
          BY <4>1
        <5>. QED
          BY <5>1
      <4>3. ASSUME NEW o \in Post, NEW i \in 1..posts[o].done PROVE posts[o].packets[i] \in 1..Packets
        <5>1. PICK s \in Seq(1..Packets) : s = posts[o].packets
          BY <4>1
        <5>2. i \in 1..Len(s)
          BY <4>2, <5>1
        <5>. QED
          BY <5>1, <5>2, ElementOfSeq
      <4>. QED
        BY <4>3
    <3>3. 1..n = (1..posts[q].done) \cup {n}
      BY <1>1, <2>6
    <3>4. published'[m] > 0
      BY <2>5
    <3>. QED
      BY <2>3, <2>4, <3>1, <3>2, <3>3, <3>4 DEF Told
  <2>. QED
    BY <1>2, <2>3, <2>10, <2>11, <2>12 DEF Told
<1>. QED
  BY <1>1, <1>3, <1>4 DEF PublishPacket

LEMMA ToldStart == FleetInit => Told
<1>. SUFFICES ASSUME FleetInit PROVE Told
  OBVIOUS
<1>1. captured = 0 /\ posts = [q \in Post |-> Free] /\ published = [p \in 1..Packets |-> 0]
  BY DEF FleetInit
<1>2. \A p \in 1..captured : FALSE
  BY <1>1
<1>3. \A q \in Post : posts[q].done = 0
  BY <1>1 DEF Free
<1>4. \A i \in 1..0 : FALSE
  OBVIOUS
<1>. QED
  BY <1>1, <1>2, <1>3, <1>4 DEF Told

LEMMA PacketStep ==
    ASSUME Shipped, Told, mischiefs \in Nat, PacketNext
    PROVE  Shipped' /\ Told' /\ mischiefs' \in Nat
<1>1. mischiefs' \in Nat
  <2>1. mischiefs' \in {mischiefs, mischiefs + 1} => mischiefs' \in Nat
    OBVIOUS
  <2>2. ASSUME NEW q \in Post, SendBatch(q) \/ VerifyPost(q) \/ Admit(q)
        PROVE  mischiefs' \in {mischiefs, mischiefs + 1}
    BY <2>2 DEF SendBatch, VerifyPost, Admit, Mischief
  <2>3. ASSUME NEW q \in Post, PublishPacket(q) \/ Answer(q)
        PROVE  mischiefs' \in {mischiefs, mischiefs + 1}
    BY <2>3 DEF PublishPacket, Answer, Mischief
  <2>4. Capture \/ LimitTurns \/ GiveUp \/ SensorCrash => mischiefs' \in {mischiefs, mischiefs + 1}
    BY DEF Capture, LimitTurns, GiveUp, SensorCrash, Mischief
  <2>. QED
    BY <2>1, <2>2, <2>3, <2>4 DEF PacketNext
<1>2. ASSUME NEW q \in Post, VerifyPost(q) PROVE Shipped' /\ Told'
  <2>1. PICK pc \in {"verified", "refused"} : PostTo(q, pc)
    BY <1>2 DEF VerifyPost
  <2>2. /\ posts[q].pc = "sent" /\ published' = published /\ ingested' \in Nat
        /\ UNCHANGED <<captured, buffer, batch, sending, lost, retries>>
    BY <1>2 DEF VerifyPost, Shipped
  <2>. QED
    BY <2>1, <2>2, MoveTells
<1>3. ASSUME NEW q \in Post, Admit(q) PROVE Shipped' /\ Told'
  <2>1. /\ posts[q].pc = "verified" /\ published' = published
        /\ UNCHANGED <<captured, buffer, batch, sending, lost, retries>>
    BY <1>3 DEF Admit
  <2>2. Len(posts[q].packets) \in Nat /\ ingested \in Nat
    BY DEF Shipped, Fits, PostRows
  <2>3. PICK pc \in {"publishing", "refused"} : PostTo(q, pc) /\ ingested' \in Nat
    <3>1. CASE /\ ingested' = ingested + Len(posts[q].packets)
               /\ PostTo(q, IF ingested' > IngestLimit THEN "refused" ELSE "publishing")
      BY <2>2, <3>1
    <3>2. CASE PostTo(q, "publishing") /\ UNCHANGED ingested
      BY <2>2, <3>2
    <3>. QED
      BY <1>3, <3>1, <3>2 DEF Admit
  <2>. QED
    BY <2>1, <2>3, MoveTells
<1>4. ASSUME LimitTurns PROVE Shipped' /\ Told'
  <2>1. /\ ingested' = 0
        /\ UNCHANGED <<captured, buffer, batch, sending, posts, published, lost, retries>>
    BY <1>4 DEF LimitTurns
  <2>2. Shipped'
    BY <2>1 DEF Shipped
  <2>3. Told'
    BY <2>1 DEF Told, Accounted, OwedIn, Owes, Buffered
  <2>. QED
    BY <2>2, <2>3
<1>. QED
  BY <1>1, <1>2, <1>3, <1>4, CaptureTells, SendTells, PublishTells, AnswerTells, GiveUpTells,
     CrashTells DEF PacketNext

Delivered == Shipped /\ Told /\ mischiefs \in Nat

LEMMA PacketsStep ==
 Delivered /\ [FleetNext]_fleetVars => Delivered'
<1>. SUFFICES ASSUME Shipped, Told, mischiefs \in Nat, [FleetNext]_fleetVars
              PROVE  Shipped' /\ Told' /\ mischiefs' \in Nat
  BY DEF Delivered
<1>1. ASSUME UNCHANGED packetVars PROVE Shipped' /\ Told'
  <2>1. UNCHANGED <<captured, buffer, batch, sending, posts, published, lost, retries, ingested>>
    BY <1>1 DEF packetVars
  <2>2. Shipped'
    BY <2>1 DEF Shipped
  <2>3. Told'
    BY <2>1 DEF Told, Accounted, OwedIn, Owes, Buffered
  <2>. QED
    BY <2>2, <2>3
<1>2. SensorRowNext => mischiefs' \in Nat
  BY DEF SensorRowNext, SendBeat, LoadRow, CommitBeat, BeatFails, FallSilent, MonitorSelect,
         MonitorCommit, Revoke, Mischief
<1>3. UNCHANGED fleetVars => UNCHANGED packetVars /\ mischiefs' \in Nat
  BY DEF fleetVars, packetVars
<1>. QED
  BY <1>1, <1>2, <1>3, PacketStep DEF FleetNext

\* A captured packet is on its way, published or lost, and is published at most once per
\* time it was put back, and once more (sensor/main.py:159-171,
\* ingest_gateway/main.py:115-124), for any number of packets, posts, retries and crashes.
\* Inductive with Told: what a post may publish yet, and a place in the buffer, count
\* against the packet's retries as well.
THEOREM PacketsHold == FleetSpec => []PacketsKept
<1>1. FleetInit => Delivered
  BY ShippedStart, ToldStart DEF Delivered
<1>2. Delivered => PacketsKept
  <2>. SUFFICES ASSUME Shipped, Told, NEW p \in 1..captured
                PROVE  /\ published[p] > 0 \/ p \in lost \cup Range(buffer) \cup Range(batch)
                       /\ published[p] <= retries[p] + 1
    BY DEF PacketsKept, Delivered
  <2>1. /\ published[p] \in Nat /\ retries[p] \in Nat
        /\ Cardinality(OwedIn(posts, p)) \in Nat /\ Buffered(p) \in {0, 1}
    BY PacketNumbers
  <2>2. Accounted(p)
    BY DEF Told
  <2>. QED
    BY <2>1, <2>2 DEF Accounted
<1>. QED
  BY <1>1, <1>2, PacketsStep, PTL DEF FleetSpec

\* SensorFleet's type invariant: the buffer never exceeds max_size, and a batch its size.
THEOREM FleetTypes == FleetSpec => []FleetTypeOK
<1>1. FleetInit => RowTyped /\ Warned /\ Delivered
  BY RowStart, ShippedStart, ToldStart DEF Delivered
<1>2. RowTyped /\ Warned /\ [FleetNext]_fleetVars => RowTyped' /\ Warned'
  <2>1. RowTyped /\ Warned /\ UNCHANGED sensorRowVars => RowTyped' /\ Warned'
    BY DEF sensorRowVars, RowTyped, Warned
  <2>2. UNCHANGED fleetVars => UNCHANGED sensorRowVars
    BY DEF fleetVars, sensorRowVars
  <2>. QED
    BY <2>1, <2>2, RowStep DEF FleetNext
<1>3. RowTyped /\ Delivered => FleetTypeOK
  <2>. SUFFICES ASSUME RowTyped, Shipped, mischiefs \in Nat PROVE FleetTypeOK
    BY DEF Delivered
  <2>1. buffer \in Seq(1..captured) /\ batch \in Seq(1..captured)
    BY SequenceIn DEF Shipped
  <2>2. ASSUME NEW q \in Post
        PROVE  posts[q].packets \in Seq(1..captured) /\ posts[q].done <= Len(posts[q].packets)
    <3>1. /\ posts[q].packets \in Seq(1..Packets) /\ Range(posts[q].packets) \subseteq 1..captured
          /\ posts[q].done <= Len(posts[q].packets)
      BY DEF Shipped, Fits, PostRows
    <3>. QED
      BY <3>1, SequenceIn
  <2>3. {ingested, mischiefs} \subseteq Nat /\ {published, retries} \subseteq [1..Packets -> Nat]
    BY DEF Shipped
  <2>. QED
    BY <2>1, <2>2, <2>3 DEF FleetTypeOK, RowTyped, Shipped
<1>. QED
  BY <1>1, <1>2, <1>3, PacketsStep, PTL DEF FleetSpec
(***************************************************************************)
(* The lists: rows.                                                        *)
(***************************************************************************)

LEMMA LeastOf ==
    ASSUME NEW S \in SUBSET Nat, S # {}
    PROVE  Min(S) \in S /\ \A x \in S : Min(S) <= x
<1> DEFINE Downs == {0..x : x \in S}
<1>1. Downs \subseteq FiniteSubsetsOf(Nat) /\ Downs # {}
  <2>1. ASSUME NEW x \in S PROVE 0..x \in FiniteSubsetsOf(Nat)
    <3>1. IsFiniteSet(0..x)
      BY FS_Interval
    <3>. QED
      BY <3>1 DEF FiniteSubsetsOf
  <2>. QED
    BY <2>1
<1>2. PICK D \in Downs : \A C \in Downs : ~(<<C, D>> \in StrictSubsetOrdering(Nat))
  <2>1. IsWellFoundedOn(StrictSubsetOrdering(Nat), FiniteSubsetsOf(Nat))
    BY FS_StrictSubsetOrderingWellFounded
  <2> HIDE DEF Downs
  <2>. QED
    BY <1>1, <2>1, WFMin
<1>3. PICK m \in S : D = 0..m
  OBVIOUS
<1>4. ASSUME NEW x \in S, x < m PROVE FALSE
  <2>1. 0..x \in SUBSET (0..m) /\ m \in 0..m /\ m \notin 0..x /\ 0..m \in SUBSET Nat
    BY <1>4
  <2>2. <<0..x, 0..m>> \in StrictSubsetOrdering(Nat)
    BY <2>1 DEF StrictSubsetOrdering
  <2>. QED
    BY <1>2, <1>3, <2>2
<1>5. \A x \in S : m <= x
  BY <1>4
<1>. QED
  BY <1>5 DEF Min

ListRow == [pc : {"none", "open", "in"}, at : 0 .. Times, on : BOOLEAN, v : 0 .. Updates]

Stamped ==
    /\ list \in Lists /\ clock \in 1 .. Times /\ changed \in 0 .. Updates
    /\ row \in [Item -> ListRow]
    /\ \A r \in Item : /\ row[r].pc # "none" => row[r].at >= 1
                       /\ row[r].v <= changed

\* What becomes of the rows in a step: a stored one keeps its created_at, and is updated
\* only together with its version.
Ages ==
    /\ list' = list
    /\ \A r \in Item : row[r].pc = "in" =>
         /\ row'[r].pc = "in" /\ row'[r].at = row[r].at
         /\ row'[r].v \in Nat /\ row'[r].v >= row[r].v
         /\ row'[r].v = row[r].v => row'[r].on = row[r].on

LEMMA StampedStart == ListInit => Stamped
<1>. SUFFICES ASSUME ListInit PROVE Stamped
  OBVIOUS
<1>1. Times \in Nat \ {0} /\ Updates \in Nat
  BY ListAssumption
<1>2. PICK k : k = [pc |-> "none", at |-> 0, on |-> TRUE, v |-> 0]
  OBVIOUS
<1>3. k \in ListRow /\ k.pc = "none" /\ k.v = 0
  BY <1>1, <1>2 DEF ListRow
<1>4. row = [r \in Item |-> k] /\ list \in Lists /\ clock = 1 /\ changed = 0
  BY <1>2 DEF ListInit
<1>. QED
  BY <1>1, <1>3, <1>4 DEF Stamped

\* The rows that the steps of a transaction leave.
Opened(k, t)   == [k EXCEPT !.pc = "open", !.at = t]
Committed(k)   == [k EXCEPT !.pc = "in"]
Updated(k, on) == [k EXCEPT !.on = on, !.v = k.v + 1]

LEMMA OpenedFields ==
    ASSUME NEW k \in ListRow, NEW t \in 1 .. Times
    PROVE  /\ Opened(k, t) \in ListRow /\ Opened(k, t).pc = "open" /\ Opened(k, t).at = t
           /\ Opened(k, t).v = k.v
<1>1. Times \in Nat
  BY ListAssumption
<1>2. PICK A, B, D : A = {"none", "open", "in"} /\ B = 0 .. Times /\ D = 0 .. Updates
  OBVIOUS
<1>3. k \in [pc : A, at : B, on : BOOLEAN, v : D] /\ t \in B
  BY <1>1, <1>2 DEF ListRow
<1>4. PICK p \in A : p = "open"
  BY <1>2
<1>5. \A e : e = [k EXCEPT !.pc = p, !.at = t] =>
         e \in [pc : A, at : B, on : BOOLEAN, v : D] /\ e.pc = p /\ e.at = t /\ e.v = k.v
  BY <1>3
<1>. QED
  BY <1>2, <1>4, <1>5 DEF Opened, ListRow

LEMMA CommittedFields ==
    ASSUME NEW k \in ListRow
    PROVE  /\ Committed(k) \in ListRow /\ Committed(k).pc = "in" /\ Committed(k).at = k.at
           /\ Committed(k).v = k.v /\ Committed(k).on = k.on
BY DEF Committed, ListRow

LEMMA UpdatedFields ==
    ASSUME NEW k \in ListRow, NEW on \in BOOLEAN, k.v + 1 <= Updates
    PROVE  /\ Updated(k, on) \in ListRow /\ Updated(k, on).pc = k.pc /\ Updated(k, on).at = k.at
           /\ Updated(k, on).v = k.v + 1
<1>1. Updates \in Nat /\ k.v \in 0 .. Updates
  BY ListAssumption DEF ListRow
<1>2. PICK A, B, D : A = {"none", "open", "in"} /\ B = 0 .. Times /\ D = 0 .. Updates
  OBVIOUS
<1>3. k \in [pc : A, at : B, on : BOOLEAN, v : D]
  BY <1>2 DEF ListRow
<1>4. PICK n \in D : n = k.v + 1
  BY <1>1, <1>2
<1>5. \A e : e = [k EXCEPT !.on = on, !.v = n] =>
         e \in [pc : A, at : B, on : BOOLEAN, v : D] /\ e.pc = k.pc /\ e.at = k.at /\ e.v = n
  BY <1>3
<1>. QED
  BY <1>2, <1>4, <1>5 DEF Updated, ListRow

LEMMA InsertAges ==
    ASSUME Stamped, NEW R \in SUBSET New, Insert(R)
    PROVE  Stamped' /\ Ages
<1>1. /\ \A r \in Item : row'[r] = IF r \in R THEN Opened(row[r], clock) ELSE row[r]
      /\ row' = [r \in Item |-> row'[r]]
      /\ UNCHANGED <<list, clock, changed>>
  BY DEF Insert, Opened
<1>2. Times \in Nat /\ clock \in 1 .. Times
  BY ListAssumption DEF Stamped
<1>3. ASSUME NEW r \in R
      PROVE  /\ row'[r] \in ListRow /\ row'[r].at >= 1 /\ row'[r].v = row[r].v
             /\ row[r].pc = "none"
  <2>1. r \in Item /\ row[r].pc = "none"
    BY DEF New
  <2>2. row[r] \in ListRow /\ row'[r] = Opened(row[r], clock)
    BY <1>1, <2>1 DEF Stamped
  <2>. QED
    BY <1>2, <2>1, <2>2, OpenedFields
<1>4. ASSUME NEW r \in Item \ R PROVE row'[r] = row[r] /\ row[r] \in ListRow
  BY <1>1 DEF Stamped
<1>5. Stamped'
  BY <1>1, <1>2, <1>3, <1>4 DEF Stamped
<1>6. ASSUME NEW r \in Item, row[r].pc = "in"
      PROVE  row'[r] = row[r]
  BY <1>3, <1>4, <1>6
<1>7. \A r \in Item : row[r].v \in Nat
  BY DEF Stamped, ListRow
<1>. QED
  BY <1>1, <1>5, <1>6, <1>7 DEF Ages

LEMMA CommitAges ==
    ASSUME Stamped, NEW R \in SUBSET Open, Commit(R)
    PROVE  Stamped' /\ Ages
<1>1. /\ \A r \in Item : row'[r] = IF r \in R THEN Committed(row[r]) ELSE row[r]
      /\ row' = [r \in Item |-> row'[r]]
      /\ UNCHANGED <<list, clock, changed>>
  BY DEF Commit, Committed
<1>2. Times \in Nat /\ clock \in 1 .. Times
  BY ListAssumption DEF Stamped
<1>3. ASSUME NEW r \in R
      PROVE  /\ row'[r] \in ListRow /\ row'[r].at = row[r].at /\ row'[r].v = row[r].v
             /\ row[r].pc = "open"
  <2>1. r \in Item /\ row[r].pc = "open"
    BY DEF Open
  <2>2. row[r] \in ListRow /\ row'[r] = Committed(row[r])
    BY <1>1, <2>1 DEF Stamped
  <2>. QED
    BY <1>2, <2>1, <2>2, CommittedFields
<1>4. ASSUME NEW r \in Item \ R PROVE row'[r] = row[r] /\ row[r] \in ListRow
  BY <1>1 DEF Stamped
<1>5. Stamped'
  BY <1>1, <1>2, <1>3, <1>4 DEF Stamped
<1>6. ASSUME NEW r \in Item, row[r].pc = "in"
      PROVE  row'[r] = row[r]
  BY <1>3, <1>4, <1>6
<1>7. \A r \in Item : row[r].v \in Nat
  BY DEF Stamped, ListRow
<1>. QED
  BY <1>1, <1>5, <1>6, <1>7 DEF Ages

LEMMA SetOnAges ==
    ASSUME Stamped, NEW r \in Item, NEW on \in BOOLEAN, SetOn(r, on)
    PROVE  Stamped' /\ Ages
<1>1. /\ row[r].pc = "in" /\ changed < Updates /\ changed' = changed + 1
      /\ row' = [row EXCEPT ![r] = Updated(row[r], on)] /\ UNCHANGED <<list, clock>>
  <2>1. row' = [row EXCEPT ![r].on = on, ![r].v = @ + 1]
    BY DEF SetOn
  <2>2. row[r] \in ListRow /\ DOMAIN row = Item
    BY DEF Stamped
  <2>3. [row[r] EXCEPT !.on = on].v = row[r].v
    BY <2>2 DEF ListRow
  <2>4. row' = [row EXCEPT ![r] = Updated(row[r], on)]
    BY <2>1, <2>2, <2>3 DEF Updated
  <2>. QED
    BY <2>4 DEF SetOn
<1>2. /\ Times \in Nat /\ Updates \in Nat /\ changed \in 0 .. Updates /\ clock \in 1 .. Times
      /\ row[r] \in ListRow /\ row[r].v \in Nat /\ row[r].v <= changed
  <2>1. Times \in Nat /\ Updates \in Nat
    BY ListAssumption
  <2>2. row[r] \in ListRow /\ row[r].v \in 0 .. Updates
    BY DEF Stamped, ListRow
  <2>. QED
    BY <2>1, <2>2 DEF Stamped
<1>3. row[r].v + 1 <= Updates /\ changed' \in 0 .. Updates /\ row[r].v + 1 <= changed'
  BY <1>1, <1>2
<1>4. /\ row'[r] \in ListRow /\ row'[r].pc = "in" /\ row'[r].at = row[r].at
      /\ row'[r].v = row[r].v + 1
  <2>1. row'[r] = Updated(row[r], on)
    BY <1>1 DEF Stamped
  <2>. QED
    BY <1>1, <1>2, <1>3, <2>1, UpdatedFields
<1>5. \A o \in Item \ {r} : row'[o] = row[o] /\ row[o] \in ListRow /\ row[o].v \in Nat
  BY <1>1 DEF Stamped, ListRow
<1>6. row' \in [Item -> ListRow]
  BY <1>1, <1>4 DEF Stamped
<1>7. \A o \in Item : row'[o].v <= changed'
  BY <1>1, <1>2, <1>3, <1>4, <1>5 DEF Stamped
<1>8. \A o \in Item : row'[o].pc # "none" => row'[o].at >= 1
  BY <1>1, <1>4, <1>5 DEF Stamped
<1>9. Stamped'
  BY <1>1, <1>3, <1>6, <1>7, <1>8 DEF Stamped
<1>10. row'[r].v \in Nat /\ row'[r].v >= row[r].v /\ row'[r].v # row[r].v
  BY <1>2, <1>4
<1>. QED
  BY <1>1, <1>4, <1>5, <1>9, <1>10 DEF Ages

LEMMA KeepAges == ASSUME Stamped, UNCHANGED <<list, clock, row, changed>> PROVE Stamped' /\ Ages
<1>1. \A r \in Item : row[r].v \in Nat
  BY DEF Stamped, ListRow
<1>. QED
  BY <1>1 DEF Stamped, Ages

(***************************************************************************)
(* The lists: walks.                                                       *)
(***************************************************************************)

WalkRecords == [pages : Seq(SUBSET Item), cursor : 0 .. Times, more : BOOLEAN,
                start : SUBSET (Item \X (0 .. Updates))]

\* The filter of the list's endpoint.
Passes(r) == list \in {"alerts", "web alerts", "blocked"} => row[r].on

\* Row r is in the pages of w, or one that cannot be told from it by created_at.
Covers(w, r) == \E i \in DOMAIN w.pages : \E o \in w.pages[i] : o = r \/ row[o].at = row[r].at

GoodWalk(w) ==
    /\ w \in WalkRecords
    /\ \A i, j \in DOMAIN w.pages : i # j => w.pages[i] \cap w.pages[j] = {}
    /\ \A i \in DOMAIN w.pages : \A r \in w.pages[i] :
         row[r].pc = "in" /\ (w.more => row[r].at >= w.cursor)
    /\ w.more => w.pages # <<>> /\ w.cursor # 0
    /\ \A s \in w.start :
         /\ row[s[1]].pc = "in" /\ s[2] <= row[s[1]].v
         /\ row[s[1]].v = s[2] => Passes(s[1])
         /\ row[s[1]].v = s[2] /\ (w.more => row[s[1]].at >= w.cursor) => Covers(w, s[1])

LEMMA NoWalkGood == NoWalk \in WalkRecords /\ NoWalk.more = FALSE /\ GoodWalk(NoWalk)
<1>1. /\ NoWalk.pages = <<>> /\ NoWalk.cursor = 0 /\ NoWalk.more = FALSE /\ NoWalk.start = {}
      /\ DOMAIN NoWalk.pages = {}
  BY DEF NoWalk
<1>2. 0 \in 0 .. Times /\ <<>> \in Seq(SUBSET Item)
  <2>1. Times \in Nat
    BY ListAssumption
  <2>. QED
    BY <2>1
<1>3. NoWalk \in WalkRecords
  BY <1>2 DEF NoWalk, WalkRecords
<1>. QED
  BY <1>1, <1>3 DEF GoodWalk

LEMMA StartIn ==
    ASSUME Stamped, NEW w \in WalkRecords, NEW s \in w.start
    PROVE  /\ s[1] \in Item /\ s[2] \in Nat /\ row[s[1]].v \in Nat /\ row[s[1]].at \in Nat
           /\ row[s[1]].pc = "in" => row[s[1]].at >= 1
<1>1. s \in Item \X (0 .. Updates) /\ Updates \in Nat /\ Times \in Nat
  BY ListAssumption DEF WalkRecords
<1>2. s[1] \in Item /\ s[2] \in 0 .. Updates
  BY <1>1
<1>3. row[s[1]] \in ListRow
  BY <1>2 DEF Stamped
<1>4. row[s[1]].v \in 0 .. Updates /\ row[s[1]].at \in 0 .. Times
  BY <1>3 DEF ListRow
<1>. QED
  BY <1>1, <1>2, <1>4 DEF Stamped

LEMMA PagesIn ==
    ASSUME NEW w \in WalkRecords, NEW i \in DOMAIN w.pages
    PROVE  w.pages[i] \subseteq Item
<1>1. PICK s \in Seq(SUBSET Item) : s = w.pages
  BY DEF WalkRecords
<1>. QED
  BY <1>1, ElementOfSeq

\* A walk stays good while the rows age.
LEMMA WalkStays ==
    ASSUME Stamped, Ages, NEW w, GoodWalk(w)
    PROVE  GoodWalk(w)'
<1>1. w \in WalkRecords
  BY DEF GoodWalk
<1>2. ASSUME NEW i \in DOMAIN w.pages, NEW r \in w.pages[i]
      PROVE  row'[r].pc = "in" /\ row'[r].at = row[r].at /\ (w.more => row'[r].at >= w.cursor)
  <2>1. r \in Item
    BY <1>1, PagesIn
  <2>. QED
    BY <2>1 DEF GoodWalk, Ages
<1>3. ASSUME NEW s \in w.start
      PROVE  /\ row'[s[1]].pc = "in" /\ s[2] <= row'[s[1]].v
             /\ row'[s[1]].v = s[2] => Passes(s[1])'
             /\ row'[s[1]].v = s[2] /\ (w.more => row'[s[1]].at >= w.cursor) => Covers(w, s[1])'
  <2>1. PICK r : r = s[1]
    OBVIOUS
  <2>2. PICK v : v = s[2]
    OBVIOUS
  <2>3. r \in Item /\ v \in Nat /\ row[r].v \in Nat /\ row[r].pc = "in" /\ v <= row[r].v
    BY <1>1, <2>1, <2>2, StartIn DEF GoodWalk
  <2>4. /\ row'[r].pc = "in" /\ row'[r].at = row[r].at
        /\ row'[r].v \in Nat /\ row'[r].v >= row[r].v
        /\ row'[r].v = row[r].v => row'[r].on = row[r].on
    BY <2>3 DEF Ages
  <2>5. v <= row'[r].v /\ (row'[r].v = v => row[r].v = v)
    <3>1. CASE row'[r].v = v
      BY <2>3, <2>4, <3>1
    <3>2. CASE row'[r].v # v
      BY <2>3, <2>4, <3>2
    <3>. QED
      BY <3>1, <3>2
  <2>6. row'[r].v = v => Passes(r)'
    BY <2>1, <2>2, <2>4, <2>5 DEF GoodWalk, Passes, Ages
  <2>7. ASSUME row'[r].v = v, w.more => row'[r].at >= w.cursor PROVE Covers(w, r)'
    <3>1. Covers(w, r)
      BY <2>1, <2>2, <2>4, <2>5, <2>7 DEF GoodWalk
    <3>. QED
      BY <1>2, <2>4, <3>1 DEF Covers
  <2>. QED
    BY <2>1, <2>2, <2>4, <2>5, <2>6, <2>7
<1>. QED
  BY <1>1, <1>2, <1>3 DEF GoodWalk

\* What a page adds: the newest rows older than the cursor, and the cursor they end with.
Turned(S, base, w, P) ==
    LET C == Older(S, base.cursor)
    IN  /\ w = [pages |-> w.pages, more |-> w.more, cursor |-> w.cursor, start |-> w.start]
        /\ P \in SUBSET C
        /\ w.more = (Cardinality(C) > PerPage)
        /\ w.more => P # {}
        /\ ~w.more => P = C
        /\ \A r \in P, s \in C \ P : row[r].at >= row[s].at
        /\ w.pages = Append(base.pages, P)
        /\ P = {} => w.cursor = 0
        /\ P # {} => /\ w.cursor \in 1 .. Times
                     /\ \A r \in P : row[r].at >= w.cursor
                     /\ \E r \in P : row[r].at = w.cursor
        /\ w.start = IF base.pages = <<>> THEN {<<r, row[r].v>> : r \in S} ELSE base.start

LEMMA ItemFinite == IsFiniteSet(Item) /\ Item \subseteq Nat
<1>1. Rows \in Nat
  BY ListAssumption
<1>. QED
  BY <1>1, FS_Interval DEF Item

LEMMA StoredAt ==
    ASSUME Stamped, NEW r \in Item
    PROVE  row[r].at \in 0 .. Times /\ row[r].at \in Nat /\ (row[r].pc = "in" => row[r].at \in 1 .. Times)
<1>1. row[r].at \in 0 .. Times /\ Times \in Nat
  BY ListAssumption DEF Stamped, ListRow
<1>. QED
  BY <1>1 DEF Stamped

LEMMA PageTurns ==
    ASSUME Stamped, NEW S, S \in SUBSET Item, \A r \in S : row[r].pc = "in",
           NEW base, NEW w \in Page(S, base)
    PROVE  \E P : Turned(S, base, w, P)
<1>1. PICK C : C = Older(S, base.cursor)
  OBVIOUS
<1>2. PICK n : n = IF Cardinality(C) > PerPage THEN PerPage ELSE Cardinality(C)
  OBVIOUS
<1>3. PICK P \in {Q \in kSubset(n, C) : \A r \in Q, s \in C \ Q : row[r].at >= row[s].at} :
        w = [pages |-> Append(base.pages, P), more |-> Cardinality(C) > PerPage,
             cursor |-> IF P = {} THEN 0 ELSE Min({row[r].at : r \in P}),
             start |-> IF base.pages = <<>> THEN {<<r, row[r].v>> : r \in S} ELSE base.start]
  BY <1>1, <1>2 DEF Page
<1>4. /\ P \in SUBSET C /\ Cardinality(P) = n
      /\ \A r \in P, s \in C \ P : row[r].at >= row[s].at
  BY DEF kSubset
<1>5. C \in SUBSET S /\ C \in SUBSET Item /\ IsFiniteSet(C) /\ Cardinality(C) \in Nat
  <2>1. C \in SUBSET S /\ C \in SUBSET Item
    BY <1>1 DEF Older
  <2>2. IsFiniteSet(C)
    BY <2>1, ItemFinite, FS_Subset
  <2>. QED
    BY <2>1, <2>2, FS_CardinalityType
<1>6. PerPage \in Nat /\ PerPage >= 1
  <2>1. PerPage \in Nat \ {0}
    BY ListAssumption
  <2>. QED
    BY <2>1
<1>7. /\ w.pages = Append(base.pages, P) /\ w.more = (Cardinality(C) > PerPage)
      /\ w.cursor = IF P = {} THEN 0 ELSE Min({row[r].at : r \in P})
      /\ w.start = IF base.pages = <<>> THEN {<<r, row[r].v>> : r \in S} ELSE base.start
      /\ w = [pages |-> w.pages, more |-> w.more, cursor |-> w.cursor, start |-> w.start]
  BY <1>3
<1>8. ASSUME w.more, P = {} PROVE FALSE
  <2>1. Cardinality(P) = 0
    BY <1>8, FS_EmptySet
  <2>2. n = PerPage
    BY <1>2, <1>7, <1>8
  <2>3. PerPage = 0
    BY <1>4, <2>1, <2>2
  <2>. QED
    BY <1>6, <2>3
<1>9. ~w.more => P = C
  <2>1. SUFFICES ASSUME ~w.more PROVE P = C
    OBVIOUS
  <2>2. Cardinality(P) = Cardinality(C)
    BY <1>2, <1>4, <1>7, <2>1
  <2>. QED
    BY <1>4, <1>5, <2>2, FS_Subset
<1>10. ASSUME P # {}
       PROVE  /\ w.cursor \in 1 .. Times
              /\ \A r \in P : row[r].at >= w.cursor
              /\ \E r \in P : row[r].at = w.cursor
  <2>1. PICK T : T = {row[r].at : r \in P}
    OBVIOUS
  <2>2. \A r \in P : row[r].at \in 1 .. Times /\ row[r].at \in Nat
    BY <1>4, <1>5, StoredAt
  <2>3. T \in SUBSET Nat /\ T # {}
    BY <1>10, <2>1, <2>2
  <2>4. Min(T) \in T /\ (\A x \in T : Min(T) <= x) /\ w.cursor = Min(T)
    BY <1>7, <1>10, <2>1, <2>3, LeastOf
  <2>5. PICK r \in P : row[r].at = w.cursor
    BY <2>1, <2>4
  <2>6. \A o \in P : w.cursor <= row[o].at
    BY <2>1, <2>4
  <2>. QED
    BY <2>2, <2>5, <2>6
<1>11. P = {} => w.cursor = 0
  BY <1>7
<1>. QED
  BY <1>1, <1>4, <1>7, <1>8, <1>9, <1>10, <1>11 DEF Turned

\* A page of a good walk makes a good walk.
LEMMA PageGood ==
    ASSUME Stamped, NEW S \in SUBSET Item, \A r \in Item : r \in S <=> row[r].pc = "in" /\ Passes(r),
           NEW base, GoodWalk(base), base.more \/ base = NoWalk, NEW w \in Page(S, base)
    PROVE  GoodWalk(w)
<1>1. PICK P : Turned(S, base, w, P)
  BY PageTurns
<1>2. PICK C : C = Older(S, base.cursor)
  OBVIOUS
<1>3. /\ w = [pages |-> w.pages, more |-> w.more, cursor |-> w.cursor, start |-> w.start]
      /\ P \in SUBSET C
      /\ w.more \in BOOLEAN
      /\ w.more => P # {}
      /\ ~w.more => P = C
      /\ \A r \in P, s \in C \ P : row[r].at >= row[s].at
      /\ w.pages = Append(base.pages, P)
      /\ P = {} => w.cursor = 0
      /\ P # {} => /\ w.cursor \in 1 .. Times
                   /\ \A r \in P : row[r].at >= w.cursor
                   /\ \E r \in P : row[r].at = w.cursor
      /\ w.start = IF base.pages = <<>> THEN {<<r, row[r].v>> : r \in S} ELSE base.start
  BY <1>1, <1>2 DEF Turned
<1>4. base \in WalkRecords /\ base.pages \in Seq(SUBSET Item) /\ base.start \in SUBSET (Item \X (0 .. Updates))
  BY DEF GoodWalk, WalkRecords
<1>5. C \subseteq S /\ (\A r \in C : base.cursor = 0 \/ row[r].at < base.cursor)
      /\ (\A r \in S : base.cursor = 0 \/ row[r].at < base.cursor => r \in C)
  BY <1>2 DEF Older
<1>6. Times \in Nat /\ Updates \in Nat
  BY ListAssumption
<1>7. PICK m \in Nat : m = Len(base.pages)
  BY <1>4
<1>8. /\ w.pages \in Seq(SUBSET Item) /\ DOMAIN w.pages = 1 .. (m + 1) /\ DOMAIN base.pages = 1 .. m
      /\ w.pages[m + 1] = P /\ \A i \in 1 .. m : w.pages[i] = base.pages[i]
  <2>1. P \in SUBSET Item
    BY <1>3, <1>5
  <2>2. PICK s \in Seq(SUBSET Item) : s = base.pages
    BY <1>4
  <2>. QED
    BY <1>3, <1>7, <2>1, <2>2
<1>9. base.pages # <<>> => base.more /\ base.cursor # 0
  <2>1. NoWalk.pages = <<>>
    BY DEF NoWalk
  <2>. QED
    BY <2>1 DEF GoodWalk
<1>10. m = 0 <=> base.pages = <<>>
  BY <1>4, <1>7
<1>11. base.cursor \in Nat /\ (base.pages = <<>> => base.cursor = 0)
  <2>1. base.pages = <<>> => base = NoWalk
    BY DEF GoodWalk
  <2>. QED
    BY <1>6, <2>1 DEF GoodWalk, WalkRecords, NoWalk
<1>12. w \in WalkRecords
  <2>1. w.cursor \in 0 .. Times
    BY <1>3, <1>6
  <2>2. w.start \in SUBSET (Item \X (0 .. Updates))
    <3>1. \A r \in S : row[r].v \in 0 .. Updates
      BY DEF Stamped, ListRow
    <3>2. {<<r, row[r].v>> : r \in S} \in SUBSET (Item \X (0 .. Updates))
      BY <3>1
    <3>. QED
      BY <1>3, <1>4, <3>2
  <2>. QED
    BY <1>3, <1>8, <2>1, <2>2 DEF WalkRecords
<1>13. ASSUME NEW i \in 1 .. m, NEW r \in base.pages[i]
       PROVE  r \in Item /\ row[r].pc = "in" /\ row[r].at \in Nat /\ row[r].at >= base.cursor
              /\ base.cursor # 0
  <2>1. i \in DOMAIN base.pages /\ base.pages # <<>>
    BY <1>8, <1>10
  <2>2. r \in Item
    BY <1>4, <2>1, PagesIn
  <2>. QED
    BY <1>9, <2>1, <2>2, StoredAt DEF GoodWalk
<1>14. ASSUME NEW r \in P
       PROVE  r \in Item /\ row[r].pc = "in" /\ row[r].at \in Nat
              /\ (base.cursor # 0 => row[r].at < base.cursor)
  BY <1>3, <1>5, StoredAt
<1>15. ASSUME NEW i \in 1 .. m PROVE base.pages[i] \cap P = {}
  <2>1. ASSUME NEW r \in base.pages[i], r \in P PROVE FALSE
    BY <1>11, <1>13, <1>14, <2>1
  <2>. QED
    BY <2>1
<1>16. \A i, j \in DOMAIN w.pages : i # j => w.pages[i] \cap w.pages[j] = {}
  <2>1. \A i \in DOMAIN w.pages : i = m + 1 \/ i \in 1 .. m
    BY <1>8
  <2>2. \A i, j \in 1 .. m : i # j => base.pages[i] \cap base.pages[j] = {}
    BY <1>8 DEF GoodWalk
  <2>. QED
    BY <1>8, <1>15, <2>1, <2>2
<1>17. ASSUME NEW i \in DOMAIN w.pages, NEW r \in w.pages[i]
       PROVE  row[r].pc = "in" /\ (w.more => row[r].at >= w.cursor)
  <2>1. i = m + 1 \/ i \in 1 .. m
    BY <1>8
  <2>2. CASE i = m + 1
    BY <1>3, <1>8, <1>14, <1>17, <2>2
  <2>3. CASE i \in 1 .. m
    <3>1. r \in base.pages[i]
      BY <1>8, <1>17, <2>3
    <3>2. row[r].pc = "in" /\ row[r].at \in Nat /\ row[r].at >= base.cursor /\ base.cursor # 0
      BY <1>13, <2>3, <3>1
    <3>3. ASSUME w.more PROVE row[r].at >= w.cursor
      <4>1. PICK o \in P : row[o].at = w.cursor
        BY <1>3, <3>3
      <4>2. row[o].at \in Nat /\ row[o].at < base.cursor
        BY <1>14, <3>2
      <4>. QED
        BY <1>11, <3>2, <4>1, <4>2
    <3>. QED
      BY <3>2, <3>3
  <2>. QED
    BY <2>1, <2>2, <2>3
<1>18. w.more => w.pages # <<>> /\ w.cursor # 0
  <2>1. w.pages # <<>>
    BY <1>8
  <2>. QED
    BY <1>3, <1>6, <2>1
\* A row that the page was taken from is on it, or an older one with its created_at is.
<1>19. ASSUME NEW r \in C, w.more => row[r].at >= w.cursor PROVE Covers(w, r)
  <2>1. m + 1 \in DOMAIN w.pages
    BY <1>8
  <2>2. CASE r \in P
    BY <1>8, <2>1, <2>2 DEF Covers
  <2>3. CASE r \notin P
    <3>1. w.more
      BY <1>3, <2>3
    <3>2. PICK o \in P : row[o].at = w.cursor
      BY <1>3, <3>1
    <3>3. row[o].at >= row[r].at /\ row[r].at >= w.cursor
      BY <1>3, <1>19, <2>3, <3>1
    <3>4. row[o].at \in Nat /\ row[r].at \in Nat
      BY <1>5, <1>14, StoredAt
    <3>5. row[o].at = row[r].at
      BY <3>2, <3>3, <3>4
    <3>. QED
      BY <1>8, <2>1, <3>5 DEF Covers
  <2>. QED
    BY <2>2, <2>3
<1>20. ASSUME NEW s \in w.start
       PROVE  /\ row[s[1]].pc = "in" /\ s[2] <= row[s[1]].v
              /\ row[s[1]].v = s[2] => Passes(s[1])
              /\ row[s[1]].v = s[2] /\ (w.more => row[s[1]].at >= w.cursor) => Covers(w, s[1])
  <2>1. CASE base.pages = <<>>
    <3>1. PICK r \in S : s = <<r, row[r].v>>
      BY <1>3, <1>20, <2>1
    <3>2. s[1] = r /\ s[2] = row[r].v
      BY <3>1
    <3>3. row[r].pc = "in" /\ Passes(r) /\ row[r].v \in Nat /\ r \in C
      <4>1. row[r].v \in 0 .. Updates
        BY DEF Stamped, ListRow
      <4>. QED
        BY <1>5, <1>6, <1>11, <2>1, <4>1
    <3>4. row[r].v <= row[r].v
      BY <3>3
    <3>. QED
      BY <1>19, <3>2, <3>3, <3>4
  <2>2. CASE base.pages # <<>>
    <3>1. s \in base.start
      BY <1>3, <1>20, <2>2
    <3>2. PICK r : r = s[1]
      OBVIOUS
    <3>3. /\ row[r].pc = "in" /\ s[2] <= row[r].v
          /\ row[r].v = s[2] => Passes(r)
          /\ row[r].v = s[2] /\ row[r].at >= base.cursor => Covers(base, r)
      BY <3>1, <3>2 DEF GoodWalk
    <3>4. r \in Item /\ row[r].at \in Nat
      BY <1>4, <3>1, <3>2, StartIn
    <3>5. ASSUME row[r].v = s[2], w.more => row[r].at >= w.cursor PROVE Covers(w, r)
      <4>1. CASE row[r].at >= base.cursor
        <5>1. Covers(base, r)
          BY <3>3, <3>5, <4>1
        <5>2. \A i \in 1 .. m : i \in DOMAIN w.pages /\ w.pages[i] = base.pages[i]
          BY <1>8
        <5>. QED
          BY <1>8, <5>1, <5>2 DEF Covers
      <4>2. CASE row[r].at < base.cursor
        <5>1. r \in C
          BY <1>5, <3>3, <3>4, <3>5, <4>2
        <5>. QED
          BY <1>19, <3>5, <5>1
      <4>. QED
        BY <1>11, <3>4, <4>1, <4>2
    <3>. QED
      BY <3>2, <3>3, <3>5
  <2>. QED
    BY <2>1, <2>2
<1>. QED
  BY <1>12, <1>16, <1>17, <1>18, <1>20 DEF GoodWalk

(***************************************************************************)
(* The lists: the app's requests.                                          *)
(***************************************************************************)

AskRows == [pc : {"idle", "sent", "answered"}, kind : {"load", "more", "act", "refresh"},
            base : WalkRecords, got : WalkRecords]

GoodAsk(k) ==
    /\ k \in AskRows /\ GoodWalk(k.base) /\ GoodWalk(k.got)
    /\ k.base.more \/ k.base = NoWalk

Scrolled ==
    /\ GoodWalk(walk)
    /\ ask = [q \in Ask |-> ask[q]] /\ \A q \in Ask : GoodAsk(ask[q])
    /\ screen \in {"initial", "loading", "loaded", "error", "acting", "acted"}
    /\ loading \in BOOLEAN /\ asked \in 0 .. Loads

LEMMA NoAskGood == GoodAsk(NoAsk)
<1>1. NoAsk.base = NoWalk /\ NoAsk.got = NoWalk
  BY DEF NoAsk
<1>2. NoAsk \in AskRows
  BY NoWalkGood DEF NoAsk, AskRows
<1>. QED
  BY <1>1, <1>2, NoWalkGood DEF GoodAsk

LEMMA ScrolledStart == ListInit => Scrolled
<1>. SUFFICES ASSUME ListInit PROVE Scrolled
  OBVIOUS
<1>1. Loads \in Nat
  BY ListAssumption
<1>2. ask = [q \in Ask |-> NoAsk] /\ walk = NoWalk /\ screen = "initial" /\ loading = FALSE /\ asked = 0
  BY DEF ListInit
<1>3. 0 \in 0 .. Loads
  BY <1>1
<1>. QED
  BY <1>2, <1>3, NoAskGood, NoWalkGood DEF Scrolled

LEMMA AskStays == ASSUME Stamped, Ages, NEW k, GoodAsk(k) PROVE GoodAsk(k)'
<1>1. \A w : GoodWalk(w) => GoodWalk(w)'
  BY WalkStays
<1>2. GoodWalk(k.base)' /\ GoodWalk(k.got)'
  BY <1>1 DEF GoodAsk
<1>. QED
  BY <1>2 DEF GoodAsk

\* The walk becomes a good one, one request at most becomes another good one.
LEMMA ScrolledMoves ==
    ASSUME Stamped, Ages, Scrolled, NEW q \in Ask, NEW k, GoodAsk(k), NEW w, GoodWalk(w),
           ask' = [ask EXCEPT ![q] = k], walk' = w,
           screen' \in {"initial", "loading", "loaded", "error", "acting", "acted"},
           loading' \in BOOLEAN, asked' \in 0 .. Loads
    PROVE  Scrolled'
<1>1. GoodWalk(w)' /\ GoodAsk(k)'
  BY WalkStays, AskStays
<1>2. GoodWalk(walk)'
  BY <1>1 DEF GoodWalk, Covers
<1>3. ask' = [o \in Ask |-> IF o = q THEN k ELSE ask[o]]
  BY DEF Scrolled
<1>4. ASSUME NEW o \in Ask PROVE GoodAsk(ask[o])'
  <2>1. PICK e : e = ask'[o]
    OBVIOUS
  <2>2. GoodAsk(e)
    BY <1>3, <2>1 DEF Scrolled
  <2>3. GoodAsk(e)'
    BY <2>2, AskStays
  <2>. QED
    BY <2>1, <2>3 DEF GoodAsk, GoodWalk, Covers
<1>. QED
  BY <1>2, <1>3, <1>4 DEF Scrolled

\* No request moves.
LEMMA ScrolledKept ==
    ASSUME Stamped, Ages, Scrolled, UNCHANGED <<screen, walk, loading, ask, asked>>
    PROVE  Scrolled'
<1>1. GoodWalk(walk)'
  <2>1. PICK w : w = walk
    OBVIOUS
  <2>2. GoodWalk(w)'
    BY <2>1, WalkStays DEF Scrolled
  <2>. QED
    BY <2>1, <2>2 DEF GoodWalk, Covers
<1>2. ASSUME NEW o \in Ask PROVE GoodAsk(ask[o])'
  <2>1. PICK e : e = ask[o]
    OBVIOUS
  <2>2. GoodAsk(e)
    BY <2>1 DEF Scrolled
  <2>3. GoodAsk(e)'
    BY <2>2, AskStays
  <2>. QED
    BY <2>1, <2>3 DEF GoodAsk, GoodWalk, Covers
<1>. QED
  BY <1>1, <1>2 DEF Scrolled

\* The rows that the steps of a request leave.
Answering(k, w)   == [k EXCEPT !.pc = "answered", !.got = w]
Asking(kind, base) == [NoAsk EXCEPT !.pc = "sent", !.kind = kind, !.base = base]

LEMMA AnsweredGood ==
    ASSUME NEW k, GoodAsk(k), NEW w, GoodWalk(w)
    PROVE  GoodAsk(Answering(k, w))
<1>1. PICK A, K : A = {"idle", "sent", "answered"} /\ K = {"load", "more", "act", "refresh"}
  OBVIOUS
<1>2. k \in [pc : A, kind : K, base : WalkRecords, got : WalkRecords] /\ w \in WalkRecords
  BY <1>1 DEF GoodAsk, AskRows, GoodWalk
<1>3. PICK p \in A : p = "answered"
  BY <1>1
<1>4. \A e : e = [k EXCEPT !.pc = p, !.got = w] =>
        e \in [pc : A, kind : K, base : WalkRecords, got : WalkRecords] /\ e.base = k.base /\ e.got = w
  BY <1>2
<1>5. PICK e : e = Answering(k, w)
  OBVIOUS
<1>6. e \in AskRows /\ e.base = k.base /\ e.got = w
  BY <1>1, <1>3, <1>4, <1>5 DEF Answering, AskRows
<1>7. GoodAsk(e)
  BY <1>6 DEF GoodAsk
<1>. QED
  BY <1>5, <1>7

LEMMA AskingGood ==
    ASSUME NEW kind \in {"load", "more", "act", "refresh"}, NEW base, GoodWalk(base),
           base.more \/ base = NoWalk
    PROVE  GoodAsk(Asking(kind, base))
<1>1. PICK A, K : A = {"idle", "sent", "answered"} /\ K = {"load", "more", "act", "refresh"}
  OBVIOUS
<1>2. PICK k : k = NoAsk
  OBVIOUS
<1>3. k \in [pc : A, kind : K, base : WalkRecords, got : WalkRecords] /\ k.got = NoWalk /\ base \in WalkRecords
  <2>1. NoAsk.got = NoWalk
    BY DEF NoAsk
  <2>. QED
    BY <1>1, <1>2, <2>1, NoAskGood DEF GoodAsk, AskRows, GoodWalk
<1>4. PICK p \in A : p = "sent"
  BY <1>1
<1>5. PICK d \in K : d = kind
  BY <1>1
<1>6. \A e : e = [k EXCEPT !.pc = p, !.kind = d, !.base = base] =>
        e \in [pc : A, kind : K, base : WalkRecords, got : WalkRecords] /\ e.base = base /\ e.got = k.got
  BY <1>3
<1>7. PICK e : e = Asking(kind, base)
  OBVIOUS
<1>8. e \in AskRows /\ e.base = base /\ e.got = NoWalk
  BY <1>1, <1>2, <1>3, <1>4, <1>5, <1>6, <1>7 DEF Asking, AskRows
<1>9. GoodAsk(e)
  BY <1>8, NoWalkGood DEF GoodAsk
<1>. QED
  BY <1>7, <1>9

Refreshing == [NoAsk EXCEPT !.pc = "sent", !.kind = "refresh"]

LEMMA RefreshGood == GoodAsk(Refreshing)
<1>1. PICK A, K : A = {"idle", "sent", "answered"} /\ K = {"load", "more", "act", "refresh"}
  OBVIOUS
<1>2. PICK k : k = NoAsk
  OBVIOUS
<1>3. k \in [pc : A, kind : K, base : WalkRecords, got : WalkRecords] /\ k.got = NoWalk /\ k.base = NoWalk
  <2>1. NoAsk.got = NoWalk /\ NoAsk.base = NoWalk
    BY DEF NoAsk
  <2>. QED
    BY <1>1, <1>2, <2>1, NoAskGood DEF GoodAsk, AskRows
<1>4. PICK p \in A : p = "sent"
  BY <1>1
<1>5. PICK d \in K : d = "refresh"
  BY <1>1
<1>6. \A e : e = [k EXCEPT !.pc = p, !.kind = d] =>
        e \in [pc : A, kind : K, base : WalkRecords, got : WalkRecords] /\ e.base = k.base /\ e.got = k.got
  BY <1>3
<1>7. PICK e : e = Refreshing
  OBVIOUS
<1>8. e \in AskRows /\ e.base = NoWalk /\ e.got = NoWalk
  BY <1>1, <1>2, <1>3, <1>4, <1>5, <1>6, <1>7 DEF Refreshing, AskRows
<1>9. GoodAsk(e)
  BY <1>8, NoWalkGood DEF GoodAsk
<1>. QED
  BY <1>7, <1>9

LEMMA RowsScroll ==
    ASSUME Stamped, Scrolled,
           \/ TimePasses \/ InsertBatch \/ InsertRow \/ CommitBatch \/ CommitRow
           \/ \E r \in Item : UpdateAlert(r) \/ UnblockRow(r)
    PROVE  Stamped' /\ Scrolled'
<1>1. CASE TimePasses
  <2>1. /\ clock < Times /\ clock' = clock + 1 /\ Times \in Nat /\ clock \in 1 .. Times
        /\ UNCHANGED <<list, row, screen, walk, loading, ask, asked, changed>>
    BY <1>1, ListAssumption DEF TimePasses, Stamped
  <2>2. clock' \in 1 .. Times
    BY <2>1
  <2>3. Stamped'
    BY <2>1, <2>2 DEF Stamped
  <2>4. \A r \in Item : row[r].v \in Nat
    <3>1. Updates \in Nat
      BY ListAssumption
    <3>. QED
      BY <3>1 DEF Stamped, ListRow
  <2>5. Ages
    BY <2>1, <2>4 DEF Ages
  <2>. QED
    BY <2>1, <2>3, <2>5, ScrolledKept
<1>2. ASSUME NEW R \in SUBSET New, Insert(R) PROVE Stamped' /\ Scrolled'
  BY <1>2, InsertAges, ScrolledKept DEF Insert
<1>3. ASSUME NEW R \in SUBSET Open, Commit(R) PROVE Stamped' /\ Scrolled'
  BY <1>3, CommitAges, ScrolledKept DEF Commit
<1>4. ASSUME NEW r \in Item, NEW on \in BOOLEAN, SetOn(r, on) PROVE Stamped' /\ Scrolled'
  BY <1>4, SetOnAges, ScrolledKept DEF SetOn
<1>5. InsertBatch => \E R \in SUBSET New : Insert(R)
  <2>1. SUFFICES ASSUME NEW last \in New, Insert({r \in New : r <= last})
                 PROVE  \E R \in SUBSET New : Insert(R)
    BY DEF InsertBatch
  <2>2. {r \in New : r <= last} \in SUBSET New
    OBVIOUS
  <2>. QED
    BY <2>1, <2>2
<1>6. InsertRow => \E R \in SUBSET New : Insert(R)
  <2>1. SUFFICES ASSUME New # {}, Insert({Min(New)}) PROVE \E R \in SUBSET New : Insert(R)
    BY DEF InsertRow
  <2>2. New \in SUBSET Nat
    BY ItemFinite DEF New
  <2>3. {Min(New)} \in SUBSET New
    BY <2>1, <2>2, LeastOf
  <2>. QED
    BY <2>1, <2>3
<1>7. CommitBatch => \E R \in SUBSET Open : Commit(R)
  <2>1. SUFFICES ASSUME NEW r \in Open, Commit({s \in Open : row[s].at = row[r].at})
                 PROVE  \E R \in SUBSET Open : Commit(R)
    BY DEF CommitBatch
  <2>2. {s \in Open : row[s].at = row[r].at} \in SUBSET Open
    OBVIOUS
  <2>. QED
    BY <2>1, <2>2
<1>8. CommitRow => \E R \in SUBSET Open : Commit(R)
  <2>1. SUFFICES ASSUME NEW r \in Open, Commit({r}) PROVE \E R \in SUBSET Open : Commit(R)
    BY DEF CommitRow
  <2>2. {r} \in SUBSET Open
    OBVIOUS
  <2>. QED
    BY <2>1, <2>2
<1>9. ASSUME NEW r \in Item, UpdateAlert(r) \/ UnblockRow(r)
      PROVE  \E on \in BOOLEAN : SetOn(r, on)
  <2>1. row[r].on \in BOOLEAN
    BY DEF Stamped, ListRow
  <2>2. PICK on \in BOOLEAN : on = ~row[r].on
    BY <2>1
  <2>. QED
    BY <1>9, <2>2 DEF UpdateAlert, UnblockRow
<1>. QED
  BY <1>1, <1>2, <1>3, <1>4, <1>5, <1>6, <1>7, <1>8, <1>9

LEMMA ReadScrolls ==
    ASSUME Stamped, Scrolled, NEW q \in Ask,
           GetAlerts(q) \/ GetWebAlerts(q) \/ GetBlockedIps(q) \/ GetDecisions(q) \/ GetNotifications(q)
    PROVE  Stamped' /\ Scrolled'
<1>1. PICK S \in SUBSET Item : Read(q, S) /\ \A r \in Item : r \in S <=> row[r].pc = "in" /\ Passes(r)
  <2>1. {r \in Stored : row[r].on} \in SUBSET Item /\ Stored \in SUBSET Item
    BY DEF Stored
  <2>2. CASE GetAlerts(q) \/ GetWebAlerts(q) \/ GetBlockedIps(q)
    <3>1. Read(q, {r \in Stored : row[r].on})
          /\ \A r \in Item : r \in {x \in Stored : row[x].on} <=> row[r].pc = "in" /\ Passes(r)
      BY <2>2 DEF GetAlerts, GetWebAlerts, GetBlockedIps, Passes, Stored
    <3>. QED
      BY <2>1, <3>1
  <2>3. CASE GetDecisions(q) \/ GetNotifications(q)
    <3>1. Read(q, Stored) /\ \A r \in Item : r \in Stored <=> row[r].pc = "in" /\ Passes(r)
      BY <2>3 DEF GetDecisions, GetNotifications, Passes, Stored
    <3>. QED
      BY <2>1, <3>1
  <2>. QED
    BY <2>2, <2>3
<1>2. GoodAsk(ask[q])
  BY DEF Scrolled
<1>3. PICK w \in Page(S, ask[q].base) : ask' = [ask EXCEPT ![q] = Answering(ask[q], w)]
  <2>1. PICK w \in Page(S, ask[q].base) : ask' = [ask EXCEPT ![q] = [@ EXCEPT !.pc = "answered", !.got = w]]
    BY <1>1 DEF Read
  <2>2. DOMAIN ask = Ask
    BY DEF Scrolled
  <2>. QED
    BY <2>1, <2>2 DEF Answering
<1>4. GoodWalk(w)
  <2>1. GoodWalk(ask[q].base) /\ (ask[q].base.more \/ ask[q].base = NoWalk)
    BY <1>2 DEF GoodAsk
  <2>. QED
    BY <1>1, <1>3, <2>1, PageGood
<1>5. GoodAsk(Answering(ask[q], w))
  BY <1>2, <1>4, AnsweredGood
<1>6. UNCHANGED <<list, clock, row, screen, walk, loading, asked, changed>>
  BY <1>1 DEF Read
<1>7. Stamped' /\ Ages
  BY <1>6, KeepAges
<1>. QED
  BY <1>3, <1>5, <1>6, <1>7, ScrolledMoves DEF Scrolled

LEMMA AppScrolls ==
    ASSUME Stamped, Scrolled, NEW q \in Ask,
           Load(q) \/ LoadMore(q) \/ Act(q) \/ Acted(q) \/ Land(q) \/ Fail(q)
    PROVE  Stamped' /\ Scrolled'
<1>1. UNCHANGED <<list, clock, row, changed>>
  BY DEF Load, LoadMore, Act, Acted, Land, Fail
<1>2. Stamped' /\ Ages
  BY <1>1, KeepAges
<1>3. /\ GoodAsk(ask[q]) /\ GoodWalk(walk) /\ asked \in 0 .. Loads /\ loading \in BOOLEAN
      /\ screen \in {"initial", "loading", "loaded", "error", "acting", "acted"}
  BY DEF Scrolled
<1>4. GoodWalk(ask[q].base) /\ GoodWalk(ask[q].got)
  BY <1>3 DEF GoodAsk
<1>5. ASSUME NEW kind \in {"load", "more", "act", "refresh"}, NEW base, Send(q, kind, base)
      PROVE  ask' = [ask EXCEPT ![q] = Asking(kind, base)] /\ asked' \in 0 .. Loads
  <2>1. Loads \in Nat /\ asked < Loads /\ asked' = asked + 1
    BY <1>5, ListAssumption DEF Send
  <2>. QED
    BY <1>3, <1>5, <2>1 DEF Send, Asking
<1>6. CASE Load(q) \/ Act(q)
  <2>1. PICK kind \in {"load", "more", "act", "refresh"} : Send(q, kind, NoWalk)
    BY <1>6 DEF Load, Act
  <2>2. screen' \in {"loading", "acting"} /\ walk' = NoWalk /\ loading' = FALSE
    BY <1>6 DEF Load, Act
  <2>3. GoodAsk(Asking(kind, NoWalk))
    BY NoWalkGood, AskingGood
  <2>4. ask' = [ask EXCEPT ![q] = Asking(kind, NoWalk)] /\ asked' \in 0 .. Loads
    BY <1>5, <2>1
  <2>. QED
    BY <1>2, <2>2, <2>3, <2>4, NoWalkGood, ScrolledMoves
<1>7. CASE LoadMore(q)
  <2>1. /\ walk.more /\ Send(q, "more", walk) /\ loading' = TRUE /\ UNCHANGED <<screen, walk>>
    BY <1>7 DEF LoadMore
  <2>2. GoodAsk(Asking("more", walk))
    BY <1>3, <2>1, AskingGood
  <2>. QED
    BY <1>2, <1>3, <1>5, <2>1, <2>2, ScrolledMoves
<1>8. CASE Acted(q)
  <2>1. PICK k \in {NoAsk, Refreshing} : ask' = [ask EXCEPT ![q] = k]
    BY <1>8 DEF Acted, Refreshing
  <2>2. GoodAsk(k)
    BY NoAskGood, RefreshGood
  <2>3. screen' = "acted" /\ walk' = NoWalk /\ loading' = FALSE /\ asked' = asked
    BY <1>8 DEF Acted
  <2>. QED
    BY <1>2, <1>3, <2>1, <2>2, <2>3, NoWalkGood, ScrolledMoves
<1>9. CASE Land(q)
  <2>1. PICK w \in {walk, ask[q].got} : walk' = w
    BY <1>9 DEF Land
  <2>2. /\ ask' = [ask EXCEPT ![q] = NoAsk] /\ asked' = asked
        /\ screen' \in {screen, "loaded"} /\ loading' \in BOOLEAN
    BY <1>3, <1>9 DEF Land
  <2>. QED
    BY <1>2, <1>3, <1>4, <2>1, <2>2, NoAskGood, ScrolledMoves
<1>10. CASE Fail(q)
  <2>1. PICK w \in {walk, ask[q].base, NoWalk} : walk' = w
    BY <1>10 DEF Fail
  <2>2. /\ ask' = [ask EXCEPT ![q] = NoAsk] /\ asked' = asked
        /\ screen' \in {screen, "loaded", "error"} /\ loading' \in BOOLEAN
    BY <1>3, <1>10 DEF Fail
  <2>. QED
    BY <1>2, <1>3, <1>4, <2>1, <2>2, NoAskGood, NoWalkGood, ScrolledMoves
<1>. QED
  BY <1>6, <1>7, <1>8, <1>9, <1>10

LEMMA ListStep == Stamped /\ Scrolled /\ [ListNext]_listVars => Stamped' /\ Scrolled'
<1>. SUFFICES ASSUME Stamped, Scrolled, [ListNext]_listVars PROVE Stamped' /\ Scrolled'
  OBVIOUS
<1>1. CASE UNCHANGED listVars
  BY <1>1, KeepAges, ScrolledKept DEF listVars
<1>. QED
  BY <1>1, RowsScroll, ReadScrolls, AppScrolls DEF ListNext

\* No row is in two pages, and none that was listed by the first page and did not change
\* is left out, but for one with the created_at of another that is shown
\* (mobile_gateway/main.py:383-399, gateway/main.py:808-822, decision_cubit.dart:58-80):
\* for tables, pages and numbers of requests of any size.  Inductive with Scrolled: the
\* walks that requests have captured and the answers on their way are as good as the one
\* shown, and what a walk's first page listed passes the filter until its version changes.
THEOREM PagesHold == ListSpec => []PagesComplete
<1>1. ListInit => Stamped /\ Scrolled
  BY StampedStart, ScrolledStart
<1>2. Scrolled => PagesComplete
  <2>. SUFFICES ASSUME Scrolled
                PROVE  /\ \A i, j \in DOMAIN walk.pages : i # j => walk.pages[i] \cap walk.pages[j] = {}
                       /\ \A s \in walk.start :
                            /\ row[s[1]].v = s[2]
                            /\ walk.more => row[s[1]].at >= walk.cursor
                            => \E r \in Shown : r = s[1] \/ row[r].at = row[s[1]].at
    BY DEF PagesComplete
  <2>1. GoodWalk(walk)
    BY DEF Scrolled
  <2>2. \A i \in DOMAIN walk.pages : walk.pages[i] \subseteq Shown
    BY DEF Shown, Range
  <2>. QED
    BY <2>1, <2>2 DEF GoodWalk, Covers
<1>. QED
  BY <1>1, <1>2, ListStep, PTL DEF ListSpec

\* ListPages' type invariant.
THEOREM ListTypes == ListSpec => []ListTypeOK
<1>1. ListInit => Stamped /\ Scrolled
  BY StampedStart, ScrolledStart
<1>2. Stamped /\ Scrolled => ListTypeOK
  <2>. SUFFICES ASSUME Stamped, Scrolled PROVE ListTypeOK
    OBVIOUS
  <2>1. ASSUME NEW w \in WalkRecords PROVE Walk(w)
    BY DEF Walk, WalkRecords
  <2>2. Walk(walk) /\ \A q \in Ask : Walk(ask[q].base) /\ Walk(ask[q].got)
    BY <2>1 DEF Scrolled, GoodAsk, GoodWalk
  <2>. QED
    BY <2>2 DEF ListTypeOK, Stamped, Scrolled, ListRow
<1>. QED
  BY <1>1, <1>2, ListStep, PTL DEF ListSpec

(***************************************************************************)
(* The services side by side: every behaviour of the composition is one of *)
(* each service's own specification, so what is proved of them holds of it. *)
(***************************************************************************)

LEMMA PartsServe ==
    Spec => /\ GuardSpec /\ TokenSpec /\ GateSpec /\ SignupSpec /\ BillingSpec
            /\ FleetSpec /\ HubSpec /\ ListSpec /\ QueueSpec
<1>1. Init => /\ GuardInit /\ TokenInit /\ GateInit /\ SignupInit /\ BillingInit /\ FleetInit
              /\ HubInit /\ ListInit /\ QueueInit
  BY DEF Init
<1> USE DEF NotGuard, NotToken, NotGate, NotSignup, NotBilling, NotFleet, NotHub, NotList, NotQueue
<1>2. [Next]_vars => [GuardNext]_guardVars
  BY DEF Next, vars
<1>3. [Next]_vars => [TokenNext]_tokenVars
  BY DEF Next, vars
<1>4. [Next]_vars => [GateNext]_gateVars
  BY DEF Next, vars
<1>5. [Next]_vars => [SignupNext]_signupVars
  BY DEF Next, vars
<1>6. [Next]_vars => [BillingNext]_billingVars
  BY DEF Next, vars
<1>7. [Next]_vars => [FleetNext]_fleetVars
  <2>1. Revoke => SensorRowNext
    BY DEF SensorRowNext
  <2>. QED
    BY <2>1 DEF Next, vars, FleetNext
<1>8. [Next]_vars => [HubNext]_hubVars
  BY DEF Next, vars
<1>9. [Next]_vars => [ListNext]_listVars
  BY DEF Next, vars
<1>10. [Next]_vars => [QueueNext]_queueVars
  BY DEF Next, vars
<1>. QED
  BY <1>1, <1>2, <1>3, <1>4, <1>5, <1>6, <1>7, <1>8, <1>9, <1>10, PTL
     DEF Spec, GuardSpec, TokenSpec, GateSpec, SignupSpec, BillingSpec, FleetSpec, HubSpec,
         ListSpec, QueueSpec

\* The services keep the types of everything they hold while they work side by side, and
\* with them the bounds of every buffer, batch and page, whatever the constants.
THEOREM PlatformTyped == Spec => []PlatformTypes
<1>1. PlatformTypes <=> /\ GuardTypeOK /\ TokenTypeOK /\ GateTypeOK /\ SignupTypeOK /\ BillingTypeOK
                        /\ FleetTypeOK /\ HubTypeOK /\ ListTypeOK /\ QueueTypeOK
  BY DEF PlatformTypes
<1>. QED
  BY <1>1, PartsServe, GuardTypes, TokenTypes, GateTypes, SignupTypes, BillingTypes, FleetTypes,
     HubTypes, ListTypes, QueueTypes, PTL

\* No tenant gets past the limit of its plan by more than the creations at a time allow
\* (gateway/main.py:588-610), and every tenant has an owner of its own
\* (gateway/main.py:325-372): for any number of tenants, signups, webhooks and creations.
THEOREM TenancyHolds == Spec => []TenancySound
<1>1. TenancySound <=> SensorCap /\ TenantsOwned
  BY DEF TenancySound
<1>. QED
  BY <1>1, PartsServe, SensorLimit, SignupHolds, PTL

\* A broadcast tries every socket that stays, but for one per removal meanwhile
\* (mobile_gateway/main.py:94-109), and the pages of a list are complete up to equal
\* created_at (mobile_gateway/main.py:383-399), also in the composition.
THEOREM ClientsHold == Spec => []ClientsServed
<1>1. ClientsServed <=> AlertsReachClients /\ PagesComplete
  BY DEF ClientsServed
<1>. QED
  BY <1>1, PartsServe, BroadcastReaches, PagesHold, PTL

\* The trial checker takes no plan away that a checkout brought (trial_checker.py:65-96),
\* and only who was at work on a sensor's row before it was revoked can write another
\* status over that (ingest_gateway/main.py:150-155), also in the composition.
THEOREM WritesHold == Spec => WritesRespected
BY PartsServe, PlansKept, RevocationKept, PTL DEF WritesRespected

\* What is proved of logins, refresh tokens, packets and the offline queue holds in the
\* composition.
THEOREM PlatformKept == Spec => [](LockoutBound /\ ReplayRefused /\ PacketsKept /\ QueueKept)
BY PartsServe, GuardHolds, ReplaysRefused, PacketsHold, QueueHolds, PTL
=============================================================================
