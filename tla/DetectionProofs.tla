---------------------------- MODULE DetectionProofs ----------------------------
(***************************************************************************)
(* Proofs about detection: the windows of traffic, the types of the        *)
(* registry of models, and the composition of the components of detection  *)
(* and the blocklist; for every value of their constants.                  *)
(***************************************************************************)
EXTENDS MCDetection, FeaturePipelineProofs, AlertAnalyzerProofs, BlocklistProofs,
        FiniteSetTheorems

(***************************************************************************)
(* Sorted sets of packets.                                                 *)
(***************************************************************************)

\* The packets of E from time b on, and those of E above e.
From(b, E)  == {e \in E : e[1] >= b}
Above(e, E) == {d \in E : Before(e, d)}

Entry == Nat \X Nat

LEMMA BeforeOrder ==
    ASSUME NEW c \in Entry, NEW d \in Entry, NEW e \in Entry
    PROVE  /\ Before(c, d) /\ Before(d, e) => Before(c, e)
           /\ ~Before(c, c)
           /\ Before(c, d) => d[1] >= c[1]
<1>1. c[1] \in Nat /\ c[2] \in Nat /\ d[1] \in Nat /\ d[2] \in Nat /\ e[1] \in Nat /\ e[2] \in Nat
  BY DEF Entry
<1>. QED
  BY <1>1 DEF Before

LEMMA CappedFinite ==
    ASSUME NEW E, IsFiniteSet(E)
    PROVE  /\ Capped(E) \subseteq E /\ IsFiniteSet(Capped(E))
           /\ Capped(E) = {e \in E : Cardinality(Above(e, E)) < Cap}
<1>1. Capped(E) \subseteq E
  BY DEF Capped
<1>. QED
  BY <1>1, FS_Subset DEF Capped, Above

LEMMA AboveCount ==
    ASSUME NEW E, IsFiniteSet(E), NEW D \in SUBSET E, NEW e
    PROVE  /\ IsFiniteSet(Above(e, E)) /\ Cardinality(Above(e, E)) \in Nat
           /\ Cardinality(Above(e, D)) \in Nat
           /\ Cardinality(Above(e, D)) <= Cardinality(Above(e, E))
<1>1. Above(e, E) \subseteq E /\ Above(e, D) \subseteq Above(e, E)
  BY DEF Above
<1>2. IsFiniteSet(Above(e, E))
  BY <1>1, FS_Subset
<1>3. IsFiniteSet(Above(e, D)) /\ Cardinality(Above(e, D)) <= Cardinality(Above(e, E))
  BY <1>1, <1>2, FS_Subset
<1>. QED
  BY <1>2, <1>3, FS_CardinalityType

\* The cap takes the oldest: it commutes with leaving out what is older still.
LEMMA CappedFrom ==
    ASSUME NEW E \in SUBSET Entry, NEW b \in Nat
    PROVE  From(b, Capped(E)) = Capped(From(b, E))
<1>1. ASSUME NEW e \in From(b, E) PROVE Above(e, From(b, E)) = Above(e, E)
  <2>1. e \in Entry /\ e[1] \in Nat /\ e[1] >= b
    BY DEF From, Entry
  <2>2. ASSUME NEW d \in E, Before(e, d) PROVE d[1] >= b
    <3>1. d \in Entry /\ d[1] \in Nat
      BY DEF Entry
    <3>. QED
      BY <2>1, <2>2, <3>1, BeforeOrder
  <2>. QED
    BY <2>2 DEF Above, From
<1>. QED
  BY <1>1 DEF From, Capped, Above

\* A nonempty set of entries of a finite set has one with no other of it above.
LEMMA Topmost ==
    ASSUME NEW E \in SUBSET Entry, IsFiniteSet(E), NEW T \in SUBSET E, T # {}
    PROVE  \E d \in T : \A f \in T : ~Before(d, f)
<1> DEFINE Sets == {Above(d, E) : d \in T}
<1>1. Sets \subseteq FiniteSubsetsOf(E) /\ Sets # {}
  <2>1. ASSUME NEW d \in T PROVE Above(d, E) \in SUBSET E /\ IsFiniteSet(Above(d, E))
    BY AboveCount DEF Above
  <2>. QED
    BY <2>1 DEF FiniteSubsetsOf
<1>2. IsWellFoundedOn(StrictSubsetOrdering(E), FiniteSubsetsOf(E))
  BY FS_StrictSubsetOrderingWellFounded
<1>3. PICK S \in Sets : \A U \in Sets : ~(<<U, S>> \in StrictSubsetOrdering(E))
  <2> HIDE DEF Sets
  <2>. QED
    BY <1>1, <1>2, WFMin
<1>4. PICK d \in T : S = Above(d, E)
  OBVIOUS
<1>5. ASSUME NEW f \in T, Before(d, f) PROVE FALSE
  <2>1. Above(f, E) \subseteq Above(d, E)
    BY <1>5, BeforeOrder DEF Above
  <2>2. f \in Above(d, E) /\ f \notin Above(f, E)
    BY <1>5, BeforeOrder DEF Above
  <2>3. Above(f, E) \in SUBSET E /\ Above(d, E) \in SUBSET E
    BY DEF Above
  <2>4. <<Above(f, E), Above(d, E)>> \in StrictSubsetOrdering(E)
    BY <2>1, <2>2, <2>3 DEF StrictSubsetOrdering
  <2>. QED
    BY <1>3, <1>4, <2>4
<1>. QED
  BY <1>5

\* What the cap has taken out, it would take out whatever is added.
LEMMA CappedAdd ==
    ASSUME NEW E \in SUBSET Entry, IsFiniteSet(E), NEW x \in Entry
    PROVE  Capped(Capped(E) \cup {x}) = Capped(E \cup {x})
<1> DEFINE C == Capped(E)
           Ex == E \cup {x}
           Cx == C \cup {x}
<1>1. C \subseteq E /\ IsFiniteSet(C) /\ IsFiniteSet(Ex) /\ IsFiniteSet(Cx) /\ Cx \subseteq Ex
  BY CappedFinite, FS_AddElement
<1>2. ASSUME NEW e \in Capped(Ex) PROVE e \in Capped(Cx)
  <2>1. e \in Ex /\ Cardinality(Above(e, Ex)) < Cap
    BY <1>1, <1>2, CappedFinite
  <2>2. /\ Cardinality(Above(e, Cx)) <= Cardinality(Above(e, Ex)) /\ Cardinality(Above(e, Cx)) \in Nat
        /\ Cardinality(Above(e, E)) <= Cardinality(Above(e, Ex)) /\ Cardinality(Above(e, E)) \in Nat
        /\ Cardinality(Above(e, Ex)) \in Nat
    BY <1>1, AboveCount
  <2>3. e \in Cx
    BY <1>1, <2>1, <2>2, CappedFinite, WindowAssumption
  <2>. QED
    BY <1>1, <2>1, <2>2, <2>3, CappedFinite, WindowAssumption
<1>3. ASSUME NEW e \in Capped(Cx) PROVE e \in Capped(Ex)
  <2>1. e \in Cx /\ Cardinality(Above(e, Cx)) < Cap /\ e \in Ex /\ e \in Entry
    BY <1>1, <1>3, CappedFinite
  <2>2. SUFFICES ASSUME Cardinality(Above(e, Ex)) >= Cap PROVE FALSE
    BY <1>1, <2>1, CappedFinite, AboveCount, WindowAssumption
  <2> DEFINE T == {d \in E \ C : Before(e, d)}
  <2>3. T # {}
    <3>1. ASSUME T = {} PROVE Above(e, Ex) = Above(e, Cx)
      BY <1>1, <3>1 DEF Above
    <3>2. Cardinality(Above(e, Ex)) \in Nat
      BY <1>1, AboveCount
    <3>. QED
      BY <2>1, <2>2, <3>1, <3>2, WindowAssumption
  <2>4. PICK d \in T : \A f \in T : ~Before(d, f)
    <3>1. T \in SUBSET E
      OBVIOUS
    <3> HIDE DEF T
    <3>. QED
      BY <2>3, <3>1, Topmost
  <2>5. ~(Cardinality(Above(d, E)) < Cap)
    BY <2>4, CappedFinite
  <2>6. Above(d, E) \subseteq Above(e, Cx)
    <3>1. ASSUME NEW f \in E, Before(d, f) PROVE f \in C /\ Before(e, f)
      <4>1. Before(e, f)
        BY <2>1, <2>4, <3>1, BeforeOrder
      <4>. QED
        BY <2>4, <3>1, <4>1
    <3>. QED
      BY <3>1 DEF Above
  <2>7. Cardinality(Above(d, E)) <= Cardinality(Above(e, Cx))
    BY <1>1, <2>6, AboveCount, FS_Subset
  <2>. QED
    BY <1>1, <2>1, <2>5, <2>7, AboveCount, WindowAssumption
<1>. QED
  BY <1>2, <1>3

(***************************************************************************)
(* The windows.                                                            *)
(***************************************************************************)

Scans == [busy : BOOLEAN, todo : SUBSET Flow, tenant : SUBSET Flow,
          stale : SUBSET Flow, alive : SUBSET Flow]

\* The types, with the functions' domains; entries are not of the future.
WindowTyped ==
    /\ now \in 0..MaxTime
    /\ store \in [Flow -> SUBSET ((0..now) \X Size)]
    /\ arrived \in [Flow -> SUBSET ((0..now) \X Size)]
    /\ active \subseteq Flow
    /\ tracking \in Flow \cup {NoFlow}
    /\ scan \in Scans
    /\ live \subseteq Flow
    /\ windowFaults \in 0..WindowFaults

\* Of the packets from any time on that is not to be trimmed yet, not only of those
\* in the window, the store has the newest.
KeptFrom(s) ==
    /\ IsFiniteSet(arrived[s])
    /\ \A b \in 0..now : b + Ttl > now => From(b, store[s]) = Capped(From(b, arrived[s]))

WindowInv == WindowTyped /\ \A s \in Flow : KeptFrom(s)

LEMMA RestTyped == Rest \in Scans
BY DEF Rest, Scans

LEMMA EntryTyped ==
    ASSUME NEW n \in Nat
    PROVE  (0..n) \X Size \subseteq Entry
<1>1. 0..n \subseteq Nat /\ Size \subseteq Nat
  BY WindowAssumption
<1>. QED
  BY <1>1 DEF Entry

LEMMA WindowStart == WindowInit => WindowInv
<1>. SUFFICES ASSUME WindowInit PROVE WindowInv
  OBVIOUS
<1>1. WindowTyped
  BY RestTyped, WindowAssumption DEF WindowInit, WindowTyped
<1>2. ASSUME NEW s \in Flow PROVE KeptFrom(s)
  <2>1. store[s] = {} /\ arrived[s] = {}
    BY DEF WindowInit
  <2>. QED
    BY <2>1, FS_EmptySet DEF KeptFrom, From, Capped
<1>. QED
  BY <1>1, <1>2 DEF WindowInv

LEMMA RecordKeeps ==
    ASSUME WindowInv, NEW s \in Flow, NEW size \in Size, RecordPacket(s, size)
    PROVE  WindowInv'
<1> DEFINE x == <<now, size>>
           E == store[s]
           A == arrived[s]
<1>1. /\ now \in Nat /\ now \in 0..now /\ now' = now /\ x \in (0..now) \X Size /\ x[1] = now
      /\ E \in SUBSET ((0..now) \X Size) /\ A \in SUBSET ((0..now) \X Size)
  BY WindowAssumption DEF WindowInv, WindowTyped, RecordPacket
<1>2. x \in Entry /\ E \subseteq Entry /\ A \subseteq Entry
  BY <1>1, EntryTyped
<1>3. /\ store' = [store EXCEPT ![s] = Capped(Untrimmed(E \cup {x}))]
      /\ arrived' = [arrived EXCEPT ![s] = A \cup {x}]
  BY DEF RecordPacket
<1>4. Capped(Untrimmed(E \cup {x})) \subseteq E \cup {x}
  BY DEF Capped, Untrimmed
<1>5. WindowTyped'
  <2>1. store' \in [Flow -> SUBSET ((0..now) \X Size)] /\ arrived' \in [Flow -> SUBSET ((0..now) \X Size)]
    BY <1>1, <1>3, <1>4 DEF WindowInv, WindowTyped
  <2>. QED
    BY <1>1, <2>1 DEF WindowInv, WindowTyped, RecordPacket
<1>6. KeptFrom(s)'
  <2>1. IsFiniteSet(A) /\ IsFiniteSet(A \cup {x})
    BY FS_AddElement DEF WindowInv, KeptFrom
  <2>2. store'[s] = Capped(Untrimmed(E \cup {x})) /\ arrived'[s] = A \cup {x}
    BY <1>3 DEF WindowInv, WindowTyped
  <2>3. ASSUME NEW b \in 0..now, b + Ttl > now
        PROVE  From(b, Capped(Untrimmed(E \cup {x}))) = Capped(From(b, A \cup {x}))
    <3>1. b \in Nat /\ Untrimmed(E \cup {x}) \in SUBSET Entry
      BY <1>2 DEF Untrimmed
    <3>2. From(b, Capped(Untrimmed(E \cup {x}))) = Capped(From(b, Untrimmed(E \cup {x})))
      BY <3>1, CappedFrom
    <3>3. From(b, Untrimmed(E \cup {x})) = From(b, E) \cup {x}
      <4>1. ASSUME NEW e \in E \cup {x}, e[1] >= b PROVE e[1] + Ttl > now
        <5>1. e[1] \in Nat
          BY <1>2 DEF Entry
        <5>. QED
          BY <1>1, <2>3, <4>1, <5>1, WindowAssumption
      <4>2. x[1] >= b
        BY <1>1
      <4>. QED
        BY <4>1, <4>2 DEF From, Untrimmed
    <3>4. From(b, E) = Capped(From(b, A))
      BY <2>3 DEF WindowInv, KeptFrom
    <3>5. From(b, A) \in SUBSET Entry /\ IsFiniteSet(From(b, A))
      <4>1. From(b, A) \subseteq A
        BY DEF From
      <4>. QED
        BY <1>2, <2>1, <4>1, FS_Subset
    <3>6. Capped(Capped(From(b, A)) \cup {x}) = Capped(From(b, A) \cup {x})
      BY <1>2, <3>5, CappedAdd
    <3>7. From(b, A \cup {x}) = From(b, A) \cup {x}
      BY <1>1 DEF From
    <3>. QED
      BY <3>2, <3>3, <3>4, <3>6, <3>7
  <2>. QED
    BY <1>1, <2>1, <2>2, <2>3 DEF KeptFrom
<1>7. ASSUME NEW r \in Flow, r # s PROVE KeptFrom(r)'
  <2>1. store'[r] = store[r] /\ arrived'[r] = arrived[r] /\ KeptFrom(r)
    BY <1>3, <1>7 DEF WindowInv, WindowTyped
  <2>. QED
    BY <1>1, <2>1 DEF KeptFrom
<1>. QED
  BY <1>5, <1>6, <1>7 DEF WindowInv

LEMMA TickKeeps ==
    ASSUME WindowInv, WindowTick
    PROVE  WindowInv'
<1>1. now \in Nat /\ now' = now + 1 /\ arrived' = arrived /\ now + 1 \in 0..MaxTime
  BY WindowAssumption DEF WindowInv, WindowTyped, WindowTick
<1>2. ASSUME NEW s \in Flow
      PROVE  store'[s] = IF \A e \in store[s] : e[1] + KeyLife <= now + 1 THEN {} ELSE store[s]
  BY DEF WindowTick
<1>3. WindowTyped'
  <2>1. (0..now) \X Size \subseteq (0..(now + 1)) \X Size
    BY <1>1
  <2>2. arrived' \in [Flow -> SUBSET ((0..(now + 1)) \X Size)]
    BY <1>1, <2>1 DEF WindowInv, WindowTyped
  <2>3. store' \in [Flow -> SUBSET ((0..(now + 1)) \X Size)]
    <3>1. ASSUME NEW s \in Flow PROVE store'[s] \in SUBSET ((0..(now + 1)) \X Size)
      BY <1>2, <2>1 DEF WindowInv, WindowTyped
    <3>2. store' = [s \in Flow |-> store'[s]]
      BY DEF WindowTick
    <3>. QED
      BY <3>1, <3>2
  <2>. QED
    BY <1>1, <2>2, <2>3 DEF WindowInv, WindowTyped, WindowTick
<1>4. ASSUME NEW s \in Flow PROVE KeptFrom(s)'
  <2> DEFINE E == store[s]
             A == arrived[s]
  <2>1. E \in SUBSET ((0..now) \X Size) /\ A \in SUBSET ((0..now) \X Size) /\ KeptFrom(s)
    BY DEF WindowInv, WindowTyped
  <2>2. ASSUME NEW b \in 0..(now + 1), b + Ttl > now + 1
        PROVE  From(b, store'[s]) = Capped(From(b, A))
    <3>1. CASE b = now + 1
      <4>1. ASSUME NEW e \in E \cup A PROVE ~(e[1] >= now + 1)
        BY <1>1, <2>1
      <4>2. store'[s] \subseteq E
        BY <1>2
      <4>3. From(b, store'[s]) = {} /\ From(b, A) = {}
        BY <3>1, <4>1, <4>2 DEF From
      <4>. QED
        BY <4>3 DEF Capped
    <3>2. CASE b \in 0..now
      <4>1. From(b, E) = Capped(From(b, A))
        BY <1>1, <2>1, <2>2, <3>2, WindowAssumption DEF KeptFrom
      <4>2. CASE \A e \in E : e[1] + KeyLife <= now + 1
        <5>1. ASSUME NEW e \in E PROVE ~(e[1] >= b)
          <6>1. e[1] \in Nat
            BY <2>1
          <6>. QED
            BY <1>1, <2>2, <3>2, <4>2, <6>1, WindowAssumption
        <5>2. From(b, E) = {} /\ From(b, store'[s]) = {}
          BY <1>2, <4>2, <5>1 DEF From
        <5>. QED
          BY <4>1, <5>2
      <4>3. CASE ~\A e \in E : e[1] + KeyLife <= now + 1
        BY <1>2, <4>1, <4>3
      <4>. QED
        BY <4>2, <4>3
    <3>. QED
      BY <1>1, <3>1, <3>2
  <2>. QED
    BY <1>1, <2>1, <2>2 DEF KeptFrom
<1>. QED
  BY <1>3, <1>4 DEF WindowInv

\* The loop, the restart and the expiry of the metrics leave the store alone.
LEMMA WindowStep == WindowInv /\ [WindowNext]_windowVars => WindowInv'
<1>. SUFFICES ASSUME WindowInv, [WindowNext]_windowVars PROVE WindowInv'
  OBVIOUS
<1>1. ASSUME UNCHANGED <<now, store, arrived>>, active' \subseteq Flow,
             tracking' \in Flow \cup {NoFlow}, scan' \in Scans, live' \subseteq Flow,
             windowFaults' \in 0..WindowFaults
      PROVE  WindowInv'
  BY <1>1 DEF WindowInv, WindowTyped, KeptFrom
<1> USE WindowAssumption
<1>0. /\ active \subseteq Flow /\ tracking \in Flow \cup {NoFlow} /\ scan \in Scans
      /\ live \subseteq Flow /\ windowFaults \in 0..WindowFaults
  BY DEF WindowInv, WindowTyped
<1>2. CASE Track
  BY <1>0, <1>1, <1>2 DEF Track
<1>3. CASE ScanStart
  <2>1. scan' \in Scans
    BY <1>0, <1>3 DEF ScanStart, Scans, Rest
  <2>. QED
    BY <1>0, <1>1, <1>3, <2>1 DEF ScanStart
<1>4. ASSUME NEW t \in Tenants, ScanTenant(t) PROVE WindowInv'
  <2>1. scan' \in Scans
    BY <1>0, <1>4 DEF ScanTenant, Scans
  <2>. QED
    BY <1>0, <1>1, <1>4, <2>1 DEF ScanTenant
<1>5. ASSUME NEW s \in Flow, ScanSource(s) PROVE WindowInv'
  <2>1. scan' \in Scans
    BY <1>0, <1>5 DEF ScanSource, Scans
  <2>. QED
    BY <1>0, <1>1, <1>5, <2>1 DEF ScanSource
<1>6. CASE ScanPublish
  <2>1. scan' \in Scans
    BY <1>0, <1>6 DEF ScanPublish, Scans, Rest
  <2>2. active' \subseteq Flow /\ live' \subseteq Flow
    BY <1>0, <1>6 DEF ScanPublish, Scans
  <2>. QED
    BY <1>0, <1>1, <1>6, <2>1, <2>2 DEF ScanPublish
<1>7. CASE ScanError
  BY <1>0, <1>1, <1>7, RestTyped DEF ScanError
<1>8. CASE WindowRestart
  BY <1>0, <1>1, <1>8, RestTyped DEF WindowRestart
<1>9. ASSUME NEW t \in Tenants, MetricsExpire(t) PROVE WindowInv'
  BY <1>0, <1>1, <1>9 DEF MetricsExpire
<1>10. CASE UNCHANGED windowVars
  BY <1>0, <1>1, <1>10 DEF windowVars
<1>. QED
  BY <1>2, <1>3, <1>4, <1>5, <1>6, <1>7, <1>8, <1>9, <1>10, RecordKeeps, TickKeeps
     DEF WindowNext, MetricsLoop

LEMMA WindowHolds == WindowSpec => []WindowInv
BY WindowStart, WindowStep, PTL DEF WindowSpec

LEMMA WindowTypes == WindowSpec => []WindowTypeOK
<1>1. WindowInv => WindowTypeOK
  <2>. SUFFICES ASSUME WindowInv PROVE WindowTypeOK
    OBVIOUS
  <2>1. (0..now) \X Size \subseteq (0..MaxTime) \X Size
    BY WindowAssumption DEF WindowInv, WindowTyped
  <2>2. \A s \in Flow : /\ store[s] \subseteq (0..MaxTime) \X Size
                        /\ arrived[s] \subseteq (0..MaxTime) \X Size
    BY <2>1 DEF WindowInv, WindowTyped
  <2>. QED
    BY <2>2 DEF WindowInv, WindowTyped, WindowTypeOK, Scans
<1>. QED
  BY <1>1, WindowHolds, PTL

\* The features count of every source the newest packets of the window, as many as the
\* store keeps (redis_client.py:169-173), for every length of the
\* window, every cap, every life of the keys that outlasts the trimming and any packets:
\* trimming, the cap and the expiry of a key cost none of them.
THEOREM WindowsComplete == WindowSpec => []WindowComplete
<1>1. WindowInv => WindowComplete
  <2>. SUFFICES ASSUME WindowInv, NEW s \in Flow
                PROVE  InWindow(store[s]) = Capped(InWindow(arrived[s]))
    BY DEF WindowComplete
  <2>1. /\ now \in Nat /\ store[s] \in SUBSET ((0..now) \X Size)
        /\ arrived[s] \in SUBSET ((0..now) \X Size)
    BY WindowAssumption DEF WindowInv, WindowTyped
  <2>2. PICK b \in 0..now : /\ b + Ttl > now
                            /\ \A n \in Nat : n + Window >= now <=> n >= b
    <3>1. CASE now <= Window
      <4>1. 0 + Ttl > now /\ \A n \in Nat : n + Window >= now <=> n >= 0
        BY <2>1, <3>1, WindowAssumption
      <4>. QED
        BY <2>1, <4>1
    <3>2. CASE now > Window
      <4>1. /\ now - Window \in 0..now /\ (now - Window) + Ttl > now
            /\ \A n \in Nat : n + Window >= now <=> n >= now - Window
        BY <2>1, <3>2, WindowAssumption
      <4>. QED
        BY <4>1
    <3>. QED
      BY <2>1, <3>1, <3>2, WindowAssumption
  <2>3. InWindow(store[s]) = From(b, store[s]) /\ InWindow(arrived[s]) = From(b, arrived[s])
    <3>1. \A e \in store[s] \cup arrived[s] : e[1] \in Nat
      BY <2>1
    <3>. QED
      BY <2>2, <3>1 DEF InWindow, From
  <2>. QED
    BY <2>2, <2>3 DEF WindowInv, KeptFrom
<1>. QED
  BY <1>1, WindowHolds, PTL

(***************************************************************************)
(* The registry of models.                                                 *)
(***************************************************************************)

\* What the registry's variables hold: rows seen by a run or a promotion are rows, and
\* a load in the engine has a time that the file has had, and no torn model.
Rows    == [run : Run, active : BOOLEAN]
RunRows == [pc   : {"idle", "trained", "model", "between", "meta", "saved", "flushed", "commit", "done"},
            f1   : Score \cup {0}, best : BOOLEAN, seen : SUBSET Rows]
Promos  == [pc : {"idle", "commit", "done"}, exp : Run \cup {Nothing}, seen : SUBSET Rows]

Disks   == [model : Content, mtime : Nat, meta : Content]
Engines == [model : Content \ {Torn}, version : Content \ {Torn}, last : Nat, hash : Content]

JobTyped ==
    /\ job.pc \in {"idle", "load", "metadata", "reload", "reversion"}
    /\ job.pc \in {"load", "metadata"} => job.value \in 0..disk.mtime
    /\ job.pc \in {"reload", "reversion"} => job = [pc |-> job.pc, value |-> job.value] /\ job.value \in Content
    /\ job.pc = "metadata" => job.new \in Content \ {Torn}

RegistryTyped ==
    /\ run \in [Run -> RunRows]
    /\ disk \in Disks
    /\ engine \in Engines /\ engine.last <= disk.mtime
    /\ JobTyped
    /\ entries \subseteq Rows
    /\ logged \subseteq Run
    /\ promo \in [Promotions -> Promos]
    /\ \A q \in Promotions : promo[q].pc = "commit" => promo[q].exp \in Run

LEMMA ContentFacts ==
    /\ Runs \in Nat /\ Run \subseteq Content \ {Torn} /\ Nothing \in Content \ {Torn}
    /\ Legacy \in Content \ {Torn} /\ Torn \in Content
BY RegistryAssumption DEF Run, Nothing, Legacy, Torn, Content

\* A disk with another model file or other metadata, an engine after a load.
NewFile(d, m, n)    == [d EXCEPT !.model = m, !.mtime = n]
NewMeta(d, m)       == [d EXCEPT !.meta = m]
Loaded(e, m, v, n)  == [e EXCEPT !.model = m, !.version = v, !.last = n]
Reversed(e, v, h)   == [e EXCEPT !.version = v, !.hash = h]
Rehashed(e, h)      == [e EXCEPT !.hash = h]

LEMMA DiskWith ==
    ASSUME NEW d \in Disks, NEW m \in Content, NEW n \in Nat
    PROVE  /\ NewFile(d, m, n) \in Disks /\ NewFile(d, m, n).mtime = n
           /\ NewMeta(d, m) \in Disks /\ NewMeta(d, m).mtime = d.mtime
<1>1. NewFile(d, m, n) \in Disks
  BY DEF Disks, NewFile
<1>2. NewFile(d, m, n).mtime = n
  BY DEF Disks, NewFile
<1>3. NewMeta(d, m) \in Disks
  BY DEF Disks, NewMeta
<1>4. NewMeta(d, m).mtime = d.mtime
  BY DEF Disks, NewMeta
<1>. QED
  BY <1>1, <1>2, <1>3, <1>4

LEMMA EngineWith ==
    ASSUME NEW e \in Engines, NEW m \in Content \ {Torn}, NEW v \in Content \ {Torn},
           NEW n \in Nat, NEW h \in Content
    PROVE  /\ Loaded(e, m, v, n) \in Engines /\ Loaded(e, m, v, n).last = n
           /\ Reversed(e, v, h) \in Engines /\ Reversed(e, v, h).last = e.last
           /\ Rehashed(e, h) \in Engines /\ Rehashed(e, h).last = e.last
<1>1. Loaded(e, m, v, n) \in Engines
  BY DEF Engines, Loaded
<1>2. Loaded(e, m, v, n).last = n
  BY DEF Engines, Loaded
<1>3. Reversed(e, v, h) \in Engines
  BY DEF Engines, Reversed
<1>4. Reversed(e, v, h).last = e.last
  BY DEF Engines, Reversed
<1>5. Rehashed(e, h) \in Engines
  BY DEF Engines, Rehashed
<1>6. Rehashed(e, h).last = e.last
  BY DEF Engines, Rehashed
<1>. QED
  BY <1>1, <1>2, <1>3, <1>4, <1>5, <1>6

LEMMA RegistryStart == RegistryInit => RegistryTyped
<1>. SUFFICES ASSUME RegistryInit PROVE RegistryTyped
  OBVIOUS
<1>1. run \in [Run -> RunRows]
  BY DEF RegistryInit, RunRows
<1>2. disk \in Disks /\ disk.mtime = 0
  BY ContentFacts DEF RegistryInit, Disks
<1>3. engine \in Engines /\ engine.last = 0
  BY ContentFacts DEF RegistryInit, Engines
<1>4. promo \in [Promotions -> Promos] /\ \A q \in Promotions : promo[q].pc = "idle"
  BY DEF RegistryInit, Promos
<1>5. JobTyped
  BY DEF RegistryInit, JobTyped, Idle0
<1>6. engine.last <= disk.mtime
  BY <1>2, <1>3
<1>7. entries \subseteq Rows /\ logged \subseteq Run
  BY DEF RegistryInit
<1>8. \A q \in Promotions : promo[q].pc = "commit" => promo[q].exp \in Run
  BY <1>4
<1>. QED
  BY <1>1, <1>2, <1>3, <1>4, <1>5, <1>6, <1>7, <1>8 DEF RegistryTyped

LEMMA PromotedRows ==
    ASSUME entries \subseteq Rows, NEW r \in Run, NEW seenRows \in SUBSET Rows
    PROVE  Promoted(r, seenRows) \subseteq Rows
<1>1. \A e \in seenRows : [e EXCEPT !.active = FALSE] \in Rows
  BY DEF Rows
<1>2. [run |-> r, active |-> TRUE] \in Rows
  BY DEF Rows
<1>. QED
  BY <1>1, <1>2 DEF Promoted

\* A trainer.
LEMMA TrainerTyped ==
    ASSUME RegistryTyped, NEW r \in Run, Trainer(r)
    PROVE  RegistryTyped'
<1>1. run[r] \in RunRows /\ r \in Content
  BY ContentFacts DEF RegistryTyped
<1>2. ASSUME NEW row \in RunRows, run' = [run EXCEPT ![r] = row] PROVE run' \in [Run -> RunRows]
  BY <1>2 DEF RegistryTyped
<1>3. ASSUME run' \in [Run -> RunRows], UNCHANGED <<disk, engine, job, promo>>,
             entries' \subseteq Rows, logged' \subseteq Run
      PROVE  RegistryTyped'
  BY <1>3 DEF RegistryTyped, JobTyped
<1>4. ASSUME NEW from, NEW to \in {"model", "between", "meta", "saved"}, Steps(r, from, to)
      PROVE  run' \in [Run -> RunRows]
  <2>1. [run[r] EXCEPT !.pc = to] \in RunRows
    BY <1>1 DEF RunRows
  <2>2. run' = [run EXCEPT ![r] = [run[r] EXCEPT !.pc = to]]
    BY <1>4 DEF Steps
  <2>. QED
    BY <1>2, <2>1, <2>2
<1>5. ASSUME NEW d \in Disks, disk' = d, d.mtime >= disk.mtime, run' \in [Run -> RunRows],
             UNCHANGED <<engine, job, entries, logged, promo>>
      PROVE  RegistryTyped'
  <2>1. d.mtime \in Nat /\ disk.mtime \in Nat /\ engine.last \in Nat
    BY DEF Disks, RegistryTyped, Engines
  <2>2. JobTyped'
    BY <1>5, <2>1 DEF RegistryTyped, JobTyped
  <2>. QED
    BY <1>5, <2>1, <2>2 DEF RegistryTyped
<1>6. disk.mtime \in Nat /\ disk \in Disks
  BY DEF RegistryTyped, Disks
<1>7. CASE OpenModel(r)
  <2>1. disk' = NewFile(disk, Torn, disk.mtime + 1)
    BY <1>7 DEF OpenModel, NewFile
  <2>2. /\ NewFile(disk, Torn, disk.mtime + 1) \in Disks
        /\ NewFile(disk, Torn, disk.mtime + 1).mtime = disk.mtime + 1
    <3>1. disk.mtime + 1 \in Nat
      BY <1>6
    <3>. QED
      BY <3>1, <1>6, ContentFacts, DiskWith
  <2>3. disk.mtime + 1 >= disk.mtime
    BY <1>6
  <2>4. run' \in [Run -> RunRows]
    BY <1>4, <1>7 DEF OpenModel
  <2>. QED
    BY <1>5, <1>6, <1>7, <2>1, <2>2, <2>3, <2>4 DEF OpenModel
<1>8. CASE CloseModel(r)
  <2>1. disk' = NewFile(disk, r, disk.mtime + 1)
    BY <1>8 DEF CloseModel, NewFile
  <2>2. /\ NewFile(disk, r, disk.mtime + 1) \in Disks
        /\ NewFile(disk, r, disk.mtime + 1).mtime = disk.mtime + 1
    <3>1. disk.mtime + 1 \in Nat
      BY <1>6
    <3>. QED
      BY <3>1, <1>1, <1>6, DiskWith
  <2>3. disk.mtime + 1 >= disk.mtime
    BY <1>6
  <2>4. run' \in [Run -> RunRows]
    BY <1>4, <1>8 DEF CloseModel
  <2>. QED
    BY <1>5, <1>6, <1>8, <2>1, <2>2, <2>3, <2>4 DEF CloseModel
<1>9. ASSUME NEW m \in Content, disk' = [disk EXCEPT !.meta = m],
             run' \in [Run -> RunRows], UNCHANGED <<engine, job, entries, logged, promo>>
      PROVE  RegistryTyped'
  <2>1. NewMeta(disk, m) \in Disks /\ NewMeta(disk, m).mtime = disk.mtime
    BY <1>6, DiskWith
  <2>3. disk' = NewMeta(disk, m)
    BY <1>9 DEF NewMeta
  <2>2. disk.mtime >= disk.mtime
    BY <1>6
  <2>. QED
    BY <1>5, <1>9, <2>1, <2>2, <2>3
<1>10. CASE OpenMetadata(r)
  <2>1. run' \in [Run -> RunRows]
    BY <1>4, <1>10 DEF OpenMetadata
  <2>. QED
    BY <1>9, <1>10, <2>1, ContentFacts DEF OpenMetadata
<1>11. CASE CloseMetadata(r)
  <2>1. run' \in [Run -> RunRows]
    BY <1>4, <1>11 DEF CloseMetadata
  <2>. QED
    BY <1>1, <1>9, <1>11, <2>1 DEF CloseMetadata
<1>e. entries \subseteq Rows /\ logged \subseteq Run /\ run \in [Run -> RunRows]
  BY DEF RegistryTyped
<1>12. CASE ReadBest(r)
  <2> DEFINE best == logged = {} \/ run[r].f1 > BestScore(logged)
             row  == [run[r] EXCEPT !.pc = "flushed", !.best = best]
  <2>1. best \in BOOLEAN
    OBVIOUS
  <2>2. run' = [run EXCEPT ![r] = row]
    BY <1>e, <1>12 DEF ReadBest
  <2> HIDE DEF best
  <2>3. row \in RunRows
    BY <1>1, <2>1 DEF RunRows
  <2>. QED
    BY <1>2, <1>3, <1>e, <1>12, <2>2, <2>3 DEF ReadBest
<1>13. CASE SelectOthers(r)
  <2> DEFINE others == IF run[r].best THEN Others(r) ELSE {}
             row    == [run[r] EXCEPT !.pc = "commit", !.seen = others]
  <2>1. others \in SUBSET Rows
    BY <1>e DEF Others
  <2>2. run' = [run EXCEPT ![r] = row]
    BY <1>e, <1>13 DEF SelectOthers
  <2> HIDE DEF others
  <2>3. row \in RunRows
    BY <1>1, <2>1 DEF RunRows
  <2>. QED
    BY <1>2, <1>3, <1>e, <1>13, <2>2, <2>3 DEF SelectOthers
<1>14. CASE CommitRun(r)
  <2> DEFINE row == [run[r] EXCEPT !.pc = "done", !.seen = {}]
  <2>1. row \in RunRows /\ run[r].seen \in SUBSET Rows
    BY <1>1 DEF RunRows
  <2>2. run' = [run EXCEPT ![r] = row]
    BY <1>e, <1>14 DEF CommitRun
  <2>3. entries' \subseteq Rows /\ logged' \subseteq Run
    BY <1>e, <1>14, <2>1, PromotedRows DEF CommitRun
  <2>. QED
    BY <1>2, <1>3, <1>14, <2>1, <2>2, <2>3 DEF CommitRun
<1>15. CASE LogFails(r)
  <2> DEFINE row == [run[r] EXCEPT !.pc = "done", !.best = FALSE, !.seen = {}]
  <2>1. row \in RunRows
    BY <1>1 DEF RunRows
  <2>2. run' = [run EXCEPT ![r] = row]
    BY <1>e, <1>15 DEF LogFails
  <2>. QED
    BY <1>2, <1>3, <1>e, <1>15, <2>1, <2>2 DEF LogFails
<1>16. ASSUME NEW f \in Score, Train(r, f) \/ Retrain(r, f) PROVE RegistryTyped'
  <2> DEFINE row == [run[r] EXCEPT !.pc = "trained", !.f1 = f]
  <2>1. row \in RunRows
    BY <1>1 DEF RunRows
  <2>2. run' = [run EXCEPT ![r] = row]
    BY <1>e, <1>16 DEF Train, Retrain, Fitted
  <2>. QED
    BY <1>2, <1>3, <1>e, <1>16, <2>1, <2>2 DEF Train, Retrain, Fitted
<1>. QED
  BY <1>7, <1>8, <1>10, <1>11, <1>12, <1>13, <1>14, <1>15, <1>16 DEF Trainer

\* A promotion by hand.
LEMMA PromotionTyped ==
    ASSUME RegistryTyped, NEW q \in Promotions,
           CommitPromotion(q) \/ \E r \in Run : ReadExperiment(q, r)
    PROVE  RegistryTyped'
<1>1. ASSUME NEW row \in Promos, promo' = [promo EXCEPT ![q] = row],
             row.pc = "commit" => row.exp \in Run, entries' \subseteq Rows,
             UNCHANGED <<run, disk, engine, job, logged>>
      PROVE  RegistryTyped'
  <2>1. promo' \in [Promotions -> Promos]
    BY <1>1 DEF RegistryTyped
  <2>2. \A p \in Promotions : promo'[p].pc = "commit" => promo'[p].exp \in Run
    BY <1>1 DEF RegistryTyped
  <2>. QED
    BY <1>1, <2>1, <2>2 DEF RegistryTyped, JobTyped
<1>2. entries \subseteq Rows /\ promo[q] \in Promos
  BY DEF RegistryTyped
<1>3. CASE CommitPromotion(q)
  <2> DEFINE row == [pc |-> "done", exp |-> Nothing, seen |-> {}]
  <2>1. row \in Promos
    BY DEF Promos
  <2>2. promo[q].exp \in Run /\ promo[q].seen \in SUBSET Rows
    BY <1>2, <1>3 DEF CommitPromotion, RegistryTyped, Promos
  <2>3. entries' \subseteq Rows
    BY <1>2, <1>3, <2>2, PromotedRows DEF CommitPromotion
  <2>4. row.pc # "commit"
    OBVIOUS
  <2>. QED
    BY <1>1, <1>3, <2>1, <2>3, <2>4 DEF CommitPromotion
<1>4. ASSUME NEW r \in Run, ReadExperiment(q, r) PROVE RegistryTyped'
  <2> DEFINE row == [pc |-> "commit", exp |-> r, seen |-> {e \in entries : e.active}]
  <2>1. row \in Promos
    BY <1>2 DEF Promos
  <2>2. row.exp \in Run
    OBVIOUS
  <2>3. promo' = [promo EXCEPT ![q] = row] /\ UNCHANGED <<run, disk, engine, job, logged, entries>>
    BY <1>4 DEF ReadExperiment
  <2> HIDE DEF row
  <2>. QED
    BY <1>1, <1>2, <2>1, <2>2, <2>3
<1>. QED
  BY <1>3, <1>4

\* The engine.
LEMMA EngineTyped ==
    ASSUME RegistryTyped, EngineWorks \/ ReloadHash \/ EngineStart
    PROVE  RegistryTyped'
<1>1. ASSUME UNCHANGED <<run, disk, entries, logged, promo>>, engine' \in Engines,
             engine'.last <= disk.mtime, JobTyped'
      PROVE  RegistryTyped'
  BY <1>1 DEF RegistryTyped
<1>2. /\ engine \in Engines /\ engine.last <= disk.mtime /\ disk \in Disks /\ JobTyped
  BY DEF RegistryTyped
<1>3. disk.mtime \in Nat /\ disk.model \in Content /\ disk.meta \in Content
  BY <1>2 DEF Disks
<1>4. ASSUME job' = Idle0 PROVE JobTyped'
  BY <1>4 DEF JobTyped, Idle0
<1>5. CASE WatchTime
  <2>1. /\ job' = [pc |-> "load", value |-> disk.mtime]
        /\ UNCHANGED <<run, disk, engine, entries, logged, promo>>
    BY <1>5 DEF WatchTime
  <2>2. JobTyped'
    BY <1>3, <2>1 DEF JobTyped
  <2>. QED
    BY <1>1, <1>2, <2>1, <2>2
<1>6. CASE WatchModel
  <2>1. UNCHANGED <<run, disk, engine, entries, logged, promo>> /\ job.pc = "load"
    BY <1>6 DEF WatchModel
  <2>2. CASE disk.model = Torn
    BY <1>1, <1>2, <1>4, <1>6, <2>1, <2>2 DEF WatchModel
  <2>3. CASE disk.model # Torn
    <3>1. job' = [pc |-> "metadata", value |-> job.value, new |-> disk.model]
      BY <1>6, <2>3 DEF WatchModel
    <3>2. job.value \in 0..disk.mtime
      BY <1>2, <2>1 DEF JobTyped
    <3>3. JobTyped'
      BY <1>3, <2>1, <2>3, <3>1, <3>2 DEF JobTyped
    <3>. QED
      BY <1>1, <1>2, <2>1, <3>3
  <2>. QED
    BY <2>2, <2>3
<1>7. CASE WatchMetadata
  <2>1. UNCHANGED <<run, disk, entries, logged, promo>> /\ job' = Idle0 /\ job.pc = "metadata"
    BY <1>7 DEF WatchMetadata
  <2>2. job.new \in Content \ {Torn} /\ job.value \in 0..disk.mtime
    BY <1>2, <2>1 DEF JobTyped
  <2>3. CASE disk.meta = Torn
    BY <1>1, <1>2, <1>4, <1>7, <2>1, <2>3 DEF WatchMetadata
  <2>4. CASE disk.meta # Torn
    <3> DEFINE new == Loaded(engine, job.new, disk.meta, job.value)
    <3>1. engine' = new
      BY <1>7, <2>4 DEF WatchMetadata, Loaded
    <3>2. new \in Engines /\ new.last = job.value
      <4>1. job.value \in Nat /\ disk.meta \in Content \ {Torn} /\ Nothing \in Content
        BY <1>3, <2>2, <2>4, ContentFacts
      <4>. QED
        BY <1>2, <2>2, <4>1, EngineWith
    <3>. QED
      BY <1>1, <1>3, <1>4, <2>1, <2>2, <3>1, <3>2
  <2>. QED
    BY <2>3, <2>4
<1>8. CASE ReloadHash
  <2>1. /\ job' = [pc |-> "reload", value |-> disk.model]
        /\ UNCHANGED <<run, disk, engine, entries, logged, promo>>
    BY <1>8 DEF ReloadHash
  <2>2. JobTyped'
    BY <1>3, <2>1 DEF JobTyped
  <2>. QED
    BY <1>1, <1>2, <2>1, <2>2
<1>9. CASE ReloadModel
  <2>1. UNCHANGED <<run, disk, entries, logged, promo>> /\ job.pc = "reload"
    BY <1>9 DEF ReloadModel
  <2>2. CASE disk.model = Torn
    BY <1>1, <1>2, <1>4, <1>9, <2>1, <2>2 DEF ReloadModel
  <2>3. CASE disk.model # Torn
    <3>1. /\ job' = [job EXCEPT !.pc = "reversion"]
          /\ engine' = [engine EXCEPT !.model = disk.model]
      BY <1>9, <2>3 DEF ReloadModel
    <3>2. /\ [engine EXCEPT !.model = disk.model] \in Engines
          /\ [engine EXCEPT !.model = disk.model].last = engine.last
      BY <1>2, <1>3, <2>3 DEF Engines
    <3>3. job = [pc |-> "reload", value |-> job.value] /\ job.value \in Content
      BY <1>2, <2>1 DEF JobTyped
    <3>4. job' = [pc |-> "reversion", value |-> job.value]
      BY <3>1, <3>3
    <3>5. JobTyped'
      BY <3>3, <3>4 DEF JobTyped
    <3>. QED
      BY <1>1, <1>2, <2>1, <3>1, <3>2, <3>5
  <2>. QED
    BY <2>2, <2>3
<1>10. CASE ReloadVersion
  <2>1. UNCHANGED <<run, disk, entries, logged, promo>> /\ job' = Idle0 /\ job.pc = "reversion"
    BY <1>10 DEF ReloadVersion
  <2>2. job.value \in Content
    BY <1>2, <2>1 DEF JobTyped
  <2>3. engine' \in Engines /\ engine'.last = engine.last
    <3>0. Nothing # Torn /\ Nothing \in Content \ {Torn} /\ 0 \in Nat
      BY ContentFacts
    <3>1. CASE disk.meta = Torn
      <4>1. engine' = engine
        BY <1>10, <3>0, <3>1 DEF ReloadVersion
      <4>. QED
        BY <1>2, <4>1
    <3>2. CASE disk.meta = Nothing
      <4>1. engine' = Rehashed(engine, job.value)
        BY <1>10, <3>0, <3>2 DEF ReloadVersion, Rehashed
      <4>. QED
        BY <1>2, <2>2, <3>0, <4>1, EngineWith
    <3>3. CASE disk.meta \notin {Torn, Nothing}
      <4>1. engine' = Reversed(engine, disk.meta, job.value)
        BY <1>10, <3>3 DEF ReloadVersion, Reversed
      <4>. QED
        BY <1>2, <1>3, <2>2, <3>0, <3>3, <4>1, EngineWith
    <3>. QED
      BY <3>1, <3>2, <3>3
  <2>. QED
    BY <1>1, <1>2, <1>4, <2>1, <2>3
<1>11. CASE EngineStart
  <2> DEFINE good == disk.model \notin {Nothing, Torn} /\ disk.meta # Torn
             kept == IF disk.model = Nothing THEN {Nothing, Legacy} ELSE {Nothing}
  <2>1. PICK m \in kept : engine' = [model   |-> IF good THEN disk.model ELSE m,
                                     version |-> IF good THEN disk.meta ELSE m,
                                     last    |-> IF good THEN disk.mtime ELSE 0,
                                     hash    |-> disk.model]
    BY <1>11 DEF EngineStart
  <2>2. m \in Content \ {Torn}
    BY ContentFacts
  <2>3. engine' \in Engines /\ engine'.last <= disk.mtime
    <3>1. CASE good
      <4>1. engine' = [model |-> disk.model, version |-> disk.meta, last |-> disk.mtime, hash |-> disk.model]
        BY <2>1, <3>1
      <4>. QED
        BY <1>3, <3>1, <4>1 DEF Engines
    <3>2. CASE ~good
      <4>1. engine' = [model |-> m, version |-> m, last |-> 0, hash |-> disk.model]
        BY <2>1, <3>2
      <4>. QED
        BY <1>3, <2>2, <4>1 DEF Engines
    <3>. QED
      BY <3>1, <3>2
  <2>. QED
    BY <1>1, <1>4, <1>11, <2>3 DEF EngineStart
<1>. QED
  BY <1>5, <1>6, <1>7, <1>8, <1>9, <1>10, <1>11 DEF EngineWorks

\* Whatever the trainers do with the file, the engine never holds a torn model, and
\* never notes a time that the file has not had (ml_engine/main.py:66-96, 410-430), for
\* any number of runs, promotions and restarts.
THEOREM RegistryTypes == RegistrySpec => []RegistryTypeOK
<1>1. RegistryTyped /\ [RegistryNext]_registryVars => RegistryTyped'
  <2>1. RegistryTyped /\ UNCHANGED registryVars => RegistryTyped'
    BY DEF registryVars, RegistryTyped, JobTyped
  <2>. QED
    BY <2>1, TrainerTyped, PromotionTyped, EngineTyped DEF RegistryNext
<1>2. RegistryTyped => RegistryTypeOK
  <2>. SUFFICES ASSUME RegistryTyped PROVE RegistryTypeOK
    OBVIOUS
  <2>1. \A r \in Run : run[r].f1 \in Score \cup {0} /\ run[r].best \in BOOLEAN
    BY DEF RegistryTyped, RunRows
  <2>2. engine.last \in 0..disk.mtime
    BY DEF RegistryTyped, Engines, Disks
  <2>. QED
    BY <2>1, <2>2 DEF RegistryTyped, RegistryTypeOK, Disks, Engines, Rows
<1>. QED
  BY <1>1, <1>2, RegistryStart, PTL DEF RegistrySpec

(***************************************************************************)
(* The composition: what runs side by side obeys every part's              *)
(* specification, so what is proved of the parts holds of it.              *)
(***************************************************************************)

LEMMA PartsDetect ==
    Spec => WindowSpec /\ FlowSpec /\ AnalyzerSpec /\ RegistrySpec /\ BlocklistSpec
<1>1. Init => WindowInit /\ FlowInit /\ AnalyzerInit /\ RegistryInit /\ BlocklistInit
  BY DEF Init
<1>2. ASSUME [Next]_vars
      PROVE  \/ UNCHANGED <<windowVars, flowVars, analyzerVars, registryVars, blocklistVars>>
             \/ WindowNext /\ NotWindow
             \/ FlowNext /\ NotFlow
             \/ AnalyzerNext /\ NotAnalyzer
             \/ RegistryNext /\ NotRegistry
             \/ BlocklistNext /\ NotBlocklist
  BY <1>2 DEF Next, vars
<1>3. [Next]_vars => [WindowNext]_windowVars
  BY <1>2 DEF NotFlow, NotAnalyzer, NotRegistry, NotBlocklist
<1>4. [Next]_vars => [FlowNext]_flowVars
  BY <1>2 DEF NotWindow, NotAnalyzer, NotRegistry, NotBlocklist
<1>5. [Next]_vars => [AnalyzerNext]_analyzerVars
  BY <1>2 DEF NotWindow, NotFlow, NotRegistry, NotBlocklist
<1>6. [Next]_vars => [RegistryNext]_registryVars
  BY <1>2 DEF NotWindow, NotFlow, NotAnalyzer, NotBlocklist
<1>7. [Next]_vars => [BlocklistNext]_blocklistVars
  BY <1>2 DEF NotWindow, NotFlow, NotAnalyzer, NotRegistry
<1>. QED
  BY <1>1, <1>3, <1>4, <1>5, <1>6, <1>7, PTL
     DEF Spec, WindowSpec, FlowSpec, AnalyzerSpec, RegistrySpec, BlocklistSpec

\* The components of detection and the blocklist keep the types of everything they hold
\* while they work side by side (feature_extractor, ml_engine, llm_analyzer, firewall),
\* whatever the constants.
THEOREM DetectionTyped == Spec => []DetectionTypes
<1>1. FlowSpec => []FlowTypeOK
  <2>1. InOrder => FlowTypeOK
    BY DEF InOrder
  <2>. QED
    BY <2>1, FlowOrder, PTL
<1>2. DetectionTypes <=>
          WindowTypeOK /\ FlowTypeOK /\ AnalyzerTypeOK /\ RegistryTypeOK /\ BlocklistTypeOK
  BY DEF DetectionTypes
<1>. QED
  BY <1>1, <1>2, PartsDetect, WindowTypes, AnalyzerTypes, RegistryTypes, BlockTypes, PTL

\* The windows of a source are complete, alerts and verdicts are accounted for and every
\* block is on record and in force also when every component works at its own pace
\* (redis_client.py:169-173, ml_engine/main.py, llm_analyzer/main.py, firewall/main.py).
THEOREM DetectionKept ==
    Spec => /\ [](WindowComplete /\ CooldownSound /\ AckedAccounted)
            /\ [](BreakerTruthful /\ CacheOwnTenant /\ AlertsPassedOn)
            /\ [](AddressesRecorded /\ ActiveRowsEnforced) /\ AckedMeansBlocked
            /\ StreamsKept
BY PartsDetect, WindowsComplete, CooldownHolds, AckedHandled, BreakerHolds, CacheHolds,
   AlertsPassed, StreamsImplemented, AddressesKept, BlocksEnforced, AckedBlocked, PTL
=============================================================================
