----------------------- MODULE DecisionLogWriterProofs -----------------------
(***************************************************************************)
(* Proofs about DecisionLogWriter, for every batch size and every set of   *)
(* alerts, keys and requests.                                              *)
(***************************************************************************)
EXTENDS DecisionLogWriter, DecisionPlaneProofs

\* Whatever the plane does, nothing leaves stream:decision_logs.
LEMMA LogsGrow ==
    ASSUME PlaneNext
    PROVE  logs \subseteq logs'
<1>1. ASSUME NEW w \in Worker, Execute(w)
      PROVE  logs \subseteq logs'
  BY <1>1 DEF Execute, ExecuteDecision
<1>2. ASSUME NEW m \in Msg, EngineStep(m) \/ RouteError(m) \/ ExpireKey(m)
      PROVE  logs' = logs
  BY <1>2 DEF EngineStep, StorePayload, ArmTimer, IndexExpiry, NotifyMobile,
     AutoExecute, AckRoute, RouteError, ExpireKey, redis
<1>3. ASSUME NEW m \in Msg, ListenerStep(m)
      PROVE  logs \subseteq logs'
  BY <1>1, <1>3, WorkerFacts
     DEF ListenerStep, ListenerFetch, ListenerExecute, ListenerPublish,
         PublishBlock, redis
<1>4. ASSUME NEW h \in Handler, MobileExecute(h) \/ MobilePublish(h)
      PROVE  logs \subseteq logs'
  BY <1>1, <1>4, WorkerFacts DEF MobileExecute, MobilePublish, PublishBlock
<1>5. CASE ScannerStep
  BY <1>1, <1>5, WorkerFacts
     DEF ScannerStep, ScanRead, ScanFetch, ScanExecute, ScanPublish, ScanClean,
         PublishBlock, redis
<1>6. ASSUME NEW h \in Handler, NEW m \in Msg, NEW a \in MobileAction,
             MobileFetch(h, m, a)
      PROVE  logs' = logs
  BY <1>6 DEF MobileFetch, redis
<1>7. ASSUME NEW w \in Worker, WorkerError(w)
      PROVE  logs' = logs
  BY <1>7 DEF WorkerError, redis
<1>8. ASSUME NEW S \in SUBSET Msg, EngineRead(S)
      PROVE  logs' = logs
  BY <1>8 DEF EngineRead, redis
<1>9. CASE Tick \/ EngineCrash \/ ListenerStart \/ ListenerStop \/ ScanAbort
  BY <1>9 DEF Tick, EngineCrash, ListenerStart, ListenerStop, ScanAbort, redis
<1>. QED
  BY <1>2, <1>3, <1>4, <1>5, <1>6, <1>7, <1>8, <1>9 DEF PlaneNext

\* What the writer has read, written and acknowledged are entries of the stream, in this
\* order (decision_log_writer.py:37-145), for every batch size and every failure.
THEOREM WriterType == WriterSpec => []WriterTypeOK
<1>1. WriterInit => WriterTypeOK
  <2> SUFFICES ASSUME WriterInit PROVE WriterTypeOK
    OBVIOUS
  <2>1. group \in BOOLEAN
    BY Zenon DEF WriterInit
  <2>. QED  BY <2>1 DEF WriterInit, WriterTypeOK
<1>2. WriterTypeOK /\ [WriterNext]_systemVars => WriterTypeOK'
  <2> SUFFICES ASSUME WriterTypeOK, [WriterNext]_systemVars
               PROVE  WriterTypeOK'
    OBVIOUS
  <2> USE DEF WriterTypeOK
  <2>1. CASE PlaneNext /\ UNCHANGED writer
    BY <2>1, LogsGrow DEF writer, cursor
  <2>2. CASE CreateGroup
    BY <2>2 DEF CreateGroup, vars, redis
  <2>3. CASE CreateGroupLate
    BY <2>3 DEF CreateGroupLate, WriterFault, vars, redis
  <2>4. ASSUME NEW S \in SUBSET Unread, WriterRead(S)
        PROVE  WriterTypeOK'
    BY <2>4 DEF WriterRead, Unread, vars, redis
  <2>5. CASE InsertBatch
    BY <2>5 DEF InsertBatch, InsertRows, vars, redis, cursor
  <2>6. CASE CleanBatch
    BY <2>6 DEF CleanBatch, cursor
  <2>7. CASE AckBatch
    BY <2>7 DEF AckBatch, vars, redis, cursor
  <2>8. CASE WriterFail
    BY <2>8 DEF WriterFail, WriterFault, InsertRows, vars, redis, cursor
  <2>9. CASE UNCHANGED systemVars
    BY <2>9 DEF systemVars, vars, redis, writer, cursor
  <2>. QED
    BY <2>1, <2>2, <2>3, <2>4, <2>5, <2>6, <2>7, <2>8, <2>9
       DEF WriterNext, WriterStep
<1>. QED  BY <1>1, <1>2, PTL DEF WriterSpec

-----------------------------------------------------------------------------
(* The writer as seen from the plane.                                      *)

LEMMA WriterStepIsPlaneStep ==
    ASSUME TypeOK, WriterTypeOK, [WriterNext]_systemVars
    PROVE  [Next]_vars
<1>1. CASE CleanBatch
  <2> DEFINE S == {m \in stored :
                     Legacy(m) /\ \E r \in inflight : IdOf[r.key] = IdOf[KeyOf[m]]}
  <2>1. S \in SUBSET Msg /\ stored' = stored \ S
    BY <1>1 DEF CleanBatch, TypeOK
  <2>2. \A m \in S : Legacy(m) /\ \E r \in logs : IdOf[r.key] = IdOf[KeyOf[m]]
    BY DEF WriterTypeOK
  <2>3. UNCHANGED <<now, engine, pending, index, executed, logs, blocks, notified,
                    task, scan, listening, faults>>
    BY <1>1 DEF CleanBatch
  <2>4. CleanPayload(S)
    BY <2>1, <2>2, <2>3 DEF CleanPayload
  <2>. QED  BY <2>1, <2>4 DEF Next
<1>2. ASSUME NEW S \in SUBSET Unread, WriterRead(S)
      PROVE  UNCHANGED vars
  BY <1>2 DEF WriterRead
<1>3. CASE InsertBatch \/ AckBatch \/ CreateGroup \/ CreateGroupLate \/ WriterFail
  BY <1>3 DEF InsertBatch, AckBatch, CreateGroup, CreateGroupLate, WriterFail
<1>. QED
  BY <1>1, <1>2, <1>3 DEF WriterNext, WriterStep, Next, systemVars

\* The writer does to the plane only what CleanPayload allows: it deletes
\* un-prefixed payloads of alerts that have been decided, and nothing else.  So
\* what is proved of the plane holds with the writer beside it.
THEOREM WriterKeepsPlane == WriterSpec => PlaneSpec
<1>1. WriterInit => Init
  BY DEF WriterInit
<1>2. TypeOK /\ WriterTypeOK /\ [WriterNext]_systemVars => TypeOK' /\ [Next]_vars
  BY WriterStepIsPlaneStep, TypeStep
<1>. QED  BY <1>1, <1>2, InitType, WriterType, PTL DEF WriterSpec, PlaneSpec, Spec

-----------------------------------------------------------------------------
(* The batch, the rows and the order in which the stream is read.          *)

RecordedBy(r) == \E q \in rows : SameAlert(q, r) /\ q.at <= r.at

InOrder ==
    /\ \A r \in logs : r.at <= now
    /\ \A d \in delivered, u \in Unread : d.at <= u.at
    /\ rows \subseteq delivered
    /\ phase = "insert" => \A r \in rows, q \in inflight : r.at <= q.at
BatchRecorded == phase \in {"clean", "ack"} => \A r \in inflight : RecordedBy(r)

RecordInv == InOrder /\ BatchRecorded /\ AckedMeansRecorded

\* A step of the plane adds rulings of the present to the stream.
LEMMA PlaneAdds ==
    ASSUME TypeOK, PlaneNext
    PROVE  /\ now <= now' /\ logs \subseteq logs'
           /\ \A r \in logs' : r \in logs \/ r.at = now
<1>1. [Next]_vars
  BY DEF Next
<1>2. CASE Quiet
  BY <1>2 DEF Quiet, TypeOK
<1>3. ASSUME NEW w \in Worker, Execute(w) \/ PublishBlock(w)
      PROVE  now' = now /\ \A r \in logs' : r \in logs \/ r.at = now
  BY <1>3 DEF Execute, ExecuteDecision, PublishBlock
<1>4. ASSUME NEW m \in Msg, AutoExecute(m)
      PROVE  now' = now /\ logs' = logs
  BY <1>4 DEF AutoExecute
<1>. QED  BY <1>1, <1>2, <1>3, <1>4, StepKinds, LogsGrow DEF TypeOK

LEMMA InsertKeepsOrder ==
    ASSUME WriterTypeOK, InOrder, phase = "insert", InsertRows
    PROVE  /\ rows \subseteq rows' /\ rows' \subseteq rows \cup inflight
           /\ \A r \in inflight :
                \E q \in rows' : SameAlert(q, r) /\ q.at <= r.at
<1>1. PICK N \in SUBSET {r \in inflight : ~ Recorded(IdOf[r.key])} :
        /\ \A r \in inflight : ~ Recorded(IdOf[r.key]) =>
             \E n \in N : SameAlert(n, r) /\ n.at <= r.at
        /\ rows' = rows \cup N
  BY DEF InsertRows
<1>2. ASSUME NEW r \in inflight, Recorded(IdOf[r.key])
      PROVE  \E q \in rows' : SameAlert(q, r) /\ q.at <= r.at
  BY <1>1, <1>2 DEF Recorded, SameAlert, InOrder
<1>. QED  BY <1>1, <1>2

LEMMA RecordStep ==
    ASSUME TypeOK, WriterTypeOK, WriterTypeOK', RecordInv, [WriterNext]_systemVars
    PROVE  RecordInv'
<1> USE DEF RecordInv
<1>1. CASE PlaneNext /\ UNCHANGED writer
  <2>1. /\ now <= now' /\ logs \subseteq logs' /\ now \in Nat /\ now' \in Nat
        /\ \A r \in logs' : r \in logs \/ r.at = now
    BY <1>1, PlaneAdds, TypeStep DEF TypeOK, Next
  <2>2. \A r \in logs : r.at \in Nat
    BY DEF TypeOK, Ruling
  <2>3. UNCHANGED <<delivered, rows, phase, inflight, acked>>
    BY <1>1 DEF writer, cursor
  <2>4. InOrder'
    BY <2>1, <2>2, <2>3 DEF InOrder, Unread, WriterTypeOK
  <2>. QED
    BY <2>3, <2>4 DEF BatchRecorded, RecordedBy, AckedMeansRecorded, SameAlert
<1>2. CASE CreateGroup
  <2>1. /\ delivered' = logs
        /\ UNCHANGED <<now, logs, rows, phase, inflight, acked>>
    BY <1>2 DEF CreateGroup, vars, redis
  <2>2. InOrder'
    BY <2>1 DEF InOrder, Unread, WriterTypeOK
  <2>. QED
    BY <2>1, <2>2 DEF BatchRecorded, RecordedBy, AckedMeansRecorded, SameAlert
<1>3. ASSUME NEW S \in SUBSET Unread, WriterRead(S)
      PROVE  RecordInv'
  <2>1. /\ delivered' = delivered \cup S /\ inflight' = S /\ phase' = "insert"
        /\ UNCHANGED <<now, logs, rows, acked>>
        /\ \A r \in S, q \in Unread \ S : r.at <= q.at
    BY <1>3 DEF WriterRead, vars, redis
  <2>2. InOrder'
    BY <2>1 DEF InOrder, Unread
  <2>. QED
    BY <2>1, <2>2 DEF BatchRecorded, RecordedBy, AckedMeansRecorded, SameAlert
<1>4. CASE InsertBatch
  <2>1. /\ phase = "insert" /\ InsertRows /\ phase' = "clean"
        /\ UNCHANGED <<now, logs, delivered, inflight, acked>>
    BY <1>4 DEF InsertBatch, vars, redis, cursor
  <2>2. InOrder'
    BY <2>1, InsertKeepsOrder DEF InOrder, Unread, WriterTypeOK
  <2>3. AckedMeansRecorded'
    BY <2>1, InsertKeepsOrder DEF AckedMeansRecorded, SameAlert
  <2>4. BatchRecorded'
    BY <2>1, InsertKeepsOrder DEF BatchRecorded, RecordedBy, SameAlert
  <2>. QED  BY <2>2, <2>3, <2>4
<1>5. CASE CleanBatch
  <2>1. /\ phase = "clean" /\ phase' = "ack"
        /\ UNCHANGED <<now, logs, delivered, rows, inflight, acked>>
    BY <1>5 DEF CleanBatch, cursor
  <2>. QED
    BY <2>1 DEF InOrder, Unread, BatchRecorded, RecordedBy, AckedMeansRecorded, SameAlert
<1>6. CASE AckBatch
  <2>1. /\ phase = "ack" /\ phase' = "idle" /\ acked' = acked \cup inflight
        /\ UNCHANGED <<now, logs, delivered, rows>>
    BY <1>6 DEF AckBatch, vars, redis, cursor
  <2>. QED
    BY <2>1 DEF InOrder, Unread, BatchRecorded, RecordedBy, AckedMeansRecorded, SameAlert
<1>7. CASE WriterFail
  <2>1. /\ phase' = "idle" /\ UNCHANGED <<now, logs, delivered, acked>>
        /\ UNCHANGED rows \/ (phase = "insert" /\ InsertRows)
    BY <1>7 DEF WriterFail, vars, redis, cursor
  <2>2. rows \subseteq rows' /\ rows' \subseteq rows \cup inflight
    BY <2>1, InsertKeepsOrder
  <2>3. InOrder'
    BY <2>1, <2>2 DEF InOrder, Unread, WriterTypeOK
  <2>4. AckedMeansRecorded'
    BY <2>1, <2>2 DEF AckedMeansRecorded, SameAlert
  <2>. QED  BY <2>1, <2>3, <2>4 DEF BatchRecorded
<1>8. CASE CreateGroupLate \/ UNCHANGED systemVars
  <2>1. UNCHANGED <<now, logs, delivered, rows, phase, inflight, acked>>
    BY <1>8 DEF CreateGroupLate, systemVars, vars, redis, writer, cursor
  <2>. QED
    BY <2>1 DEF InOrder, Unread, BatchRecorded, RecordedBy, AckedMeansRecorded, SameAlert
<1>. QED
  BY <1>1, <1>2, <1>3, <1>4, <1>5, <1>6, <1>7, <1>8 DEF WriterNext, WriterStep

LEMMA RecordInit == WriterInit => RecordInv
BY DEF WriterInit, Init, RecordInv, InOrder, Unread, BatchRecorded, AckedMeansRecorded

\* Nothing is acknowledged, and so lost from the group's pending list, before
\* its alert is in the audit log; failures of the writer change nothing in that.
THEOREM AckedAreRecorded == WriterSpec => []AckedMeansRecorded
<1>1. TypeOK /\ WriterTypeOK /\ WriterTypeOK' /\ RecordInv /\ [WriterNext]_systemVars
        => RecordInv'
  BY RecordStep
<1>2. RecordInv => AckedMeansRecorded
  BY DEF RecordInv
<1>. QED
  BY <1>1, <1>2, RecordInit, WriterType, WriterKeepsPlane, TypeCorrect, PTL
     DEF WriterSpec, PlaneSpec

-----------------------------------------------------------------------------
(* Payloads.                                                               *)

LEMMA PlanePayloads ==
    ASSUME PlaneNext
    PROVE  UNCHANGED <<stored, expires>> \/ \E m \in Msg : StorePayload(m)
<1>1. ASSUME NEW w \in Worker, Execute(w) \/ PublishBlock(w) \/ WorkerError(w)
      PROVE  UNCHANGED <<stored, expires>>
  BY <1>1 DEF Execute, PublishBlock, WorkerError, engine, redis
<1>2. ASSUME NEW m \in Msg, EngineStep(m) \/ RouteError(m) \/ ExpireKey(m)
      PROVE  UNCHANGED <<stored, expires>> \/ StorePayload(m)
  BY <1>2 DEF EngineStep, ArmTimer, IndexExpiry, NotifyMobile, AutoExecute,
     AckRoute, RouteError, ExpireKey, redis, engine
<1>3. ASSUME NEW m \in Msg, ListenerStep(m)
      PROVE  UNCHANGED <<stored, expires>>
  BY <1>1, <1>3, WorkerFacts
     DEF ListenerStep, ListenerFetch, ListenerExecute, ListenerPublish, redis, engine
<1>4. ASSUME NEW h \in Handler, MobileExecute(h) \/ MobilePublish(h)
      PROVE  UNCHANGED <<stored, expires>>
  BY <1>1, <1>4, WorkerFacts DEF MobileExecute, MobilePublish
<1>5. CASE ScannerStep
  BY <1>1, <1>5, WorkerFacts
     DEF ScannerStep, ScanRead, ScanFetch, ScanExecute, ScanPublish, ScanClean,
         redis, engine
<1>6. ASSUME NEW h \in Handler, NEW m \in Msg, NEW a \in MobileAction,
             MobileFetch(h, m, a)
      PROVE  UNCHANGED <<stored, expires>>
  BY <1>6 DEF MobileFetch, redis, engine
<1>7. ASSUME NEW S \in SUBSET Msg, EngineRead(S)
      PROVE  UNCHANGED <<stored, expires>>
  BY <1>7 DEF EngineRead, redis
<1>8. CASE Tick \/ EngineCrash \/ ListenerStart \/ ListenerStop \/ ScanAbort
  BY <1>8 DEF Tick, EngineCrash, ListenerStart, ListenerStop, ScanAbort, redis, engine
<1>. QED
  BY <1>1, <1>2, <1>3, <1>4, <1>5, <1>6, <1>7, <1>8 DEF PlaneNext

LEMMA PayloadStep ==
    ASSUME TypeOK, WriterTypeOK, RecordInv, PayloadKeptUntilRow,
           [WriterNext]_systemVars
    PROVE  PayloadKeptUntilRow'
<1>1. rows \subseteq rows'
  <2>1. ASSUME phase = "insert", InsertRows
        PROVE  rows \subseteq rows'
    BY <2>1, InsertKeepsOrder DEF RecordInv
  <2>. QED
    BY <2>1 DEF WriterNext, WriterStep, CreateGroup, CreateGroupLate, WriterRead,
       InsertBatch, CleanBatch, AckBatch, WriterFail, systemVars, writer
<1>2. ASSUME NEW x \in Msg, StorePayload(x)
      PROVE  PayloadKeptUntilRow'
  <2>1. /\ stored' = (stored \ SameKey(x)) \cup {x}
        /\ expires' = [expires EXCEPT ![x] = now + DecisionTimeout]
    BY <1>2 DEF StorePayload
  <2>2. ASSUME NEW m \in High, expires'[m] # 0
        PROVE  stored' \cap SameKey(m) # {} \/ Recorded(IdOf[KeyOf[m]])'
    <3>1. m \in Msg
      BY PlaneAssumption
    <3>2. CASE KeyOf[m] = KeyOf[x]
      BY <2>1, <3>2 DEF SameKey
    <3>3. CASE KeyOf[m] # KeyOf[x]
      <4>1. expires[m] # 0
        BY <2>1, <2>2, <3>1, <3>3 DEF TypeOK
      <4>2. stored \cap SameKey(m) \subseteq stored' \cap SameKey(m)
        BY <2>1, <3>3 DEF SameKey
      <4>. QED  BY <1>1, <4>1, <4>2 DEF PayloadKeptUntilRow, Recorded
    <3>. QED  BY <3>2, <3>3
  <2>. QED  BY <2>2 DEF PayloadKeptUntilRow, SameKey
<1>3. CASE CleanBatch
  <2>1. /\ UNCHANGED <<expires, rows>>
        /\ phase = "clean"
        /\ stored' = {m \in stored :
             ~ (Legacy(m) /\ \E r \in inflight : IdOf[r.key] = IdOf[KeyOf[m]])}
    BY <1>3 DEF CleanBatch, engine
  <2>2. ASSUME NEW m \in High, expires[m] # 0
        PROVE  stored' \cap SameKey(m) # {} \/ Recorded(IdOf[KeyOf[m]])
    <3>1. SUFFICES ASSUME NEW x \in stored \cap SameKey(m), x \notin stored'
                   PROVE  Recorded(IdOf[KeyOf[m]])
      BY <2>2 DEF PayloadKeptUntilRow
    <3>2. PICK r \in inflight : IdOf[r.key] = IdOf[KeyOf[m]]
      BY <2>1, <3>1 DEF SameKey
    <3>. QED
      BY <2>1, <3>2 DEF RecordInv, BatchRecorded, RecordedBy, SameAlert, Recorded
  <2>. QED  BY <2>1, <2>2 DEF PayloadKeptUntilRow, Recorded, SameKey
<1>4. CASE UNCHANGED <<stored, expires>>
  BY <1>1, <1>4 DEF PayloadKeptUntilRow, Recorded, SameKey
<1>5. \/ UNCHANGED <<stored, expires>> \/ CleanBatch
      \/ \E x \in Msg : StorePayload(x)
  BY PlanePayloads
     DEF WriterNext, WriterStep, CreateGroup, CreateGroupLate, WriterRead,
         InsertBatch, AckBatch, WriterFail, systemVars, vars, redis, engine
<1>. QED  BY <1>2, <1>3, <1>4, <1>5

\* The payload of a severe alert stays in the hash until the database holds a
\* decision on the alert, whichever calls of the writer fail on the way.
THEOREM PayloadsKept == WriterSpec => []PayloadKeptUntilRow
<1>1. WriterInit => PayloadKeptUntilRow
  BY PlaneAssumption DEF WriterInit, Init, PayloadKeptUntilRow
<1>2. TypeOK /\ WriterTypeOK /\ WriterTypeOK' /\ RecordInv /\ [WriterNext]_systemVars
        => RecordInv'
  BY RecordStep
<1>3. TypeOK /\ WriterTypeOK /\ RecordInv /\ PayloadKeptUntilRow
        /\ [WriterNext]_systemVars => PayloadKeptUntilRow'
  BY PayloadStep
<1>. QED
  BY <1>1, <1>2, <1>3, RecordInit, WriterType, WriterKeepsPlane, TypeCorrect, PTL
     DEF WriterSpec, PlaneSpec

-----------------------------------------------------------------------------
(* One row for an alert, of the first decision on it.                      *)

UniqueRows == \A r, q \in rows : SameAlert(r, q) => r = q

\* Without a failure every entry that was delivered has been copied, or is about to be.
Copied ==
    \A q \in delivered \ skipped : Recorded(IdOf[q.key]) \/ (phase = "insert" /\ q \in inflight)

FirstRows == \A r \in rows, q \in logs \ skipped : SameAlert(r, q) => r.at <= q.at

FirstInv == UniqueRows /\ (writerFaults = 0 => Copied /\ FirstRows)

LEMMA InsertKeepsFirst ==
    ASSUME WriterTypeOK, InOrder, phase = "insert", InsertRows, UniqueRows
    PROVE  /\ UniqueRows'
           /\ Copied /\ FirstRows =>
                /\ \A q \in delivered \ skipped : Recorded(IdOf[q.key])'
                /\ \A r \in rows', q \in logs \ skipped : SameAlert(r, q) => r.at <= q.at
<1>1. PICK N \in SUBSET {r \in inflight : ~ Recorded(IdOf[r.key])} :
        /\ \A r \in inflight : ~ Recorded(IdOf[r.key]) =>
             \E n \in N : SameAlert(n, r) /\ n.at <= r.at
        /\ \A n, r \in N : SameAlert(n, r) => n = r
        /\ rows' = rows \cup N
  BY DEF InsertRows
<1>2. \A r \in rows, n \in N : ~ SameAlert(r, n) /\ ~ SameAlert(n, r)
  BY <1>1 DEF Recorded, SameAlert
<1>3. UniqueRows'
  <2>1. \A r, q \in rows' : SameAlert(r, q) => r = q
    BY <1>1, <1>2 DEF UniqueRows
  <2>. QED
    BY <2>1 DEF UniqueRows, SameAlert
<1>4. ASSUME Copied, NEW q \in delivered \ skipped
      PROVE  Recorded(IdOf[q.key])'
  <2>1. CASE Recorded(IdOf[q.key])
    BY <1>1, <2>1 DEF Recorded
  <2>2. CASE ~ Recorded(IdOf[q.key])
    BY <1>1, <1>4, <2>2 DEF Copied, Recorded, SameAlert
  <2>. QED  BY <2>1, <2>2
<1>5. ASSUME Copied, FirstRows, NEW r \in rows', NEW q \in logs \ skipped, SameAlert(r, q)
      PROVE  r.at <= q.at
  <2>1. CASE r \in rows
    BY <1>5, <2>1 DEF FirstRows
  <2>2. CASE r \in N /\ q \in Unread
    BY <1>1, <2>2 DEF InOrder, WriterTypeOK
  <2>3. CASE r \in N /\ q \in delivered
    <3>1. ~ Recorded(IdOf[q.key]) /\ q \in inflight
      BY <1>1, <1>5, <2>3 DEF Copied, SameAlert
    <3>2. PICK n \in N : SameAlert(n, q) /\ n.at <= q.at
      BY <1>1, <3>1
    <3>3. n = r
      BY <1>1, <1>5, <2>3, <3>2 DEF SameAlert
    <3>. QED  BY <3>2, <3>3
  <2>. QED
    BY <1>1, <1>5, <2>1, <2>2, <2>3 DEF Unread
<1>. QED  BY <1>3, <1>4, <1>5

LEMMA FirstStep ==
    ASSUME TypeOK, WriterTypeOK, WriterTypeOK', RecordInv, FirstInv, [WriterNext]_systemVars
    PROVE  FirstInv'
<1> USE DEF FirstInv
<1>o. InOrder
  BY DEF RecordInv
<1>f. WriterFault => writerFaults' # 0
  BY DEF WriterFault, WriterTypeOK
<1>1. CASE PlaneNext /\ UNCHANGED writer
  <2>1. logs \subseteq logs' /\ \A r \in logs' : r \in logs \/ r.at = now
    BY <1>1, PlaneAdds
  <2>2. UNCHANGED <<delivered, skipped, rows, phase, inflight, writerFaults>>
    BY <1>1 DEF writer, cursor
  <2>3. FirstRows => FirstRows'
    BY <1>o, <2>1, <2>2 DEF FirstRows, SameAlert, InOrder, WriterTypeOK
  <2>. QED
    BY <2>2, <2>3 DEF UniqueRows, Copied, Recorded, SameAlert
<1>2. CASE CreateGroup
  <2>1. /\ delivered' = logs /\ skipped' = logs
        /\ UNCHANGED <<logs, rows, writerFaults>>
    BY <1>2 DEF CreateGroup, vars, redis
  <2>. QED
    BY <2>1 DEF UniqueRows, Copied, FirstRows, SameAlert
<1>3. ASSUME NEW S \in SUBSET Unread, WriterRead(S)
      PROVE  FirstInv'
  <2>1. /\ delivered' = delivered \cup S /\ inflight' = S /\ phase = "idle" /\ phase' = "insert"
        /\ UNCHANGED <<logs, rows, skipped, writerFaults>>
    BY <1>3 DEF WriterRead, vars, redis
  <2>2. Copied => Copied'
    BY <2>1 DEF Copied, Recorded
  <2>. QED
    BY <2>1, <2>2 DEF UniqueRows, FirstRows, SameAlert
<1>4. CASE InsertBatch
  <2>1. /\ phase = "insert" /\ InsertRows
        /\ UNCHANGED <<logs, delivered, skipped, inflight, writerFaults>>
    BY <1>4 DEF InsertBatch, vars, redis, cursor
  <2>2. UniqueRows'
    BY <1>o, <2>1, InsertKeepsFirst
  <2>3. Copied /\ FirstRows => Copied'
    BY <1>o, <2>1, InsertKeepsFirst DEF Copied
  <2>4. Copied /\ FirstRows => FirstRows'
    BY <1>o, <2>1, InsertKeepsFirst DEF FirstRows, SameAlert
  <2>. QED  BY <2>1, <2>2, <2>3, <2>4
<1>5. CASE CleanBatch \/ AckBatch
  <2>1. /\ phase # "insert" /\ UNCHANGED <<logs, delivered, skipped, rows, writerFaults>>
    BY <1>5 DEF CleanBatch, AckBatch, vars, redis, cursor
  <2>. QED
    BY <2>1 DEF UniqueRows, Copied, FirstRows, Recorded, SameAlert
<1>6. CASE WriterFail
  <2>1. /\ WriterFault
        /\ UNCHANGED rows \/ (phase = "insert" /\ InsertRows)
    BY <1>6 DEF WriterFail
  <2>2. UniqueRows'
    <3>1. CASE UNCHANGED rows
      BY <3>1 DEF UniqueRows, SameAlert
    <3>2. CASE phase = "insert" /\ InsertRows
      BY <1>o, <3>2, InsertKeepsFirst
    <3>. QED  BY <2>1, <3>1, <3>2
  <2>. QED  BY <1>f, <2>1, <2>2
<1>7. CASE CreateGroupLate
  <2>1. WriterFault /\ UNCHANGED rows
    BY <1>7 DEF CreateGroupLate
  <2>. QED  BY <1>f, <2>1 DEF UniqueRows, SameAlert
<1>8. CASE UNCHANGED systemVars
  <2>1. UNCHANGED <<logs, delivered, skipped, rows, phase, inflight, writerFaults>>
    BY <1>8 DEF systemVars, vars, redis, writer, cursor
  <2>. QED
    BY <2>1 DEF UniqueRows, Copied, FirstRows, Recorded, SameAlert
<1>. QED
  BY <1>1, <1>2, <1>3, <1>4, <1>5, <1>6, <1>7, <1>8 DEF WriterNext, WriterStep

LEMMA FirstStart == WriterInit => FirstInv
BY DEF WriterInit, Init, FirstInv, UniqueRows, Copied, FirstRows

\* The audit log never has two rows for an alert, and while nothing fails the row is that
\* of the first decision the writer was given (decision_log_writer.py:37-62), for every
\* batch size: the batches follow the stream, and what is delivered is copied before more
\* is read.
THEOREM FirstKept == WriterSpec => []FirstDecisionKept
<1>1. TypeOK /\ WriterTypeOK /\ WriterTypeOK' /\ RecordInv /\ [WriterNext]_systemVars
        => RecordInv'
  BY RecordStep
<1>2. TypeOK /\ WriterTypeOK /\ WriterTypeOK' /\ RecordInv /\ FirstInv /\ [WriterNext]_systemVars
        => FirstInv'
  BY FirstStep
<1>3. FirstInv => FirstDecisionKept
  BY DEF FirstInv, UniqueRows, FirstRows, FirstDecisionKept
<1>. QED
  BY <1>1, <1>2, <1>3, RecordInit, FirstStart, WriterType, WriterKeepsPlane, TypeCorrect, PTL
     DEF WriterSpec, PlaneSpec

\* With the log writer deleting payloads under the plane's hands, rulings stay apart, no
\* block is without cause or lost (decision_log_writer.py:90-99, lua_scripts.py:47-60), and
\* the ledger is implemented, for any number of writers' batches and faults.
THEOREM PlaneKept == WriterSpec => [](RulingsApart /\ OrdersBacked /\ NoSilentLoss) /\ LedgerSpec
BY WriterKeepsPlane, Idempotent, NoBlockWithoutCause, NothingLost, KeepsLedger, PTL DEF PlaneSpec

\* The deadline and the net of an alert, for alerts with ids of their own: the writer
\* deletes no payload that the listener or the scanner still needs.
THEOREM AlertsKept ==
    /\ UniqueKeys => (WriterSpec => []WindowHonoured)
    /\ UniqueIds => (WriterSpec => []TrackedUntilRuled)
BY WriterKeepsPlane, WindowKept, NetComplete DEF PlaneSpec
=============================================================================
