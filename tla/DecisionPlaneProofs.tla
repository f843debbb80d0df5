------------------------ MODULE DecisionPlaneProofs ------------------------
(***************************************************************************)
(* Proofs about DecisionPlane, for every set of alerts, keys, tenants and  *)
(* requests, every timeout and time to live, and every bound.              *)
(***************************************************************************)
EXTENDS DecisionPlane, TLAPS

\* The executors are told apart by the first component of their names.
LEMMA WorkerFacts ==
    /\ \A h \in Handler : Mobile(h) \in Worker /\ Mobile(h) \notin TimeoutWorker
    /\ \A m \in Msg : ListenerTask(m) \in Worker /\ ListenerTask(m) \in TimeoutWorker
    /\ Scanner \in Worker /\ Scanner \in TimeoutWorker
    /\ Engine \notin Worker
    /\ \A m, x \in Msg : ListenerTask(m) = ListenerTask(x) => m = x
    /\ \A m \in Msg : ListenerTask(m) # Scanner
BY DEF Worker, TimeoutWorker, MobileWorker, ListenerWorker, Mobile,
       ListenerTask, Scanner, Engine

LEMMA IdleType == Idle \in Task /\ Spawned \in Task
BY PlaneAssumption DEF Idle, Spawned, Task, TaskRecord, Verdict

LEMMA TaskFacts ==
    /\ \A x \in Msg : [Idle EXCEPT !.pc = "exec", !.src = x] \in Task
    /\ \A m \in Msg, a \in MobileAction :
          [pc |-> "exec", src |-> m, act |-> a, at |-> 0] \in Task
BY PlaneAssumption DEF Idle, Task, TaskRecord, Verdict

\* What a task still owes after a ruling is a task.
LEMMA AfterRulingType ==
    ASSUME TypeOK, NEW t \in Task, t.pc = "exec"
    PROVE  AfterRuling(t) \in Task
<1>1. CASE t.act \in Blocking
  BY <1>1 DEF AfterRuling, Task, TaskRecord, TypeOK
<1>2. CASE t.act \notin Blocking
  BY <1>2, IdleType DEF AfterRuling
<1>. QED  BY <1>1, <1>2

\* The script and what it leaves the worker to do respect the types.
LEMMA ExecuteType ==
    ASSUME TypeOK, NEW w \in Worker, Execute(w)
    PROVE  TypeOK'
<1> DEFINE t == task[w]
           k == KeyOf[t.src]
<1>1. t \in Task /\ t.pc = "exec"
  BY DEF TypeOK, Execute
<1>2. t.src \in Msg /\ k \in Key /\ t.act \in Verdict
  BY <1>1, PlaneAssumption DEF Task, TaskRecord
<1>3. CASE Executed(k)
  BY <1>3, IdleType DEF Execute, ExecuteDecision, TypeOK, engine, scan
<1>4. CASE ~ Executed(k)
  <2>1. AfterRuling(t) \in Task
    BY <1>1, AfterRulingType
  <2>2. [key |-> k, act |-> t.act, by |-> w, at |-> now] \in Ruling
    BY <1>2 DEF Ruling, TypeOK
  <2>3. /\ executed' = [executed EXCEPT ![k] = now + ExecutedTTL]
        /\ logs' = logs \cup {[key |-> k, act |-> t.act, by |-> w, at |-> now]}
        /\ pending' = [x \in Msg |-> IF x \in SameKey(t.src) THEN 0 ELSE pending[x]]
        /\ index' = [index EXCEPT ![k] = 0]
        /\ task' = [task EXCEPT ![w] = AfterRuling(t)]
    BY <1>4 DEF Execute, ExecuteDecision
  <2>4. now + ExecutedTTL \in Nat
    BY PlaneAssumption DEF TypeOK
  <2>5. UNCHANGED <<now, stage, expires, stored, blocks, notified, batch,
                    todo, listening, faults>>
    BY DEF Execute, engine, scan
  <2>. QED  BY <2>1, <2>2, <2>3, <2>4, <2>5 DEF TypeOK
<1>. QED  BY <1>3, <1>4

\* So does the block command that it may be left with.
LEMMA PublishType ==
    ASSUME TypeOK, NEW w \in Worker, PublishBlock(w)
    PROVE  TypeOK'
<1>1. [src |-> task[w].src, by |-> w, at |-> task[w].at] \in Command
  BY DEF PublishBlock, TypeOK, Task, TaskRecord, Command
<1>. QED  BY <1>1, IdleType DEF PublishBlock, TypeOK, engine, scan

LEMMA InitType == Init => TypeOK
<1> SUFFICES ASSUME Init PROVE TypeOK
  OBVIOUS
<1>1. task \in [Worker -> Task]
  BY IdleType DEF Init
<1>2. stage \in [Msg -> Stage]
  BY DEF Init, Stage
<1>. QED  BY <1>1, <1>2 DEF Init, TypeOK

LEMMA TypeStep == TypeOK /\ [Next]_vars => TypeOK'
<1> SUFFICES ASSUME TypeOK, [Next]_vars
             PROVE  TypeOK'
  OBVIOUS
<1>1. CASE Tick
  BY <1>1 DEF Tick, TypeOK, engine, redis, scan
<1>2. ASSUME NEW S \in SUBSET Msg, EngineRead(S)
      PROVE  TypeOK'
  BY <1>2 DEF EngineRead, TypeOK, Stage, InHand, redis, scan
<1>3. ASSUME NEW m \in Msg, EngineStep(m)
      PROVE  TypeOK'
  <2>1. CASE StorePayload(m)
    BY PlaneAssumption, <2>1 DEF StorePayload, TypeOK, Stage, InHand, Routing, scan
  <2>2. CASE ArmTimer(m)
    BY PlaneAssumption, <2>2 DEF ArmTimer, TypeOK, Stage, InHand, Routing, scan
  <2>3. CASE IndexExpiry(m)
    BY PlaneAssumption, <2>3 DEF IndexExpiry, TypeOK, Stage, InHand, Routing, scan
  <2>4. CASE NotifyMobile(m)
    BY <2>4 DEF NotifyMobile, TypeOK, Stage, InHand, Routing, scan
  <2>5. CASE AutoExecute(m)
    BY <2>5 DEF AutoExecute, TypeOK, Command, Stage, InHand, Routing, scan
  <2>6. CASE AckRoute(m)
    BY <2>6 DEF AckRoute, TypeOK, Stage, redis, scan
  <2>. QED  BY <1>3, <2>1, <2>2, <2>3, <2>4, <2>5, <2>6 DEF EngineStep
<1>4. ASSUME NEW m \in Msg, RouteError(m)
      PROVE  TypeOK'
  BY <1>4 DEF RouteError, Fault, TypeOK, Stage, redis, scan
<1>5. CASE EngineCrash
  BY <1>5 DEF EngineCrash, Fault, TypeOK, Stage, redis, scan
<1>6. ASSUME NEW h \in Handler, NEW m \in Msg, NEW a \in MobileAction,
             MobileFetch(h, m, a)
      PROVE  TypeOK'
  BY <1>6, TaskFacts, WorkerFacts DEF MobileFetch, TypeOK, engine, redis, scan
<1>7. ASSUME NEW h \in Handler, MobileExecute(h) \/ MobilePublish(h)
      PROVE  TypeOK'
  BY <1>7, WorkerFacts, ExecuteType, PublishType DEF MobileExecute, MobilePublish
<1>8. ASSUME NEW m \in Msg, ExpireKey(m)
      PROVE  TypeOK'
  BY <1>8, IdleType, WorkerFacts DEF ExpireKey, TypeOK, engine, scan
<1>9. ASSUME NEW m \in Msg, ListenerStep(m)
      PROVE  TypeOK'
  <2>1. CASE ListenerFetch(m)
    <3>1. ASSUME NEW x \in stored,
                 task' = [task EXCEPT ![ListenerTask(m)] =
                            [Idle EXCEPT !.pc = "exec", !.src = x]]
          PROVE  task' \in [Worker -> Task]
      BY <3>1, TaskFacts DEF TypeOK
    <3>2. task' \in [Worker -> Task]
      BY <2>1, <3>1, IdleType DEF ListenerFetch, TypeOK
    <3>. QED  BY <2>1, <3>2 DEF ListenerFetch, TypeOK, engine, redis, scan
  <2>. QED
    BY <1>9, <2>1, WorkerFacts, ExecuteType, PublishType
       DEF ListenerStep, ListenerExecute, ListenerPublish
<1>10. CASE ListenerStart
  BY <1>10 DEF ListenerStart, TypeOK, engine, redis, scan
<1>11. CASE ListenerStop
  <2>1. task' \in [Worker -> Task]
    BY <1>11, IdleType DEF ListenerStop, TypeOK
  <2>2. /\ Fault /\ listening' = FALSE
        /\ UNCHANGED <<now, engine, redis, scan>>
    BY <1>11, Zenon DEF ListenerStop
  <2>3. listening' \in BOOLEAN
    BY <2>2, Zenon
  <2>4. faults' \in Nat
    BY <2>2 DEF Fault, TypeOK
  <2>5. UNCHANGED <<now, stage, expires, stored, pending, index, executed,
                    logs, blocks, notified, batch, todo>>
    BY <2>2 DEF engine, redis, scan
  <2>. QED  BY <2>1, <2>3, <2>4, <2>5 DEF TypeOK
<1>12. CASE ScannerStep
  <2>1. ASSUME NEW t \in Tenant \cup {NoTenant}, ScanRead(t)
        PROVE  TypeOK'
    BY <2>1 DEF ScanRead, Expired, TypeOK, engine, redis, scan
  <2>2. ASSUME NEW k \in Key, ScanFetch(k)
        PROVE  TypeOK'
    <3>1. task' \in [Worker -> Task]
      <4>1. CASE UNCHANGED task
        BY <4>1 DEF TypeOK
      <4>2. ASSUME NEW x \in stored,
                   task' = [task EXCEPT ![Scanner] =
                              [Idle EXCEPT !.pc = "exec", !.src = x]]
            PROVE  task' \in [Worker -> Task]
        BY <4>2, TaskFacts DEF TypeOK
      <4>. QED  BY <2>2, <4>1, <4>2 DEF ScanFetch
    <3>. QED  BY <2>2, <3>1 DEF ScanFetch, TypeOK, engine, redis
  <2>3. CASE ScanClean
    BY <2>3 DEF ScanClean, TypeOK, engine, scan
  <2>. QED
    BY <1>12, <2>1, <2>2, <2>3, WorkerFacts, ExecuteType, PublishType
       DEF ScannerStep, ScanExecute, ScanPublish
<1>13. CASE ScanAbort
  BY <1>13, IdleType, WorkerFacts DEF ScanAbort, Fault, TypeOK, engine, redis, scan
<1>14. ASSUME NEW w \in Worker, WorkerError(w)
       PROVE  TypeOK'
  BY <1>14, IdleType DEF WorkerError, Fault, TypeOK, engine, redis, scan
<1>15. ASSUME NEW S \in SUBSET Msg, CleanPayload(S)
       PROVE  TypeOK'
  BY <1>15 DEF CleanPayload, TypeOK, engine, scan
<1>16. CASE UNCHANGED vars
  BY <1>16 DEF vars, engine, redis, scan, TypeOK
<1>. QED
  BY <1>1, <1>2, <1>3, <1>4, <1>5, <1>6, <1>7, <1>8, <1>9, <1>10, <1>11,
     <1>12, <1>13, <1>14, <1>15, <1>16 DEF Next, PlaneNext

\* Every variable keeps to the values that the processes and Redis can give it.
THEOREM TypeCorrect == Spec => []TypeOK
BY InitType, TypeStep, PTL DEF Spec

-----------------------------------------------------------------------------
(***************************************************************************)
(* The idempotency guard and the orders it lets through.  RulingsApart and *)
(* OrdersBacked are not inductive: that a flag which is not set excludes   *)
(* every earlier ruling on its key is GuardInv, and that a worker which is *)
(* about to publish holds a ruling that nobody has acted on is TicketInv.  *)
(***************************************************************************)

\* The flag of a key outlives every ruling on the key.
GuardInv ==
    \A r \in logs : r.at <= now /\ r.at + ExecutedTTL <= executed[r.key]

\* The ruling that worker w holds while it has a block command to publish.
Ticket(w) ==
    [key |-> KeyOf[task[w].src], act |-> task[w].act, by |-> w, at |-> task[w].at]

TicketInv ==
    \A w \in Worker : task[w].pc = "publish" =>
        /\ Ticket(w) \in logs
        /\ Ticket(w).act \in Blocking
        /\ \A o \in blocks : ~ Enforces(o, Ticket(w))

\* The engine publishes for an alert once: it moves on as it does.
Routed == {"ack", "done", "stuck"}
AutoInv == \A o \in blocks : o.by = Engine => stage[o.src] \in Routed

IInv == TypeOK /\ GuardInv /\ RulingsApart /\ TicketInv /\ OrdersBacked /\ AutoInv

\* A step that rules on nothing and orders nothing.
Quiet ==
    /\ now' = now \/ now' = now + 1
    /\ UNCHANGED <<executed, logs, blocks>>
    /\ \A w \in Worker : task'[w].pc = "publish" => task'[w] = task[w]
    /\ \A m \in Msg : stage[m] \in Routed => stage'[m] \in Routed

\* Every step is quiet, a run of the script, a block command of its executor or
\* one of the engine's own.
LEMMA StepKinds ==
    ASSUME TypeOK, [Next]_vars
    PROVE  \/ Quiet
           \/ \E w \in Worker : Execute(w) \/ PublishBlock(w)
           \/ \E m \in Msg : AutoExecute(m)
<1> USE DEF Quiet
<1>1. CASE Tick
  BY <1>1 DEF Tick, TypeOK, engine, redis, scan
<1>2. ASSUME NEW S \in SUBSET Msg, EngineRead(S)
      PROVE  Quiet
  BY <1>2 DEF EngineRead, TypeOK, redis, scan, Routed
<1>3. ASSUME NEW m \in Msg, EngineStep(m)
      PROVE  Quiet \/ AutoExecute(m)
  <2>1. CASE StorePayload(m)
    BY <2>1 DEF StorePayload, Starts, TypeOK, Routed, scan
  <2>2. CASE ArmTimer(m)
    BY <2>2 DEF ArmTimer, TypeOK, Routed, scan
  <2>3. CASE IndexExpiry(m)
    BY <2>3 DEF IndexExpiry, TypeOK, Routed, scan
  <2>4. CASE NotifyMobile(m)
    BY <2>4 DEF NotifyMobile, TypeOK, Routed, scan
  <2>5. CASE AckRoute(m)
    BY <2>5 DEF AckRoute, TypeOK, Routed, redis, scan
  <2>. QED  BY <1>3, <2>1, <2>2, <2>3, <2>4, <2>5 DEF EngineStep
<1>4. ASSUME NEW m \in Msg, RouteError(m)
      PROVE  Quiet
  BY <1>4 DEF RouteError, TypeOK, Routed, redis, scan
<1>5. CASE EngineCrash
  BY <1>5 DEF EngineCrash, TypeOK, Routed, redis, scan
<1>6. ASSUME NEW h \in Handler, NEW m \in Msg, NEW a \in MobileAction,
             MobileFetch(h, m, a)
      PROVE  Quiet
  BY <1>6, WorkerFacts DEF MobileFetch, TypeOK, engine, redis, scan
<1>7. ASSUME NEW m \in Msg, ExpireKey(m)
      PROVE  Quiet
  BY <1>7, WorkerFacts DEF ExpireKey, Spawned, Idle, TypeOK, engine, scan
<1>8. ASSUME NEW m \in Msg, ListenerFetch(m)
      PROVE  Quiet
  <2>1. ASSUME NEW t, t.pc # "publish",
               task' = [task EXCEPT ![ListenerTask(m)] = t]
        PROVE  \A w \in Worker : task'[w].pc = "publish" => task'[w] = task[w]
    BY <2>1 DEF TypeOK
  <2>2. ASSUME NEW x \in Msg
        PROVE  [Idle EXCEPT !.pc = "exec", !.src = x].pc # "publish"
    BY DEF Idle
  <2>3. Idle.pc # "publish"
    BY DEF Idle
  <2>4. \A w \in Worker : task'[w].pc = "publish" => task'[w] = task[w]
    <3>1. CASE \E x \in stored \cap SameKey(m) :
                 task' = [task EXCEPT ![ListenerTask(m)] =
                            [Idle EXCEPT !.pc = "exec", !.src = x]]
      BY <2>1, <2>2, <3>1 DEF TypeOK
    <3>2. CASE task' = [task EXCEPT ![ListenerTask(m)] = Idle]
      BY <2>1, <2>3, <3>2
    <3>. QED  BY <1>8, <3>1, <3>2 DEF ListenerFetch
  <2>5. UNCHANGED <<now, engine, redis>>
    BY <1>8 DEF ListenerFetch
  <2>. QED  BY <2>4, <2>5 DEF TypeOK, engine, redis
<1>9. CASE ListenerStart
  BY <1>9 DEF ListenerStart, engine, redis, scan
<1>10. CASE ListenerStop
  BY <1>10 DEF ListenerStop, Idle, engine, redis, scan
<1>11. ASSUME NEW t \in Tenant \cup {NoTenant}, ScanRead(t)
       PROVE  Quiet
  BY <1>11 DEF ScanRead, engine, redis
<1>12. ASSUME NEW k \in Key, ScanFetch(k)
       PROVE  Quiet
  BY <1>12, WorkerFacts DEF ScanFetch, Idle, TypeOK, engine, redis
<1>13. CASE ScanClean
  BY <1>13 DEF ScanClean, engine
<1>14. CASE ScanAbort
  BY <1>14, WorkerFacts DEF ScanAbort, Idle, TypeOK, engine, redis
<1>15. ASSUME NEW w \in Worker, WorkerError(w)
       PROVE  Quiet
  BY <1>15 DEF WorkerError, Idle, TypeOK, engine, redis, scan
<1>16. ASSUME NEW S \in SUBSET Msg, CleanPayload(S)
       PROVE  Quiet
  BY <1>16 DEF CleanPayload, engine, scan
<1>17. CASE UNCHANGED vars
  BY <1>17 DEF vars, engine, redis, scan
<1>18. ASSUME NEW h \in Handler, MobileExecute(h) \/ MobilePublish(h)
       PROVE  \E w \in Worker : Execute(w) \/ PublishBlock(w)
  BY <1>18, WorkerFacts DEF MobileExecute, MobilePublish
<1>19. ASSUME NEW m \in Msg, ListenerStep(m)
       PROVE  Quiet \/ \E w \in Worker : Execute(w) \/ PublishBlock(w)
  BY <1>19, <1>8, WorkerFacts DEF ListenerStep, ListenerExecute, ListenerPublish
<1>20. CASE ScannerStep
  BY <1>20, <1>11, <1>12, <1>13, WorkerFacts
     DEF ScannerStep, ScanExecute, ScanPublish
<1> HIDE DEF Quiet
<1>. QED
  BY <1>1, <1>2, <1>3, <1>4, <1>5, <1>6, <1>7, <1>9, <1>10, <1>14, <1>15,
     <1>16, <1>17, <1>18, <1>19, <1>20 DEF Next, PlaneNext

LEMMA QuietInv ==
    ASSUME IInv, TypeOK', Quiet
    PROVE  IInv'
<1> USE DEF IInv
<1>1. GuardInv'
  BY PlaneAssumption DEF GuardInv, Quiet, TypeOK, Ruling
<1>2. RulingsApart' /\ OrdersBacked'
  BY DEF RulingsApart, OrdersBacked, Enforces, Quiet
<1>3. TicketInv'
  BY DEF TicketInv, Ticket, Enforces, Quiet, TypeOK
<1>4. AutoInv'
  BY DEF AutoInv, Quiet, TypeOK, Command
<1>. QED  BY <1>1, <1>2, <1>3, <1>4

\* A ruling excludes another on its key, and leaves its worker a fresh ticket.
LEMMA ExecuteInv ==
    ASSUME IInv, TypeOK', NEW w \in Worker, Execute(w)
    PROVE  IInv'
<1> DEFINE t == task[w]
           k == KeyOf[t.src]
           new == [key |-> k, act |-> t.act, by |-> w, at |-> now]
<1>1. /\ t \in Task /\ t.pc = "exec" /\ t.src \in Msg
      /\ k \in Key /\ t.act \in Verdict /\ now \in Nat
  BY PlaneAssumption DEF IInv, TypeOK, Execute, Task, TaskRecord
<1>2. UNCHANGED <<now, stage, blocks>>
  BY DEF Execute, engine
<1>3. CASE Executed(k)
  <2>1. UNCHANGED <<executed, logs>> /\ task' = [task EXCEPT ![w] = Idle]
    BY <1>3 DEF Execute, ExecuteDecision
  <2>2. Quiet
    BY <1>2, <2>1 DEF Quiet, IInv, TypeOK, Idle
  <2>. QED  BY <2>2, QuietInv
<1>4. CASE ~ Executed(k)
  <2>1. /\ executed' = [executed EXCEPT ![k] = now + ExecutedTTL]
        /\ logs' = logs \cup {new}
        /\ task' = [task EXCEPT ![w] = AfterRuling(t)]
    BY <1>4 DEF Execute, ExecuteDecision
  <2>2. \A r \in logs : r.key = k => r.at + ExecutedTTL <= now
    <3>1. ~ (now < executed[k]) /\ executed[k] \in Nat
      BY <1>1, <1>4 DEF Executed, IInv, TypeOK
    <3>. QED
      BY <1>1, <3>1, PlaneAssumption DEF IInv, GuardInv, TypeOK, Ruling
  <2>3. GuardInv'
    BY <1>1, <1>2, <2>1, <2>2, PlaneAssumption
       DEF IInv, GuardInv, TypeOK, Ruling
  <2>4. RulingsApart'
    BY <2>1, <2>2 DEF IInv, RulingsApart
  <2>5. OrdersBacked'
    BY <1>2, <2>1 DEF IInv, OrdersBacked, Enforces
  <2>6. AutoInv'
    BY <1>2 DEF IInv, AutoInv
  <2>7. ASSUME NEW v \in Worker, task'[v].pc = "publish"
        PROVE  /\ Ticket(v)' \in logs'
               /\ Ticket(v)'.act \in Blocking
               /\ \A o \in blocks' : ~ Enforces(o, Ticket(v)')
    <3>1. CASE v # w
      BY <1>2, <2>1, <2>7, <3>1 DEF IInv, TicketInv, Ticket, TypeOK
    <3>2. CASE v = w
      <4>1. task'[w] = AfterRuling(t)
        BY <2>1 DEF IInv, TypeOK
      <4>2. t.act \in Blocking /\ task'[w] = [t EXCEPT !.pc = "publish", !.at = now]
        BY <2>7, <3>2, <4>1 DEF AfterRuling, Idle
      <4>3. Ticket(w)' = new
        BY <1>1, <4>2 DEF Ticket, Task, TaskRecord
      <4>4. ASSUME NEW o \in blocks, Enforces(o, new)
            PROVE  FALSE
        <5>1. o.by = w /\ o.at = now /\ KeyOf[o.src] = k
          BY <4>4 DEF Enforces
        <5>2. PICK r \in logs : Enforces(o, r)
          BY <5>1, WorkerFacts DEF IInv, OrdersBacked
        <5>3. r.at = now /\ r.key = k
          BY <5>1, <5>2 DEF Enforces
        <5>. QED  BY <1>1, <2>2, <5>3, PlaneAssumption
      <4>. QED  BY <1>2, <2>1, <3>2, <4>2, <4>3, <4>4
    <3>. QED  BY <3>1, <3>2
  <2>8. TicketInv'
    BY <2>7 DEF TicketInv
  <2>. QED  BY <2>3, <2>4, <2>5, <2>6, <2>8 DEF IInv
<1>. QED  BY <1>3, <1>4

\* A block command is backed by the ticket it uses up.
LEMMA PublishInv ==
    ASSUME IInv, TypeOK', NEW w \in Worker, PublishBlock(w)
    PROVE  IInv'
<1> DEFINE new == [src |-> task[w].src, by |-> w, at |-> task[w].at]
<1>1. /\ blocks' = blocks \cup {new}
      /\ task' = [task EXCEPT ![w] = Idle]
      /\ UNCHANGED <<now, stage, executed, logs>>
  BY DEF PublishBlock, engine
<1>2. Ticket(w) \in logs /\ Ticket(w).act \in Blocking
  BY DEF PublishBlock, IInv, TicketInv
<1>3. Enforces(new, Ticket(w))
  BY DEF Enforces, Ticket
<1>4. GuardInv' /\ RulingsApart'
  BY <1>1 DEF IInv, GuardInv, RulingsApart
<1>5. OrdersBacked'
  BY <1>1, <1>2, <1>3 DEF IInv, OrdersBacked, Enforces
<1>6. AutoInv'
  BY <1>1, WorkerFacts DEF IInv, AutoInv
<1>7. ASSUME NEW v \in Worker, task'[v].pc = "publish"
      PROVE  /\ Ticket(v)' \in logs'
             /\ Ticket(v)'.act \in Blocking
             /\ \A o \in blocks' : ~ Enforces(o, Ticket(v)')
  <2>1. v # w /\ task'[v] = task[v]
    BY <1>1, <1>7 DEF IInv, TypeOK, Idle
  <2>2. ~ Enforces(new, Ticket(v))
    BY <2>1 DEF Enforces, Ticket
  <2>3. Ticket(v)' = Ticket(v)
    BY <2>1 DEF Ticket
  <2>. QED  BY <1>1, <1>7, <2>1, <2>2, <2>3 DEF IInv, TicketInv
<1>8. TicketInv'
  BY <1>7 DEF TicketInv
<1>. QED  BY <1>4, <1>5, <1>6, <1>8 DEF IInv

\* The engine's own block command touches no ticket.
LEMMA AutoInvStep ==
    ASSUME IInv, TypeOK', NEW m \in Msg, AutoExecute(m)
    PROVE  IInv'
<1> DEFINE new == [src |-> m, by |-> Engine, at |-> now]
<1>1. /\ m \notin High
      /\ blocks' = blocks \cup {new}
      /\ stage' = [stage EXCEPT ![m] = "ack"]
      /\ UNCHANGED <<now, executed, logs, task>>
  BY DEF AutoExecute
<1>2. GuardInv' /\ RulingsApart'
  BY <1>1 DEF IInv, GuardInv, RulingsApart
<1>3. OrdersBacked'
  BY <1>1 DEF IInv, OrdersBacked, Enforces
<1>4. AutoInv'
  BY <1>1 DEF IInv, AutoInv, TypeOK, Command, Routed
<1>5. TicketInv'
  BY <1>1, WorkerFacts DEF IInv, TicketInv, Ticket, Enforces
<1>. QED  BY <1>2, <1>3, <1>4, <1>5 DEF IInv

LEMMA Inductive == Spec => []IInv
<1>1. Init => IInv
  <2> SUFFICES ASSUME Init PROVE IInv
    OBVIOUS
  <2>1. TypeOK
    BY InitType
  <2>2. logs = {} /\ blocks = {} /\ \A w \in Worker : task[w].pc = "idle"
    BY DEF Init, Idle
  <2>. QED
    BY <2>1, <2>2 DEF IInv, GuardInv, RulingsApart, TicketInv, OrdersBacked, AutoInv
<1>2. IInv /\ TypeOK' /\ [Next]_vars => IInv'
  BY StepKinds, QuietInv, ExecuteInv, PublishInv, AutoInvStep DEF IInv
<1>. QED  BY <1>1, <1>2, TypeCorrect, PTL DEF Spec

\* Accepted decisions on a key are a life of its executed flag apart, however
\* requests, timeout tasks and the scanner race.
THEOREM Idempotent == Spec => []RulingsApart
<1>1. IInv => RulingsApart
  BY DEF IInv
<1>. QED  BY <1>1, Inductive, PTL

\* No block command without a low-severity alert or an accepted decision to
\* block behind it.
THEOREM NoBlockWithoutCause == Spec => []OrdersBacked
<1>1. IInv => OrdersBacked
  BY DEF IInv
<1>. QED  BY <1>1, Inductive, PTL

-----------------------------------------------------------------------------
(* The control plane implements the ledger.                                *)

LEMMA LedgerStep ==
    ASSUME IInv, [Next]_vars
    PROVE  [Ledger!Next]_(Ledger!ledger)
<1>1. CASE Quiet
  <2>1. CASE now' = now
    BY <1>1, <2>1 DEF Quiet, Ledger!ledger
  <2>2. CASE now' = now + 1
    BY <1>1, <2>2 DEF Quiet, Ledger!Next, Ledger!Advance
  <2>. QED  BY <1>1, <2>1, <2>2 DEF Quiet
<1>2. ASSUME NEW w \in Worker, Execute(w)
      PROVE  [Ledger!Next]_(Ledger!ledger)
  <2> DEFINE t == task[w]
             k == KeyOf[t.src]
  <2>1. UNCHANGED <<now, blocks>>
    BY <1>2 DEF Execute
  <2>2. k \in Key /\ t.act \in Verdict
    BY <1>2, PlaneAssumption DEF IInv, TypeOK, Execute, Task, TaskRecord
  <2>3. CASE Executed(k)
    <3>1. UNCHANGED logs
      BY <1>2, <2>3 DEF Execute, ExecuteDecision
    <3>. QED  BY <2>1, <3>1 DEF Ledger!ledger
  <2>4. CASE ~ Executed(k)
    <3>1. logs' = logs \cup {[key |-> k, act |-> t.act, by |-> w, at |-> now]}
      BY <1>2, <2>4 DEF Execute, ExecuteDecision
    <3>2. \A r \in logs : r.key = k => r.at + ExecutedTTL <= now
      <4>1. executed[k] <= now
        BY <2>2, <2>4 DEF Executed, IInv, TypeOK
      <4>. QED
        BY <2>2, <4>1, PlaneAssumption DEF IInv, GuardInv, TypeOK, Ruling
    <3>3. Ledger!Rule(k, t.act, w)
      BY <2>1, <3>1, <3>2 DEF Ledger!Rule
    <3>. QED  BY <2>2, <3>3 DEF Ledger!Next, Ledger!Verdict, Verdict
  <2>. QED  BY <2>3, <2>4
<1>3. ASSUME NEW w \in Worker, PublishBlock(w)
      PROVE  [Ledger!Next]_(Ledger!ledger)
  <2>1. /\ Ticket(w) \in logs
        /\ Ticket(w).act \in Blocking
        /\ \A o \in blocks : ~ Enforces(o, Ticket(w))
    BY <1>3 DEF PublishBlock, IInv, TicketInv
  <2>2. task[w].src \in Msg
    BY <1>3 DEF PublishBlock, IInv, TypeOK, Task, TaskRecord
  <2>3. Ledger!Enforce(Ticket(w), task[w].src)
    BY <1>3, <2>1 DEF PublishBlock, Ledger!Enforce, Ledger!Enforces,
                      Ledger!Blocking, Blocking, Enforces, Ticket
  <2>. QED  BY <2>1, <2>2, <2>3 DEF Ledger!Next
<1>4. ASSUME NEW m \in Msg, AutoExecute(m)
      PROVE  [Ledger!Next]_(Ledger!ledger)
  <2>1. \A o \in blocks : o.by = Engine => o.src # m
    BY <1>4 DEF AutoExecute, Starts, IInv, AutoInv, Routed
  <2>2. Ledger!AutoOrder(m)
    BY <1>4, <2>1 DEF AutoExecute, Ledger!AutoOrder
  <2>. QED  BY <2>2 DEF Ledger!Next
<1>. QED  BY <1>1, <1>2, <1>3, <1>4, StepKinds DEF IInv

\* Whatever fails, the control plane's log and block stream are a behaviour of
\* DecisionLedger: at most one order for a ruling and for an automatic alert.
THEOREM KeepsLedger == Spec => LedgerSpec
<1>1. Init => Ledger!Init
  BY DEF Init, Ledger!Init
<1>2. IInv /\ [Next]_vars => [Ledger!Next]_(Ledger!ledger)
  BY LedgerStep
<1>. QED  BY <1>1, <1>2, Inductive, PTL DEF Spec, LedgerSpec, Ledger!Spec

-----------------------------------------------------------------------------
(***************************************************************************)
(* The analyst's window.  When decision keys are not shared, every place   *)
(* from which a timeout can start holds the alert's own deadline, or an    *)
(* alert whose deadline has passed.                                        *)
(***************************************************************************)

\* The deadline of alert m has been set and has passed.
Due(m) == expires[m] # 0 /\ expires[m] <= now

NotYetSet == \A m \in Msg : stage[m] \in {"queued", "inbox"} => expires[m] = 0
StoredSet == \A m \in stored : expires[m] # 0
TimerSet  ==
    \A m \in Msg :
        /\ expires[m] <= now + DecisionTimeout
        /\ stage[m] \in {"arm", "index"} => expires[m] # 0
        /\ pending[m] # 0 => expires[m] # 0 /\ expires[m] <= pending[m]
IndexSet  == \A m \in Msg : index[KeyOf[m]] # 0 => index[KeyOf[m]] = expires[m]
TasksDue  ==
    /\ \A m \in Msg : task[ListenerTask(m)].pc = "fetch" => Due(m)
    /\ \A w \in TimeoutWorker : task[w].pc = "exec" => Due(task[w].src)
ScanDue   == todo \subseteq batch /\ \A m \in Msg : KeyOf[m] \in batch => Due(m)

DInv ==
    /\ NotYetSet /\ StoredSet /\ TimerSet /\ IndexSet /\ TasksDue /\ ScanDue
    /\ WindowHonoured

\* A step that starts no timer and no timeout.
Calm ==
    /\ now' \in Nat /\ now <= now'
    /\ UNCHANGED expires
    /\ stored' \subseteq stored
    /\ \A m \in Msg : pending'[m] \in {pending[m], 0}
    /\ \A k \in Key : index'[k] \in {index[k], 0}
    /\ batch' \subseteq batch /\ todo' \subseteq batch'
    /\ \A w \in TimeoutWorker : task'[w].pc \in {"fetch", "exec"} => task'[w] = task[w]
    /\ \A r \in logs' : r.by \in TimeoutWorker => r \in logs
    /\ \A m \in Msg : stage'[m] \in {"queued", "inbox"} => stage[m] \in {"queued", "inbox"}
    /\ \A m \in Msg : stage'[m] \in {"arm", "index"} => stage[m] \in {"arm", "index"}

LEMMA CalmInv ==
    ASSUME TypeOK, TypeOK', DInv, Calm
    PROVE  DInv'
<1>1. \A m \in Msg : Due(m) => Due(m)'
  BY DEF Due, Calm, TypeOK
<1>2. NotYetSet' /\ StoredSet'
  BY DEF DInv, NotYetSet, StoredSet, Calm, TypeOK
<1>3. TimerSet'
  BY PlaneAssumption DEF DInv, TimerSet, Calm, TypeOK
<1>4. IndexSet'
  BY PlaneAssumption DEF DInv, IndexSet, Calm, TypeOK
<1>5. TasksDue'
  <2>1. ASSUME NEW m \in Msg, task'[ListenerTask(m)].pc = "fetch"
        PROVE  Due(m)'
    BY <1>1, <2>1, WorkerFacts DEF DInv, TasksDue, Calm
  <2>2. ASSUME NEW w \in TimeoutWorker, task'[w].pc = "exec"
        PROVE  Due(task[w].src)'
    <3>1. task'[w] = task[w]
      BY <2>2 DEF Calm
    <3>2. w \in Worker /\ task[w].src \in Msg
      BY <2>2, <3>1 DEF Worker, TypeOK, Task, TaskRecord
    <3>. QED  BY <1>1, <2>2, <3>1, <3>2 DEF DInv, TasksDue
  <2>. QED  BY <2>1, <2>2 DEF TasksDue
<1>6. ScanDue'
  BY <1>1 DEF DInv, ScanDue, Calm
<1>7. WindowHonoured'
  BY DEF DInv, WindowHonoured, Calm
<1>. QED  BY <1>2, <1>3, <1>4, <1>5, <1>6, <1>7 DEF DInv

\* Every step is calm or one of those that set a timer or start a timeout.
TimerStep(m) ==
    StorePayload(m) \/ ArmTimer(m) \/ IndexExpiry(m) \/ ExpireKey(m) \/ ListenerFetch(m)
ScanStart ==
    \/ \E t \in Tenant \cup {NoTenant} : ScanRead(t)
    \/ \E k \in Key : ScanFetch(k)
TimeoutRuling == \E w \in TimeoutWorker : Execute(w)

LEMMA CalmKinds ==
    ASSUME TypeOK, TypeOK', DInv, [Next]_vars
    PROVE  Calm \/ (\E m \in Msg : TimerStep(m)) \/ ScanStart \/ TimeoutRuling
<1> USE DEF Calm, DInv, ScanDue
<1>1. CASE Tick
  BY <1>1 DEF Tick, TypeOK, engine, redis, scan
<1>2. ASSUME NEW S \in SUBSET Msg, EngineRead(S)
      PROVE  Calm
  BY <1>2 DEF EngineRead, TypeOK, redis, scan
<1>3. ASSUME NEW m \in Msg, EngineStep(m)
      PROVE  Calm \/ TimerStep(m)
  <2>1. CASE NotifyMobile(m)
    BY <2>1 DEF NotifyMobile, TypeOK, scan
  <2>2. CASE AutoExecute(m)
    BY <2>2, WorkerFacts DEF AutoExecute, Starts, TypeOK, scan
  <2>3. CASE AckRoute(m)
    BY <2>3 DEF AckRoute, TypeOK, redis, scan
  <2>. QED  BY <1>3, <2>1, <2>2, <2>3 DEF EngineStep, TimerStep
<1>4. ASSUME NEW m \in Msg, RouteError(m)
      PROVE  Calm
  BY <1>4 DEF RouteError, TypeOK, redis, scan
<1>5. CASE EngineCrash
  BY <1>5 DEF EngineCrash, TypeOK, redis, scan
<1>6. ASSUME NEW h \in Handler, NEW m \in Msg, NEW a \in MobileAction,
             MobileFetch(h, m, a)
      PROVE  Calm
  <2>1. \A w \in TimeoutWorker : task'[w] = task[w]
    BY <1>6, WorkerFacts DEF MobileFetch, TypeOK, Worker
  <2>. QED  BY <1>6, <2>1 DEF MobileFetch, TypeOK, engine, redis, scan
<1>7. ASSUME NEW w \in Worker, PublishBlock(w)
      PROVE  Calm
  BY <1>7 DEF PublishBlock, TypeOK, Idle, Worker, engine, scan
<1>8. ASSUME NEW h \in Handler, Execute(Mobile(h))
      PROVE  Calm
  <2> DEFINE w == Mobile(h)
  <2>1. \A v \in TimeoutWorker : task'[v] = task[v]
    BY <1>8, WorkerFacts DEF Execute, ExecuteDecision, TypeOK, Worker
  <2>2. \A r \in logs' : r.by \in TimeoutWorker => r \in logs
    BY <1>8, WorkerFacts DEF Execute, ExecuteDecision
  <2>3. /\ \A m \in Msg : pending'[m] \in {pending[m], 0}
        /\ \A k \in Key : index'[k] \in {index[k], 0}
    BY <1>8 DEF Execute, ExecuteDecision, TypeOK
  <2>4. UNCHANGED <<now, stage, expires, stored, batch, todo>>
    BY <1>8 DEF Execute, engine, scan
  <2>. QED  BY <2>1, <2>2, <2>3, <2>4 DEF TypeOK
<1>9. CASE ListenerStart
  BY <1>9 DEF ListenerStart, TypeOK, engine, redis, scan
<1>10. CASE ListenerStop
  BY <1>10 DEF ListenerStop, Idle, TypeOK, Worker, engine, redis, scan
<1>11. CASE ScanClean
  BY <1>11 DEF ScanClean, TypeOK, engine
<1>12. CASE ScanAbort
  BY <1>12, WorkerFacts DEF ScanAbort, Idle, TypeOK, Worker, engine, redis
<1>13. ASSUME NEW w \in Worker, WorkerError(w)
       PROVE  Calm
  BY <1>13 DEF WorkerError, Idle, TypeOK, Worker, engine, redis, scan
<1>14. ASSUME NEW S \in SUBSET Msg, CleanPayload(S)
       PROVE  Calm
  BY <1>14 DEF CleanPayload, TypeOK, engine, scan
<1>15. CASE UNCHANGED vars
  BY <1>15 DEF vars, TypeOK, engine, redis, scan
<1> HIDE DEF Calm, DInv
<1>16. ASSUME NEW h \in Handler, MobileExecute(h) \/ MobilePublish(h)
       PROVE  Calm
  BY <1>16, <1>7, <1>8, WorkerFacts DEF MobileExecute, MobilePublish
<1>17. ASSUME NEW m \in Msg, ListenerStep(m)
       PROVE  Calm \/ TimerStep(m) \/ TimeoutRuling
  BY <1>17, <1>7, WorkerFacts
     DEF ListenerStep, ListenerExecute, ListenerPublish, TimerStep, TimeoutRuling
<1>18. CASE ScannerStep
  BY <1>18, <1>7, <1>11, WorkerFacts
     DEF ScannerStep, ScanExecute, ScanPublish, ScanStart, TimeoutRuling
<1>. QED
  BY <1>1, <1>2, <1>3, <1>4, <1>5, <1>6, <1>9, <1>10, <1>12, <1>13, <1>14,
     <1>15, <1>16, <1>17, <1>18 DEF Next, PlaneNext, TimerStep

\* Setting an alert's timers: each is set to the deadline or to a later time.
LEMMA StorePayloadD ==
    ASSUME TypeOK, TypeOK', DInv, UniqueKeys, NEW m \in Msg, StorePayload(m)
    PROVE  DInv'
<1>1. /\ stage[m] = "inbox" /\ expires[m] = 0 /\ ~ Due(m)
      /\ expires' = [expires EXCEPT ![m] = now + DecisionTimeout]
      /\ stored' = (stored \ SameKey(m)) \cup {m}
      /\ stage' = [stage EXCEPT ![m] = "arm"]
      /\ UNCHANGED <<now, pending, index, logs, task, batch, todo>>
  BY DEF StorePayload, Starts, DInv, NotYetSet, Due, scan
<1>2. now + DecisionTimeout \in Nat \ {0}
  BY PlaneAssumption DEF TypeOK
<1>3. \A x \in Msg : x # m => expires'[x] = expires[x]
  BY <1>1 DEF TypeOK
<1>4. \A x \in Msg : Due(x) => Due(x)'
  BY <1>1, <1>3 DEF Due
<1>5. NotYetSet' /\ StoredSet' /\ TimerSet'
  BY <1>1, <1>2, <1>3, PlaneAssumption
     DEF DInv, NotYetSet, StoredSet, TimerSet, TypeOK
<1>6. IndexSet'
  <2>1. index[KeyOf[m]] = 0
    BY <1>1 DEF DInv, IndexSet
  <2>. QED  BY <1>1, <1>3, <2>1 DEF DInv, IndexSet
<1>7. TasksDue'
  <2>1. ASSUME NEW w \in TimeoutWorker, task[w].pc = "exec"
        PROVE  Due(task[w].src)'
    <3>1. task[w].src \in Msg
      BY <2>1 DEF TypeOK, Worker, Task, TaskRecord
    <3>2. Due(task[w].src)
      BY <2>1 DEF DInv, TasksDue
    <3>. QED  BY <1>1, <1>4, <3>1, <3>2 DEF Due
  <2>. QED  BY <1>1, <1>4, <2>1 DEF DInv, TasksDue
<1>8. ScanDue'
  BY <1>1, <1>4 DEF DInv, ScanDue
<1>9. WindowHonoured'
  BY <1>1, <1>3 DEF DInv, WindowHonoured
<1>. QED  BY <1>5, <1>6, <1>7, <1>8, <1>9 DEF DInv

LEMMA ArmTimerD ==
    ASSUME TypeOK, TypeOK', DInv, NEW m \in Msg, ArmTimer(m)
    PROVE  DInv'
<1>1. /\ stage[m] = "arm" /\ stage' = [stage EXCEPT ![m] = "index"]
      /\ \A x \in Msg : pending'[x] \in {pending[x], 0} \/ (x = m /\ pending'[x] = now + DecisionTimeout)
      /\ UNCHANGED <<now, expires, stored, index, logs, task, batch, todo>>
  BY DEF ArmTimer, scan
<1>2. NotYetSet' /\ TimerSet'
  BY <1>1 DEF DInv, NotYetSet, TimerSet, TypeOK
<1>3. StoredSet' /\ IndexSet' /\ TasksDue' /\ ScanDue' /\ WindowHonoured'
  BY <1>1 DEF DInv, StoredSet, IndexSet, TasksDue, ScanDue, WindowHonoured, Due
<1>. QED  BY <1>2, <1>3 DEF DInv

LEMMA IndexExpiryD ==
    ASSUME TypeOK, TypeOK', DInv, UniqueKeys, NEW m \in Msg, IndexExpiry(m)
    PROVE  DInv'
<1>1. /\ stage[m] = "index" /\ stage' = [stage EXCEPT ![m] = "notify"]
      /\ index' = [index EXCEPT ![KeyOf[m]] = expires[m]]
      /\ UNCHANGED <<now, expires, stored, pending, logs, task, batch, todo>>
  BY DEF IndexExpiry, scan
<1>2. NotYetSet' /\ TimerSet'
  BY <1>1 DEF DInv, NotYetSet, TimerSet, TypeOK
<1>3. IndexSet'
  BY <1>1, PlaneAssumption DEF DInv, IndexSet, UniqueKeys, TypeOK
<1>4. StoredSet' /\ TasksDue' /\ ScanDue' /\ WindowHonoured'
  BY <1>1 DEF DInv, StoredSet, TasksDue, ScanDue, WindowHonoured, Due
<1>. QED  BY <1>2, <1>3, <1>4 DEF DInv

\* Starting a timeout: the timer it starts from has run out.
LEMMA ExpireKeyD ==
    ASSUME TypeOK, TypeOK', DInv, NEW m \in Msg, ExpireKey(m)
    PROVE  DInv'
<1>1. /\ pending' = [pending EXCEPT ![m] = 0]
      /\ UNCHANGED <<now, stage, expires, stored, index, logs, batch, todo>>
      /\ task' = task \/ task' = [task EXCEPT ![ListenerTask(m)] = Spawned]
  BY DEF ExpireKey, engine, scan
<1>2. Due(m)
  BY DEF ExpireKey, DInv, TimerSet, Due, TypeOK
<1>3. NotYetSet' /\ StoredSet' /\ IndexSet' /\ ScanDue' /\ WindowHonoured'
  BY <1>1 DEF DInv, NotYetSet, StoredSet, IndexSet, ScanDue, WindowHonoured, Due
<1>4. TimerSet'
  BY <1>1 DEF DInv, TimerSet, TypeOK
<1>5. \A w \in TimeoutWorker : \/ task'[w] = task[w]
                               \/ w = ListenerTask(m) /\ task'[w].pc = "fetch"
  BY <1>1, WorkerFacts DEF TypeOK, Spawned, Idle, Worker
<1>6. \A x \in Msg : task'[ListenerTask(x)].pc = "fetch" => Due(x)'
  <2> SUFFICES ASSUME NEW x \in Msg, task'[ListenerTask(x)].pc = "fetch"
               PROVE  Due(x)'
    OBVIOUS
  <2>1. Due(x)
    BY <1>2, <1>5, WorkerFacts DEF DInv, TasksDue
  <2>. QED  BY <1>1, <2>1 DEF Due
<1>7. ASSUME NEW w \in TimeoutWorker, task'[w].pc = "exec"
      PROVE  Due(task[w].src)' /\ task'[w] = task[w]
  BY <1>1, <1>5, <1>7 DEF DInv, TasksDue, Due
<1>8. TasksDue'
  BY <1>6, <1>7 DEF TasksDue, Due
<1>. QED  BY <1>3, <1>4, <1>8 DEF DInv

LEMMA ListenerFetchD ==
    ASSUME TypeOK, TypeOK', DInv, UniqueKeys, NEW m \in Msg, ListenerFetch(m)
    PROVE  DInv'
<1>1. /\ UNCHANGED <<now, stage, expires, stored, pending, index, logs, batch, todo>>
      /\ task[ListenerTask(m)].pc = "fetch"
      /\ \A w \in Worker : w # ListenerTask(m) => task'[w] = task[w]
  BY DEF ListenerFetch, TypeOK, engine, redis, scan
<1>2. Due(m) /\ Due(m)'
  BY <1>1 DEF DInv, TasksDue, Due
<1>3. /\ task'[ListenerTask(m)].pc # "fetch"
      /\ task'[ListenerTask(m)].pc = "exec" => task'[ListenerTask(m)].src = m
  <2>1. \/ task'[ListenerTask(m)] = Idle
        \/ task'[ListenerTask(m)] = [Idle EXCEPT !.pc = "exec", !.src = m]
    BY WorkerFacts DEF ListenerFetch, SameKey, UniqueKeys, TypeOK
  <2>2. CASE task'[ListenerTask(m)] = Idle
    BY <2>2 DEF Idle
  <2>3. CASE task'[ListenerTask(m)] = [Idle EXCEPT !.pc = "exec", !.src = m]
    BY <2>3 DEF Idle
  <2>. QED  BY <2>1, <2>2, <2>3
<1>4. TasksDue'
  <2>1. ASSUME NEW x \in Msg, task'[ListenerTask(x)].pc = "fetch"
        PROVE  Due(x)'
    <3>1. ListenerTask(x) # ListenerTask(m)
      BY <1>3, <2>1
    <3>2. task'[ListenerTask(x)] = task[ListenerTask(x)]
      BY <1>1, <3>1, WorkerFacts
    <3>. QED  BY <1>1, <2>1, <3>2 DEF DInv, TasksDue, Due
  <2>2. ASSUME NEW w \in TimeoutWorker, task'[w].pc = "exec"
        PROVE  Due(task[w].src)'
    <3>1. CASE w = ListenerTask(m)
      BY <1>2, <1>3, <2>2, <3>1 DEF Due
    <3>2. CASE w # ListenerTask(m)
      BY <1>1, <2>2, <3>2 DEF DInv, TasksDue, Due, Worker
    <3>. QED  BY <3>1, <3>2
  <2>. QED  BY <2>1, <2>2 DEF TasksDue
<1>5. NotYetSet' /\ StoredSet' /\ TimerSet' /\ IndexSet' /\ ScanDue' /\ WindowHonoured'
  BY <1>1 DEF DInv, NotYetSet, StoredSet, TimerSet, IndexSet, ScanDue, WindowHonoured, Due
<1>. QED  BY <1>4, <1>5 DEF DInv

LEMMA ScanStartD ==
    ASSUME TypeOK, TypeOK', DInv, UniqueKeys, ScanStart
    PROVE  DInv'
<1>1. UNCHANGED <<now, stage, expires, stored, pending, index, logs>>
  BY DEF ScanStart, ScanRead, ScanFetch, engine, redis
<1>2. NotYetSet' /\ StoredSet' /\ TimerSet' /\ IndexSet' /\ WindowHonoured'
  BY <1>1 DEF DInv, NotYetSet, StoredSet, TimerSet, IndexSet, WindowHonoured
<1>3. ASSUME NEW t \in Tenant \cup {NoTenant}, ScanRead(t)
      PROVE  TasksDue' /\ ScanDue'
  <2>1. task' = task /\ batch' = Expired(t) /\ todo' = batch'
    BY <1>3 DEF ScanRead
  <2>2. TasksDue'
    BY <1>1, <2>1 DEF DInv, TasksDue, Due
  <2>3. ScanDue'
    BY <1>1, <2>1 DEF DInv, IndexSet, ScanDue, Due, Expired
  <2>. QED  BY <2>2, <2>3
<1>4. ASSUME NEW k \in Key, ScanFetch(k)
      PROVE  TasksDue' /\ ScanDue'
  <2>1. /\ batch' = batch /\ todo' = todo \ {k} /\ k \in todo
        /\ \A w \in Worker : w # Scanner => task'[w] = task[w]
    BY <1>4 DEF ScanFetch, TypeOK
  <2>2. ScanDue'
    BY <1>1, <2>1 DEF DInv, ScanDue, Due
  <2>3. /\ task[Scanner].pc = "idle"
        /\ \/ task'[Scanner] = task[Scanner]
           \/ \E x \in Msg : /\ KeyOf[x] = k
                             /\ task'[Scanner] = [Idle EXCEPT !.pc = "exec", !.src = x]
    BY <1>4, WorkerFacts DEF ScanFetch, TypeOK
  <2>4. task'[Scanner].pc = "exec" => Due(task'[Scanner].src)
    BY <2>1, <2>3 DEF DInv, ScanDue, Idle
  <2>5. TasksDue'
    BY <1>1, <2>1, <2>4, WorkerFacts DEF DInv, TasksDue, Due, Worker
  <2>. QED  BY <2>2, <2>5
<1>5. TasksDue' /\ ScanDue'
  BY <1>3, <1>4 DEF ScanStart
<1>. QED  BY <1>2, <1>5 DEF DInv

\* A timeout's ruling comes after the deadline of the alert it was started for,
\* the only alert with the ruling's key.
LEMMA TimeoutRulingD ==
    ASSUME TypeOK, TypeOK', DInv, UniqueKeys, NEW w \in TimeoutWorker, Execute(w)
    PROVE  DInv'
<1> DEFINE s == task[w].src
<1>1. w \in Worker /\ task[w].pc = "exec" /\ s \in Msg /\ Due(s)
  BY DEF Execute, Worker, TypeOK, Task, TaskRecord, DInv, TasksDue
<1>2. /\ UNCHANGED <<now, stage, expires, stored, batch, todo>>
      /\ \A m \in Msg : pending'[m] \in {pending[m], 0}
      /\ \A k \in Key : index'[k] \in {index[k], 0}
      /\ \A v \in Worker : v # w => task'[v] = task[v]
  BY DEF Execute, ExecuteDecision, TypeOK, engine, scan
<1>3. task'[w].pc \in {"idle", "publish"}
  <2>1. task'[w] = Idle \/ task'[w] = AfterRuling(task[w])
    BY <1>1 DEF Execute, ExecuteDecision, TypeOK
  <2>2. AfterRuling(task[w]).pc \in {"idle", "publish"}
    <3>1. task[w] \in TaskRecord
      BY <1>1 DEF TypeOK, Task
    <3>. QED  BY <3>1 DEF AfterRuling, Idle, TaskRecord
  <2>. QED  BY <2>1, <2>2 DEF Idle
<1>4. NotYetSet' /\ StoredSet' /\ TimerSet' /\ IndexSet' /\ ScanDue'
  BY <1>2, PlaneAssumption
     DEF DInv, NotYetSet, StoredSet, TimerSet, IndexSet, ScanDue, Due, TypeOK
<1>5. TasksDue'
  <2>1. ASSUME NEW x \in Msg, task'[ListenerTask(x)].pc = "fetch"
        PROVE  Due(x)'
    BY <1>2, <1>3, <2>1, WorkerFacts DEF DInv, TasksDue, Due
  <2>2. ASSUME NEW v \in TimeoutWorker, task'[v].pc = "exec"
        PROVE  Due(task[v].src)'
    BY <1>2, <1>3, <2>2 DEF DInv, TasksDue, Due, Worker
  <2>. QED  BY <2>1, <2>2 DEF TasksDue
<1>6. \A r \in logs' : r \in logs \/ (r.key = KeyOf[s] /\ r.at = now)
  BY <1>1 DEF Execute, ExecuteDecision
<1>7. WindowHonoured'
  <2>1. ASSUME NEW r \in logs', NEW m \in Msg,
               r.by \in TimeoutWorker, r.key = KeyOf[m]
        PROVE  expires'[m] # 0 /\ expires'[m] <= r.at
    <3>1. CASE r \in logs
      BY <1>2, <2>1, <3>1 DEF DInv, WindowHonoured
    <3>2. CASE r.key = KeyOf[s] /\ r.at = now
      BY <1>1, <1>2, <2>1, <3>2 DEF UniqueKeys, Due
    <3>. QED  BY <1>6, <3>1, <3>2
  <2>. QED  BY <2>1 DEF WindowHonoured
<1>. QED  BY <1>4, <1>5, <1>7 DEF DInv

\* No timeout decides before the deadline, as long as every alert has a key of
\* its own: timers are set no earlier than the deadline, the tasks they start
\* read the payload of the same alert, and nothing else makes a timeout decide.
THEOREM WindowKept == UniqueKeys => (Spec => []WindowHonoured)
<1> SUFFICES ASSUME UniqueKeys PROVE Spec => []WindowHonoured
  OBVIOUS
<1>1. Init => DInv
  <2> SUFFICES ASSUME Init PROVE DInv
    OBVIOUS
  <2>1. NotYetSet /\ StoredSet /\ ScanDue /\ WindowHonoured
    BY DEF Init, NotYetSet, StoredSet, ScanDue, WindowHonoured
  <2>2. TimerSet /\ IndexSet
    BY PlaneAssumption DEF Init, TimerSet, IndexSet
  <2>3. \A w \in Worker : task[w].pc = "idle"
    BY DEF Init, Idle
  <2>4. TasksDue
    BY <2>3, WorkerFacts DEF TasksDue, Worker
  <2>. QED  BY <2>1, <2>2, <2>4 DEF DInv
<1>2. ASSUME TypeOK, TypeOK', DInv, [Next]_vars
      PROVE  DInv'
  <2>1. CASE Calm
    BY <1>2, <2>1, CalmInv
  <2>2. ASSUME NEW m \in Msg, TimerStep(m)
        PROVE  DInv'
    BY <1>2, <2>2, StorePayloadD, ArmTimerD, IndexExpiryD, ExpireKeyD,
       ListenerFetchD DEF TimerStep
  <2>3. CASE ScanStart
    BY <1>2, <2>3, ScanStartD
  <2>4. CASE TimeoutRuling
    BY <1>2, <2>4, TimeoutRulingD DEF TimeoutRuling
  <2>. QED  BY <1>2, <2>1, <2>2, <2>3, <2>4, CalmKinds
<1>3. DInv => WindowHonoured
  BY DEF DInv
<1>. QED  BY <1>1, <1>2, <1>3, TypeCorrect, PTL DEF Spec

-----------------------------------------------------------------------------
(***************************************************************************)
(* No ruling is lost in silence.  A worker keeps the block command it owes *)
(* until it has published it: the one thing that could start another task  *)
(* in its place, an expiry of the same alert, happens once.                *)
(***************************************************************************)

Unarmed == {"queued", "inbox", "arm"}

\* The key of an alert is set once, and its task started at most once.
TimerOnce ==
    \A m \in Msg :
        /\ stage[m] \in Unarmed => pending[m] = 0 /\ task[ListenerTask(m)].pc = "idle"
        /\ pending[m] # 0 => task[ListenerTask(m)].pc = "idle"

\* A step that sets no key and starts no task of the listener.
Slack ==
    \A m \in Msg :
        /\ pending'[m] \in {pending[m], 0}
        /\ stage'[m] \in Unarmed => stage[m] \in Unarmed
        /\ task'[ListenerTask(m)].pc # "idle" => task[ListenerTask(m)].pc # "idle"

LEMMA ExecuteSlack ==
    ASSUME TypeOK, NEW w \in Worker, Execute(w)
    PROVE  Slack
<1>1. \A v \in Worker : v # w => task'[v] = task[v]
  BY DEF Execute, ExecuteDecision, TypeOK
<1>2. \A m \in Msg : pending'[m] \in {pending[m], 0}
  BY DEF Execute, ExecuteDecision, TypeOK
<1>3. task[w].pc = "exec" /\ stage' = stage
  BY DEF Execute, engine
<1>. QED  BY <1>1, <1>2, <1>3, WorkerFacts DEF Slack

LEMMA SlackKinds ==
    ASSUME TypeOK, [Next]_vars
    PROVE  Slack \/ \E m \in Msg : ArmTimer(m) \/ ExpireKey(m)
<1> USE DEF Slack, Unarmed
<1>1. CASE Tick \/ ListenerStart \/ UNCHANGED vars
  BY <1>1 DEF Tick, ListenerStart, vars, engine, redis, scan
<1>2. ASSUME NEW S \in SUBSET Msg, EngineRead(S)
      PROVE  Slack
  BY <1>2 DEF EngineRead, TypeOK, redis, scan
<1>3. ASSUME NEW m \in Msg, EngineStep(m)
      PROVE  Slack \/ ArmTimer(m)
  BY <1>3 DEF EngineStep, StorePayload, Starts, IndexExpiry, NotifyMobile, AutoExecute, AckRoute,
     TypeOK, redis, scan
<1>4. ASSUME NEW m \in Msg, RouteError(m)
      PROVE  Slack
  BY <1>4 DEF RouteError, TypeOK, redis, scan
<1>5. CASE EngineCrash
  BY <1>5 DEF EngineCrash, TypeOK, redis, scan
<1>6. ASSUME NEW h \in Handler, NEW m \in Msg, NEW a \in MobileAction, MobileFetch(h, m, a)
      PROVE  Slack
  <2>1. \A x \in Msg : task'[ListenerTask(x)] = task[ListenerTask(x)]
    BY <1>6, WorkerFacts DEF MobileFetch, TypeOK
  <2>. QED  BY <1>6, <2>1 DEF MobileFetch, engine, redis
<1>7. ASSUME NEW m \in Msg, ListenerFetch(m)
      PROVE  Slack
  <2>1. \A v \in Worker : v # ListenerTask(m) => task'[v] = task[v]
    BY <1>7 DEF ListenerFetch, TypeOK
  <2>2. task[ListenerTask(m)].pc = "fetch" /\ UNCHANGED <<stage, pending>>
    BY <1>7 DEF ListenerFetch, engine, redis
  <2>. QED  BY <2>1, <2>2, WorkerFacts
<1>8. CASE ListenerStop
  BY <1>8, WorkerFacts DEF ListenerStop, Idle, TypeOK, engine, redis
<1>9. ASSUME NEW t \in Tenant \cup {NoTenant}, ScanRead(t)
      PROVE  Slack
  BY <1>9 DEF ScanRead, engine, redis
<1>10. CASE ScanAbort \/ \E k \in Key : ScanFetch(k)
  <2>1. \A x \in Msg : task'[ListenerTask(x)] = task[ListenerTask(x)]
    BY <1>10, WorkerFacts DEF ScanAbort, ScanFetch, TypeOK
  <2>. QED  BY <1>10, <2>1 DEF ScanAbort, ScanFetch, engine, redis
<1>11. CASE ScanClean
  BY <1>11 DEF ScanClean, engine
<1>12. ASSUME NEW w \in Worker, WorkerError(w) \/ PublishBlock(w)
       PROVE  Slack
  BY <1>12, WorkerFacts DEF WorkerError, PublishBlock, Idle, TypeOK, engine, redis
<1>13. ASSUME NEW S \in SUBSET Msg, CleanPayload(S)
       PROVE  Slack
  BY <1>13 DEF CleanPayload, engine
<1> HIDE DEF Slack, Unarmed
<1>14. ASSUME NEW w \in Worker, Execute(w) \/ PublishBlock(w)
       PROVE  Slack
  BY <1>12, <1>14, ExecuteSlack
<1>15. ASSUME NEW h \in Handler, MobileExecute(h) \/ MobilePublish(h)
       PROVE  Slack
  BY <1>14, <1>15, WorkerFacts DEF MobileExecute, MobilePublish
<1>16. ASSUME NEW m \in Msg, ListenerStep(m)
       PROVE  Slack
  BY <1>7, <1>14, <1>16, WorkerFacts DEF ListenerStep, ListenerExecute, ListenerPublish
<1>17. CASE ScannerStep
  BY <1>9, <1>10, <1>11, <1>14, <1>17, WorkerFacts DEF ScannerStep, ScanExecute, ScanPublish
<1>. QED
  BY <1>1, <1>2, <1>3, <1>4, <1>5, <1>6, <1>8, <1>10, <1>12, <1>13, <1>15, <1>16, <1>17
     DEF Next, PlaneNext

LEMMA TimerOnceStep ==
    ASSUME TypeOK, TimerOnce, [Next]_vars
    PROVE  TimerOnce'
<1>1. CASE Slack
  BY <1>1 DEF Slack, TimerOnce
<1>2. ASSUME NEW m \in Msg, ArmTimer(m)
      PROVE  TimerOnce'
  <2>1. /\ stage[m] = "arm" /\ stage' = [stage EXCEPT ![m] = "index"] /\ task' = task
        /\ \A x \in Msg : x # m => pending'[x] \in {pending[x], 0}
    BY <1>2 DEF ArmTimer
  <2>. QED  BY <2>1 DEF TimerOnce, Unarmed, TypeOK
<1>3. ASSUME NEW m \in Msg, ExpireKey(m)
      PROVE  TimerOnce'
  <2>1. /\ pending[m] # 0 /\ pending' = [pending EXCEPT ![m] = 0] /\ stage' = stage
        /\ \A x \in Msg : x # m => task'[ListenerTask(x)] = task[ListenerTask(x)]
    BY <1>3, WorkerFacts DEF ExpireKey, TypeOK, engine
  <2>2. stage[m] \notin Unarmed /\ pending'[m] = 0
    BY <2>1 DEF TimerOnce, TypeOK
  <2>3. \A x \in Msg : x # m => pending'[x] = pending[x]
    BY <2>1 DEF TypeOK
  <2>. QED  BY <2>1, <2>2, <2>3 DEF TimerOnce
<1>. QED  BY <1>1, <1>2, <1>3, SlackKinds

\* Whoever is about to publish does so, keeps its task, or something fails.
LEMMA TicketKept ==
    ASSUME TypeOK, TimerOnce, [Next]_vars, NEW w \in Worker, task[w].pc = "publish"
    PROVE  faults' # 0 \/ task'[w] = task[w] \/ PublishBlock(w)
<1>1. CASE \/ Tick \/ ListenerStart \/ UNCHANGED vars \/ ScanClean
           \/ \E S \in SUBSET Msg : EngineRead(S) \/ CleanPayload(S)
           \/ \E m \in Msg : EngineStep(m)
           \/ \E t \in Tenant \cup {NoTenant} : ScanRead(t)
  BY <1>1 DEF Tick, ListenerStart, vars, ScanClean, EngineRead, CleanPayload, EngineStep,
     StorePayload, ArmTimer, IndexExpiry, NotifyMobile, AutoExecute, AckRoute, ScanRead
<1>2. CASE \/ EngineCrash \/ ListenerStop \/ ScanAbort
           \/ (\E m \in Msg : RouteError(m)) \/ \E v \in Worker : WorkerError(v)
  <2>1. Fault
    BY <1>2 DEF EngineCrash, ListenerStop, ScanAbort, RouteError, WorkerError
  <2>. QED  BY <2>1 DEF Fault, TypeOK
<1>3. ASSUME NEW v \in Worker, task[v].pc # "publish",
             \E t : task' = [task EXCEPT ![v] = t]
      PROVE  task'[w] = task[w]
  BY <1>3 DEF TypeOK
<1>4. ASSUME NEW h \in Handler, NEW m \in Msg, NEW a \in MobileAction, MobileFetch(h, m, a)
      PROVE  task'[w] = task[w]
  BY <1>3, <1>4, WorkerFacts DEF MobileFetch
<1>5. ASSUME NEW m \in Msg, ExpireKey(m)
      PROVE  task'[w] = task[w]
  <2>1. task[ListenerTask(m)].pc = "idle"
    BY <1>5 DEF ExpireKey, TimerOnce
  <2>. QED  BY <1>3, <1>5, <2>1, WorkerFacts DEF ExpireKey
<1>6. ASSUME NEW m \in Msg, ListenerFetch(m)
      PROVE  task'[w] = task[w]
  BY <1>3, <1>6, WorkerFacts DEF ListenerFetch
<1>7. ASSUME NEW k \in Key, ScanFetch(k)
      PROVE  task'[w] = task[w]
  BY <1>3, <1>7, WorkerFacts DEF ScanFetch
<1>8. ASSUME NEW v \in Worker, Execute(v)
      PROVE  task'[w] = task[w]
  BY <1>3, <1>8 DEF Execute, ExecuteDecision
<1>9. ASSUME NEW v \in Worker, PublishBlock(v)
      PROVE  task'[w] = task[w] \/ PublishBlock(w)
  BY <1>9 DEF PublishBlock, TypeOK
<1>10. ASSUME NEW h \in Handler, MobileExecute(h) \/ MobilePublish(h)
       PROVE  task'[w] = task[w] \/ PublishBlock(w)
  BY <1>8, <1>9, <1>10, WorkerFacts DEF MobileExecute, MobilePublish
<1>11. ASSUME NEW m \in Msg, ListenerStep(m)
       PROVE  task'[w] = task[w] \/ PublishBlock(w)
  BY <1>6, <1>8, <1>9, <1>11, WorkerFacts DEF ListenerStep, ListenerExecute, ListenerPublish
<1>12. CASE ScannerStep
  BY <1>1, <1>7, <1>8, <1>9, <1>12, WorkerFacts DEF ScannerStep, ScanExecute, ScanPublish
<1>. QED
  BY <1>1, <1>2, <1>4, <1>5, <1>10, <1>11, <1>12 DEF Next, PlaneNext

\* Failures are only counted up.
LEMMA FaultsGrow ==
    ASSUME TypeOK, [Next]_vars
    PROVE  faults' \in {faults, faults + 1}
<1>1. ASSUME NEW w \in Worker, Execute(w) \/ PublishBlock(w) \/ WorkerError(w)
      PROVE  faults' \in {faults, faults + 1}
  BY <1>1 DEF Execute, PublishBlock, WorkerError, Fault
<1>2. ASSUME NEW m \in Msg, EngineStep(m) \/ RouteError(m) \/ ExpireKey(m) \/ ListenerFetch(m)
      PROVE  faults' \in {faults, faults + 1}
  BY <1>2 DEF EngineStep, StorePayload, ArmTimer, IndexExpiry, NotifyMobile, AutoExecute, AckRoute,
     RouteError, ExpireKey, ListenerFetch, Fault
<1>3. CASE \/ Tick \/ EngineCrash \/ ListenerStart \/ ListenerStop \/ ScanAbort \/ ScanClean
           \/ UNCHANGED vars
           \/ \E S \in SUBSET Msg : EngineRead(S) \/ CleanPayload(S)
           \/ \E t \in Tenant \cup {NoTenant} : ScanRead(t)
           \/ \E k \in Key : ScanFetch(k)
           \/ \E h \in Handler, m \in Msg, a \in MobileAction : MobileFetch(h, m, a)
  BY <1>3 DEF Tick, EngineCrash, ListenerStart, ListenerStop, ScanAbort, ScanClean, vars, EngineRead,
     CleanPayload, ScanRead, ScanFetch, MobileFetch, Fault
<1>4. CASE ScannerStep
  BY <1>1, <1>3, <1>4, WorkerFacts DEF ScannerStep, ScanExecute, ScanPublish
<1>5. ASSUME NEW m \in Msg, ListenerStep(m)
      PROVE  faults' \in {faults, faults + 1}
  BY <1>1, <1>2, <1>5, WorkerFacts DEF ListenerStep, ListenerExecute, ListenerPublish
<1>6. ASSUME NEW h \in Handler, MobileExecute(h) \/ MobilePublish(h)
      PROVE  faults' \in {faults, faults + 1}
  BY <1>1, <1>6, WorkerFacts DEF MobileExecute, MobilePublish
<1>. QED  BY <1>1, <1>2, <1>3, <1>4, <1>5, <1>6 DEF Next, PlaneNext

\* Ruling r has its block command, or its worker is about to publish it.
Owed(r) ==
    LET t == task[r.by]
    IN  t.pc = "publish" /\ t.at = r.at /\ KeyOf[t.src] = r.key

LEMMA LossStep ==
    ASSUME TypeOK, TimerOnce, NoSilentLoss, [Next]_vars
    PROVE  NoSilentLoss'
<1>1. SUFFICES ASSUME faults' = 0, NEW r \in logs', r.act \in Blocking
               PROVE  Enforced(r)' \/ Owed(r)'
  BY DEF NoSilentLoss, Owed, Enforced
<1>2. faults = 0
  BY <1>1, FaultsGrow DEF TypeOK
<1>3. ASSUME r \in logs
      PROVE  Enforced(r)' \/ Owed(r)'
  <2>1. (Enforced(r) \/ Owed(r)) /\ r.by \in Worker
    BY <1>1, <1>2, <1>3 DEF NoSilentLoss, Owed, TypeOK, Ruling
  <2>2. CASE Enforced(r)
    <3>1. blocks \subseteq blocks'
      BY StepKinds DEF Quiet, Execute, PublishBlock, AutoExecute
    <3>. QED  BY <2>2, <3>1 DEF Enforced, Enforces
  <2>3. CASE Owed(r)
    <3>1. task'[r.by] = task[r.by] \/ PublishBlock(r.by)
      BY <1>1, <2>1, <2>3, TicketKept DEF Owed
    <3>2. CASE task'[r.by] = task[r.by]
      BY <2>3, <3>2 DEF Owed
    <3>3. CASE PublishBlock(r.by)
      <4>1. [src |-> task[r.by].src, by |-> r.by, at |-> task[r.by].at] \in blocks'
        BY <3>3 DEF PublishBlock
      <4>2. Enforces([src |-> task[r.by].src, by |-> r.by, at |-> task[r.by].at], r)
        BY <2>3 DEF Enforces, Owed
      <4>. QED  BY <4>1, <4>2 DEF Enforced, Enforces
    <3>. QED  BY <3>1, <3>2, <3>3
  <2>. QED  BY <2>1, <2>2, <2>3
<1>4. ASSUME r \notin logs
      PROVE  Owed(r)'
  <2>1. PICK w \in Worker : Execute(w)
    BY <1>1, <1>4, StepKinds DEF Quiet, PublishBlock, AutoExecute
  <2>2. /\ r = [key |-> KeyOf[task[w].src], act |-> task[w].act, by |-> w, at |-> now]
        /\ task' = [task EXCEPT ![w] = AfterRuling(task[w])]
    BY <1>1, <1>4, <2>1 DEF Execute, ExecuteDecision
  <2>3. task[w] \in Task /\ task'[w] = [task[w] EXCEPT !.pc = "publish", !.at = now]
    BY <1>1, <2>2 DEF AfterRuling, TypeOK
  <2>4. task'[w].pc = "publish" /\ task'[w].at = now /\ task'[w].src = task[w].src
    BY <2>3 DEF Task, TaskRecord
  <2>. QED  BY <2>2, <2>4 DEF Owed
<1>. QED  BY <1>3, <1>4

\* While nothing has failed, every accepted decision to block is in the firewall's stream
\* or its executor is about to put it there (mobile_gateway/main.py:729-775,
\* decision_timeout_listener.py, decision_fallback_scanner.py), whoever else acts.
THEOREM NothingLost == Spec => []NoSilentLoss
<1>1. Init => TimerOnce /\ NoSilentLoss
  <2>1. Init => \A w \in Worker : task[w].pc = "idle"
    BY DEF Init, Idle
  <2>. QED  BY <2>1, WorkerFacts DEF Init, TimerOnce, NoSilentLoss
<1>2. TypeOK /\ TimerOnce /\ NoSilentLoss /\ [Next]_vars => TimerOnce' /\ NoSilentLoss'
  BY TimerOnceStep, LossStep
<1>. QED  BY <1>1, <1>2, TypeCorrect, PTL DEF Spec

-----------------------------------------------------------------------------
(***************************************************************************)
(* The safety net knows of every alert.  What the scanner takes out of the *)
(* index it has taken through the script, or found without a payload, and  *)
(* then somebody has ruled.                                                *)
(***************************************************************************)

\* Alerts have ids of their own, across the tenants as well: the payloads of the others
\* are cleaned by id alone.
UniqueIds == UniqueKeys /\ \A k, l \in Key : IdOf[k] = IdOf[l] => k = l

Known   == {"notify", "ack", "done"}
Parked  == \A m \in Msg : stage[m] \in {"arm", "index"} => m \in High /\ (Ruled(KeyOf[m]) \/ m \in stored)
Tracked ==
    \A m \in High : stage[m] \in Known =>
        Ruled(KeyOf[m]) \/ (index[KeyOf[m]] = expires[m] /\ m \in stored)
FlagRuled == \A k \in Key : executed[k] # 0 => Ruled(k)
Indexed(k) == \E m \in High : KeyOf[m] = k /\ stage[m] \in Known
IndexKnown == \A k \in Key : index[k] # 0 \/ k \in batch => Indexed(k)
ScanRuled ==
    \A k \in batch \ todo :
        Ruled(k) \/ (task[Scanner].pc = "exec" /\ KeyOf[task[Scanner].src] = k)

TrackInv == faults = 0 => Parked /\ Tracked /\ FlagRuled /\ IndexKnown /\ ScanRuled

\* A step that leaves alone all that the net consists of.
Still ==
    /\ UNCHANGED <<expires, stored, index, executed, logs, batch, todo>>
    /\ task[Scanner].pc = "exec" => task'[Scanner] = task[Scanner]
    /\ \A m \in Msg : /\ stage'[m] \in {"arm", "index"} => stage[m] \in {"arm", "index"}
                      /\ m \in High => (stage'[m] \in Known <=> stage[m] \in Known)

LEMMA StillTrack ==
    ASSUME TypeOK, TypeOK', Still, Parked, Tracked, FlagRuled, IndexKnown, ScanRuled
    PROVE  Parked' /\ Tracked' /\ FlagRuled' /\ IndexKnown' /\ ScanRuled'
<1>h. High \subseteq Msg
  BY PlaneAssumption
<1>1. Parked' /\ FlagRuled'
  BY DEF Still, Parked, FlagRuled, Ruled
<1>2. Tracked'
  BY <1>h DEF Still, Tracked, Ruled
<1>3. IndexKnown'
  BY <1>h DEF Still, IndexKnown, Indexed
<1>4. ScanRuled'
  BY DEF Still, ScanRuled, Ruled
<1>. QED  BY <1>1, <1>2, <1>3, <1>4

NetStep ==
    \/ \E m \in Msg : StorePayload(m) \/ IndexExpiry(m)
    \/ \E w \in Worker : Execute(w)
    \/ \E t \in Tenant \cup {NoTenant} : ScanRead(t)
    \/ \E k \in Key : ScanFetch(k)
    \/ ScanClean
    \/ \E S \in SUBSET Msg : CleanPayload(S)

LEMMA StillKinds ==
    ASSUME TypeOK, [Next]_vars
    PROVE  faults' # 0 \/ Still \/ NetStep
<1> USE DEF Still
<1>h. High \subseteq Msg
  BY PlaneAssumption
<1>1. CASE Tick \/ ListenerStart \/ UNCHANGED vars
  BY <1>1 DEF Tick, ListenerStart, vars, engine, redis, scan
<1>2. ASSUME NEW S \in SUBSET Msg, EngineRead(S)
      PROVE  Still
  BY <1>h, <1>2 DEF EngineRead, TypeOK, redis, scan, Known
<1>3. ASSUME NEW m \in Msg, EngineStep(m)
      PROVE  Still \/ StorePayload(m) \/ IndexExpiry(m)
  BY <1>h, <1>3 DEF EngineStep, ArmTimer, NotifyMobile, AutoExecute, AckRoute, Starts, TypeOK, redis,
     scan, Known
<1>4. CASE \/ EngineCrash \/ ListenerStop \/ ScanAbort
           \/ (\E m \in Msg : RouteError(m)) \/ \E v \in Worker : WorkerError(v)
  <2>1. Fault
    BY <1>4 DEF EngineCrash, ListenerStop, ScanAbort, RouteError, WorkerError
  <2>. QED  BY <2>1 DEF Fault, TypeOK
<1>5. ASSUME NEW h \in Handler, NEW m \in Msg, NEW a \in MobileAction, MobileFetch(h, m, a)
      PROVE  Still
  <2>1. task'[Scanner] = task[Scanner]
    BY <1>5, WorkerFacts DEF MobileFetch, TypeOK
  <2>. QED  BY <1>5, <2>1 DEF MobileFetch, engine, redis, scan
<1>6. ASSUME NEW m \in Msg, ExpireKey(m) \/ ListenerFetch(m)
      PROVE  Still
  <2>1. task'[Scanner] = task[Scanner]
    BY <1>6, WorkerFacts DEF ExpireKey, ListenerFetch, TypeOK
  <2>. QED  BY <1>6, <2>1 DEF ExpireKey, ListenerFetch, engine, redis, scan
<1>7. ASSUME NEW w \in Worker, PublishBlock(w)
      PROVE  Still
  <2>1. task[Scanner].pc = "exec" => task'[Scanner] = task[Scanner]
    BY <1>7, WorkerFacts DEF PublishBlock, TypeOK
  <2>. QED  BY <1>7, <2>1 DEF PublishBlock, engine, scan
<1> HIDE DEF Still
<1>8. ASSUME NEW h \in Handler, MobileExecute(h) \/ MobilePublish(h)
      PROVE  Still \/ NetStep
  BY <1>7, <1>8, WorkerFacts DEF MobileExecute, MobilePublish, NetStep
<1>9. ASSUME NEW m \in Msg, ListenerStep(m)
      PROVE  Still \/ NetStep
  BY <1>6, <1>7, <1>9, WorkerFacts DEF ListenerStep, ListenerExecute, ListenerPublish, NetStep
<1>10. CASE ScannerStep
  BY <1>7, <1>10, WorkerFacts DEF ScannerStep, ScanExecute, ScanPublish, NetStep
<1>. QED
  BY <1>1, <1>2, <1>3, <1>4, <1>5, <1>6, <1>8, <1>9, <1>10 DEF Next, PlaneNext, NetStep

LEMMA EngineTrack ==
    ASSUME TypeOK, TypeOK', UniqueIds, Parked, Tracked, FlagRuled, IndexKnown, ScanRuled,
           NEW m \in Msg, StorePayload(m) \/ IndexExpiry(m)
    PROVE  Parked' /\ Tracked' /\ FlagRuled' /\ IndexKnown' /\ ScanRuled'
<1>h. High \subseteq Msg /\ \A x \in Msg : KeyOf[x] \in Key
  BY PlaneAssumption
<1>1. UNCHANGED <<executed, logs, batch, todo, task>>
  BY DEF StorePayload, IndexExpiry, scan
<1>2. FlagRuled' /\ ScanRuled'
  BY <1>1 DEF FlagRuled, ScanRuled, Ruled
<1>3. CASE StorePayload(m)
  <2>1. /\ stage[m] = "inbox" /\ m \in High /\ index' = index
        /\ expires' = [expires EXCEPT ![m] = now + DecisionTimeout]
        /\ stage' = [stage EXCEPT ![m] = "arm"]
    BY <1>3 DEF StorePayload, Starts
  <2>2. stored' = stored \cup {m}
    BY <1>3 DEF StorePayload, SameKey, UniqueIds, UniqueKeys, TypeOK
  <2>3. Parked'
    BY <1>1, <2>1, <2>2 DEF Parked, Ruled, TypeOK
  <2>4. Tracked'
    BY <1>h, <1>1, <2>1, <2>2 DEF Tracked, Known, Ruled, TypeOK
  <2>5. IndexKnown'
    BY <1>h, <1>1, <2>1 DEF IndexKnown, Indexed, Known, TypeOK
  <2>. QED  BY <1>2, <2>3, <2>4, <2>5
<1>4. CASE IndexExpiry(m)
  <2>1. /\ stage[m] = "index" /\ UNCHANGED <<expires, stored>>
        /\ index' = [index EXCEPT ![KeyOf[m]] = expires[m]]
        /\ stage' = [stage EXCEPT ![m] = "notify"]
    BY <1>4 DEF IndexExpiry
  <2>2. m \in High /\ (Ruled(KeyOf[m]) \/ m \in stored)
    BY <2>1 DEF Parked
  <2>3. Parked'
    BY <1>1, <2>1 DEF Parked, Ruled, TypeOK
  <2>4. Tracked'
    <3>1. ASSUME NEW x \in High, stage'[x] \in Known
          PROVE  Ruled(KeyOf[x]) \/ (index'[KeyOf[x]] = expires[x] /\ x \in stored)
      <4>1. CASE x = m
        BY <1>h, <2>1, <2>2, <4>1 DEF TypeOK
      <4>2. CASE x # m
        <5>1. KeyOf[x] # KeyOf[m] /\ stage'[x] = stage[x]
          BY <1>h, <2>1, <4>2 DEF UniqueIds, UniqueKeys, TypeOK
        <5>2. index'[KeyOf[x]] = index[KeyOf[x]]
          BY <1>h, <2>1, <5>1 DEF TypeOK
        <5>. QED  BY <3>1, <5>1, <5>2 DEF Tracked
      <4>. QED  BY <4>1, <4>2
    <3>. QED  BY <1>1, <2>1, <3>1 DEF Tracked, Ruled
  <2>5. IndexKnown'
    <3>1. \A x \in High : stage[x] \in Known => stage'[x] \in Known
      BY <1>h, <2>1 DEF Known, TypeOK
    <3>2. stage'[m] \in Known
      BY <2>1 DEF Known, TypeOK
    <3>3. \A k \in Key : k # KeyOf[m] => index'[k] = index[k]
      BY <2>1 DEF TypeOK
    <3>. QED  BY <1>1, <2>2, <3>1, <3>2, <3>3 DEF IndexKnown, Indexed
  <2>. QED  BY <1>2, <2>3, <2>4, <2>5
<1>. QED  BY <1>3, <1>4

LEMMA ExecuteTrack ==
    ASSUME TypeOK, TypeOK', UniqueIds, Parked, Tracked, FlagRuled, IndexKnown, ScanRuled,
           NEW w \in Worker, Execute(w)
    PROVE  Parked' /\ Tracked' /\ FlagRuled' /\ IndexKnown' /\ ScanRuled'
<1>h. High \subseteq Msg /\ \A x \in Msg : KeyOf[x] \in Key
  BY PlaneAssumption
<1>1. UNCHANGED <<stage, expires, stored, batch, todo>> /\ task[w].pc = "exec"
  BY DEF Execute, engine, scan
<1>2. PICK k : k = KeyOf[task[w].src]
  OBVIOUS
<1>3. k \in Key
  BY <1>1, <1>2, <1>h DEF TypeOK, Task
<1>4. /\ \A l \in Key : Ruled(l) => Ruled(l)'
      /\ Ruled(k)'
      /\ \A l \in Key : l # k => index'[l] = index[l]
      /\ \A l \in Key : l # k => executed'[l] = executed[l]
      /\ \A l \in Key : index'[l] \in {index[l], 0}
  <2>1. CASE Executed(k)
    <3>1. UNCHANGED <<logs, index, executed>>
      BY <1>2, <2>1 DEF Execute, ExecuteDecision
    <3>2. executed[k] # 0
      BY <1>3, <2>1 DEF Executed, TypeOK
    <3>. QED  BY <1>3, <3>1, <3>2 DEF FlagRuled, Ruled
  <2>2. CASE ~ Executed(k)
    <3>1. /\ logs' = logs \cup {[key |-> k, act |-> task[w].act, by |-> w, at |-> now]}
          /\ index' = [index EXCEPT ![k] = 0]
          /\ executed' = [executed EXCEPT ![k] = now + ExecutedTTL]
      BY <1>2, <2>2 DEF Execute, ExecuteDecision
    <3>a. PICK r : r = [key |-> k, act |-> task[w].act, by |-> w, at |-> now]
      OBVIOUS
    <3>b. r.key = k /\ r \in logs'
      BY <3>1, <3>a
    <3>2. Ruled(k)'
      BY <3>b DEF Ruled
    <3>3. \A l \in Key : Ruled(l) => Ruled(l)'
      BY <3>1 DEF Ruled
    <3>. QED  BY <3>1, <3>2, <3>3 DEF TypeOK
  <2>. QED  BY <2>1, <2>2
<1>5. Parked'
  BY <1>h, <1>1, <1>4 DEF Parked
<1>6. Tracked'
  BY <1>h, <1>1, <1>4 DEF Tracked
<1>7. FlagRuled'
  BY <1>4 DEF FlagRuled
<1>8. IndexKnown'
  BY <1>1, <1>4 DEF IndexKnown, Indexed
<1>9. ScanRuled'
  <2>1. ASSUME NEW l \in batch \ todo
        PROVE  Ruled(l)' \/ (task'[Scanner].pc = "exec" /\ KeyOf[task'[Scanner].src] = l)
    <3>1. l \in Key
      BY DEF TypeOK
    <3>2. CASE Ruled(l) \/ l = k
      BY <1>4, <3>1, <3>2
    <3>3. CASE l # k /\ task[Scanner].pc = "exec" /\ KeyOf[task[Scanner].src] = l
      <4>1. w # Scanner
        BY <1>2, <3>3
      <4>2. task'[Scanner] = task[Scanner]
        BY <4>1, WorkerFacts DEF Execute, ExecuteDecision, TypeOK
      <4>. QED  BY <3>3, <4>2
    <3>. QED  BY <3>2, <3>3 DEF ScanRuled
  <2>. QED  BY <1>1, <2>1 DEF ScanRuled
<1>. QED  BY <1>5, <1>6, <1>7, <1>8, <1>9

LEMMA ScanTrack ==
    ASSUME TypeOK, TypeOK', Parked, Tracked, FlagRuled, IndexKnown, ScanRuled,
           \/ \E t \in Tenant \cup {NoTenant} : ScanRead(t)
           \/ \E k \in Key : ScanFetch(k)
           \/ ScanClean
    PROVE  Parked' /\ Tracked' /\ FlagRuled' /\ IndexKnown' /\ ScanRuled'
<1>h. High \subseteq Msg /\ \A x \in Msg : KeyOf[x] \in Key
  BY PlaneAssumption
<1>1. UNCHANGED <<stage, expires, stored, executed, logs>>
  BY DEF ScanRead, ScanFetch, ScanClean, engine, redis
<1>2. Parked' /\ FlagRuled' /\ \A k \in Key : Ruled(k)' <=> Ruled(k)
  BY <1>1 DEF Parked, FlagRuled, Ruled
<1>3. ASSUME NEW t \in Tenant \cup {NoTenant}, ScanRead(t)
      PROVE  Tracked' /\ IndexKnown' /\ ScanRuled'
  <2>1. batch' = Expired(t) /\ todo' = Expired(t) /\ index' = index
    BY <1>3 DEF ScanRead, redis
  <2>2. \A k \in Expired(t) : k \in Key /\ index[k] # 0
    BY DEF Expired
  <2>3. Tracked'
    BY <1>1, <2>1 DEF Tracked, Ruled
  <2>4. IndexKnown'
    BY <1>1, <2>1, <2>2 DEF IndexKnown, Indexed
  <2>. QED  BY <2>1, <2>3, <2>4 DEF ScanRuled
<1>4. ASSUME NEW k \in Key, ScanFetch(k)
      PROVE  Tracked' /\ IndexKnown' /\ ScanRuled'
  <2>1. /\ task[Scanner].pc = "idle" /\ todo' = todo \ {k} /\ UNCHANGED <<index, batch>>
        /\ \/ \E x \in stored : /\ KeyOf[x] = k
                                /\ task' = [task EXCEPT ![Scanner] = [Idle EXCEPT !.pc = "exec", !.src = x]]
           \/ /\ \A x \in stored : KeyOf[x] # k
              /\ UNCHANGED task
    BY <1>4 DEF ScanFetch, redis
  <2>2. Tracked'
    BY <1>1, <2>1 DEF Tracked, Ruled
  <2>3. IndexKnown'
    BY <1>1, <2>1 DEF IndexKnown, Indexed
  <2>4. \A l \in batch \ todo : Ruled(l)
    BY <2>1 DEF ScanRuled
  <2>5. k \in batch => Ruled(k) \/ (task'[Scanner].pc = "exec" /\ KeyOf[task'[Scanner].src] = k)
    <3>1. CASE \E x \in stored : /\ KeyOf[x] = k
                                 /\ task' = [task EXCEPT ![Scanner] = [Idle EXCEPT !.pc = "exec", !.src = x]]
      BY <3>1, WorkerFacts DEF TypeOK, Idle
    <3>2. CASE \A x \in stored : KeyOf[x] # k
      BY <3>2 DEF IndexKnown, Indexed, Tracked
    <3>. QED  BY <2>1, <3>1, <3>2
  <2>6. ScanRuled'
    BY <1>1, <2>1, <2>4, <2>5 DEF ScanRuled, Ruled
  <2>. QED  BY <2>2, <2>3, <2>6
<1>5. CASE ScanClean
  <2>1. /\ todo = {} /\ task[Scanner].pc = "idle" /\ batch' = {}
        /\ index' = [k \in Key |-> IF k \in batch THEN 0 ELSE index[k]]
    BY <1>5 DEF ScanClean
  <2>2. \A k \in batch : Ruled(k)
    BY <2>1 DEF ScanRuled
  <2>3. Tracked'
    BY <1>h, <1>1, <2>1, <2>2 DEF Tracked, Ruled
  <2>4. IndexKnown'
    BY <1>1, <2>1 DEF IndexKnown, Indexed
  <2>5. batch' \ todo' = {}
    BY <2>1
  <2>6. ScanRuled'
    BY <2>5 DEF ScanRuled
  <2>. QED  BY <1>2, <2>3, <2>4, <2>6
<1>. QED  BY <1>2, <1>3, <1>4, <1>5

LEMMA CleanTrack ==
    ASSUME TypeOK, TypeOK', UniqueIds, Parked, Tracked, FlagRuled, IndexKnown, ScanRuled,
           NEW S \in SUBSET Msg, CleanPayload(S)
    PROVE  Parked' /\ Tracked' /\ FlagRuled' /\ IndexKnown' /\ ScanRuled'
<1>h. High \subseteq Msg /\ \A x \in Msg : KeyOf[x] \in Key
  BY PlaneAssumption
<1>1. /\ UNCHANGED <<stage, expires, index, executed, logs, batch, todo, task>>
      /\ stored' = stored \ S
  BY DEF CleanPayload, engine, scan
<1>2. \A m \in S : Ruled(KeyOf[m])
  <2>. SUFFICES ASSUME NEW m \in S PROVE Ruled(KeyOf[m])
    OBVIOUS
  <2>1. PICK r \in logs : IdOf[r.key] = IdOf[KeyOf[m]]
    BY DEF CleanPayload
  <2>2. r.key \in Key /\ KeyOf[m] \in Key
    BY <1>h DEF TypeOK, Ruling
  <2>. QED  BY <2>1, <2>2 DEF UniqueIds, Ruled
<1>3. Parked' /\ Tracked'
  BY <1>h, <1>1, <1>2 DEF Parked, Tracked, Ruled
<1>4. FlagRuled' /\ IndexKnown' /\ ScanRuled'
  BY <1>1 DEF FlagRuled, IndexKnown, Indexed, ScanRuled, Ruled
<1>. QED  BY <1>3, <1>4

\* While nothing has failed, and alerts have ids of their own, an alert that was routed is
\* in the expiry index under its deadline, with its payload, until somebody has ruled on it
\* (decision_engine.py:41-103, decision_fallback_scanner.py:76-98): for any number of
\* alerts, tenants and requests.
THEOREM NetComplete == UniqueIds => (Spec => []TrackedUntilRuled)
<1>. SUFFICES ASSUME UniqueIds PROVE Spec => []TrackedUntilRuled
  OBVIOUS
<1>1. Init => TrackInv
  BY PlaneAssumption DEF Init, TrackInv, Parked, Tracked, FlagRuled, IndexKnown, Indexed, ScanRuled, Known
<1>2. ASSUME TypeOK, TypeOK', TrackInv, [Next]_vars
      PROVE  TrackInv'
  <2>. SUFFICES ASSUME faults' = 0
                PROVE  Parked' /\ Tracked' /\ FlagRuled' /\ IndexKnown' /\ ScanRuled'
    BY DEF TrackInv
  <2>1. Parked /\ Tracked /\ FlagRuled /\ IndexKnown /\ ScanRuled
    BY <1>2, FaultsGrow DEF TrackInv, TypeOK
  <2>. QED
    BY <1>2, <2>1, StillKinds, StillTrack, EngineTrack, ExecuteTrack, ScanTrack, CleanTrack DEF NetStep
<1>3. TrackInv => TrackedUntilRuled
  BY DEF TrackInv, Tracked, Known, TrackedUntilRuled
<1>. QED  BY <1>1, <1>2, <1>3, TypeCorrect, PTL DEF Spec
=============================================================================
