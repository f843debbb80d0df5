---------------------------- MODULE DecisionPlane ----------------------------
(***************************************************************************)
(* The decision control plane: an alert that the LLM analyzer has scored   *)
(* is routed by the decision engine and, when it is severe, ruled on by    *)
(* whichever comes first of an analyst's request (mobile gateway), the     *)
(* timeout listener and the fallback scanner.  They share only Redis: the  *)
(* hash decision_payloads, the keys pending_decision:* and executed:*, the *)
(* sorted set decision_expiry_index and four streams.                      *)
(*                                                                         *)
(* One action is one awaited Redis command (or one Lua script, which Redis *)
(* runs atomically) together with the code up to the next await: between   *)
(* two of them any other process may run, fail or be restarted.            *)
(*                                                                         *)
(* Time is counted in ticks.  In the maps from keys or alerts to times, 0  *)
(* is "absent": a time to live is at least 1, so no expiry time is 0.      *)
(***************************************************************************)
EXTENDS Naturals

CONSTANTS
    Msg,             \* alerts that reach stream:decisions_pending
    Key,             \* decision keys: tenant prefix and alert_id together
    AlertId,         \* alert identifiers
    KeyOf,           \* the decision key of an alert
    Tenant,          \* tenants
    NoTenant,        \* the un-prefixed ("legacy") key space
    TenantOf,        \* the tenant, or NoTenant, of a decision key
    IdOf,            \* the alert_id of a decision key
    High,            \* alerts of severity high or critical
    Handler,         \* concurrent POST /decision requests
    MobileAction,    \* what such a request may ask for (DecisionAction)
    NoMsg,           \* not an alert
    DecisionTimeout, \* MOBILE_DECISION_TIMEOUT, in ticks
    ExecutedTTL,     \* life of the executed:* flag, in ticks
    Horizon,         \* bound: no alert is routed after this time
    MaxTime,         \* bound: the clock stops here
    MaxFaults        \* bound on errors and crashes

ASSUME PlaneAssumption ==
    /\ KeyOf \in [Msg -> Key]
    /\ TenantOf \in [Key -> Tenant \cup {NoTenant}]
    /\ IdOf \in [Key -> AlertId]
    /\ High \subseteq Msg
    /\ NoMsg \notin Msg
    /\ MobileAction \subseteq {"APPROVE", "REJECT", "ESCALATE"}
    /\ DecisionTimeout \in Nat \ {0}
    /\ ExecutedTTL \in Nat \ {0}
    /\ Horizon \in Nat
    /\ MaxTime \in Nat
    /\ MaxFaults \in Nat

\* The executors of LUA_EXECUTE_DECISION: requests, the background task that
\* the listener spawns for the expiry of an alert's key, and the scanner.
Mobile(h)       == <<"mobile", h>>
ListenerTask(m) == <<"listener", m>>
Scanner         == <<"scanner", 0>>
Engine          == <<"engine", 0>>
MobileWorker    == {Mobile(h) : h \in Handler}
ListenerWorker  == {ListenerTask(m) : m \in Msg}
TimeoutWorker   == ListenerWorker \cup {Scanner}
Worker          == MobileWorker \cup TimeoutWorker

Verdict  == {"APPROVE", "REJECT", "ESCALATE", "BLOCK"}
Blocking == {"APPROVE", "BLOCK"}

\* Progress of an alert through the engine.  "stuck" is delivered but never
\* acknowledged: the consumer group reads only new entries, so it stays there.
Routing == {"arm", "index", "notify", "ack"}
InHand  == Routing \cup {"inbox"}
Stage   == InHand \cup {"queued", "done", "stuck"}

\* A worker's local state: the alert whose payload it has read, the action it
\* asks for and, once the script has accepted it, the time of its ruling.
TaskRecord ==
    [pc : {"idle", "fetch", "exec", "publish"}, src : Msg \cup {NoMsg},
     act : Verdict, at : Nat]
Task    == {t \in TaskRecord : t.pc \in {"exec", "publish"} => t.src \in Msg}
Idle    == [pc |-> "idle", src |-> NoMsg, act |-> "BLOCK", at |-> 0]
Spawned == [Idle EXCEPT !.pc = "fetch"]

\* An entry of stream:decision_logs; by and at stand for source and trace_id.
Ruling == [key : Key, act : Verdict, by : Worker, at : Nat]
\* An entry of stream:block_commands: the alert whose src_ip it carries, and
\* the trace_id, which is that of the ruling when there is one.
Command == [src : Msg, by : Worker \cup {Engine}, at : Nat]

VARIABLES
    now,       \* the clock
    stage,     \* per alert: where the engine has got to with it
    expires,   \* per alert: the expires_at written in its payload
    stored,    \* decision_payloads: the alerts whose payload is the one stored
    pending,   \* per alert: expiry of the pending_decision key it has set
    index,     \* decision_expiry_index: per key, the score
    executed,  \* per key: expiry of its executed flag
    logs,      \* stream:decision_logs
    blocks,    \* stream:block_commands
    notified,  \* stream:mobile_notifications
    task,      \* per worker: its local state
    batch,     \* the members that the scanner's first read returned
    todo,      \* those of them that it has still to process
    listening, \* the listener is subscribed to key expirations
    faults     \* errors and crashes so far

redis  == <<stored, pending, index, executed, logs, blocks, notified>>
engine == <<stage, expires>>
scan   == <<batch, todo>>
vars   == <<now, engine, redis, task, scan, listening, faults>>

Init ==
    /\ now = 0
    /\ stage = [m \in Msg |-> "queued"]
    /\ expires = [m \in Msg |-> 0]
    /\ stored = {}
    /\ pending = [m \in Msg |-> 0]
    /\ index = [k \in Key |-> 0]
    /\ executed = [k \in Key |-> 0]
    /\ logs = {}
    /\ blocks = {}
    /\ notified = {}
    /\ task = [w \in Worker |-> Idle]
    /\ batch = {}
    /\ todo = {}
    /\ listening = FALSE
    /\ faults = 0

\* An alert without a tenant, kept in the un-prefixed key space.
Legacy(m)  == TenantOf[KeyOf[m]] = NoTenant
SameKey(m) == {x \in Msg : KeyOf[x] = KeyOf[m]}

Fault == faults < MaxFaults /\ faults' = faults + 1

-----------------------------------------------------------------------------
(* Time.  The clock waits for the engine at Horizon, so that every timer   *)
(* the engine starts has a chance to fire before the clock stops.          *)

Tick ==
    /\ now < MaxTime
    /\ now < Horizon \/ \A m \in Msg : stage[m] \in {"done", "stuck"}
    /\ now' = now + 1
    /\ UNCHANGED <<engine, redis, task, scan, listening, faults>>

-----------------------------------------------------------------------------
(* Decision engine: consumer_loop reads a batch, route_alert runs on each  *)
(* entry in turn and the entry is acknowledged when it returns.            *)

\* XREADGROUP ... ">" hands over a batch of entries that nobody has read.
EngineRead(S) ==
    /\ S # {}
    /\ \A m \in Msg : stage[m] \notin InHand
    /\ \A m \in S : stage[m] = "queued"
    /\ stage' = [m \in Msg |-> IF m \in S THEN "inbox" ELSE stage[m]]
    /\ UNCHANGED <<now, expires, redis, task, scan, listening, faults>>

\* The next entry of the batch may start.
Starts(m) ==
    /\ stage[m] = "inbox"
    /\ \A x \in Msg : stage[x] \notin Routing

\* Severe: HSET of the payload, replacing one stored under the same key.
StorePayload(m) ==
    /\ Starts(m)
    /\ m \in High
    /\ expires' = [expires EXCEPT ![m] = now + DecisionTimeout]
    /\ stored' = (stored \ SameKey(m)) \cup {m}
    /\ stage' = [stage EXCEPT ![m] = "arm"]
    /\ UNCHANGED <<now, pending, index, executed, logs, blocks, notified,
                   task, scan, listening, faults>>

\* SET pending_decision ... EX, which restarts the life of an existing key.
ArmTimer(m) ==
    /\ stage[m] = "arm"
    /\ pending' = [x \in Msg |-> IF x = m THEN now + DecisionTimeout
                                 ELSE IF x \in SameKey(m) THEN 0
                                 ELSE pending[x]]
    /\ stage' = [stage EXCEPT ![m] = "index"]
    /\ UNCHANGED <<now, expires, stored, index, executed, logs, blocks,
                   notified, task, scan, listening, faults>>

\* Mutant: the score is the time of the ZADD, not the deadline.
IndexExpiryAtOnce(m) ==
    /\ stage[m] = "index"
    /\ index' = [index EXCEPT ![KeyOf[m]] = now]
    /\ stage' = [stage EXCEPT ![m] = "notify"]
    /\ UNCHANGED <<now, expires, stored, pending, executed, logs, blocks,
                   notified, task, scan, listening, faults>>

\* Mutant: the ZADD is forgotten.
IndexExpiryForgotten(m) ==
    /\ stage[m] = "index"
    /\ stage' = [stage EXCEPT ![m] = "notify"]
    /\ UNCHANGED <<now, expires, redis, task, scan, listening, faults>>

\* ZADD of the alert with the expires_at of its payload as the score.
IndexExpiry(m) ==
    /\ stage[m] = "index"
    /\ index' = [index EXCEPT ![KeyOf[m]] = expires[m]]
    /\ stage' = [stage EXCEPT ![m] = "notify"]
    /\ UNCHANGED <<now, expires, stored, pending, executed, logs, blocks,
                   notified, task, scan, listening, faults>>

\* XADD stream:mobile_notifications.
NotifyMobile(m) ==
    /\ stage[m] = "notify"
    /\ notified' = notified \cup {m}
    /\ stage' = [stage EXCEPT ![m] = "ack"]
    /\ UNCHANGED <<now, expires, stored, pending, index, executed, logs,
                   blocks, task, scan, listening, faults>>

\* Mutant: the severity is not looked at.
AutoExecuteAny(m) ==
    /\ Starts(m)
    /\ blocks' = blocks \cup {[src |-> m, by |-> Engine, at |-> now]}
    /\ stage' = [stage EXCEPT ![m] = "ack"]
    /\ UNCHANGED <<now, expires, stored, pending, index, executed, logs,
                   notified, task, scan, listening, faults>>

\* Not severe: the block command goes out with nobody asked.
AutoExecute(m) ==
    /\ Starts(m)
    /\ m \notin High
    /\ blocks' = blocks \cup {[src |-> m, by |-> Engine, at |-> now]}
    /\ stage' = [stage EXCEPT ![m] = "ack"]
    /\ UNCHANGED <<now, expires, stored, pending, index, executed, logs,
                   notified, task, scan, listening, faults>>

AckRoute(m) ==
    /\ stage[m] = "ack"
    /\ stage' = [stage EXCEPT ![m] = "done"]
    /\ UNCHANGED <<now, expires, redis, task, scan, listening, faults>>

\* A Redis call of route_alert, or the XACK, raises: the entry is left
\* unacknowledged and the loop goes on with the next one.
RouteError(m) ==
    /\ Fault
    /\ Starts(m) \/ stage[m] \in Routing
    /\ stage' = [stage EXCEPT ![m] = "stuck"]
    /\ UNCHANGED <<now, expires, redis, task, scan, listening>>

\* The engine dies with its batch in memory and is started again.
EngineCrash ==
    /\ Fault
    /\ \E m \in Msg : stage[m] \in InHand
    /\ stage' = [m \in Msg |-> IF stage[m] \in InHand THEN "stuck" ELSE stage[m]]
    /\ UNCHANGED <<now, expires, redis, task, scan, listening>>

-----------------------------------------------------------------------------
(* LUA_EXECUTE_DECISION, run by worker w on the key of the payload it has  *)
(* read.  EXISTS sees the executed flag until its time to live has passed. *)

\* Mutant: the script does not look at the flag.
ExecutedIgnored(k) == FALSE

Executed(k) == now < executed[k]

\* Mutant: every accepted action is followed by a block command.
AfterRulingBlocks(t) == [t EXCEPT !.pc = "publish", !.at = now]

\* Mutant: only an analyst's approval is.
AfterRulingApprove(t) ==
    IF t.act = "APPROVE" THEN [t EXCEPT !.pc = "publish", !.at = now] ELSE Idle

\* What an executor has left to do after an accepted ruling: a block command
\* for APPROVE and for the timeout's BLOCK.
AfterRuling(t) ==
    IF t.act \in Blocking THEN [t EXCEPT !.pc = "publish", !.at = now] ELSE Idle

ExecuteDecision(w) ==
    LET t == task[w]
        k == KeyOf[t.src]
    IN  IF Executed(k)
        THEN /\ task' = [task EXCEPT ![w] = Idle]
             /\ UNCHANGED <<pending, index, executed, logs>>
        ELSE /\ executed' = [executed EXCEPT ![k] = now + ExecutedTTL]
             /\ logs' = logs \cup
                  {[key |-> k, act |-> t.act, by |-> w, at |-> now]}
             /\ pending' = [x \in Msg |-> IF x \in SameKey(t.src) THEN 0
                                          ELSE pending[x]]
             /\ index' = [index EXCEPT ![k] = 0]
             /\ task' = [task EXCEPT ![w] = AfterRuling(t)]

Execute(w) ==
    /\ task[w].pc = "exec"
    /\ ExecuteDecision(w)
    /\ UNCHANGED <<now, engine, stored, blocks, notified, scan, listening, faults>>

\* XADD stream:block_commands with the src_ip of the payload that was read.
PublishBlock(w) ==
    /\ task[w].pc = "publish"
    /\ blocks' = blocks \cup {[src |-> task[w].src, by |-> w, at |-> task[w].at]}
    /\ task' = [task EXCEPT ![w] = Idle]
    /\ UNCHANGED <<now, engine, stored, pending, index, executed, logs,
                   notified, scan, listening, faults>>

\* A call of the worker raises; whatever it still had to do is not done.
WorkerError(w) ==
    /\ Fault
    /\ task[w].pc # "idle"
    /\ task' = [task EXCEPT ![w] = Idle]
    /\ UNCHANGED <<now, engine, redis, scan, listening>>

-----------------------------------------------------------------------------
(* Mobile gateway, POST /decision: HGET of the payload in the hash of the  *)
(* caller's tenant (404 without one), the script (409 on 0), and the block *)
(* command when the action is APPROVE.                                     *)

\* Mutant: a request goes on without a payload.
MobileFetchUnchecked(h, m, a) ==
    /\ task[Mobile(h)].pc = "idle"
    /\ task' = [task EXCEPT ![Mobile(h)] =
                  [pc |-> "exec", src |-> IF m \in stored THEN m ELSE NoMsg,
                   act |-> a, at |-> 0]]
    /\ UNCHANGED <<now, engine, redis, scan, listening, faults>>

MobileFetch(h, m, a) ==
    /\ task[Mobile(h)].pc = "idle"
    /\ m \in stored
    /\ ~ Legacy(m)
    /\ task' = [task EXCEPT ![Mobile(h)] =
                  [pc |-> "exec", src |-> m, act |-> a, at |-> 0]]
    /\ UNCHANGED <<now, engine, redis, scan, listening, faults>>

MobileExecute(h) == Execute(Mobile(h))

MobilePublish(h) == PublishBlock(Mobile(h))

-----------------------------------------------------------------------------
(* Timeout listener.  Redis removes an expired key at some time after its  *)
(* expiry and tells the current subscribers once; each event gets a task.  *)

ExpireKey(m) ==
    /\ pending[m] # 0
    /\ pending[m] <= now
    /\ pending' = [pending EXCEPT ![m] = 0]
    /\ task' = IF listening THEN [task EXCEPT ![ListenerTask(m)] = Spawned]
               ELSE task
    /\ UNCHANGED <<now, engine, stored, index, executed, logs, blocks,
                   notified, scan, listening, faults>>

\* handle_expiration: HGET of the payload, and nothing more without one.
ListenerFetch(m) ==
    /\ task[ListenerTask(m)].pc = "fetch"
    /\ \/ \E x \in stored \cap SameKey(m) :
             task' = [task EXCEPT ![ListenerTask(m)] =
                        [Idle EXCEPT !.pc = "exec", !.src = x]]
       \/ /\ stored \cap SameKey(m) = {}
          /\ task' = [task EXCEPT ![ListenerTask(m)] = Idle]
    /\ UNCHANGED <<now, engine, redis, scan, listening, faults>>

ListenerExecute(m) == Execute(ListenerTask(m))

ListenerPublish(m) == PublishBlock(ListenerTask(m))

ListenerStart ==
    /\ ~ listening
    /\ listening' = TRUE
    /\ UNCHANGED <<now, engine, redis, task, scan, faults>>

\* The listener dies, or its subscription does, and its tasks with it.
ListenerStop ==
    /\ Fault
    /\ listening
    /\ listening' = FALSE
    /\ task' = [w \in Worker |-> IF w \in ListenerWorker THEN Idle ELSE task[w]]
    /\ UNCHANGED <<now, engine, redis, scan>>

-----------------------------------------------------------------------------
(* Fallback scanner: one index at a time, every expired member of it in    *)
(* turn, then ZREM of every member that the first read returned.           *)

ScanIdle == batch = {}

Expired(t) == {k \in Key : TenantOf[k] = t /\ index[k] # 0 /\ index[k] <= now}

ScanRead(t) ==
    /\ ScanIdle
    /\ Expired(t) # {}
    /\ batch' = Expired(t)
    /\ todo' = Expired(t)
    /\ UNCHANGED <<now, engine, redis, task, listening, faults>>

\* process_expired_alert: HGET of the payload, and nothing more without one.
ScanFetch(k) ==
    /\ k \in todo
    /\ task[Scanner].pc = "idle"
    /\ todo' = todo \ {k}
    /\ \/ \E x \in stored :
             /\ KeyOf[x] = k
             /\ task' = [task EXCEPT ![Scanner] =
                           [Idle EXCEPT !.pc = "exec", !.src = x]]
       \/ /\ \A x \in stored : KeyOf[x] # k
          /\ UNCHANGED task
    /\ UNCHANGED <<now, engine, redis, batch, listening, faults>>

ScanExecute == Execute(Scanner)

ScanPublish == PublishBlock(Scanner)

\* Mutant: the clean-up removes by score, and with it what has expired since.
ScanCleanByScore ==
    /\ ~ ScanIdle
    /\ todo = {}
    /\ task[Scanner].pc = "idle"
    /\ index' = [k \in Key |-> IF index[k] <= now THEN 0 ELSE index[k]]
    /\ batch' = {}
    /\ UNCHANGED <<now, engine, stored, pending, executed, logs, blocks,
                   notified, task, todo, listening, faults>>

\* The members that the scan has seen leave the index, ruled on or not.
ScanClean ==
    /\ ~ ScanIdle
    /\ todo = {}
    /\ task[Scanner].pc = "idle"
    /\ index' = [k \in Key |-> IF k \in batch THEN 0 ELSE index[k]]
    /\ batch' = {}
    /\ UNCHANGED <<now, engine, stored, pending, executed, logs, blocks,
                   notified, task, todo, listening, faults>>

\* The scanner dies and is restarted, or its loop catches an error of ZREM.
ScanAbort ==
    /\ Fault
    /\ ~ ScanIdle
    /\ batch' = {}
    /\ todo' = {}
    /\ task' = [task EXCEPT ![Scanner] = Idle]
    /\ UNCHANGED <<now, engine, redis, listening>>

-----------------------------------------------------------------------------
(* Decision log writer, as far as the other processes can tell: when some  *)
(* rulings are in the database it deletes their payloads from the hash.    *)
(* Their records carry no tenant_id, so it is always the un-prefixed hash. *)

CleanPayload(S) ==
    /\ \A m \in S :
        Legacy(m) /\ \E r \in logs : IdOf[r.key] = IdOf[KeyOf[m]]
    /\ stored' = stored \ S
    /\ UNCHANGED <<now, engine, pending, index, executed, logs, blocks,
                   notified, task, scan, listening, faults>>

-----------------------------------------------------------------------------
EngineStep(m) ==
    \/ StorePayload(m) \/ ArmTimer(m) \/ IndexExpiry(m) \/ NotifyMobile(m)
    \/ AutoExecute(m) \/ AckRoute(m)
ListenerStep(m) == ListenerFetch(m) \/ ListenerExecute(m) \/ ListenerPublish(m)
ScannerStep ==
    \/ \E t \in Tenant \cup {NoTenant} : ScanRead(t)
    \/ \E k \in Key : ScanFetch(k)
    \/ ScanExecute \/ ScanPublish \/ ScanClean

\* What the processes other than the log writer do.
PlaneNext ==
    \/ Tick
    \/ \E S \in SUBSET Msg : EngineRead(S)
    \/ \E m \in Msg : EngineStep(m) \/ RouteError(m)
    \/ EngineCrash
    \/ \E h \in Handler, m \in Msg, a \in MobileAction : MobileFetch(h, m, a)
    \/ \E h \in Handler : MobileExecute(h) \/ MobilePublish(h)
    \/ \E m \in Msg : ExpireKey(m) \/ ListenerStep(m)
    \/ ListenerStart
    \/ ListenerStop
    \/ ScannerStep
    \/ ScanAbort
    \/ \E w \in Worker : WorkerError(w)

Next == PlaneNext \/ \E S \in SUBSET Msg : CleanPayload(S)

Spec == Init /\ [][Next]_vars

(***************************************************************************)
(* Fairness.  Every process is an asyncio loop that its supervisor keeps   *)
(* running, and Redis removes an expired key some time later.  Nothing is  *)
(* assumed of analysts, who may never send a request, nor of the listener, *)
(* which may not be subscribed when a key expires.                         *)
(***************************************************************************)
Fairness ==
    /\ WF_vars(Tick)
    /\ WF_vars(\E S \in SUBSET Msg : EngineRead(S))
    /\ \A m \in Msg : WF_vars(EngineStep(m))
    /\ \A m \in Msg : WF_vars(ExpireKey(m)) /\ WF_vars(ListenerStep(m))
    /\ \A h \in Handler : WF_vars(MobileExecute(h) \/ MobilePublish(h))
    /\ WF_vars(ScannerStep)

FairSpec == Spec /\ Fairness

-----------------------------------------------------------------------------
(* Properties.                                                             *)

TypeOK ==
    /\ now \in Nat
    /\ stage \in [Msg -> Stage]
    /\ expires \in [Msg -> Nat]
    /\ stored \subseteq Msg
    /\ pending \in [Msg -> Nat]
    /\ index \in [Key -> Nat]
    /\ executed \in [Key -> Nat]
    /\ logs \subseteq Ruling
    /\ blocks \subseteq Command
    /\ notified \subseteq Msg
    /\ task \in [Worker -> Task]
    /\ batch \subseteq Key
    /\ todo \subseteq Key
    /\ listening \in BOOLEAN
    /\ faults \in Nat

\* Command o was published on the strength of ruling r.
Enforces(o, r) == o.by = r.by /\ o.at = r.at /\ KeyOf[o.src] = r.key
Enforced(r) == \E o \in blocks : Enforces(o, r)
Ruled(k) == \E r \in logs : r.key = k

\* No two alerts share a decision key.  It fails when the LLM analyzer could
\* not store an alert and sends it on with alert_id "unknown".
UniqueKeys == \A m, x \in Msg : KeyOf[m] = KeyOf[x] => m = x

\* The idempotency guard: however requests, timeout tasks and the scanner
\* race, two accepted decisions on a key are a life of its flag apart.
RulingsApart ==
    \A r, q \in logs :
        r.key = q.key /\ r # q =>
            r.at + ExecutedTTL <= q.at \/ q.at + ExecutedTTL <= r.at

\* No address is blocked without cause: a block command belongs to an alert
\* that the engine may execute by itself, or to an accepted decision to block
\* on that alert's key.  An alert the analyst rejected is not blocked.
OrdersBacked ==
    \A o \in blocks :
        \/ o.by = Engine /\ o.src \notin High
        \/ \E r \in logs : r.act \in Blocking /\ Enforces(o, r)

\* Neither the listener nor the scanner decides for the analyst before the
\* deadline in the alert's payload, whatever is still being written for it.
WindowHonoured ==
    \A r \in logs : \A m \in Msg :
        r.by \in TimeoutWorker /\ r.key = KeyOf[m] =>
            expires[m] # 0 /\ expires[m] <= r.at

\* While nothing has failed, an accepted decision to block is in the firewall's
\* stream or its executor is just about to put it there.
NoSilentLoss ==
    faults = 0 =>
        \A r \in logs : r.act \in Blocking =>
            \/ Enforced(r)
            \/ LET t == task[r.by]
               IN  t.pc = "publish" /\ t.at = r.at /\ KeyOf[t.src] = r.key

\* While nothing has failed, an alert that has been routed and not ruled on is
\* in the expiry index with its deadline, where the scanner will find it.
TrackedUntilRuled ==
    faults = 0 =>
        \A m \in High : stage[m] \in {"notify", "ack", "done"} =>
            Ruled(KeyOf[m]) \/ (index[KeyOf[m]] = expires[m] /\ m \in stored)

\* Fail secure: a severe alert ends in a block command, unless an analyst
\* rejected or escalated it.
FailSecure ==
    <>(\A m \in High :
            \/ \E o \in blocks : KeyOf[o.src] = KeyOf[m]
            \/ \E r \in logs : r.key = KeyOf[m] /\ r.act \notin Blocking)

\* The fallback scanner as a safety net: an alert that has been routed gets its
\* decision, whether or not the listener hears of its expiry.
RoutedGetsRuled ==
    \A m \in High : stage[m] = "done" ~> Ruled(KeyOf[m])

\* The control plane keeps the promise of DecisionLedger.
Ledger == INSTANCE DecisionLedger WITH
    Executor <- Worker, Window <- ExecutedTTL,
    clock <- now, rulings <- logs, orders <- blocks
LedgerSpec == Ledger!Spec
=============================================================================
