# A verification development for SecureNet SOC (CypherGuard)

TLA+ models of the parts of this repository where concurrency, failure and time
decide correctness, the TLC runs that check them on small instances, and TLAPS
proofs of their main properties for every instance. `PROJECT.json` lists
components, runs, mutants, the mapping from definitions to source lines,
findings, hazards and theorems.

Check a module with `tlc -config X.cfg M` and its proofs with `tlapm M.tla`.

## 1. The system

Services talk through Redis streams. Each stream has one consumer group with one
consumer. `RedisManager.consume` (shared/redis_client.py) creates the group at id
0 and reads only new entries (`">"`), so an entry that is delivered and not
acknowledged is never delivered again.

    sensor -> ingest gateway \
    sniffer ------------------> raw_packets -> extractor -> features -> ML engine
      -> alerts -> LLM analyzer -> decisions_pending -> decision engine
      -> mobile_notifications -> mobile gateway -> analyst's app
      -> block_commands -> firewall controller
    decision_logs (written by the decision script) -> decision log writer

| component | state | operations | hard behaviour |
|---|---|---|---|
| decision engine (control_plane/decision_engine.py) | payload hash, volatile key, expiry index, all in Redis | route an alert: park it for an analyst or order the block | three writes with readers in between; errors and crashes with a batch in hand |
| decision script (shared/lua_scripts.py) | executed flag (one day), stream of decisions | check, set, log, clean | the only atomic step among up to four racing parties |
| timeout listener, fallback scanner | subscription; ids of a scan in memory | rule BLOCK on what has expired | lost notifications, stale reads, errors between script and publication |
| mobile gateway, POST /decision | none | rule as the analyst asks | races with the two above and with itself |
| decision log writer | group cursor, batch in memory, table decision_logs | insert, delete payloads, acknowledge | failed batches, conflicts, order |
| firewall controller, both gateways' blocklist endpoints | Redis sets, table blocked_ips, iptables rules | block, unblock, reload at start | set, rules and table change one after the other; restarts; eviction |
| feature extractor | sliding windows in Redis, active sources in memory, live metrics | record, extract, sum up | consumer and metrics loop interleave; bounded set; three ways to lose window entries |
| ML engine | loaded model, cooldown keys | score, alert, poll and reload | cooldown taken before the alert is out; two files that change one after the other |
| ML training and promotion | model files, table model_registry | write files, log, promote | promotions race; files are torn while written |
| LLM analyzer, circuit breaker | cache, breaker state of the process | cache, LLM, heuristic, store, publish | each step fails on its own; when to stop asking |
| authentication | blacklist, lockout counters, rate windows | login, refresh, logout | check-then-act on one-time tokens, counters without expiry |
| tenancy, plans, billing | tenant rows, cached status, sensor rows | signup, webhooks, trial expiry, limits, status check | lost updates, duplicated and reordered events, stale cache |
| sensor fleet | buffer, sensor rows | capture, post, verify, heartbeat, monitor, revoke | retries of posts still being worked on, revocation against heartbeat |
| WebSockets and lists of the gateways | list of sockets; cursor of a page | broadcast, push; next page | a list changed while it is walked; a table changed between pages |
| mobile app | offline queue, tokens, lists | enqueue, flush, login, logout, scroll | awaits between reading and writing the queue |
| support code, user interfaces, deployment | - | I/O, formatting | - |

What makes each correct: every severe alert gets exactly one ruling per life of
its flag and ends blocked unless an analyst said otherwise; no address is blocked
without cause; every ruling is in the audit log; what the table says is blocked
is blocked, and for that tenant only; a one-time token is used once; a plan's
limit holds; no decision taken offline is lost.

The hazards, each at its line with the properties that watch it, are in
`PROJECT.json`.

## 2. Plan

In the order of importance, each component with its properties first checked and
then, where the prover reaches, proved:

1. `DecisionLedger`, `DecisionPlane`, `DecisionLogWriter`: what is decided - done.
2. `Blocklist`: what is enforced - done.
3. `StreamConsumer`, `StreamGroup`, `FeaturePipeline`, `AlertAnalyzer`: how an
   alert comes about - done.
4. `LoginGuard`, `TokenSessions`, `TenantGate`: who may ask - done.
5. `OfflineQueue`, `RealtimeHub`, `ListPages`: what the analyst sees and sends - done.
6. `SensorFleet`, `TrafficWindow`: where packets come from - done.
7. `TenantSignup`, `TenantBilling`: what a tenant has - done.
8. `ModelRegistry`: which model judges - done.

Left: the gate in the app's auth_interceptor that lets concurrent 401s share one
refresh, and the reconnection of its socket manager. Every safety property that a
passing run checks is proved (section 5).

Recursion is written as recursive functions or folds, as tlapm loses its SMT
backend in modules that reach a RECURSIVE operator.

## 3. The modules

**DecisionLedger** is the abstract promise of the control plane: a clock, a set of
rulings and a set of block orders. A ruling on a key is possible when no ruling is
younger than the window; an order needs a ruling to block on its key, or an alert
that is not severe. Every executor must be able to rely on no more than that.

**DecisionPlane** is the code: engine, script, requests, listener, scanner. One
action is one awaited Redis call (or the script, which Redis runs atomically) with
the code up to the next await. So `route_alert` is `EngineRead`, `StorePayload`,
`ArmTimer`, `IndexExpiry`, `NotifyMobile`, `AckRoute`; a request is `MobileFetch`,
`MobileExecute`, `MobilePublish`; the scanner is `ScanRead`, then per id
`ScanFetch`, `ScanExecute`, `ScanPublish`, then `ScanClean`, which removes the ids
of the first read. `WorkerError`, `RouteError` and `ScanAbort` are the error
paths, `EngineCrash` a restart that loses the batch, `ListenerStop` a missed
subscription. `stored` maps the payload hash to the alerts whose payload it holds,
so two alerts that share a key overwrite each other as they do in Redis. Time
advances by ticks; keys disappear some time after they expire, as in Redis.

`CleanPayload` is what the plane sees of the log writer: it may delete payloads.

**DecisionLogWriter** composes the plane with the writer and replaces
`CleanPayload` by the writer's own steps. `WriterRead` is XREADGROUP, `InsertBatch`
the INSERT ... ON CONFLICT DO NOTHING in one transaction, `CleanBatch` the HDEL of
the un-prefixed hash (the script's log entry has no tenant_id), `AckBatch` XACK,
`WriterFail` any of the error paths: the batch is dropped from memory and stays
pending for good. `CreateGroup` creates the group at the end of the stream, as the
client library's default id is `$`.

**Blocklist** is firewall/main.py with the three endpoints of the gateways that
change the blocklist. A command goes through `CheckBlocked`, `AddToCache`,
`Enforce`, `RecordBlock`, `AckCommand`; `Start`, `LoadBlock`, `LoadDone` and
`LoadFails` are the reload; `ChangeCache`, `SelectRow`, `InsertRow`, `Deactivate`
are a request. The mobile gateway's calls leave out the tenant, and so do the
actions. `Evict` is Redis under maxmemory with allkeys-lru. `lost` remembers the
sets evicted since the reload began and `toLoad` keeps what a reload has not
restored: both say what may be missing and why. The table is a function from
addresses to rows, because the migrations make `ip_address` unique over all tenants
(migrations/001_initial.sql:47, alembic 2e7b90c40679:73; the model class does not
say so) and no row is deleted: `AddRow` is possible once per address, and whoever
inserts after that, the firewall or a gateway, gets an error, which `RecordBlock`
and `InsertRow` take as an outcome of its own, no fault. Entries that will be
produced later are entries not yet delivered.

**StreamConsumer** is the loop every service runs over a stream
(`RedisManager.consume`, `publish`, XACK), as operators on a function from entry
numbers to states: queued, in hand at some step, acknowledged, never
acknowledged, trimmed. **StreamGroup** is the abstract promise: delivered in order
and once, a batch only after the last one, settled once and in order, dropped
unread only for newer entries. `FeaturePipeline` is shown to implement it on both
its streams (`StreamsKept`).

**FeaturePipeline** is extractor/main.py and ml_engine/main.py between
stream:raw_packets and stream:alerts. The extractor's handler is `TakePacket`
(window and features), `PublishFeatures`, `AckPacket`, with `DropPacket` for
each early exit; the engine's is `Predict`, `ShouldAlert` (SET NX EX of the
cooldown), `PublishAlert`, `AckFeatures`, with `DropFeatures`. `PacketError` and
`FeaturesError` leave the entry pending for good; `ExtractorCrash` and
`EngineRestart` lose the batch in hand. Blocked sets and cooldowns change at any
time. With no tenant, keys are shared (`KeyShared`).

**TrafficWindow** is the state behind the extractor: `RecordPacket` is
ZADD, trimming, the cap and EXPIRE in one pipeline; `Track` the bounded set
_active_ips; `ScanStart`, `ScanTenant`, `ScanSource`, `ScanPublish` the metrics
loop, await by await, which forgets the sources it found silent.

**AlertAnalyzer** is llm_analyzer/main.py with shared/circuit_breaker.py:
`FromCache`, `AskCircuit`, `NextModel`, `CallSucceeds`, `CallFails`,
`CacheAnalysis`, `StoreAlert`, `PublishDecision`, `AckAlert`, and an error action
for each step that may raise (`CacheError`, `StoreError`, `AlertError`), each with
the way the code goes on. `Observed` is the change to HALF_OPEN that merely
reading the breaker's state makes, which the metrics do as well (`ReadGauge`).

**ModelRegistry** is the training script, auto_retrain, the gateway's promotion
and the engine's poll. A run opens and closes the model's file, then the metadata
(`Torn` in between), reads the best F1, selects the other active rows and commits;
`WatchTime`, `WatchModel`, `WatchMetadata` are the engine's poll, `ReloadHash`,
`ReloadModel`, `ReloadVersion` a request to reload. Runs of auto_retrain fail to
log (`LogFails`): they call asyncio.run inside a running loop
(train_production.py:526, auto_retrain.py:12-13).

**LoginGuard**: `Arrive` counts the request in the limiter that all endpoints
share, `CheckLock`, `CheckPassword`, `RecordFailure`, `ExpireCounter`,
`ClearFailures`, `FinishLogin` are the handler's awaits; failures of Redis let a
request pass. **TokenSessions**: `Start` is the check of the blacklist, `Rotate`
writes the old token there and issues a pair, `Logout` ends one; `life` is
"last" in the fraction of a second that int(exp - now) cuts off.
**TenantGate** is require_active_tenant: `LookUp`, `ReadStanding`,
`CacheStanding`, with both stores failing open.

**TenantSignup**: `StartSignup` is the check for the email, `InsertTenant` the
transaction with the unique key, `StoreToken` and `VerifyEmail` what follows.
**TenantBilling**: the three handled events of Stripe stay in a set and so arrive
any number of times in any order; `SelectExpired` and `ExpireTrials` are the two
ends of the trial checker's session, which writes the columns it changed in rows
it loaded before; `CountSensors`, `CheckLimit`, `InsertSensor` are the three
sessions of a new sensor.

**SensorFleet** is one sensor: `Capture`, `SendBatch`, `PutBack`, `GiveUp` (a
timeout while the gateway still works), the gateway's `VerifyPost`, `Admit`,
`PublishPacket`, `Answer`; `LoadRow` and `CommitBeat` of a heartbeat;
`MonitorSelect` and `MonitorCommit`; `Revoke`.

**RealtimeHub** walks the list of sockets by index as Python's loop does, one
`SendNext` per await, with `Connect`, `Disconnect` and removals in between.
**ListPages** has the cursor-paged lists and the app's cubits; `Load`, `LoadMore`,
`Act` take what the cubit captured before its await and `Land` emits it.
**OfflineQueue** is the app's queue: `Loop` and `FlushSent` work on the copy that a
flush read and write the survivors back at its end.

**MC modules** give the constants values; `MCDetection` (the components of
detection and the blocklist they feed) and `MCPlatform` also put components that
share no variable side by side: `part`, chosen at the start, names
the one that runs, so one run checks them all without their product. Components
that do interact are composed in the modules themselves: the plane with the
writer, firewall with gateways, extractor with engine, sensor with ingest.
**Proofs** modules hold the theorems.

## 4. The runs

| run | expects | what it shows |
|---|---|---|
| plane_safety | pass | one ruling per life of the flag (`RulingsApart`), no block without cause (`OrdersBacked`), no timeout before the deadline (`WindowHonoured`), a block follows an accepted ruling (`NoSilentLoss`), and `DecisionLedger` is implemented (`LedgerSpec`) |
| scanner_net | violation | `RoutedGetsRuled`: the scanner removes ids it failed to process |
| writer | pass | with the log writer at work, a severe alert ends in a block command or a human "no" (`FailSecure`) and is in the expiry index until then (`TrackedUntilRuled`); `PayloadKeptUntilRow`, `AckedMeansRecorded`, `FirstDecisionKept`, `DecisionAcked`, and the composition is still a `DecisionPlane` (`PlaneSpec`) |
| writer_retry | violation | `FailedBatchRetried`: a failed batch is not read again |
| writer_audit | violation | `AllDecisionsLogged`: a later decision on an alert leaves no row |
| detection | pass | windows lose nothing the features count (`WindowComplete`) and silence is noticed (`SilentSettles`); acknowledged entries came to something (`AckedAccounted`), the cooldown neither floods nor silences (`CooldownSound`), the streams keep `StreamGroup` (`StreamsKept`) and are served (`StreamsServed`); the analyzer passes alerts on once (`AlertsPassedOn`), its breaker tells the truth (`BreakerTruthful`), its cache stays within a tenant (`CacheOwnTenant`); the engine ends up with the model on disk (`EngineCatchesUp`); no address is blocked off the record while nothing fails (`AddressesRecorded`), what the firewall recorded is in force (`ActiveRowsEnforced`), acknowledged commands took effect (`AckedMeansBlocked`) and all are served (`CommandsServed`) |
| firewall_audit | violation | `AuditTrail`: a block of an address that has a row leaves none |
| registry_active | violation | `OnlyOneActive`: two promotions at a time leave two active models |
| platform | pass | guesses beyond the lockout are bounded (`LockoutBound`), an exchanged refresh token is refused to whoever comes later (`ReplayRefused`), suspension takes effect (`SuspensionBites`), tenants have owners and sensors a limit (`TenancySound`), late writers take nothing away (`WritesRespected`), packets are kept (`PacketsKept`), broadcasts and pages reach the client (`ClientsServed`), the offline queue loses nothing outside its flushes and sends nothing more often than faults explain (`QueueKept`) |
| token_reuse | violation | `SingleUse`: two requests exchange one refresh token |
| offline_loss | violation | `QueueDurable`: a decision saved during a flush is written over |
| offline_queue | violation | `NoInheritedDecision`: the next analyst submits the decisions of the one before |

Every property of a passing run has a mutant in its module (a comment starts with
"Mutant:"): a plausible bug that TLC must find with that property.

### Bounds and why they suffice

- plane_safety: two alerts, one severe and one not, two requests, one error or
  crash, clock to 3 with a flag of 2 ticks and a timeout of 1. The flag expires
  within the horizon, so a second ruling after it, and the attempt one tick too
  early, both happen; four executors race for one alert. A second severe alert
  shares nothing with the first but the scanner's batch, which writer covers.
- scanner_net, writer_retry, writer_audit: the smallest instance with the trace.
- writer: two severe alerts, one of a tenant and one legacy, that time out, and an
  analyst who rejects; no errors of the plane (an error after the script loses the
  block, see below); a flag of 1 tick so that an alert can be ruled on twice, one
  writer fault, batches of one so that batches queue.
- detection: two tenants with one address, so that keys without the tenant would
  collide; three packets in a stream of two, so that trimming, a full batch and a
  suppressed second packet of a source happen; two lives of a cooldown; four
  alerts with a threshold of two and a chain of two models, so that the breaker
  opens, cools, half-opens and does either; two training runs, one of them
  automatic, and one promotion by hand; one fault of each part. For the firewall, two
  tenants' commands for one address, the first of them invalid, and two requests of
  any kind for either tenant, so that a command meets another tenant's block, a
  lifted one and an insert that the index refuses; its one fault is an eviction, a
  crash, a failed reload or a failed call. A third tenant or run meets the others
  only in pairs.
- firewall_audit: two valid commands for one address, nothing else and no fault.
  registry_active: two runs and a promotion.
- platform: three logins against a threshold of two, so that one is past the lock
  when it is set; two calls on two pairs of tokens; two visits and two changes of
  status, so that a stale answer is written after a suspension; three signups of
  two emails; three events of Stripe, so that a checkout comes between the trial
  checker's read and write, and two creations at the limit; three packets for a
  buffer of two and two posts; three sockets, so that a removal shifts a list that
  is being walked; three rows in pages of one with two equal times; two decisions,
  two logins, two network errors and one restart.
- token_reuse, offline_loss and offline_queue: MCPlatform with one part; token_reuse
  with a third pair for the second exchange, and no failure of Redis.
- Every bound is a constant in a guard (`Horizon`, `MaxTime`, `MaxFaults`,
  `MaxWriterFaults`, `Entries`, `MaxLives`, the ...Faults, `Events`, `SensorBound`,
  `Retries`, `Loads` and so on), not a TLC constraint, so that liveness is checked
  soundly. After `MaxTime` the clock stands still; every deadline falls before it.
- Deadlock is not checked: the services idle when there is nothing left to do,
  and the bounds stop clocks and inputs.

The two large runs have 382,635 (detection) and 1,086,174 (platform) distinct
states; each takes some two to four minutes with two workers.

### Fairness

Each service is a loop that its container runs for ever (`restart: always` in
docker-compose.yml), so each of its steps is weakly fair: the engine's and the
scanner's actions, the listener's tasks, Redis' own removal of expired keys, the
writer's loop, the firewall's start, reload and loop, the extractor, its metrics
loop, the ML engine and its poll, the analyzer. A call that has been accepted goes
on (tenant gate), a cached status expires.
Nothing is assumed of operators, analysts, trainers, arriving requests, nor that
the listener is subscribed; faults are never forced and never prevented.

## 5. What is proved

For all values of the constants, from the assumptions named in the modules:

- `DecisionPlaneProofs`: `TypeCorrect`, `Idempotent` (`RulingsApart`),
  `NoBlockWithoutCause` (`OrdersBacked`), `KeepsLedger` (refinement of
  `DecisionLedger`), `NothingLost` (`NoSilentLoss`), and two that suppose that
  alerts have ids of their own: `WindowKept` (`WindowHonoured`, under
  `UniqueKeys`) and `NetComplete` (`TrackedUntilRuled`, under `UniqueIds`). Alerts
  that the analyzer could not store share the id "unknown": there the window and
  the index entry of one are not kept for the other.
- `DecisionLogWriterProofs`: `WriterKeepsPlane` (every behaviour of the
  composition is one of the plane), hence `PlaneKept` and `AlertsKept` (what is
  proved of the plane holds of it too); `WriterType`, `AckedAreRecorded`,
  `PayloadsKept`, `FirstKept` (`FirstDecisionKept`).
- `BlocklistProofs`: `BlockTypes`, `AddressesKept` (`AddressesRecorded`),
  `BlocksEnforced` (`ActiveRowsEnforced`), `AckedBlocked` (`AckedMeansBlocked`).
- `FeaturePipelineProofs`: `StreamsImplemented` (both streams refine
  `StreamGroup`), `AckedHandled` (`AckedAccounted`), `CooldownHolds`
  (`CooldownSound`).
- `AlertAnalyzerProofs`: `BreakerHolds`, `CacheHolds`, `AlertsPassed`.
- `DetectionProofs`: `WindowsComplete` (`WindowComplete`), `RegistryTypes`; and of
  the composition `MCDetection` `DetectionTyped` (`DetectionTypes`) and
  `DetectionKept` (all the above of detection and of the blocklist).
- `AccountProofs`: `GuardHolds` (`LockoutBound`), `ReplaysRefused` (`ReplayRefused`),
  `SignupHolds` (`TenantsOwned`), `SensorLimit` (`SensorCap`), `PlansKept`
  (`PlanKeptByChecker`), `SuspensionHolds` (`SuspensionWears`, the safety part of
  `SuspensionBites`), and the types of the five modules.
- `PlatformProofs`: `QueueHolds` (`QueueKept`), `RevocationKept` (`RevokedStays`),
  `PacketsHold` (`PacketsKept`), `BroadcastReaches` (`AlertsReachClients`),
  `PagesHold` (`PagesComplete`), the types of these modules (`QueueTypes`,
  `FleetTypes`, `HubTypes`, `ListTypes`); and of the composition `MCPlatform`
  `PlatformTyped` (`PlatformTypes`), `TenancyHolds` (`TenancySound`),
  `ClientsHold` (`ClientsServed`), `WritesHold` (`WritesRespected`),
  `PlatformKept` (the rest).

What the proofs assume of the constants is what the modules' ASSUMEs say: bounds
are natural numbers, sizes (a batch, a buffer, a page, the clock) not zero, the
requests, posts and sockets handled at a time finitely many, and the names for
"nobody" not among them.

The arguments:

- *Idempotence.* `RulingsApart` is not inductive: it must be known that the flag
  of a key lives at least `ExecutedTTL` beyond its latest ruling. With that, the
  script's test of the flag separates a new ruling from all earlier ones, and the
  same fact is the guard of the ledger's `Rule`.
- *No block without cause.* A worker about to publish must carry the time of a
  ruling to block that is in the log, on the key of the payload it holds. It is
  set by the script and nobody else writes a worker's state.
- *Window.* A timeout needs the payload and an elapsed expiry; the invariant ties
  the index entry and the volatile key of an alert to the deadline written before
  them, at every stage of `route_alert`.
- *Nothing lost.* A worker keeps the block it owes until it has published it; a
  request and the scanner start nothing new before. The listener's task could be
  started anew by a second expiry of the same alert: `TimerOnce` says that the key
  of an alert is set once and expires once.
- *The net.* `TrackInv` follows an alert from its payload (`Parked`) to its index
  entry (`Tracked`); the executed flag and the scanner's batch imply rulings
  (`FlagRuled`, `ScanRuled`), which is why what `ScanClean` removes is ruled on.
- *Writer.* The writer's steps are stutters or `CleanPayload` of the plane. Rows
  come before deletions and acknowledgements in every phase, which the invariant
  over `phase` and `inflight` says. For the first decision: rows are unique by
  alert, and no delivered entry is older than its alert's row, because entries are
  delivered in the order of their time and batches inserted one after the other.
- *Blocklist.* `BlockInv` adds to the properties: commands are in hand only while
  the firewall runs (so no reload starts between a SADD and its record); a command
  past its check is in its set or the set was evicted; a gateway's insert follows
  its SADD; what a reload restores comes from the table; an active row is somebody's.
  `RowsStep` is what the unique index gives: a row keeps its tenant and its maker and
  does not become active again. So whoever has blocked an address stays on its way
  to the table until the address has a row, its own or the one that refused it.
- *Streams.* A shape invariant (what is in hand lies between what is settled and
  what is unread) makes each of the flow's steps a step of `StreamGroup` or a
  stutter, for each stream on its own.
- *Cooldown.* The number of a key's life is larger than that of every alert made
  under an earlier one, and the entry that took the key is the one that publishes.
- *Analyzer.* The breaker's count equals the run of failed chains, and the
  state is CLOSED exactly below the threshold; cache entries remember their maker,
  and makers have answers of the LLM; a decision exists exactly from the step of
  publication on.
- *Login and tokens.* Counting arguments over the requests in flight: what was
  answered, plus those past the check, is bounded by the counter, the requests and
  the faults; a token that was exchanged is on the blacklist unless Redis failed, so
  nobody joins those past the check. They rest on lemmas about the cardinality of
  sets that lose or gain one member.
- *Offline queue.* Decisions queued, held by the flush and being tried are
  disjoint and without repetition; a flush holds all that was queued when it
  began; what can still be sent has been sent no more often than faults explain.
- *Windows.* Of the packets from any time on that is not to be trimmed yet, not only
  from the start of the window, the store has the newest, as many as it keeps
  (`KeptFrom`). Adding a packet to a
  capped set and capping again is capping what arrived: that rests on lemmas about
  the order of a finite set, how many lie above an entry, and that every nonempty
  part has a topmost one.
- *Plans.* Tenants on trial are on the free plan (`Unpaid`): a checkout makes a tenant
  a customer and ends its trial. So the rows that the checker loads have the plan it
  wants already, and the plan is not among the columns that it writes.
- *Revocation.* Who was at work on the row when it was revoked is remembered
  (`Warned`): the key of a revoked sensor is refused and the monitor selects active
  rows only, so nobody joins them later.
- *Packets.* `PacketsKept` says nothing of posts that the gateway still works on
  after the sensor gave them up. `Accounted` does: how often a packet was
  published, the posts that may publish it yet and its place in the buffer
  together stay within its retries and one. Sending moves the packet from the buffer
  to a post, publishing from a post to the count; only putting back adds, and it
  counts a retry.
- *Broadcasts.* `Tallied`, `Swept` and `Finished` follow the index of the loop:
  what stayed and was not tried is at or after it, or was skipped by a removal that
  shifted the list, and there are no more of those than removals.
- *Lists.* `Scrolled` says of every walk, the one shown, those that requests have
  captured and the answers on their way, that its pages are disjoint, end at its
  cursor and cover what its first page listed above the cursor. A page goes on
  strictly below the cursor, so it cannot repeat a row; what the first page listed
  keeps its created_at, and its place in the filter while its version is the same.
- *Compositions.* Each step of `MCDetection` and `MCPlatform` is a step of one part
  and a stutter of the others, so every behaviour is one of each part's
  specification (`PartsDetect`, `PartsServe`) and keeps what is proved of it.
- *Signup, sensors.* Users and tenants are written in one transaction whose unique
  key the second signup meets; for every h not below the highest limit, sensors
  and the creations that may still insert under h stay below h + |Create|.

Only model-checked: all liveness (`FailSecure`, `DecisionAcked`,
`CommandsServed`, `SilentSettles`, `StreamsServed`, `EngineCatchesUp`,
`SuspensionBites`), as it needs ENABLED, which TLAPS does not handle. Induction over
data is out of the prover's reach as well; where a proof needs a least element of a
set it takes it from the well-foundedness of strict inclusion on finite sets.

## 6. What the models found

- **scanner_net**: decision_fallback_scanner.py removes every id it read, failed
  ones included; with the listener's notification missed, an alert is never ruled
  on, though the module calls itself a safety net.
- **writer_retry**: decision_log_writer.py leaves a failed batch unacknowledged
  "to be re-delivered", but only reads new entries.
- **writer_audit**: a tenant's payload is never deleted, so an alert can be
  decided again a day later; the second decision is acknowledged and not logged.
- **firewall_audit**: blocked_ips.ip_address is unique over all tenants, so the
  record of a block whose address has a row already, another tenant's or a lifted
  one, is refused; the firewall logs that and acknowledges. The block is in force
  and in no row, where a "full audit trail" is documented; no restart reloads it.
- **registry_active**: two promotions at a time clear the active rows they see, and
  not each other's; "only one model active at a time" is documented.
- **token_reuse**: two refreshes with one token that both get past the blacklist
  check both get a new pair; "one-time use" and replay prevention are documented.
  What does hold is `ReplayRefused`.
- **offline_loss**: a decision queued while a flush waits for an answer is
  overwritten by the survivors (offline_queue_service.dart:225), although the queue
  is called durable and the analyst was told that the decision will be sent.
- **offline_queue**: a forced logout leaves the app's queue in place and running;
  the next login flushes it under the new analyst's token.

Read in the code, and with no run of their own, as one call shows each:

- The mobile gateway calls add_blocked_ip and remove_blocked_ip without the tenant
  (mobile_gateway/main.py:549, 589), while its docstrings promise tenant isolation
  (lines 537, 582) and the extractor and the engine ask the tenant's set: its block
  is not in force for the tenant before the firewall restarts, and its unblock
  leaves the tenant's set as it is. `ActiveRowsEnforced` leaves out its rows.
- verify_sensor_key accepts a key only of an active or pending sensor
  (ingest_gateway/auth.py:57): once the monitor has set "offline", the heartbeats
  that would undo it (main.py:150-155) are refused.

Seen on the way and part of the models rather than findings:

- An error between the script and the XADD to stream:block_commands loses the block
  (the properties say "while nothing has failed").
- A row inserted by the web gateway while the firewall reloads after an eviction is
  not in force until the next restart (hence the condition of
  `ActiveRowsEnforced`).
- A gateway's block of an address whose block was lifted, or that another tenant has
  blocked, fails at its INSERT (500) and stays in the Redis set.
- All rows of one INSERT have one created_at, and pages continue with `created_at <
  cursor`: a page that ends inside a batch skips its rest. `PagesComplete` allows
  no more than that.
- A cooldown taken before an error silences a source that never alerted
  (`SuppressionJustified` speaks of the fault-free case).
- auto_retrain never registers what it trains (asyncio.run in a running loop).
- promote_model reads auth.email (gateway/main.py:1221), which the token's payload
  does not have: the promotion is committed and the call answers with an error.
- scapy's sniff blocks the sensor's event loop (sensor/main.py:140).
- AlertsCubit.loadMore replaces what a WebSocket added during its await, but no
  gateway sends the message that would add.

## 7. What is not modelled, and why

- Feature arithmetic, inference, training, cross-validation and drift statistics
  are numerical code without a protocol; what they return is a choice. The drift
  detector only sets a gauge.
- Formatting, e-mail, push delivery, metrics, dashboards, exports, reports, device
  tokens, profiles, SSO settings and user interfaces are output, plain queries or
  single writes; where their failure matters it is an error action of the caller.
- Row-level security is PostgreSQL's: a tenant session is taken to see its tenant's
  rows. Signatures and password hashes are taken to be sound.
- The circuit breaker's one caller handles one alert at a time, so two callers in
  HALF_OPEN cannot happen in this program and are not modelled.
- The app's shared refresh (auth_interceptor.dart) and the reconnection of
  websocket_manager_service.dart. The web gateway's first snapshot on a new socket,
  which may be sent after newer telemetry (gateway/main.py:262).
- standalone_demo.py, simulator, manage.py and the deployment files: scripts and
  configuration; the restart policy, the memory policy of Redis and the keyspace
  notifications are assumptions of the models.
