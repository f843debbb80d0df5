----------------------------- MODULE TrafficWindow -----------------------------
(***************************************************************************)
(* The extractor's view of the traffic: for every source a sorted set of   *)
(* packets in Redis (a sliding window, trimmed by age, capped in size), in *)
(* the process the set _active_ips, and the loop that sums the windows of  *)
(* the active sources up and publishes the live metrics of each tenant.    *)
(* The consumer and the loop are coroutines of one process: they may       *)
(* interleave wherever one of them awaits Redis.                           *)
(***************************************************************************)
EXTENDS Naturals, FiniteSets

CONSTANTS
    Flow,      \* sources: pairs of a tenant and an address
    Size,      \* sizes of packets
    Window,    \* FEATURE_WINDOW_SECONDS
    Ttl,       \* age at which entries are trimmed
    KeyLife,   \* the key expires when untouched for so long
    Cap,       \* number of entries kept
    MaxActive, \* MAX_ACTIVE_IPS
    NoFlow,
    MaxTime,   \* bound on time
    WindowFaults \* bound on errors and restarts

ASSUME WindowAssumption ==
    /\ Size \subseteq Nat
    /\ Window \in Nat /\ Ttl \in Nat /\ KeyLife \in Nat
    /\ Window < Ttl /\ Ttl <= KeyLife
    /\ Cap \in Nat \ {0}
    /\ MaxActive \in Nat
    /\ NoFlow \notin Flow
    /\ MaxTime \in Nat
    /\ WindowFaults \in Nat

VARIABLES
    now,
    store,   \* per source: the sorted set of <<time, size>>
    arrived, \* every packet recorded so far (history)
    active,  \* _active_ips
    tracking,\* the source that the consumer has recorded and not yet tracked
    scan,    \* the metrics loop: tenants and sources to do, sources found stale, found alive
    live,    \* sources that the published live metrics count
    windowFaults

windowVars == <<now, store, arrived, active, tracking, scan, live, windowFaults>>

TenantOf(s) == s[1]
Tenants     == {TenantOf(s) : s \in Flow}
Rest        == [busy |-> FALSE, todo |-> {}, tenant |-> {}, stale |-> {}, alive |-> {}]

WindowInit ==
    /\ now = 0
    /\ store = [s \in Flow |-> {}]
    /\ arrived = [s \in Flow |-> {}]
    /\ active = {}
    /\ tracking = NoFlow
    /\ scan = Rest
    /\ live = {}
    /\ windowFaults = 0

\* Sorted-set order: by score, members of one score by name.
Before(d, e) == d[1] < e[1] \/ (d[1] = e[1] /\ d[2] < e[2])

\* Mutant: entries are trimmed as soon as they leave no room for a second window.
UntrimmedShort(E) == {e \in E : e[1] + Window > now}

\* ZREMRANGEBYSCORE 0 .. now - ttl.
Untrimmed(E) == {e \in E : e[1] + Ttl > now}

\* ZREMRANGEBYRANK 0 .. -(cap + 1).
Capped(E) == {e \in E : Cardinality({d \in E : Before(e, d)}) < Cap}

\* ZRANGEBYSCORE now - window .. now.
InWindow(E) == {e \in E : e[1] + Window >= now}

\* The pipeline of update_conn_stats.  Two packets of one size in one millisecond
\* are one member.
RecordPacket(s, size) ==
    /\ tracking = NoFlow
    /\ store' = [store EXCEPT ![s] = Capped(Untrimmed(@ \cup {<<now, size>>}))]
    /\ arrived' = [arrived EXCEPT ![s] = @ \cup {<<now, size>>}]
    /\ tracking' = s
    /\ UNCHANGED <<now, active, scan, live, windowFaults>>

\* The call has returned: the source is noted as active if there is room.
Track ==
    /\ tracking # NoFlow
    /\ active' = IF Cardinality(active) < MaxActive THEN active \cup {tracking} ELSE active
    /\ tracking' = NoFlow
    /\ UNCHANGED <<now, store, arrived, scan, live, windowFaults>>

\* The loop copies the set and groups it by tenant.
ScanStart ==
    /\ ~scan.busy
    /\ active # {}
    /\ scan' = [Rest EXCEPT !.busy = TRUE, !.todo = active]
    /\ UNCHANGED <<now, store, arrived, active, tracking, live, windowFaults>>

\* It turns to the sources of one tenant ...
ScanTenant(t) ==
    /\ scan.busy
    /\ scan.tenant = {} /\ scan.stale \cup scan.alive = {}
    /\ {s \in scan.todo : TenantOf(s) = t} # {}
    /\ scan' = [scan EXCEPT !.tenant = {s \in scan.todo : TenantOf(s) = t},
                            !.todo = {s \in @ : TenantOf(s) # t}]
    /\ UNCHANGED <<now, store, arrived, active, tracking, live, windowFaults>>

\* ... reads the window of each ...
ScanSource(s) ==
    /\ s \in scan.tenant
    /\ scan' = IF InWindow(store[s]) = {}
               THEN [scan EXCEPT !.tenant = @ \ {s}, !.stale = @ \cup {s}]
               ELSE [scan EXCEPT !.tenant = @ \ {s}, !.alive = @ \cup {s}]
    /\ UNCHANGED <<now, store, arrived, active, tracking, live, windowFaults>>

\* Mutant: the stale sources are subtracted from a local copy.
ScanPublishLocal ==
    /\ scan.tenant = {} /\ scan.stale \cup scan.alive # {}
    /\ LET t == {TenantOf(s) : s \in scan.stale \cup scan.alive}
       IN  live' = {s \in live : TenantOf(s) \notin t} \cup scan.alive
    /\ scan' = IF scan.todo = {} THEN Rest ELSE [Rest EXCEPT !.busy = TRUE, !.todo = scan.todo]
    /\ UNCHANGED <<now, store, arrived, active, tracking, windowFaults>>

\* ... and after the last forgets the stale ones and publishes the sums; a source
\* whose packet came after its window was read is forgotten, too.
ScanPublish ==
    /\ scan.tenant = {} /\ scan.stale \cup scan.alive # {}
    /\ active' = active \ scan.stale
    /\ LET t == {TenantOf(s) : s \in scan.stale \cup scan.alive}
       IN  live' = {s \in live : TenantOf(s) \notin t} \cup scan.alive
    /\ scan' = IF scan.todo = {} THEN Rest ELSE [Rest EXCEPT !.busy = TRUE, !.todo = scan.todo]
    /\ UNCHANGED <<now, store, arrived, tracking, windowFaults>>

\* An exception ends the pass; stale sources are forgotten before the metrics go
\* out, so an error of the latter has forgotten them.
ScanError ==
    /\ windowFaults < WindowFaults
    /\ scan.busy
    /\ windowFaults' = windowFaults + 1
    /\ active' \in {active} \cup (IF scan.tenant = {} THEN {active \ scan.stale} ELSE {})
    /\ scan' = Rest
    /\ UNCHANGED <<now, store, arrived, tracking, live>>

\* The process restarts: its set is empty, Redis keeps the windows.
WindowRestart ==
    /\ windowFaults < WindowFaults
    /\ windowFaults' = windowFaults + 1
    /\ active' = {}
    /\ tracking' = NoFlow
    /\ scan' = Rest
    /\ UNCHANGED <<now, store, arrived, live>>

\* The published metrics of a tenant expire when nobody renews them.
MetricsExpire(t) ==
    /\ {s \in live : TenantOf(s) = t} # {}
    /\ live' = {s \in live : TenantOf(s) # t}
    /\ UNCHANGED <<now, store, arrived, active, tracking, scan, windowFaults>>

\* Time passes; an untouched key expires.
WindowTick ==
    /\ now < MaxTime
    /\ now' = now + 1
    /\ store' = [s \in Flow |->
                    IF \A e \in store[s] : e[1] + KeyLife <= now + 1 THEN {} ELSE store[s]]
    /\ UNCHANGED <<arrived, active, tracking, scan, live, windowFaults>>

MetricsLoop ==
    \/ ScanStart \/ ScanPublish
    \/ \E t \in Tenants : ScanTenant(t)
    \/ \E s \in Flow : ScanSource(s)

WindowNext ==
    \/ \E s \in Flow, size \in Size : RecordPacket(s, size)
    \/ Track \/ MetricsLoop \/ ScanError \/ WindowRestart \/ WindowTick
    \/ \E t \in Tenants : MetricsExpire(t)

WindowSpec == WindowInit /\ [][WindowNext]_windowVars

-----------------------------------------------------------------------------

\* Every variable of the window keeps its type.
WindowTypeOK ==
    /\ now \in 0..MaxTime
    /\ \A s \in Flow : store[s] \subseteq (0..MaxTime) \X Size
    /\ \A s \in Flow : arrived[s] \subseteq (0..MaxTime) \X Size
    /\ active \subseteq Flow
    /\ tracking \in Flow \cup {NoFlow}
    /\ scan.todo \cup scan.tenant \cup scan.stale \cup scan.alive \subseteq Flow
    /\ live \subseteq Flow
    /\ windowFaults \in 0..WindowFaults

\* Trimming, the cap and the expiry of the key never cost a packet that the
\* features should count: of the packets of the window the store has all, or the
\* newest, as many as it keeps.
WindowComplete ==
    \A s \in Flow : InWindow(store[s]) = Capped(InWindow(arrived[s]))

\* When a source has fallen silent, the live metrics stop counting it and the
\* process forgets it: sources that are gone do not fill _active_ips up.
SilentSettles ==
    \A s \in Flow : <>[](InWindow(arrived[s]) = {}) => <>[](s \notin active \cup live)
=============================================================================
