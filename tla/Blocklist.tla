------------------------------ MODULE Blocklist ------------------------------
(***************************************************************************)
(* The blocklist: the Redis sets blocked_ips, one per tenant and one       *)
(* without a prefix, which the packet pipeline consults; the table         *)
(* blocked_ips, the record of every block; and the DROP rules of iptables. *)
(* The firewall controller consumes stream:block_commands, the web gateway *)
(* and the mobile gateway change the blocklist at an operator's request,   *)
(* and the firewall reloads the Redis sets from the table when it starts.  *)
(*                                                                         *)
(* One action is one awaited call to Redis or to the database.  The table  *)
(* is unique by address, whichever tenant's (the migrations; the model     *)
(* class does not say so), and no row is ever deleted.  Redis runs with a  *)
(* memory limit and allkeys-lru, so it may evict a whole set; the kernel   *)
(* keeps its rules while the firewall process is down.                     *)
(***************************************************************************)
EXTENDS Naturals

CONSTANTS
    Ip,         \* addresses
    Tenant,     \* tenants
    NoTenant,   \* the un-prefixed set
    Entries,    \* number of entries of stream:block_commands
    PairOf,     \* the tenant and the address of an entry
    Bad,        \* entries that validation rejects (no address, loopback...)
    OsFirewall, \* ENABLE_OS_FIREWALL on a Linux host
    Request,    \* requests to the gateways
    MaxFaults   \* bound on errors, crashes and evictions

Scope   == Tenant \cup {NoTenant}
Pair    == Scope \X Ip
Command == 1..Entries

ASSUME BlocklistAssumption ==
    /\ NoTenant \notin Tenant
    /\ Entries \in Nat
    /\ PairOf \in [Command -> Pair]
    /\ Bad \subseteq Command
    /\ OsFirewall \in BOOLEAN
    /\ MaxFaults \in Nat

VARIABLES
    stage,    \* per command: where the firewall has got to with it
    firewall, \* the firewall process: "down", "loading" or "running"
    toLoad,   \* what its last start has not, or not yet, reloaded
    lost,     \* the Redis sets evicted since the last reload began
    cache,    \* the Redis sets: tenant (or none) and address
    rows,     \* the table: the row of each address
    rules,    \* addresses with a DROP rule
    req,      \* per request: its progress
    faults    \* errors, crashes and evictions so far

queue == <<stage, firewall, toLoad>>
redis == <<cache, lost>>
blocklistVars == <<queue, redis, rows, rules, req, faults>>

\* Progress of a command that has been delivered; "stuck" is delivered and never
\* acknowledged, as the group reads only new entries.
BeingServed == {"inbox", "add", "enforce", "record", "ack"}
Stage       == BeingServed \cup {"queued", "done", "stuck"}

\* blocked_by tells who made a row: the firewall, a user through a gateway, or
\* nobody, when the address has no row.
Maker == {"firewall", "gateway", "mobile"}
Row   == [tenant : Scope, by : Maker \cup {"nobody"}, active : BOOLEAN]
NoRow == [tenant |-> NoTenant, by |-> "nobody", active |-> FALSE]

\* A request: which endpoint, for which tenant and address, and how far it is.
\* A request that has not arrived is at its first step.
Task == [pc : {"redis", "select", "insert", "update", "over"},
         op : {"gateway", "mobile", "unblock"}, pair : Tenant \X Ip]

BlocklistInit ==
    /\ stage = [c \in Command |-> "queued"]
    /\ firewall = "down"
    /\ toLoad = {}
    /\ lost = {}
    /\ cache = {}
    /\ rows = [a \in Ip |-> NoRow]
    /\ rules = {}
    /\ req \in [Request -> [pc : {"redis"}, op : {"gateway", "mobile", "unblock"},
                          pair : Tenant \X Ip]]
    /\ faults = 0

Fault == faults < MaxFaults /\ faults' = faults + 1

\* The address has a row, of whatever tenant, active or not.
Listed(a) == rows[a].by # "nobody"

\* The address has an active row, and it is the tenant's.
Active(p) == rows[p[2]].active /\ rows[p[2]].tenant = p[1]

\* The unique index admits a first row for an address only.
AddRow(p, who) ==
    /\ ~ Listed(p[2])
    /\ rows' = [rows EXCEPT ![p[2]] = [tenant |-> p[1], by |-> who, active |-> TRUE]]

(***************************************************************************)
(* The firewall controller: start, reload, consumer loop.                  *)
(***************************************************************************)

\* The process starts and reads every active row of the table.
Start ==
    /\ firewall = "down"
    /\ firewall' = "loading"
    /\ toLoad' = {p \in Pair : Active(p)}
    /\ lost' = {}
    /\ UNCHANGED <<stage, cache, rows, rules, req, faults>>

\* One row goes back to the set of its tenant.
LoadBlock(p) ==
    /\ firewall = "loading"
    /\ p \in toLoad
    /\ cache' = cache \cup {p}
    /\ toLoad' = toLoad \ {p}
    /\ UNCHANGED <<stage, firewall, lost, rows, rules, req, faults>>

LoadDone ==
    /\ firewall = "loading"
    /\ toLoad = {}
    /\ firewall' = "running"
    /\ UNCHANGED <<stage, toLoad, redis, rows, rules, req, faults>>

\* An error in the reload is logged, and the service runs without the rest.
LoadFails ==
    /\ firewall = "loading"
    /\ Fault
    /\ firewall' = "running"
    /\ UNCHANGED <<stage, toLoad, redis, rows, rules, req>>

\* XREADGROUP returns the first new entries, up to number n (its COUNT is left
\* open); the loop reads no more before it has been through them.
DeliverCommands(n) ==
    /\ firewall = "running"
    /\ \A c \in Command : stage[c] \notin BeingServed
    /\ LET batch == {c \in Command : stage[c] = "queued" /\ (c <= n)}
       IN  /\ batch # {}
           /\ stage' = [c \in Command |-> IF c \in batch THEN "inbox" ELSE stage[c]]
    /\ UNCHANGED <<firewall, toLoad, redis, rows, rules, req, faults>>

\* c is the entry that the loop is working on, and at its step s.
At(c, s) == stage[c] = s /\ \A d \in Command : d < c => stage[d] \notin BeingServed

GoTo(c, s) == stage' = [stage EXCEPT ![c] = s] /\ UNCHANGED <<firewall, toLoad>>

\* Mutant: a rejected entry is put back in the stream instead of acknowledged.
RejectAgain(c) ==
    /\ At(c, "inbox")
    /\ c \in Bad
    /\ GoTo(c, "queued")
    /\ UNCHANGED <<redis, rows, rules, req, faults>>

\* An entry without a valid address is dropped: it is acknowledged.
RejectCommand(c) ==
    /\ At(c, "inbox")
    /\ c \in Bad
    /\ GoTo(c, "ack")
    /\ UNCHANGED <<redis, rows, rules, req, faults>>

\* Mutant: is_blocked is asked without the tenant.
CheckUnscoped(c) ==
    /\ At(c, "inbox")
    /\ c \notin Bad
    /\ GoTo(c, IF <<NoTenant, PairOf[c][2]>> \in cache THEN "ack" ELSE "add")
    /\ UNCHANGED <<redis, rows, rules, req, faults>>

\* is_blocked: a command for an address that is blocked already needs no work.
CheckBlocked(c) ==
    /\ At(c, "inbox")
    /\ c \notin Bad
    /\ GoTo(c, IF PairOf[c] \in cache THEN "ack" ELSE "add")
    /\ UNCHANGED <<redis, rows, rules, req, faults>>

\* Mutant: the block goes to the un-prefixed set.
AddUnscoped(c) ==
    /\ At(c, "add")
    /\ cache' = cache \cup {<<NoTenant, PairOf[c][2]>>}
    /\ GoTo(c, "enforce")
    /\ UNCHANGED <<lost, rows, rules, req, faults>>

AddToCache(c) ==
    /\ At(c, "add")
    /\ cache' = cache \cup {PairOf[c]}
    /\ GoTo(c, "enforce")
    /\ UNCHANGED <<lost, rows, rules, req, faults>>

\* Mutant: no record is written for a block that iptables refused.
EnforceOrAck(c) ==
    /\ At(c, "enforce")
    /\ \/ OsFirewall /\ rules' = rules \cup {PairOf[c][2]} /\ GoTo(c, "record")
       \/ UNCHANGED rules /\ GoTo(c, "ack")
    /\ UNCHANGED <<redis, rows, req, faults>>

\* iptables, when enabled, adds the rule unless it is there; that it failed or
\* timed out is only logged.
Enforce(c) ==
    /\ At(c, "enforce")
    /\ \/ OsFirewall /\ rules' = rules \cup {PairOf[c][2]}
       \/ UNCHANGED rules
    /\ GoTo(c, "record")
    /\ UNCHANGED <<redis, rows, req, faults>>

\* The record is written.  An address that has a row already, or an error of the
\* database, is an exception; it is logged, and the command is acknowledged all
\* the same.
RecordBlock(c) ==
    /\ At(c, "record")
    /\ \/ AddRow(PairOf[c], "firewall") /\ UNCHANGED faults
       \/ Listed(PairOf[c][2]) /\ UNCHANGED <<rows, faults>>
       \/ Fault /\ UNCHANGED rows
    /\ GoTo(c, "ack")
    /\ UNCHANGED <<redis, rules, req>>

AckCommand(c) ==
    /\ At(c, "ack")
    /\ GoTo(c, "done")
    /\ UNCHANGED <<redis, rows, rules, req, faults>>

\* A Redis call (SISMEMBER, SADD, or one after the record) raises: the loop logs
\* it, leaves the entry pending and goes on with the next.
CommandError(c) ==
    /\ \/ c \notin Bad /\ (At(c, "inbox") \/ At(c, "add"))
       \/ At(c, "ack")
    /\ Fault
    /\ GoTo(c, "stuck")
    /\ UNCHANGED <<redis, rows, rules, req>>

\* The process dies, and with it the entries it holds; it is restarted.
FirewallCrash ==
    /\ firewall # "down"
    /\ Fault
    /\ firewall' = "down"
    /\ stage' = [c \in Command |-> IF stage[c] \in BeingServed THEN "stuck" ELSE stage[c]]
    /\ UNCHANGED <<toLoad, redis, rows, rules, req>>

\* Redis is short of memory and evicts a set.
Evict(s) ==
    /\ Fault
    /\ \E p \in cache : p[1] = s
    /\ cache' = {p \in cache : p[1] # s}
    /\ lost' = lost \cup {s}
    /\ UNCHANGED <<queue, rows, rules, req>>

Work(c) ==
    \/ RejectCommand(c) \/ CheckBlocked(c) \/ AddToCache(c) \/ Enforce(c)
    \/ RecordBlock(c) \/ AckCommand(c)

(***************************************************************************)
(* The gateways: POST /firewall/block of the web and of the mobile         *)
(* gateway, DELETE /firewall/block of the mobile gateway.                  *)
(***************************************************************************)
Proceed(r, pc) == req' = [req EXCEPT ![r] = [@ EXCEPT !.pc = pc]]

\* The web gateway changes the tenant's set, the mobile gateway the un-prefixed
\* one: its calls leave out the tenant.
ChangeCache(r) ==
    /\ req[r].pc = "redis"
    /\ LET p == req[r].pair
           q == <<NoTenant, p[2]>>
       IN  cache' = CASE req[r].op = "gateway" -> cache \cup {p}
                      [] req[r].op = "mobile"  -> cache \cup {q}
                      [] req[r].op = "unblock" -> cache \ {q}
    /\ Proceed(r, "select")
    /\ UNCHANGED <<queue, lost, rows, rules, faults>>

\* The active row of the tenant's address is selected: a block ends if there is
\* one (409), an unblock if there is none (404).
SelectRow(r) ==
    /\ req[r].pc = "select"
    /\ Proceed(r, CASE Active(req[r].pair) /\ req[r].op = "unblock"   -> "update"
                    [] ~ Active(req[r].pair) /\ req[r].op # "unblock" -> "insert"
                    [] OTHER                                          -> "over")
    /\ UNCHANGED <<queue, redis, rows, rules, faults>>

\* An address with a row, lifted or another tenant's, is an error (500).
InsertRow(r) ==
    /\ req[r].pc = "insert"
    /\ \/ AddRow(req[r].pair, req[r].op)
       \/ Listed(req[r].pair[2]) /\ UNCHANGED rows
    /\ Proceed(r, "over")
    /\ UNCHANGED <<queue, redis, rules, faults>>

\* The row is not deleted: it stays as the record of a block that was lifted.
Deactivate(r) ==
    /\ req[r].pc = "update"
    /\ rows' = [rows EXCEPT ![req[r].pair[2]].active = FALSE]
    /\ Proceed(r, "over")
    /\ UNCHANGED <<queue, redis, rules, faults>>

\* An error ends a request where it is, with what it has done so far.
RequestError(r) ==
    /\ req[r].pc # "over"
    /\ Fault
    /\ Proceed(r, "over")
    /\ UNCHANGED <<queue, redis, rows, rules>>

\* What the firewall does by itself: it is one loop, restarted whenever it is down.
Controller ==
    \/ Start \/ LoadDone
    \/ \E p \in Pair : LoadBlock(p)
    \/ \E n \in Command : DeliverCommands(n)
    \/ \E c \in Command : Work(c)

BlocklistNext ==
    \/ Controller \/ LoadFails \/ FirewallCrash
    \/ \E c \in Command : CommandError(c)
    \/ \E s \in Scope : Evict(s)
    \/ \E r \in Request :
          \/ ChangeCache(r) \/ SelectRow(r) \/ InsertRow(r) \/ Deactivate(r)
          \/ RequestError(r)

BlocklistSpec == BlocklistInit /\ [][BlocklistNext]_blocklistVars

(***************************************************************************)
(* Properties.                                                             *)
(***************************************************************************)
BlocklistTypeOK ==
    /\ stage \in [Command -> Stage]
    /\ firewall \in {"down", "loading", "running"}
    /\ toLoad \subseteq Pair
    /\ lost \subseteq Scope
    /\ cache \subseteq Pair
    /\ rows \in [Ip -> Row]
    /\ rules \subseteq Ip
    /\ req \in [Request -> Task]
    /\ \A r \in Request :
          /\ req[r].pc = "insert" => req[r].op \in {"gateway", "mobile"}
          /\ req[r].pc = "update" =>
                Listed(req[r].pair[2]) /\ rows[req[r].pair[2]].tenant = req[r].pair[1]
    /\ faults \in 0..MaxFaults

\* The tenant's block of the address has a row, active or lifted.
Recorded(p) == Listed(p[2]) /\ rows[p[2]].tenant = p[1]

\* No address is blocked in secret: while nothing has failed, one that is in any
\* set or has a DROP rule is in the table, or on its way there in the hands of
\* whoever blocked it, though iptables refuses the rule, requests race for the
\* address and the unique index rejects all rows but one (firewall/main.py:175-197,
\* gateway/main.py:885-908).
AddressesRecorded ==
    faults = 0 =>
        \A a \in rules \cup {p[2] : p \in cache} :
            \/ Listed(a)
            \/ \E c \in Command : stage[c] \in {"enforce", "record"} /\ PairOf[c][2] = a
            \/ \E r \in Request :
                  /\ req[r].pc \in {"select", "insert"}
                  /\ req[r].op # "unblock" /\ req[r].pair[2] = a

\* What the table says is blocked is blocked: the address of an active row that
\* the firewall wrote for a tenant is in the tenant's set, still to be reloaded
\* (an error in the reload leaves it so) or in a set that Redis has since
\* evicted.  The web gateway's rows are so only while nothing fails: a reload
\* that falls between its SADD and its INSERT does not repair an eviction.
ActiveRowsEnforced ==
    \A p \in Tenant \X Ip :
        /\ Active(p)
        /\ rows[p[2]].by = "firewall" \/ (rows[p[2]].by = "gateway" /\ faults = 0)
        => p \in cache \cup toLoad \/ p[1] \in lost

\* No block command is acknowledged before its address is in its tenant's set:
\* "already blocked" is never said of another tenant's block, and no operator's
\* request takes it away.  Only an eviction in between does.
AckedMeansBlocked ==
    [][\A c \in Command \ Bad :
          stage[c] = "ack" /\ stage'[c] = "done" /\ PairOf[c][1] \in Tenant =>
              PairOf[c] \in cache' \/ PairOf[c][1] \in lost']_blocklistVars

\* No command waits in the stream or in the firewall's hands: it is acknowledged,
\* or stays pending with its consumer.
CommandsDrained == \A c \in Command : stage[c] \in {"done", "stuck"}

\* "Blocked IP records with full audit trail" (shared/database.py:298, and
\* firewall/main.py:12): when the firewall is through with what it was given and
\* nothing has failed, every block in a tenant's set has a row of that tenant.
AuditTrail ==
    faults = 0 /\ CommandsDrained =>
        \A p \in cache : p[1] \in Tenant => Recorded(p)
=============================================================================
