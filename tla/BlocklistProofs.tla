--------------------------- MODULE BlocklistProofs ---------------------------
(***************************************************************************)
(* Proofs about Blocklist: its types, the record of what is blocked, the   *)
(* enforcement of recorded blocks and what an acknowledgement means, for   *)
(* any number of tenants, addresses, commands, requests and faults.        *)
(***************************************************************************)
EXTENDS Blocklist, TLAPS

\* Entries are in hand only while the loop runs, so that no reload begins while
\* a command is between its SADD and its acknowledgement.
ServedRunning == (\E c \in Command : stage[c] \in BeingServed) => firewall = "running"

\* A command past its check is in its tenant's set, unless that was evicted.
AddedIsBlocked ==
    \A c \in Command :
        /\ stage[c] \in {"enforce", "record"} \/ (stage[c] = "ack" /\ c \notin Bad)
        /\ PairOf[c][1] \in Tenant
        => PairOf[c] \in cache \/ PairOf[c][1] \in lost

\* The web gateway has put an address in the set when it gets to the table.
InsertsFollowCache ==
    \A r \in Request :
        faults = 0 /\ req[r].op = "gateway" /\ req[r].pc \in {"select", "insert"} =>
            req[r].pair \in cache

\* An active row is somebody's, and what a reload restores comes from the table.
ActiveListed    == \A a \in Ip : rows[a].active => Listed(a)
ReloadsRecorded == \A p \in toLoad : Listed(p[2])

BlockInv ==
    BlocklistTypeOK /\ ActiveListed /\ ServedRunning /\ AddedIsBlocked /\ InsertsFollowCache
                    /\ ReloadsRecorded /\ AddressesRecorded /\ ActiveRowsEnforced

-----------------------------------------------------------------------------

\* The parts of a pair, and the pair of a task and of a command.
LEMMA PairParts ==
    /\ \A p \in Pair : p[1] \in Scope /\ p[2] \in Ip /\ p = <<p[1], p[2]>>
    /\ \A c \in Command : PairOf[c] \in Pair
    /\ \A t \in Task : /\ t.pair \in Tenant \X Ip /\ t.pair \in Pair /\ t.pair[2] \in Ip
                       /\ <<NoTenant, t.pair[2]>> \in Pair
    /\ NoTenant \notin Tenant
BY BlocklistAssumption DEF Pair, Task, Scope

\* A new row is the address's first, and leaves the others as they are.
LEMMA AddRowRows ==
    ASSUME rows \in [Ip -> Row], NEW p \in Pair, NEW who \in Maker, AddRow(p, who)
    PROVE  /\ rows' \in [Ip -> Row]
           /\ ~Listed(p[2])
           /\ rows'[p[2]] = [tenant |-> p[1], by |-> who, active |-> TRUE]
           /\ \A a \in Ip \ {p[2]} : rows'[a] = rows[a]
<1> DEFINE row == [tenant |-> p[1], by |-> who, active |-> TRUE]
<1>1. p[2] \in Ip /\ p[1] \in Scope
    BY PairParts
<1>2. row \in Row
    BY <1>1 DEF Row
<1>3. rows' = [rows EXCEPT ![p[2]] = row] /\ ~Listed(p[2])
    BY DEF AddRow
<1> HIDE DEF row
<1>4. rows' \in [Ip -> Row] /\ rows'[p[2]] = row /\ \A a \in Ip \ {p[2]} : rows'[a] = rows[a]
    BY <1>1, <1>2, <1>3
<1> QED
    BY <1>3, <1>4 DEF row

\* Deactivation changes nothing of a row but its flag.
LEMMA DeactivateRows ==
    ASSUME rows \in [Ip -> Row], NEW b \in Ip,
           rows' = [rows EXCEPT ![b].active = FALSE]
    PROVE  /\ rows' \in [Ip -> Row]
           /\ \A a \in Ip : /\ rows'[a].tenant = rows[a].tenant
                            /\ rows'[a].by = rows[a].by
                            /\ rows'[a].active => rows[a].active
<1>1. \A a \in Ip : rows[a] \in Row
    OBVIOUS
<1>2. \A a \in Ip :
          rows'[a] = IF a = b THEN [rows[b] EXCEPT !.active = FALSE] ELSE rows[a]
    OBVIOUS
<1>3. [rows[b] EXCEPT !.active = FALSE] \in Row
    BY <1>1 DEF Row
<1>4. rows' \in [Ip -> Row]
    BY <1>1, <1>2, <1>3
<1>5. \A a \in Ip : /\ rows'[a].tenant = rows[a].tenant
                    /\ rows'[a].by = rows[a].by
                    /\ rows'[a].active => rows[a].active
    BY <1>1, <1>2 DEF Row
<1> QED
    BY <1>4, <1>5

\* What a step may do to the table: give an address its first row, or lift the block
\* of one.
LEMMA TableStep ==
    ASSUME [BlocklistNext]_blocklistVars
    PROVE  \/ UNCHANGED rows
           \/ \E c \in Command : RecordBlock(c) /\ AddRow(PairOf[c], "firewall")
           \/ \E r \in Request : InsertRow(r) /\ AddRow(req[r].pair, req[r].op)
           \/ \E r \in Request : Deactivate(r)
<1>1. ASSUME NEW c \in Command, Work(c)
      PROVE  UNCHANGED rows \/ (RecordBlock(c) /\ AddRow(PairOf[c], "firewall"))
    <2>1. CASE RecordBlock(c)
        BY <2>1 DEF RecordBlock
    <2> QED
        BY <1>1, <2>1 DEF Work, RejectCommand, CheckBlocked, AddToCache, Enforce, AckCommand
<1>2. ASSUME NEW r \in Request, InsertRow(r)
      PROVE  UNCHANGED rows \/ AddRow(req[r].pair, req[r].op)
    BY <1>2 DEF InsertRow
<1>3. Controller => UNCHANGED rows \/ \E c \in Command : Work(c)
    BY DEF Controller, Start, LoadDone, LoadBlock, DeliverCommands
<1> QED
    BY <1>1, <1>2, <1>3
    DEF BlocklistNext, blocklistVars, LoadFails, FirewallCrash, CommandError, Evict,
        ChangeCache, SelectRow, RequestError

\* What a step may do to the requests: one of them goes on to another place in its
\* endpoint.
LEMMA RequestStep ==
    ASSUME BlocklistTypeOK, [BlocklistNext]_blocklistVars
    PROVE  /\ req' = [r \in Request |-> req'[r]]
           /\ \A r \in Request :
                 \/ req'[r] = req[r]
                 \/ /\ \E pc \in {"redis", "select", "insert", "update", "over"} :
                          req'[r] = [req[r] EXCEPT !.pc = pc]
                    /\ \/ ChangeCache(r) \/ SelectRow(r) \/ InsertRow(r) \/ Deactivate(r)
                       \/ RequestError(r)
<1>1. req \in [Request -> Task]
    BY DEF BlocklistTypeOK
<1>2. ASSUME NEW q \in Request,
             ChangeCache(q) \/ SelectRow(q) \/ InsertRow(q) \/ Deactivate(q) \/ RequestError(q)
      PROVE  \E pc \in {"redis", "select", "insert", "update", "over"} : Proceed(q, pc)
    BY <1>2 DEF ChangeCache, SelectRow, InsertRow, Deactivate, RequestError
<1>3. ASSUME NEW q \in Request, NEW pc, Proceed(q, pc)
      PROVE  /\ \A r \in Request \ {q} : req'[r] = req[r]
             /\ req'[q] = [req[q] EXCEPT !.pc = pc]
             /\ req' = [r \in Request |-> req'[r]]
    BY <1>1, <1>3 DEF Proceed
<1>4. Controller => UNCHANGED req
    BY DEF Controller, Start, LoadDone, LoadBlock, DeliverCommands, Work, RejectCommand,
           CheckBlocked, AddToCache, Enforce, RecordBlock, AckCommand
<1>5. CASE UNCHANGED req
    BY <1>1, <1>5
<1>6. CASE \E q \in Request : \/ ChangeCache(q) \/ SelectRow(q) \/ InsertRow(q) \/ Deactivate(q)
                              \/ RequestError(q)
    <2>1. PICK q \in Request : \/ ChangeCache(q) \/ SelectRow(q) \/ InsertRow(q) \/ Deactivate(q)
                               \/ RequestError(q)
        BY <1>6
    <2>2. PICK pc \in {"redis", "select", "insert", "update", "over"} : Proceed(q, pc)
        BY <1>2, <2>1
    <2> QED
        BY <1>3, <2>1, <2>2
<1> QED
    BY <1>4, <1>5, <1>6
    DEF BlocklistNext, blocklistVars, LoadFails, FirewallCrash, CommandError, Evict

\* A request keeps what it asks, whatever it does.
LEMMA RequestKeeps ==
    ASSUME BlocklistTypeOK, [BlocklistNext]_blocklistVars, NEW r \in Request
    PROVE  req'[r].op = req[r].op /\ req'[r].pair = req[r].pair
<1>1. req[r] \in Task
    BY DEF BlocklistTypeOK
<1> QED
    BY <1>1, RequestStep DEF Task

\* A row keeps its tenant and its maker, and does not become active again: the
\* table has no second row for an address, and no row is deleted.
LEMMA RowsStep ==
    ASSUME BlocklistTypeOK, [BlocklistNext]_blocklistVars, NEW a \in Ip, Listed(a)
    PROVE  /\ Listed(a)'
           /\ rows'[a].tenant = rows[a].tenant
           /\ rows'[a].by = rows[a].by
           /\ rows'[a].active => rows[a].active
<1>1. rows \in [Ip -> Row] /\ req \in [Request -> Task]
    BY DEF BlocklistTypeOK
<1>2. ASSUME NEW p \in Pair, NEW who \in Maker, AddRow(p, who) PROVE rows'[a] = rows[a]
    BY <1>1, <1>2, AddRowRows
<1>3. ASSUME NEW c \in Command, AddRow(PairOf[c], "firewall") PROVE rows'[a] = rows[a]
    BY <1>2, <1>3, PairParts DEF Maker
<1>4. ASSUME NEW r \in Request, InsertRow(r), AddRow(req[r].pair, req[r].op)
      PROVE  rows'[a] = rows[a]
    <2>1. req[r].pair \in Pair /\ req[r].op \in Maker
        BY <1>1, <1>4, PairParts DEF InsertRow, BlocklistTypeOK, Maker
    <2> QED
        BY <1>2, <1>4, <2>1
<1>5. ASSUME NEW r \in Request, Deactivate(r)
      PROVE  /\ rows'[a].tenant = rows[a].tenant
             /\ rows'[a].by = rows[a].by
             /\ rows'[a].active => rows[a].active
    <2>1. PICK b \in Ip : b = req[r].pair[2]
        BY <1>1, PairParts
    <2>2. rows' = [rows EXCEPT ![b].active = FALSE]
        BY <1>5, <2>1 DEF Deactivate
    <2> QED
        BY <1>1, <2>2, DeactivateRows
<1>6. CASE UNCHANGED rows
    BY <1>6 DEF Listed
<1> QED
    BY <1>3, <1>4, <1>5, <1>6, TableStep DEF Listed

\* A row that was not there is made by the firewall or by a gateway.
LEMMA NewRow ==
    ASSUME BlocklistTypeOK, ActiveListed, [BlocklistNext]_blocklistVars,
           NEW a \in Ip, ~Listed(a), rows'[a].active
    PROVE  \/ \E c \in Command :
                 /\ RecordBlock(c)
                 /\ PairOf[c][2] = a
                 /\ rows'[a] = [tenant |-> PairOf[c][1], by |-> "firewall", active |-> TRUE]
           \/ \E r \in Request :
                 /\ InsertRow(r)
                 /\ req[r].pair[2] = a
                 /\ rows'[a] = [tenant |-> req[r].pair[1], by |-> req[r].op, active |-> TRUE]
<1>1. rows \in [Ip -> Row] /\ req \in [Request -> Task] /\ ~rows[a].active
    BY DEF BlocklistTypeOK, ActiveListed
<1>2. ASSUME NEW c \in Command, AddRow(PairOf[c], "firewall")
      PROVE  /\ PairOf[c][2] = a
             /\ rows'[a] = [tenant |-> PairOf[c][1], by |-> "firewall", active |-> TRUE]
    <2>1. PairOf[c] \in Pair /\ "firewall" \in Maker
        BY PairParts DEF Maker
    <2> QED
        BY <1>1, <1>2, <2>1, AddRowRows
<1>3. ASSUME NEW r \in Request, InsertRow(r), AddRow(req[r].pair, req[r].op)
      PROVE  /\ req[r].pair[2] = a
             /\ rows'[a] = [tenant |-> req[r].pair[1], by |-> req[r].op, active |-> TRUE]
    <2>1. req[r].pair \in Pair /\ req[r].op \in Maker
        BY <1>1, <1>3, PairParts DEF InsertRow, BlocklistTypeOK, Maker
    <2> QED
        BY <1>1, <1>3, <2>1, AddRowRows
<1>4. ASSUME NEW r \in Request, Deactivate(r) PROVE FALSE
    <2>1. PICK b \in Ip : b = req[r].pair[2]
        BY <1>1, PairParts
    <2>2. rows' = [rows EXCEPT ![b].active = FALSE]
        BY <1>4, <2>1 DEF Deactivate
    <2> QED
        BY <1>1, <2>2, DeactivateRows
<1>5. ~UNCHANGED rows
    BY <1>1
<1> QED
    BY <1>2, <1>3, <1>4, <1>5, TableStep

\* Every step keeps the types of the table and of the requests.
LEMMA TableTyped ==
    ASSUME BlocklistTypeOK, [BlocklistNext]_blocklistVars
    PROVE  rows' \in [Ip -> Row]
<1>1. rows \in [Ip -> Row] /\ req \in [Request -> Task]
    BY DEF BlocklistTypeOK
<1>2. ASSUME NEW c \in Command, AddRow(PairOf[c], "firewall") PROVE rows' \in [Ip -> Row]
    BY <1>1, <1>2, PairParts, AddRowRows DEF Maker
<1>3. ASSUME NEW r \in Request, InsertRow(r), AddRow(req[r].pair, req[r].op)
      PROVE  rows' \in [Ip -> Row]
    <2>1. req[r].pair \in Pair /\ req[r].op \in Maker
        BY <1>1, <1>3, PairParts DEF InsertRow, BlocklistTypeOK, Maker
    <2> QED
        BY <1>1, <1>3, <2>1, AddRowRows
<1>4. ASSUME NEW r \in Request, Deactivate(r) PROVE rows' \in [Ip -> Row]
    <2>1. PICK b \in Ip : b = req[r].pair[2]
        BY <1>1, PairParts
    <2>2. rows' = [rows EXCEPT ![b].active = FALSE]
        BY <1>4, <2>1 DEF Deactivate
    <2> QED
        BY <1>1, <2>2, DeactivateRows
<1> QED
    BY <1>1, <1>2, <1>3, <1>4, TableStep

LEMMA RequestsTyped ==
    ASSUME BlocklistTypeOK, ActiveListed, [BlocklistNext]_blocklistVars
    PROVE  /\ req' \in [Request -> Task]
           /\ \A r \in Request :
                 /\ req'[r].pc = "insert" => req'[r].op \in {"gateway", "mobile"}
                 /\ req'[r].pc = "update" =>
                       Listed(req[r].pair[2])' /\ rows'[req'[r].pair[2]].tenant = req'[r].pair[1]
<1>1. req \in [Request -> Task] /\ rows \in [Ip -> Row]
    BY DEF BlocklistTypeOK
<1>2. ASSUME NEW r \in Request PROVE req'[r] \in Task
    <2>1. req[r] \in Task
        BY <1>1
    <2>2. ASSUME NEW pc \in {"redis", "select", "insert", "update", "over"}
          PROVE  [req[r] EXCEPT !.pc = pc] \in Task
        BY <2>1 DEF Task
    <2> QED
        BY <2>1, <2>2, RequestStep
<1>3. req' \in [Request -> Task]
    BY <1>2, RequestStep
<1>4. ASSUME NEW r \in Request
      PROVE  /\ req'[r].pc = "insert" => req'[r].op \in {"gateway", "mobile"}
             /\ req'[r].pc = "update" =>
                   Listed(req[r].pair[2])' /\ rows'[req'[r].pair[2]].tenant = req'[r].pair[1]
    <2> DEFINE Fits == Listed(req[r].pair[2]) /\ rows[req[r].pair[2]].tenant = req[r].pair[1]
    <2>1. PICK a \in Ip : a = req[r].pair[2]
        BY <1>1, PairParts
    <2>2. req'[r].op = req[r].op /\ req'[r].pair = req[r].pair
        BY RequestKeeps
    <2>3. Fits => /\ Listed(req[r].pair[2])'
                  /\ rows'[req'[r].pair[2]].tenant = req'[r].pair[1]
        BY <2>1, <2>2, RowsStep DEF Listed
    <2>4. CASE req'[r] = req[r]
        BY <2>3, <2>4 DEF BlocklistTypeOK
    <2>5. CASE SelectRow(r)
        <3>1. req'[r].pc = "update" => Active(req[r].pair)
            BY <1>1, <2>5 DEF SelectRow, Proceed, Task
        <3>2. req'[r].pc = "insert" => req[r].op # "unblock"
            BY <1>1, <2>5 DEF SelectRow, Proceed, Task
        <3>3. Active(req[r].pair) => Fits
            BY <2>1 DEF Active, ActiveListed
        <3>4. req[r].op \in {"gateway", "mobile", "unblock"}
            BY <1>1 DEF Task
        <3> QED
            BY <2>2, <2>3, <3>1, <3>2, <3>3, <3>4
    <2>6. CASE ChangeCache(r) \/ InsertRow(r) \/ Deactivate(r) \/ RequestError(r)
        <3>1. req'[r].pc \in {"select", "over"}
            BY <1>1, <2>6 DEF ChangeCache, InsertRow, Deactivate, RequestError, Proceed, Task
        <3> QED
            BY <3>1
    <2> QED
        BY <2>4, <2>5, <2>6, RequestStep
<1> QED
    BY <1>3, <1>4

\* Every step keeps the types.
LEMMA BlockTypeStep ==
    ASSUME BlocklistTypeOK, ActiveListed, [BlocklistNext]_blocklistVars
    PROVE  BlocklistTypeOK'
<1>1. /\ stage' \in [Command -> Stage] /\ firewall' \in {"down", "loading", "running"}
      /\ toLoad' \subseteq Pair /\ lost' \subseteq Scope /\ cache' \subseteq Pair
      /\ rules' \subseteq Ip /\ faults' \in 0..MaxFaults
    <2> USE BlocklistAssumption DEF BlocklistTypeOK, queue, redis, Stage, BeingServed, Fault
    <2> DEFINE Typed == /\ stage' \in [Command -> Stage] /\ firewall' \in {"down", "loading", "running"}
                        /\ toLoad' \subseteq Pair /\ lost' \subseteq Scope /\ cache' \subseteq Pair
                        /\ rules' \subseteq Ip /\ faults' \in 0..MaxFaults
    <2>1. CASE Start \/ LoadDone \/ LoadFails \/ FirewallCrash
        BY <2>1 DEF Start, LoadDone, LoadFails, FirewallCrash
    <2>2. ASSUME NEW p \in Pair, LoadBlock(p) PROVE Typed
        BY <2>2 DEF LoadBlock
    <2>3. ASSUME NEW n \in Command, DeliverCommands(n) PROVE Typed
        BY <2>3 DEF DeliverCommands
    <2>4. ASSUME NEW c \in Command, Work(c) PROVE Typed
        <3>1. PairOf[c] \in Pair /\ PairOf[c][2] \in Ip
            BY PairParts
        <3>2. CASE RejectCommand(c) \/ CheckBlocked(c) \/ AddToCache(c) \/ AckCommand(c)
            BY <3>1, <3>2 DEF RejectCommand, CheckBlocked, AddToCache, AckCommand, GoTo
        <3>3. CASE Enforce(c)
            BY <3>1, <3>3 DEF Enforce, GoTo
        <3>4. CASE RecordBlock(c)
            BY <3>4 DEF RecordBlock, GoTo
        <3> QED
            BY <2>4, <3>2, <3>3, <3>4 DEF Work
    <2>5. ASSUME NEW c \in Command, CommandError(c) PROVE Typed
        BY <2>5 DEF CommandError, GoTo
    <2>6. ASSUME NEW s \in Scope, Evict(s) PROVE Typed
        BY <2>6 DEF Evict
    <2>7. ASSUME NEW r \in Request, ChangeCache(r) PROVE Typed
        <3>1. req[r] \in Task
            OBVIOUS
        <3>2. /\ req[r].pair \in Pair /\ <<NoTenant, req[r].pair[2]>> \in Pair
              /\ req[r].op \in {"gateway", "mobile", "unblock"}
            BY <3>1, PairParts DEF Task
        <3> QED
            BY <2>7, <3>2 DEF ChangeCache
    <2>8. ASSUME NEW r \in Request,
                 SelectRow(r) \/ InsertRow(r) \/ Deactivate(r) \/ RequestError(r)
          PROVE  Typed
        BY <2>8 DEF SelectRow, InsertRow, Deactivate, RequestError
    <2>9. CASE UNCHANGED blocklistVars
        BY <2>9 DEF blocklistVars
    <2> QED
        BY <2>1, <2>2, <2>3, <2>4, <2>5, <2>6, <2>7, <2>8, <2>9 DEF BlocklistNext, Controller
<1>2. \A r \in Request :
          /\ req'[r].pc = "insert" => req'[r].op \in {"gateway", "mobile"}
          /\ req'[r].pc = "update" =>
                Listed(req[r].pair[2])' /\ rows'[req'[r].pair[2]].tenant = req'[r].pair[1]
    BY RequestsTyped
<1> QED
    BY <1>1, <1>2, TableTyped, RequestsTyped DEF BlocklistTypeOK

LEMMA ActiveStep ==
    ASSUME BlocklistTypeOK, ActiveListed, [BlocklistNext]_blocklistVars
    PROVE  ActiveListed'
<1> SUFFICES ASSUME NEW a \in Ip, rows'[a].active PROVE Listed(a)'
    BY DEF ActiveListed
<1>1. CASE Listed(a)
    BY <1>1, RowsStep
<1>2. CASE ~Listed(a)
    <2>1. ASSUME NEW r \in Request, InsertRow(r) PROVE req[r].op # "nobody"
        BY <2>1 DEF InsertRow, BlocklistTypeOK
    <2>2. ASSUME NEW c \in Command,
                 rows'[a] = [tenant |-> PairOf[c][1], by |-> "firewall", active |-> TRUE]
          PROVE  rows'[a].by # "nobody"
        BY <2>2
    <2>3. ASSUME NEW r \in Request, InsertRow(r),
                 rows'[a] = [tenant |-> req[r].pair[1], by |-> req[r].op, active |-> TRUE]
          PROVE  rows'[a].by # "nobody"
        BY <2>1, <2>3
    <2> QED
        BY <1>2, <2>2, <2>3, NewRow DEF Listed
<1> QED
    BY <1>1, <1>2

-----------------------------------------------------------------------------

\* Commands are in hand only while the loop runs.
LEMMA RunningStep ==
    ASSUME BlocklistTypeOK, ServedRunning, [BlocklistNext]_blocklistVars
    PROVE  ServedRunning'
<1> USE DEF BlocklistTypeOK, ServedRunning, BeingServed, Stage
<1>1. ASSUME NEW n \in Command, DeliverCommands(n) PROVE ServedRunning'
    BY <1>1 DEF DeliverCommands
<1>2. ASSUME NEW c \in Command, Work(c) \/ CommandError(c) PROVE ServedRunning'
    <2>1. stage[c] \in BeingServed /\ UNCHANGED firewall
        BY <1>2 DEF Work, RejectCommand, CheckBlocked, AddToCache, Enforce, RecordBlock,
                    AckCommand, CommandError, GoTo, At
    <2> QED
        BY <2>1
<1>3. CASE FirewallCrash
    BY <1>3 DEF FirewallCrash
<1>4. CASE Start \/ LoadDone \/ LoadFails \/ \E p \in Pair : LoadBlock(p)
    BY <1>4 DEF Start, LoadDone, LoadFails, LoadBlock
<1>5. CASE UNCHANGED queue
    BY <1>5 DEF queue
<1> QED
    BY <1>1, <1>2, <1>3, <1>4, <1>5
    DEF BlocklistNext, Controller, blocklistVars, queue, Evict, ChangeCache, SelectRow,
        InsertRow, Deactivate, RequestError

\* Faults are counted and never forgotten.
LEMMA FaultsStep ==
    ASSUME BlocklistTypeOK, [BlocklistNext]_blocklistVars
    PROVE  faults' = 0 => faults = 0 /\ ~Fault
<1>1. UNCHANGED faults \/ Fault
    BY DEF BlocklistNext, Controller, blocklistVars, Start, LoadDone, LoadFails, FirewallCrash,
           LoadBlock, DeliverCommands, Work, RejectCommand, CheckBlocked, AddToCache, Enforce,
           RecordBlock, AckCommand, CommandError, Evict, ChangeCache, SelectRow, InsertRow,
           Deactivate, RequestError
<1> QED
    BY <1>1 DEF Fault, BlocklistTypeOK

\* A tenant's address leaves its set by eviction only, which a start forgets.
LEMMA CacheStep ==
    ASSUME BlocklistTypeOK, [BlocklistNext]_blocklistVars
    PROVE  /\ \A p \in cache : p[1] \in Tenant => p \in cache' \/ (p[1] \in lost' /\ faults' # 0)
           /\ ~Start => lost \subseteq lost'
<1> USE DEF BlocklistTypeOK
<1>1. ASSUME NEW s \in Scope, Evict(s)
      PROVE  /\ \A p \in cache : p \in cache' \/ (p[1] \in lost' /\ faults' # 0)
             /\ lost \subseteq lost'
    BY <1>1 DEF Evict, Fault
<1>2. ASSUME NEW r \in Request, ChangeCache(r)
      PROVE  /\ \A p \in cache : p[1] \in Tenant => p \in cache'
             /\ UNCHANGED lost
    <2>1. req[r].op \in {"gateway", "mobile", "unblock"} /\ NoTenant \notin Tenant
        BY BlocklistAssumption DEF Task
    <2> QED
        BY <1>2, <2>1 DEF ChangeCache
<1>3. CASE Start
    BY <1>3 DEF Start
<1>4. CASE cache \subseteq cache' /\ UNCHANGED lost
    BY <1>4
<1> QED
    BY <1>1, <1>2, <1>3, <1>4
    DEF BlocklistNext, Controller, blocklistVars, redis, LoadDone, LoadFails, FirewallCrash,
        LoadBlock, DeliverCommands, Work, RejectCommand, CheckBlocked, AddToCache, Enforce,
        RecordBlock, AckCommand, CommandError, SelectRow, InsertRow, Deactivate, RequestError

\* A command past its check stays in its tenant's set, evictions apart.
LEMMA AddedStep ==
    ASSUME BlocklistTypeOK, ServedRunning, AddedIsBlocked, [BlocklistNext]_blocklistVars
    PROVE  AddedIsBlocked'
<1> DEFINE Past(c) == stage[c] \in {"enforce", "record"} \/ (stage[c] = "ack" /\ c \notin Bad)
           Held(c) == PairOf[c] \in cache \/ PairOf[c][1] \in lost
<1> SUFFICES ASSUME NEW c \in Command, Past(c)', PairOf[c][1] \in Tenant
             PROVE  Held(c)'
    BY DEF AddedIsBlocked
<1>1. Held(c) /\ ~Start => Held(c)'
    BY CacheStep
<1>2. Past(c) => Held(c)
    BY DEF AddedIsBlocked
<1>3. CASE Past(c)
    <2>1. ~Start
        BY <1>3 DEF ServedRunning, BeingServed, Start
    <2> QED
        BY <1>1, <1>2, <1>3, <2>1
<1>4. CASE ~Past(c)
    <2>1. PICK d \in Command : Work(d)
        BY <1>4
        DEF BlocklistNext, Controller, blocklistVars, queue, BlocklistTypeOK, Stage, BeingServed,
            Start, LoadDone, LoadFails, FirewallCrash, LoadBlock, DeliverCommands, CommandError,
            GoTo, Evict, ChangeCache, SelectRow, InsertRow, Deactivate, RequestError
    <2>2. d = c
        BY <1>4, <2>1
        DEF Work, RejectCommand, CheckBlocked, AddToCache, Enforce, RecordBlock, AckCommand,
            GoTo, BlocklistTypeOK
    <2>3. CheckBlocked(c) \/ AddToCache(c)
        BY <1>4, <2>1, <2>2
        DEF Work, RejectCommand, CheckBlocked, AddToCache, Enforce, RecordBlock, AckCommand,
            GoTo, At, BlocklistTypeOK
    <2> QED
        BY <1>4, <2>3 DEF CheckBlocked, AddToCache, GoTo, redis, BlocklistTypeOK
<1> QED
    BY <1>3, <1>4

\* Without faults, the web gateway's address stays in the set until its insert.
LEMMA InsertsStep ==
    ASSUME BlocklistTypeOK, InsertsFollowCache, [BlocklistNext]_blocklistVars
    PROVE  InsertsFollowCache'
<1> DEFINE Mid(r) == req[r].op = "gateway" /\ req[r].pc \in {"select", "insert"}
<1> SUFFICES ASSUME NEW r \in Request, Mid(r)', faults' = 0
             PROVE  req'[r].pair \in cache'
    BY DEF InsertsFollowCache
<1>1. faults = 0
    BY FaultsStep
<1>2. req[r] \in Task /\ req[r].pair[1] \in Tenant
    BY DEF BlocklistTypeOK, Task
<1>3. req'[r].op = req[r].op /\ req'[r].pair = req[r].pair
    BY RequestKeeps
<1>4. CASE Mid(r)
    <2>1. req[r].pair \in cache
        BY <1>1, <1>4 DEF InsertsFollowCache
    <2>2. req[r].pair \in cache'
        BY <1>2, <2>1, CacheStep
    <2> QED
        BY <1>3, <2>2
<1>5. CASE ChangeCache(r)
    BY <1>3, <1>5 DEF ChangeCache
<1>6. CASE ~Mid(r) /\ (SelectRow(r) \/ InsertRow(r) \/ Deactivate(r) \/ RequestError(r))
    <2>1. SelectRow(r) => Mid(r)
        BY <1>3 DEF SelectRow
    <2>2. InsertRow(r) \/ Deactivate(r) \/ RequestError(r) => req'[r].pc = "over"
        BY DEF InsertRow, Deactivate, RequestError, Proceed, BlocklistTypeOK, Task
    <2> QED
        BY <1>6, <2>1, <2>2
<1> QED
    BY <1>4, <1>5, <1>6, RequestStep

\* What is still to be reloaded has a row.
LEMMA ReloadStep ==
    ASSUME BlocklistTypeOK, ActiveListed, ReloadsRecorded, [BlocklistNext]_blocklistVars
    PROVE  ReloadsRecorded'
<1> SUFFICES ASSUME NEW p \in toLoad' PROVE Listed(p[2])'
    BY DEF ReloadsRecorded
<1>1. CASE p \in toLoad
    <2>1. PICK a \in Ip : a = p[2]
        BY <1>1, PairParts DEF BlocklistTypeOK
    <2>2. Listed(a)'
        BY <1>1, <2>1, RowsStep DEF ReloadsRecorded
    <2> QED
        BY <2>1, <2>2 DEF Listed
<1>2. CASE Start
    BY <1>2, PairParts DEF Start, Active, ActiveListed, Listed
<1>3. ~Start => toLoad' \subseteq toLoad
    BY DEF BlocklistNext, Controller, blocklistVars, queue, Start, LoadDone, LoadFails,
           FirewallCrash, LoadBlock, DeliverCommands, Work, RejectCommand, CheckBlocked, AddToCache,
           Enforce, RecordBlock, AckCommand, GoTo, CommandError, Evict, ChangeCache, SelectRow,
           InsertRow, Deactivate, RequestError
<1> QED
    BY <1>1, <1>2, <1>3

-----------------------------------------------------------------------------

\* Who has blocked an address and has not yet come to the table.
ByCommand(a) == \E c \in Command : stage[c] \in {"enforce", "record"} /\ PairOf[c][2] = a
ByRequest(a) ==
    \E r \in Request :
        /\ req[r].pc \in {"select", "insert"}
        /\ req[r].op # "unblock" /\ req[r].pair[2] = a
Known(a) == Listed(a) \/ ByCommand(a) \/ ByRequest(a)

\* After an insert the address has a row: this one, or the one that refused it.
LEMMA InsertLists ==
    ASSUME BlocklistTypeOK, [BlocklistNext]_blocklistVars,
           NEW p \in Pair, NEW who \in Maker, AddRow(p, who) \/ Listed(p[2])
    PROVE  rows'[p[2]].by # "nobody"
<1>1. PICK a \in Ip : a = p[2]
    BY PairParts
<1>2. CASE Listed(a)
    BY <1>1, <1>2, RowsStep DEF Listed
<1>3. CASE AddRow(p, who)
    <2>1. rows'[p[2]] = [tenant |-> p[1], by |-> who, active |-> TRUE]
        BY <1>3, AddRowRows DEF BlocklistTypeOK
    <2>2. rows'[p[2]].by = who
        BY <2>1
    <2> QED
        BY <2>2 DEF Maker
<1> QED
    BY <1>1, <1>2, <1>3

\* Without faults, a command past its SADD goes on until its address has a row.
LEMMA CommandStays ==
    ASSUME BlocklistTypeOK, [BlocklistNext]_blocklistVars, faults' = 0,
           NEW c \in Command, stage[c] \in {"enforce", "record"}
    PROVE  stage'[c] = stage[c] \/ stage'[c] = "record" \/ Listed(PairOf[c][2])'
<1>1. ~Fault
    BY FaultsStep
<1>2. ASSUME NEW d \in Command, Work(d), d # c PROVE stage'[c] = stage[c]
    BY <1>2 DEF Work, RejectCommand, CheckBlocked, AddToCache, Enforce, RecordBlock, AckCommand,
                GoTo, BlocklistTypeOK
<1>3. ASSUME Work(c) PROVE stage'[c] = "record" \/ Listed(PairOf[c][2])'
    <2>1. Enforce(c) \/ RecordBlock(c)
        BY <1>3 DEF Work, RejectCommand, CheckBlocked, AddToCache, AckCommand, At
    <2>2. CASE Enforce(c)
        BY <2>2 DEF Enforce, GoTo, BlocklistTypeOK
    <2>3. CASE RecordBlock(c)
        <3>1. AddRow(PairOf[c], "firewall") \/ Listed(PairOf[c][2])
            BY <1>1, <2>3 DEF RecordBlock
        <3>2. PairOf[c] \in Pair /\ "firewall" \in Maker
            BY PairParts DEF Maker
        <3> QED
            BY <3>1, <3>2, InsertLists DEF Listed
    <2> QED
        BY <2>1, <2>2, <2>3
<1>4. ASSUME NEW n \in Command, DeliverCommands(n) PROVE stage'[c] = stage[c]
    BY <1>4 DEF DeliverCommands, BeingServed
<1> QED
    BY <1>1, <1>2, <1>3, <1>4
    DEF BlocklistNext, Controller, blocklistVars, queue, Start, LoadDone, LoadFails, LoadBlock,
        FirewallCrash, CommandError, Evict, ChangeCache, SelectRow, InsertRow, Deactivate,
        RequestError

\* Without faults, a request to block goes on past its SADD until the address has a row.
LEMMA RequestStays ==
    ASSUME BlocklistTypeOK, ActiveListed, [BlocklistNext]_blocklistVars, faults' = 0,
           NEW r \in Request, req[r].op # "unblock", req[r].pc \in {"select", "insert"},
           NEW a \in Ip, a = req[r].pair[2]
    PROVE  req'[r].pc \in {"select", "insert"} \/ Listed(a)'
<1>1. ~Fault
    BY FaultsStep
<1>2. req[r] \in Task /\ req \in [Request -> Task]
    BY DEF BlocklistTypeOK
<1>3. CASE SelectRow(r)
    <2>1. CASE Active(req[r].pair)
        <3>1. Listed(a)
            BY <2>1 DEF Active, ActiveListed
        <3> QED
            BY <3>1, RowsStep
    <2>2. CASE ~Active(req[r].pair)
        BY <1>2, <1>3, <2>2 DEF SelectRow, Proceed, Task
    <2> QED
        BY <2>1, <2>2
<1>4. CASE InsertRow(r)
    <2>1. req[r].pair \in Pair /\ req[r].op \in Maker
        BY <1>2, <1>4, PairParts DEF InsertRow, BlocklistTypeOK, Maker
    <2>2. AddRow(req[r].pair, req[r].op) \/ Listed(req[r].pair[2])
        BY <1>4 DEF InsertRow
    <2>3. rows'[req[r].pair[2]].by # "nobody"
        BY <2>1, <2>2, InsertLists
    <2> QED
        BY <2>3 DEF Listed
<1>5. ~ChangeCache(r) /\ ~Deactivate(r) /\ ~RequestError(r)
    BY <1>1 DEF ChangeCache, Deactivate, RequestError
<1> QED
    BY <1>3, <1>4, <1>5, RequestStep

\* Without faults, what is known stays known.
LEMMA KnownStays ==
    ASSUME BlocklistTypeOK, ActiveListed, [BlocklistNext]_blocklistVars, faults' = 0,
           NEW a \in Ip, Known(a)
    PROVE  Known(a)'
<1>1. CASE Listed(a)
    BY <1>1, RowsStep DEF Known
<1>2. CASE ByCommand(a)
    <2>1. PICK c \in Command : stage[c] \in {"enforce", "record"} /\ PairOf[c][2] = a
        BY <1>2 DEF ByCommand
    <2>2. stage'[c] \in {"enforce", "record"} \/ Listed(PairOf[c][2])'
        BY <2>1, CommandStays
    <2> QED
        BY <2>1, <2>2 DEF Known, ByCommand, Listed
<1>3. CASE ByRequest(a)
    <2>1. PICK r \in Request : /\ req[r].pc \in {"select", "insert"}
                               /\ req[r].op # "unblock" /\ req[r].pair[2] = a
        BY <1>3 DEF ByRequest
    <2>2. req'[r].pc \in {"select", "insert"} \/ Listed(a)'
        BY <2>1, RequestStays
    <2>3. req'[r].op = req[r].op /\ req'[r].pair = req[r].pair
        BY RequestKeeps
    <2> QED
        BY <2>1, <2>2, <2>3 DEF Known, ByRequest
<1> QED
    BY <1>1, <1>2, <1>3 DEF Known

\* Whatever enters a set or gets a DROP rule has a row, or will have one.
LEMMA AddressesStep ==
    ASSUME BlocklistTypeOK, ActiveListed, ReloadsRecorded, AddressesRecorded,
           [BlocklistNext]_blocklistVars
    PROVE  AddressesRecorded'
<1> SUFFICES ASSUME faults' = 0
             PROVE  /\ \A a \in rules' : Known(a)'
                    /\ \A p \in cache' : Known(p[2])'
    BY DEF AddressesRecorded, Known, ByCommand, ByRequest
<1>1. /\ \A a \in rules : Known(a)
      /\ \A p \in cache : Known(p[2])
    BY FaultsStep DEF AddressesRecorded, Known, ByCommand, ByRequest
<1>2. ASSUME NEW a \in rules' PROVE Known(a)'
    <2>1. CASE a \in rules
        BY <1>1, <2>1, KnownStays DEF BlocklistTypeOK
    <2>2. ASSUME NEW c \in Command, Enforce(c), a \notin rules PROVE ByCommand(a)'
        BY <1>2, <2>2 DEF Enforce, GoTo, BlocklistTypeOK, ByCommand
    <2> QED
        BY <1>2, <2>1, <2>2
        DEF BlocklistNext, Controller, blocklistVars, Start, LoadDone, LoadFails, FirewallCrash,
            LoadBlock, DeliverCommands, Work, RejectCommand, CheckBlocked, AddToCache, RecordBlock,
            AckCommand, CommandError, Evict, ChangeCache, SelectRow, InsertRow, Deactivate,
            RequestError, Known
<1>3. ASSUME NEW p \in cache' PROVE Known(p[2])'
    <2>0. PICK a : a = p[2]
        OBVIOUS
    <2>1. CASE p \in cache
        <3>1. a \in Ip
            BY <2>0, <2>1, PairParts DEF BlocklistTypeOK
        <3>2. Known(a)'
            BY <1>1, <2>0, <2>1, <3>1, KnownStays
        <3> QED
            BY <2>0, <3>2 DEF Known, Listed, ByCommand, ByRequest
    <2>2. ASSUME NEW q \in Pair, LoadBlock(q), p \notin cache PROVE Known(p[2])'
        <3>1. p = q /\ q \in toLoad /\ UNCHANGED rows
            BY <1>3, <2>2 DEF LoadBlock
        <3> QED
            BY <3>1 DEF ReloadsRecorded, Known, Listed
    <2>3. ASSUME NEW c \in Command, AddToCache(c), p \notin cache PROVE Known(p[2])'
        BY <1>3, <2>3 DEF AddToCache, GoTo, BlocklistTypeOK, Known, ByCommand
    <2>4. ASSUME NEW r \in Request, ChangeCache(r), p \notin cache PROVE Known(p[2])'
        <3>1. req[r] \in Task /\ req \in [Request -> Task]
            BY DEF BlocklistTypeOK
        <3>2. req[r].op \in {"gateway", "mobile"} /\ p[2] = req[r].pair[2]
            BY <1>3, <2>4, <3>1 DEF ChangeCache, Task
        <3>3. req'[r].pc = "select" /\ req'[r].op = req[r].op /\ req'[r].pair = req[r].pair
            BY <2>4, <3>1 DEF ChangeCache, Proceed, Task
        <3> QED
            BY <3>2, <3>3 DEF Known, ByRequest
    <2> QED
        BY <1>3, <2>1, <2>2, <2>3, <2>4
        DEF BlocklistNext, Controller, blocklistVars, redis, Start, LoadDone, LoadFails,
            FirewallCrash, DeliverCommands, Work, RejectCommand, CheckBlocked, Enforce, RecordBlock,
            AckCommand, CommandError, Evict, SelectRow, InsertRow, Deactivate, RequestError
<1> QED
    BY <1>2, <1>3

\* What the table says is blocked stays blocked, evictions apart.
LEMMA EnforcedStep ==
    ASSUME BlocklistTypeOK, ActiveListed, ServedRunning, AddedIsBlocked, InsertsFollowCache,
           ActiveRowsEnforced, [BlocklistNext]_blocklistVars
    PROVE  ActiveRowsEnforced'
<1> DEFINE Bound(p) == /\ Active(p)
                       /\ rows[p[2]].by = "firewall" \/ (rows[p[2]].by = "gateway" /\ faults = 0)
           Held(p) == p \in cache \cup toLoad \/ p[1] \in lost
<1> SUFFICES ASSUME NEW p \in Tenant \X Ip, Bound(p)'
             PROVE  Held(p)'
    BY DEF ActiveRowsEnforced
<1>1. faults' = 0 => faults = 0
    BY FaultsStep
<1>2. p[1] \in Tenant /\ p[2] \in Ip /\ p \in Pair /\ p = <<p[1], p[2]>>
    BY DEF Pair, Scope
<1>3. PICK a \in Ip : a = p[2]
    BY <1>2
<1>4. rows'[a].active /\ rows'[a].tenant = p[1]
      /\ (rows'[a].by = "firewall" \/ (rows'[a].by = "gateway" /\ faults' = 0))
    BY <1>3 DEF Active
<1>5. ASSUME Held(p), ~Start
      PROVE  Held(p)'
    <2>1. CASE p \in toLoad
        <3>1. p \in toLoad' \/ p \in cache'
            BY <1>5, <2>1
            DEF BlocklistNext, Controller, blocklistVars, queue, LoadDone, LoadFails, FirewallCrash,
                LoadBlock, DeliverCommands, Work, RejectCommand, CheckBlocked, AddToCache, Enforce,
                RecordBlock, AckCommand, GoTo, CommandError, Evict, ChangeCache, SelectRow,
                InsertRow, Deactivate, RequestError
        <3> QED
            BY <3>1
    <2>2. CASE p \in cache
        BY <1>2, <2>2, CacheStep
    <2>3. CASE p[1] \in lost
        BY <1>5, <2>3, CacheStep
    <2> QED
        BY <1>5, <2>1, <2>2, <2>3
<1>6. CASE Listed(a)
    <2>1. Bound(p)
        BY <1>1, <1>3, <1>4, <1>6, RowsStep DEF Active
    <2>2. Held(p)
        BY <2>1 DEF ActiveRowsEnforced
    <2>3. CASE Start
        BY <1>2, <2>1, <2>3 DEF Start
    <2> QED
        BY <1>5, <2>2, <2>3
<1>7. CASE ~Listed(a)
    <2>1. ASSUME NEW c \in Command, RecordBlock(c), PairOf[c][2] = a,
                 rows'[a] = [tenant |-> PairOf[c][1], by |-> "firewall", active |-> TRUE]
          PROVE  Held(p)'
        <3>1. PairOf[c] = p
            BY <1>2, <1>3, <1>4, <2>1, PairParts
        <3>2. p \in cache \/ p[1] \in lost
            BY <1>2, <2>1, <3>1 DEF AddedIsBlocked, RecordBlock, At
        <3> QED
            BY <2>1, <3>2 DEF RecordBlock, redis
    <2>2. ASSUME NEW r \in Request, InsertRow(r), req[r].pair[2] = a,
                 rows'[a] = [tenant |-> req[r].pair[1], by |-> req[r].op, active |-> TRUE]
          PROVE  Held(p)'
        <3>1. req[r].pair \in Pair
            BY PairParts DEF BlocklistTypeOK
        <3>2. req[r].pair = p
            BY <1>2, <1>3, <1>4, <2>2, <3>1, PairParts
        <3>3. req[r].op \in {"gateway", "mobile"}
            BY <2>2 DEF InsertRow, BlocklistTypeOK
        <3>4. req[r].op = "gateway" /\ faults = 0
            BY <1>1, <1>4, <2>2, <3>3
        <3>5. p \in cache
            BY <2>2, <3>2, <3>4 DEF InsertsFollowCache, InsertRow
        <3> QED
            BY <2>2, <3>5 DEF InsertRow, redis
    <2> QED
        BY <1>4, <1>7, <2>1, <2>2, NewRow
<1> QED
    BY <1>6, <1>7

-----------------------------------------------------------------------------

\* At the start nothing is blocked, recorded or in hand.
LEMMA BlockStart == BlocklistInit => BlockInv
<1> SUFFICES ASSUME BlocklistInit PROVE BlockInv
    OBVIOUS
<1>1. rows \in [Ip -> Row] /\ \A a \in Ip : ~rows[a].active
    BY DEF BlocklistInit, NoRow, Row, Scope
<1>2. req \in [Request -> Task] /\ \A r \in Request : req[r].pc = "redis"
    BY DEF BlocklistInit, Task
<1>3. BlocklistTypeOK
    BY <1>1, <1>2, BlocklistAssumption DEF BlocklistInit, BlocklistTypeOK, Stage, BeingServed
<1>4. ActiveListed /\ ServedRunning /\ AddedIsBlocked /\ InsertsFollowCache /\ ReloadsRecorded
    BY <1>1, <1>2
    DEF BlocklistInit, ActiveListed, ServedRunning, BeingServed, AddedIsBlocked,
        InsertsFollowCache, ReloadsRecorded
<1>5. AddressesRecorded
    BY DEF BlocklistInit, AddressesRecorded
<1>6. ActiveRowsEnforced
    BY <1>1 DEF ActiveRowsEnforced, Active
<1> QED
    BY <1>3, <1>4, <1>5, <1>6 DEF BlockInv

\* The strengthened invariant is inductive.
LEMMA BlockInvariant == BlocklistSpec => []BlockInv
<1>1. BlockInv /\ [BlocklistNext]_blocklistVars => BlockInv'
    BY BlockTypeStep, ActiveStep, RunningStep, AddedStep, InsertsStep, ReloadStep, AddressesStep,
       EnforcedStep
    DEF BlockInv
<1> QED
    BY <1>1, BlockStart, PTL DEF BlocklistSpec

\* The variables keep their types, a request inserts or updates only if it may, and one
\* that updates a row has the row of its tenant (mobile_gateway/main.py:598-612).
THEOREM BlockTypes == BlocklistSpec => []BlocklistTypeOK
<1>1. BlockInv => BlocklistTypeOK
    BY DEF BlockInv
<1> QED
    BY <1>1, BlockInvariant, PTL

\* While nothing fails, every address in a set and every DROP rule is in the table or about
\* to be, whoever blocks it and whichever insert the unique index refuses
\* (firewall/main.py:175-197, gateway/main.py:885-908).
THEOREM AddressesKept == BlocklistSpec => []AddressesRecorded
<1>1. BlockInv => AddressesRecorded
    BY DEF BlockInv
<1> QED
    BY <1>1, BlockInvariant, PTL

\* The blocks that the firewall has recorded stay in force through crashes, reloads and
\* other users' requests, until Redis evicts the set (firewall/main.py:128-158, 175-197).
THEOREM BlocksEnforced == BlocklistSpec => []ActiveRowsEnforced
<1>1. BlockInv => ActiveRowsEnforced
    BY DEF BlockInv
<1> QED
    BY <1>1, BlockInvariant, PTL

\* An acknowledged command is one whose address is in its tenant's set
\* (firewall/main.py:163-197).
THEOREM AckedBlocked == BlocklistSpec => AckedMeansBlocked
<1> DEFINE Acked ==
        \A c \in Command \ Bad :
            stage[c] = "ack" /\ stage'[c] = "done" /\ PairOf[c][1] \in Tenant =>
                PairOf[c] \in cache' \/ PairOf[c][1] \in lost'
<1>1. BlockInv /\ [BlocklistNext]_blocklistVars => Acked
    <2> SUFFICES ASSUME BlockInv, [BlocklistNext]_blocklistVars, NEW c \in Command \ Bad,
                        stage[c] = "ack", PairOf[c][1] \in Tenant
                 PROVE  PairOf[c] \in cache' \/ PairOf[c][1] \in lost'
        OBVIOUS
    <2>1. PairOf[c] \in cache \/ PairOf[c][1] \in lost
        BY DEF BlockInv, AddedIsBlocked
    <2>2. ~Start
        BY DEF BlockInv, ServedRunning, BeingServed, Start
    <2> QED
        BY <2>1, <2>2, CacheStep DEF BlockInv
<1>2. BlockInv /\ [BlocklistNext]_blocklistVars => [Acked]_blocklistVars
    BY <1>1
<1>3. BlocklistSpec => [][Acked]_blocklistVars
    BY <1>2, BlockInvariant, PTL DEF BlocklistSpec
<1> QED
    BY <1>3 DEF AckedMeansBlocked
=============================================================================
