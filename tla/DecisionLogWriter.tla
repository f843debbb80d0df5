-------------------------- MODULE DecisionLogWriter --------------------------
(***************************************************************************)
(* The decision log writer beside the control plane: it consumes           *)
(* stream:decision_logs in batches, copies them to the table decision_logs *)
(* and only then deletes the payloads and acknowledges the entries.        *)
(*                                                                         *)
(* The plane is that of DecisionPlane; its action CleanPayload, which      *)
(* stands there for this process, is left out of WriterSpec's next-state   *)
(* relation and implemented by the writer's own steps.  The stream is      *)
(* logs, in the order of the entries' times; entries of one tick may be    *)
(* read in either order.                                                   *)
(***************************************************************************)
EXTENDS DecisionPlane, FiniteSets

CONSTANTS
    BatchSize,      \* DECISION_LOG_BATCH_SIZE
    MaxWriterFaults \* bound on the writer's errors and crashes

ASSUME WriterAssumption ==
    /\ BatchSize \in Nat \ {0}
    /\ MaxWriterFaults \in Nat

VARIABLES
    group,     \* writer_group exists
    skipped,   \* entries that were in the stream when it was created
    delivered, \* entries behind the group's last-delivered-id
    acked,     \* entries that have been acknowledged
    rows,      \* the table decision_logs, unique by alert_id
    phase,     \* where process_batch has got to
    inflight,  \* the batch it works on
    writerFaults

cursor     == <<group, skipped, delivered>>
writer     == <<cursor, acked, rows, phase, inflight, writerFaults>>
systemVars == <<vars, writer>>

WriterInit ==
    /\ Init
    /\ group = FALSE
    /\ skipped = {}
    /\ delivered = {}
    /\ acked = {}
    /\ rows = {}
    /\ phase = "idle"
    /\ inflight = {}
    /\ writerFaults = 0

WriterFault ==
    writerFaults < MaxWriterFaults /\ writerFaults' = writerFaults + 1

SameAlert(r, q) == IdOf[r.key] = IdOf[q.key]
Recorded(i)     == \E r \in rows : IdOf[r.key] = i

\* consumer_loop creates its group at the end of the stream ("$" is the
\* client library's default), so what is already there is never delivered.
CreateGroup ==
    /\ ~ group
    /\ group' = TRUE
    /\ skipped' = logs
    /\ delivered' = logs
    /\ UNCHANGED <<vars, acked, rows, phase, inflight, writerFaults>>

\* That call raises and the error is dropped: consume then creates the group at
\* the start of the stream.
CreateGroupLate ==
    /\ WriterFault
    /\ ~ group
    /\ group' = TRUE
    /\ UNCHANGED <<vars, skipped, delivered, acked, rows, phase, inflight>>

Unread == logs \ delivered

\* Mutant: the group's cursor is set to the end of the stream by every read.
WriterReadToEnd(S) ==
    /\ group
    /\ phase = "idle"
    /\ S # {}
    /\ Cardinality(S) <= BatchSize
    /\ \A r \in S, q \in Unread \ S : r.at <= q.at
    /\ delivered' = logs
    /\ inflight' = S
    /\ phase' = "insert"
    /\ UNCHANGED <<vars, group, skipped, acked, rows, writerFaults>>

\* Mutant: the read leaves the group's cursor where it was.
WriterReadInPlace(S) ==
    /\ group
    /\ phase = "idle"
    /\ S # {}
    /\ Cardinality(S) <= BatchSize
    /\ inflight' = S
    /\ phase' = "insert"
    /\ UNCHANGED <<vars, cursor, acked, rows, writerFaults>>

\* XREADGROUP ... COUNT BatchSize: the oldest entries not delivered so far.
WriterRead(S) ==
    /\ group
    /\ phase = "idle"
    /\ S # {}
    /\ \/ Cardinality(S) = BatchSize
       \/ Cardinality(S) < BatchSize /\ S = Unread
    /\ \A r \in S, q \in Unread \ S : r.at <= q.at
    /\ delivered' = delivered \cup S
    /\ inflight' = S
    /\ phase' = "insert"
    /\ UNCHANGED <<vars, group, skipped, acked, rows, writerFaults>>

\* Mutant: the last decision on an alert replaces the row of an earlier one.
InsertRowsLast ==
    rows' = {r \in rows : \A q \in inflight : ~ SameAlert(r, q)} \cup
            {r \in inflight : \A q \in inflight : SameAlert(r, q) => q.at <= r.at}

\* INSERT ... ON CONFLICT DO NOTHING: of the batch, the first entry of every
\* alert that has no row yet.
InsertRows ==
    \E N \in SUBSET {r \in inflight : ~ Recorded(IdOf[r.key])} :
        /\ \A r \in inflight : ~ Recorded(IdOf[r.key]) =>
             \E n \in N : SameAlert(n, r) /\ n.at <= r.at
        /\ \A n, r \in N : SameAlert(n, r) => n = r
        /\ rows' = rows \cup N

InsertBatch ==
    /\ phase = "insert"
    /\ InsertRows
    /\ phase' = "clean"
    /\ UNCHANGED <<vars, cursor, acked, inflight, writerFaults>>

\* Mutant: the payloads are deleted from the hash of the alert's tenant.
CleanTenantHash ==
    /\ phase = "clean"
    /\ stored' = {m \in stored : \A r \in inflight : IdOf[r.key] # IdOf[KeyOf[m]]}
    /\ phase' = "ack"
    /\ UNCHANGED <<now, engine, pending, index, executed, logs, blocks, notified,
                   task, scan, listening, faults>>
    /\ UNCHANGED <<cursor, acked, rows, inflight, writerFaults>>

\* HDEL of the batch's alert_ids.  The entries carry no tenant_id, so it is
\* always the un-prefixed hash that they are deleted from.
CleanBatch ==
    /\ phase = "clean"
    /\ stored' = {m \in stored :
                    ~ (Legacy(m) /\ \E r \in inflight : IdOf[r.key] = IdOf[KeyOf[m]])}
    /\ phase' = "ack"
    /\ UNCHANGED <<now, engine, pending, index, executed, logs, blocks, notified,
                   task, scan, listening, faults>>
    /\ UNCHANGED <<cursor, acked, rows, inflight, writerFaults>>

\* Mutant: everything delivered so far is acknowledged.
AckDelivered ==
    /\ phase = "ack"
    /\ acked' = delivered \ skipped
    /\ phase' = "idle"
    /\ inflight' = {}
    /\ UNCHANGED <<vars, cursor, rows, writerFaults>>

AckBatch ==
    /\ phase = "ack"
    /\ acked' = acked \cup inflight
    /\ phase' = "idle"
    /\ inflight' = {}
    /\ UNCHANGED <<vars, cursor, rows, writerFaults>>

\* Mutant: a failed insert is logged, and the clean-up goes on.
WriterFailIgnored ==
    /\ WriterFault
    /\ phase # "idle"
    /\ IF phase = "insert" THEN phase' = "clean" /\ UNCHANGED inflight
       ELSE phase' = "idle" /\ inflight' = {}
    /\ UNCHANGED <<vars, cursor, acked, rows>>

\* A call fails, or the process dies and is restarted: the batch is given up.
\* The transaction of the insert may have been committed all the same.
WriterFail ==
    /\ WriterFault
    /\ phase # "idle"
    /\ UNCHANGED rows \/ (phase = "insert" /\ InsertRows)
    /\ phase' = "idle"
    /\ inflight' = {}
    /\ UNCHANGED <<vars, cursor, acked>>

WriterStep ==
    \/ \E S \in SUBSET Unread : WriterRead(S)
    \/ InsertBatch \/ CleanBatch \/ AckBatch

WriterNext ==
    \/ PlaneNext /\ UNCHANGED writer
    \/ CreateGroup
    \/ CreateGroupLate
    \/ WriterStep
    \/ WriterFail

WriterSpec == WriterInit /\ [][WriterNext]_systemVars

\* The writer is one more supervised loop; nothing is assumed of the plane.
WriterFairSpec ==
    WriterSpec /\ WF_systemVars(CreateGroup) /\ WF_systemVars(WriterStep)

\* The whole control plane with its writer, each loop supervised.
SystemFairSpec == WriterFairSpec /\ Fairness

-----------------------------------------------------------------------------
(* Properties.                                                             *)

WriterTypeOK ==
    /\ group \in BOOLEAN
    /\ skipped \subseteq delivered
    /\ delivered \subseteq logs
    /\ acked \subseteq delivered
    /\ rows \subseteq logs
    /\ phase \in {"idle", "insert", "clean", "ack"}
    /\ inflight \subseteq delivered
    /\ writerFaults \in Nat

\* The payload of an alert outlives its decision until the decision is in the
\* database, whatever fails in between.
PayloadKeptUntilRow ==
    \A m \in High :
        expires[m] # 0 =>
            stored \cap SameKey(m) # {} \/ Recorded(IdOf[KeyOf[m]])

\* An entry that has been acknowledged, and will not be seen again, has left a
\* row for its alert, its own or that of an earlier decision.
AckedMeansRecorded ==
    \A r \in acked : \E q \in rows : SameAlert(q, r) /\ q.at <= r.at

\* The audit log holds one row per alert, that of the first decision on it
\* that the writer was given, as long as no batch was given up.
FirstDecisionKept ==
    /\ \A r, q \in rows : SameAlert(r, q) => r = q
    /\ writerFaults = 0 =>
         \A r \in rows, q \in logs \ skipped : SameAlert(r, q) => r.at <= q.at

\* An entry of key k with time t, of which there is at most one.
Entry(S, k, t) == \E r \in S : r.key = k /\ r.at = t

\* Every decision that enters the stream after the writer's group exists is
\* taken through the whole of process_batch, as long as no batch fails.
DecisionAcked ==
    <>[](\/ writerFaults > 0
         \/ \A k \in Key, t \in 0 .. MaxTime :
                Entry(logs, k, t) => Entry(acked \cup skipped, k, t))

\* When a batch fails, its decisions get into the table all the same: "We do NOT
\* ack, allowing the consumer group to re-deliver these messages".
FailedBatchRetried ==
    \A k \in Key, t \in 0 .. MaxTime :
        Entry(logs, k, t) ~> Recorded(IdOf[k]) \/ Entry(skipped, k, t)

\* "Audit log of all human and automated SOC decisions": what the writer has
\* acknowledged is in the table.
AllDecisionsLogged == acked \subseteq rows

\* To the rest of the plane, the writer is what DecisionPlane says it is.
PlaneSpec == Spec
=============================================================================
