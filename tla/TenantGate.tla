------------------------------- MODULE TenantGate -------------------------------
(***************************************************************************)
(* require_active_tenant: an API call passes if its tenant is active.  The *)
(* status is read from Redis, or else from the database and then cached    *)
(* for 30 seconds.  Each read and write is an await, and if both stores    *)
(* fail the call passes.                                                   *)
(***************************************************************************)
EXTENDS Naturals

CONSTANTS
    Visit,         \* calls handled at a time
    StatusChanges, \* bound on the changes of the tenant's status
    GateFaults     \* bound on failures of Redis and of the database

ASSUME GateAssumption == StatusChanges \in Nat /\ GateFaults \in Nat

TenantStatus == {"active", "suspended"}   \* active stands for trial, too
Uncached == "none"

VARIABLES
    standing, \* the tenant's status in the database
    cached,   \* tenant_status:{tid}
    visit,    \* per call: its progress and the status it has read
    changes,  \* changes of the status so far
    breaks    \* failures so far

gateVars == <<standing, cached, visit, changes, breaks>>

Outside == [pc |-> "idle", status |-> Uncached]
Visits  == [pc : {"idle", "lookup", "miss", "read"}, status : TenantStatus \cup {Uncached}]

GateInit ==
    /\ standing = "active"
    /\ cached = Uncached
    /\ visit = [v \in Visit |-> Outside]
    /\ changes = 0
    /\ breaks = 0

Stands(v, pc) == visit[v].pc = pc
Walks(v, pc, status) == visit' = [visit EXCEPT ![v] = [pc |-> pc, status |-> status]]
Leaves(v) == visit' = [visit EXCEPT ![v] = Outside]
Breaks == breaks < GateFaults /\ breaks' = breaks + 1

Enter(v) ==
    /\ Stands(v, "idle")
    /\ Walks(v, "lookup", Uncached)
    /\ UNCHANGED <<standing, cached, changes, breaks>>

\* A hit decides at once; a failing Redis is a miss.
LookUp(v) ==
    /\ Stands(v, "lookup")
    /\ \/ cached = Uncached /\ Walks(v, "miss", Uncached) /\ UNCHANGED breaks
       \/ cached # Uncached /\ Leaves(v) /\ UNCHANGED breaks
       \/ Breaks /\ Walks(v, "miss", Uncached)
    /\ UNCHANGED <<standing, cached, changes>>

\* Mutant: a hit is written back to the cache, with a new time to live.
ReadStandingSliding(v) ==
    /\ Stands(v, "miss") \/ Stands(v, "lookup")
    /\ Walks(v, "read", IF cached # Uncached THEN cached ELSE standing)
    /\ UNCHANGED <<standing, cached, changes, breaks>>

ReadStanding(v) ==
    /\ Stands(v, "miss")
    /\ Walks(v, "read", standing)
    /\ UNCHANGED <<standing, cached, changes, breaks>>

\* A failing database: the call passes.
ReadFails(v) ==
    /\ Stands(v, "miss")
    /\ Breaks
    /\ Leaves(v)
    /\ UNCHANGED <<standing, cached, changes>>

\* What was read is cached and decides, unless Redis fails, which is ignored.
CacheStanding(v) ==
    /\ Stands(v, "read")
    /\ \/ cached' = visit[v].status /\ UNCHANGED breaks
       \/ cached' = cached /\ Breaks
    /\ Leaves(v)
    /\ UNCHANGED <<standing, changes>>

StatusExpires ==
    /\ cached # Uncached
    /\ cached' = Uncached
    /\ UNCHANGED <<standing, visit, changes, breaks>>

\* By an operator, in the database.
ChangeStatus ==
    /\ changes < StatusChanges
    /\ standing' \in TenantStatus \ {standing}
    /\ changes' = changes + 1
    /\ UNCHANGED <<cached, visit, breaks>>

Continue(v) == LookUp(v) \/ ReadStanding(v) \/ CacheStanding(v)

GateNext ==
    \/ \E v \in Visit : Enter(v) \/ ReadFails(v)
    \/ \E v \in Visit : LookUp(v) \/ ReadStanding(v) \/ CacheStanding(v)
    \/ StatusExpires \/ ChangeStatus

GateSpec == GateInit /\ [][GateNext]_gateVars

-----------------------------------------------------------------------------

GateTypeOK ==
    /\ standing \in TenantStatus
    /\ cached \in TenantStatus \cup {Uncached}
    /\ visit \in [Visit -> Visits]
    /\ changes \in Nat
    /\ breaks \in Nat

\* A tenant that stays suspended is, from some time on, not taken for an active one
\* by way of the cache, although calls that read the status before the suspension
\* may still write it (middleware.py:95-112).
SuspensionBites ==
    <>[](standing = "suspended") => <>[](cached # "active")
=============================================================================
