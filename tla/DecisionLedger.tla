--------------------------- MODULE DecisionLedger ---------------------------
(***************************************************************************)
(* What the decision control plane promises to the rest of the system,     *)
(* with no process, key or timer in sight.                                 *)
(*                                                                         *)
(* A ruling is one accepted execution of LUA_EXECUTE_DECISION: a verdict   *)
(* on one decision key, by one executor, at one time.  An order is one     *)
(* message on stream:block_commands.  The ledger promises that two rulings *)
(* on a key are at least Window apart (the idempotency guard), and that an *)
(* order is issued either once for a blocking ruling or once for an alert  *)
(* whose severity lets the engine block without asking anybody.            *)
(***************************************************************************)
EXTENDS Naturals

CONSTANTS
    Msg,        \* alerts that reach stream:decisions_pending
    Key,        \* decision keys: a tenant prefix together with an alert_id
    KeyOf,      \* the decision key of an alert
    High,       \* the alerts of severity high or critical
    Executor,   \* who may rule: mobile requests, timeout tasks, the scanner
    Engine,     \* who issues the orders that need no ruling
    Window      \* how long one ruling excludes another on its key

Verdict  == {"APPROVE", "REJECT", "ESCALATE", "BLOCK"}
Blocking == {"APPROVE", "BLOCK"}
Ruling   == [key : Key, act : Verdict, by : Executor, at : Nat]
Order    == [src : Msg, by : Executor \cup {Engine}, at : Nat]

VARIABLES clock, rulings, orders
ledger == <<clock, rulings, orders>>

\* Order o was issued on the strength of ruling r.
Enforces(o, r) == o.by = r.by /\ o.at = r.at /\ KeyOf[o.src] = r.key

-----------------------------------------------------------------------------
Init ==
    /\ clock = 0
    /\ rulings = {}
    /\ orders = {}

Advance ==
    /\ clock' = clock + 1
    /\ UNCHANGED <<rulings, orders>>

\* A verdict on key k, when no earlier one still excludes it.
Rule(k, a, w) ==
    /\ \A r \in rulings : r.key = k => r.at + Window <= clock
    /\ rulings' = rulings \cup {[key |-> k, act |-> a, by |-> w, at |-> clock]}
    /\ UNCHANGED <<clock, orders>>

\* The one block order a blocking ruling is worth.
Enforce(r, m) ==
    /\ r.act \in Blocking
    /\ KeyOf[m] = r.key
    /\ \A o \in orders : ~ Enforces(o, r)
    /\ orders' = orders \cup {[src |-> m, by |-> r.by, at |-> r.at]}
    /\ UNCHANGED <<clock, rulings>>

\* The one block order a low-severity alert is worth.
AutoOrder(m) ==
    /\ m \notin High
    /\ \A o \in orders : o.by = Engine => o.src # m
    /\ orders' = orders \cup {[src |-> m, by |-> Engine, at |-> clock]}
    /\ UNCHANGED <<clock, rulings>>

Next ==
    \/ Advance
    \/ \E k \in Key, a \in Verdict, w \in Executor : Rule(k, a, w)
    \/ \E r \in rulings, m \in Msg : Enforce(r, m)
    \/ \E m \in Msg : AutoOrder(m)

Spec == Init /\ [][Next]_ledger
=============================================================================
