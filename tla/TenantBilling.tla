------------------------------ MODULE TenantBilling ------------------------------
(***************************************************************************)
(* What a tenant has signed up for: the webhooks of Stripe, the checker    *)
(* that ends trials, and the limit of a plan on sensors (the one on users  *)
(* is checked the same way).  Stripe delivers an event at least once and   *)
(* in any order.  Sessions of the ORM write, at commit, the columns whose  *)
(* value they changed since they loaded the row.                           *)
(***************************************************************************)
EXTENDS Naturals, FiniteSets

CONSTANTS
    Tenant,       \* the tenants
    Create,       \* requests for a new sensor handled at a time
    MaxOf,        \* PLAN_LIMITS: per plan, max_sensors and max_users
    Events,       \* bound on the events of Stripe
    SensorBound,  \* bound on the sensors of a tenant (for the plan without limit)
    BillingFaults \* bound on failures

ASSUME BillingAssumption ==
    /\ IsFiniteSet(Create)
    /\ {"free", "pro", "enterprise"} \subseteq DOMAIN MaxOf
    /\ \A p \in DOMAIN MaxOf : MaxOf[p] \in Nat
    /\ Events \in Nat /\ SensorBound \in Nat /\ BillingFaults \in Nat

Plan == DOMAIN MaxOf
Unlimited == "enterprise"           \* the plan whose limits are -1
TrialUsers == MaxOf["free"] + 2     \* signup grants 3 users, the free plan 1

VARIABLES
    tenants, \* rows of the table tenants
    stripe,  \* events that Stripe has sent, or will send again
    seen,    \* the rows the trial checker has loaded
    create,  \* per request for a sensor: its progress, tenant and what it has read
    sensors, \* per tenant: rows in the table sensors
    granted, \* history: the highest limit a tenant has had
    mishaps  \* failures so far

billingVars == <<tenants, stripe, seen, create, sensors, granted, mishaps>>
sensorVars  == <<create, sensors>>

Row == [plan : Plan, status : {"trial", "active"}, customer : BOOLEAN, maxUsers : Nat, due : BOOLEAN]

\* As signup leaves it.
NewTenant == [plan |-> "free", status |-> "trial", customer |-> FALSE,
              maxUsers |-> TrialUsers, due |-> FALSE]

BillingInit ==
    /\ tenants = [t \in Tenant |-> NewTenant]
    /\ stripe = {}
    /\ seen = {}
    /\ create = [c \in Create |-> [pc |-> "idle"]]
    /\ sensors = [t \in Tenant |-> 0]
    /\ granted = [t \in Tenant |-> MaxOf["free"]]
    /\ mishaps = 0

Mishap == mishaps < BillingFaults /\ mishaps' = mishaps + 1
Higher(m, n) == IF m > n THEN m ELSE n

(***************************************************************************)
(* Stripe.                                                                 *)
(***************************************************************************)

\* What a plan brings; the columns follow the plan.
OnPlan(row, p) == [row EXCEPT !.plan = p, !.maxUsers = MaxOf[p]]

StripeSends(event) ==
    /\ Cardinality(stripe) < Events
    /\ stripe' = stripe \cup {event}
    /\ UNCHANGED <<tenants, seen, granted, mishaps>>
    /\ UNCHANGED sensorVars

Changes(t, row) ==
    /\ tenants' = [tenants EXCEPT ![t] = row]
    /\ granted' = [granted EXCEPT ![t] = Higher(@, MaxOf[row.plan])]
    /\ UNCHANGED <<stripe, seen, mishaps>>
    /\ UNCHANGED sensorVars

\* The plan is asked from Stripe; without an answer it is pro, the columns as before.
CheckoutCompleted(t, p) ==
    /\ [type |-> "checkout", tenant |-> t, plan |-> p] \in stripe
    /\ LET row == [tenants[t] EXCEPT !.customer = TRUE, !.status = "active"]
       IN  Changes(t, OnPlan(row, p)) \/ Changes(t, [row EXCEPT !.plan = "pro"])

\* Found by the customer, which only a checkout has set.
SubscriptionUpdated(t, p) ==
    /\ [type |-> "updated", tenant |-> t, plan |-> p] \in stripe
    /\ tenants[t].customer
    /\ \E status \in {tenants[t].status, "active"} :
          Changes(t, [(IF p = tenants[t].plan THEN tenants[t] ELSE OnPlan(tenants[t], p))
                         EXCEPT !.status = status])

SubscriptionDeleted(t) ==
    /\ [type |-> "deleted", tenant |-> t, plan |-> "free"] \in stripe
    /\ tenants[t].customer
    /\ Changes(t, [OnPlan(tenants[t], "free") EXCEPT !.status = "active"])

Event == [type : {"checkout", "updated"}, tenant : Tenant, plan : Plan \ {"free"}]
            \cup [type : {"deleted"}, tenant : Tenant, plan : {"free"}]

(***************************************************************************)
(* The end of a trial.                                                     *)
(***************************************************************************)

\* trial_ends_at passes, for a tenant on trial.
TrialDue(t) ==
    /\ ~tenants[t].due
    /\ tenants' = [tenants EXCEPT ![t].due = TRUE]
    /\ UNCHANGED <<stripe, seen, granted, mishaps>>
    /\ UNCHANGED sensorVars

SelectExpired ==
    /\ seen = {}
    /\ seen' = {[tenant |-> t, row |-> tenants[t]] :
                   t \in {t \in Tenant : tenants[t].status = "trial" /\ tenants[t].due}}
    /\ seen' # {}
    /\ UNCHANGED <<tenants, stripe, granted, mishaps>>
    /\ UNCHANGED sensorVars

\* Mutant: the whole row is written back.
ExpiredAll(now, loaded) == [now EXCEPT !.plan = "free", !.status = "active", !.maxUsers = MaxOf["free"]]

\* The columns in which the wanted value differs from the loaded one are written.
Expired(now, loaded) ==
    [now EXCEPT !.plan     = IF loaded.plan = "free" THEN @ ELSE "free",
                !.status   = IF loaded.status = "active" THEN @ ELSE "active",
                !.maxUsers = IF loaded.maxUsers = MaxOf["free"] THEN @ ELSE MaxOf["free"]]

ExpireTrials ==
    /\ seen # {}
    /\ tenants' = [t \in Tenant |->
                     IF \E s \in seen : s.tenant = t
                     THEN Expired(tenants[t], (CHOOSE s \in seen : s.tenant = t).row)
                     ELSE tenants[t]]
    /\ seen' = {}
    /\ UNCHANGED <<stripe, granted, mishaps>>
    /\ UNCHANGED sensorVars

\* The transaction fails: the next round selects again.
ExpireFails ==
    /\ seen # {}
    /\ Mishap
    /\ seen' = {}
    /\ UNCHANGED <<tenants, stripe, granted>>
    /\ UNCHANGED sensorVars

(***************************************************************************)
(* Sensors.                                                                *)
(***************************************************************************)

\* All rows count, revoked ones too.
CountSensors(c, t) ==
    /\ create[c].pc = "idle"
    /\ create' = [create EXCEPT ![c] = [pc |-> "counted", tenant |-> t, count |-> sensors[t]]]
    /\ UNCHANGED <<tenants, stripe, seen, sensors, granted, mishaps>>

\* Mutant: a tenant may have one more than its plan says.
OverLimitLate(p, n) == p # Unlimited /\ n > MaxOf[p]

OverLimit(p, n) == p # Unlimited /\ n >= MaxOf[p]

\* check_tenant_limit reads the plan, which may be another by now.
CheckLimit(c) ==
    /\ create[c].pc = "counted"
    /\ create' = [create EXCEPT ![c] =
                     IF OverLimit(tenants[@.tenant].plan, @.count)
                     THEN [pc |-> "idle"] ELSE [pc |-> "insert", tenant |-> @.tenant]]
    /\ UNCHANGED <<tenants, stripe, seen, sensors, granted, mishaps>>

InsertSensor(c) ==
    /\ create[c].pc = "insert"
    /\ sensors[create[c].tenant] < SensorBound
    /\ sensors' = [sensors EXCEPT ![create[c].tenant] = @ + 1]
    /\ create' = [create EXCEPT ![c] = [pc |-> "idle"]]
    /\ UNCHANGED <<tenants, stripe, seen, granted, mishaps>>

BillingNext ==
    \/ \E event \in Event : StripeSends(event)
    \/ \E t \in Tenant, p \in Plan : CheckoutCompleted(t, p) \/ SubscriptionUpdated(t, p)
    \/ \E t \in Tenant : SubscriptionDeleted(t) \/ TrialDue(t)
    \/ SelectExpired \/ ExpireTrials \/ ExpireFails
    \/ \E c \in Create, t \in Tenant : CountSensors(c, t)
    \/ \E c \in Create : CheckLimit(c) \/ InsertSensor(c)

BillingSpec == BillingInit /\ [][BillingNext]_billingVars

-----------------------------------------------------------------------------

BillingTypeOK ==
    /\ tenants \in [Tenant -> Row]
    /\ stripe \subseteq Event
    /\ sensors \in [Tenant -> Nat] /\ granted \in [Tenant -> Nat]

\* The trial checker, which commits rows it has loaded before, never takes a plan
\* away that a checkout brought in between (trial_checker.py:65-96).
PlanKeptByChecker ==
    [][seen' # seen => \A t \in Tenant : tenants'[t].plan = tenants[t].plan]_billingVars

\* Unless it had the plan without limits, a tenant never has more sensors than the
\* highest limit it has had and the requests handled at a time, less one: the count
\* and the insertion are in two sessions (gateway/main.py:588-610).
SensorCap ==
    \A t \in Tenant :
        \/ granted[t] >= MaxOf[Unlimited]
        \/ sensors[t] < granted[t] + Cardinality(Create)
        \/ sensors[t] = 0
=============================================================================
