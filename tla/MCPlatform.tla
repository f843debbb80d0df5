------------------------------ MODULE MCPlatform ------------------------------
(* The platform's services around detection for TLC.  They share no variable,  *)
(* so one run checks them side by side: part names the one whose turn it is,   *)
(* for good.  The packets of a sensor and its heartbeats are parts, too.       *)
EXTENDS LoginGuard, TokenSessions, TenantGate, TenantSignup, TenantBilling, SensorFleet, RealtimeHub,
        ListPages, OfflineQueue

CONSTANT Parts

VARIABLE part

vars == <<part, guardVars, tokenVars, gateVars, signupVars, billingVars, fleetVars, hubVars,
          listVars, queueVars>>

MCLimit == [s \in {"web", "mobile"} |-> IF s = "web" THEN 3 ELSE 2]
MCMaxOf == [free |-> 1, pro |-> 2, enterprise |-> 9]

Init ==
    /\ part \in Parts
    /\ GuardInit /\ TokenInit /\ GateInit /\ SignupInit /\ BillingInit /\ FleetInit
    /\ HubInit /\ (part # "hub" => hub = "web")
    /\ ListInit /\ (part # "pages" => list = "alerts")
    /\ QueueInit

NotGuard   == UNCHANGED <<part, tokenVars, gateVars, signupVars, billingVars, fleetVars, hubVars, listVars, queueVars>>
NotToken   == UNCHANGED <<part, guardVars, gateVars, signupVars, billingVars, fleetVars, hubVars, listVars, queueVars>>
NotGate    == UNCHANGED <<part, guardVars, tokenVars, signupVars, billingVars, fleetVars, hubVars, listVars, queueVars>>
NotSignup  == UNCHANGED <<part, guardVars, tokenVars, gateVars, billingVars, fleetVars, hubVars, listVars, queueVars>>
NotBilling == UNCHANGED <<part, guardVars, tokenVars, gateVars, signupVars, fleetVars, hubVars, listVars, queueVars>>
NotFleet   == UNCHANGED <<part, guardVars, tokenVars, gateVars, signupVars, billingVars, hubVars, listVars, queueVars>>
NotHub     == UNCHANGED <<part, guardVars, tokenVars, gateVars, signupVars, billingVars, fleetVars, listVars, queueVars>>
NotList    == UNCHANGED <<part, guardVars, tokenVars, gateVars, signupVars, billingVars, fleetVars, hubVars, queueVars>>
NotQueue   == UNCHANGED <<part, guardVars, tokenVars, gateVars, signupVars, billingVars, fleetVars, hubVars, listVars>>

Next ==
    \/ part = "guard" /\ GuardNext /\ NotGuard
    \/ part = "token" /\ TokenNext /\ NotToken
    \/ part = "gate" /\ GateNext /\ NotGate
    \/ part = "signup" /\ SignupNext /\ NotSignup
    \/ part = "billing" /\ BillingNext /\ NotBilling
    \/ part = "beats" /\ SensorRowNext /\ UNCHANGED packetVars /\ NotFleet
    \/ part = "packets" /\ PacketNext /\ UNCHANGED sensorRowVars /\ NotFleet
    \/ part = "packets" /\ Revoke /\ UNCHANGED packetVars /\ NotFleet
    \/ part = "hub" /\ HubNext /\ NotHub
    \/ part = "pages" /\ ListNext /\ NotList
    \/ part = "queue" /\ QueueNext /\ NotQueue

\* A call that reached the gateway goes on, and the cached status expires.
Fairness ==
    /\ WF_vars(part = "gate" /\ StatusExpires /\ NotGate)
    /\ \A v \in Visit : WF_vars(part = "gate" /\ Continue(v) /\ NotGate)

Spec == Init /\ [][Next]_vars /\ Fairness

PlatformTypes ==
    /\ GuardTypeOK /\ TokenTypeOK /\ GateTypeOK /\ SignupTypeOK /\ BillingTypeOK
    /\ FleetTypeOK /\ HubTypeOK /\ ListTypeOK /\ QueueTypeOK

\* SensorCap and TenantsOwned.
TenancySound == SensorCap /\ TenantsOwned

\* PlanKeptByChecker and RevokedStays.
WritesRespected == PlanKeptByChecker /\ RevokedStays

\* AlertsReachClients and PagesComplete.
ClientsServed == AlertsReachClients /\ PagesComplete
=============================================================================
