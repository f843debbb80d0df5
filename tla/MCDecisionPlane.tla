--------------------------- MODULE MCDecisionPlane ---------------------------
(* Instances of DecisionPlane for TLC: one tenant's alert, one alert of the *)
(* un-prefixed key space and one alert of low severity.                     *)
EXTENDS DecisionPlane

CONSTANTS m1, m2, k1, k2, t1

MCKeyOf    == [m \in Msg |-> IF m = m1 THEN k1 ELSE k2]
MCIdOf     == [k \in Key |-> IF k = k1 THEN "a1" ELSE "a2"]
MCTenantOf == [k \in Key |-> IF k = k1 THEN t1 ELSE NoTenant]
=============================================================================
