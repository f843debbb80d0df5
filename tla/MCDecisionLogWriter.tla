------------------------- MODULE MCDecisionLogWriter -------------------------
(* Instances of DecisionLogWriter for TLC.  Of the two alerts, those whose   *)
(* key is in Prefixed belong to tenant t1, the others to nobody.             *)
EXTENDS DecisionLogWriter

CONSTANTS m1, m2, k1, k2, t1, Prefixed

MCKeyOf    == [m \in Msg |-> IF m = m1 THEN k1 ELSE k2]
MCIdOf     == [k \in Key |-> IF k = k1 THEN "a1" ELSE "a2"]
MCTenantOf == [k \in Key |-> IF k \in Prefixed THEN t1 ELSE NoTenant]
=============================================================================
