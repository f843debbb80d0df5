SPECIFICATION Spec
CONSTANTS
    m1 = m1
    m2 = m2
    k1 = k1
    k2 = k2
    t1 = t1
    Msg = {m1, m2}
    Key = {k1, k2}
    AlertId = {"a1", "a2"}
    Tenant = {t1}
    Handler = {"h1", "h2"}
    MobileAction = {"APPROVE", "REJECT"}
    NoTenant = NoTenant
    NoMsg = NoMsg
    KeyOf <- MCKeyOf
    IdOf <- MCIdOf
    TenantOf <- MCTenantOf
    High = {m1}
    DecisionTimeout = 1
    ExecutedTTL = 2
    Horizon = 1
    MaxTime = 3
    MaxFaults = 1
INVARIANTS
    TypeOK
    RulingsApart
    OrdersBacked
    WindowHonoured
    NoSilentLoss
PROPERTIES
    LedgerSpec
CHECK_DEADLOCK FALSE
