SPECIFICATION FairSpec
CONSTANTS
    m1 = m1
    m2 = m2
    k1 = k1
    k2 = k2
    t1 = t1
    Msg = {m1}
    Key = {k1}
    AlertId = {"a1"}
    Tenant = {t1}
    Handler = {"h1"}
    MobileAction = {}
    NoTenant = NoTenant
    NoMsg = NoMsg
    KeyOf <- MCKeyOf
    IdOf <- MCIdOf
    TenantOf <- MCTenantOf
    High = {m1}
    DecisionTimeout = 1
    ExecutedTTL = 3
    Horizon = 1
    MaxTime = 2
    MaxFaults = 1
PROPERTIES
    RoutedGetsRuled
CHECK_DEADLOCK FALSE
