SPECIFICATION WriterFairSpec
CONSTANTS
    m1 = m1
    m2 = m2
    k1 = k1
    k2 = k2
    t1 = t1
    Prefixed = {}
    Msg = {m1}
    Key = {k1}
    AlertId = {"a1"}
    Tenant = {t1}
    Handler = {"h1"}
    MobileAction = {"REJECT"}
    NoTenant = NoTenant
    NoMsg = NoMsg
    KeyOf <- MCKeyOf
    IdOf <- MCIdOf
    TenantOf <- MCTenantOf
    High = {m1}
    DecisionTimeout = 1
    ExecutedTTL = 1
    Horizon = 0
    MaxTime = 2
    MaxFaults = 0
    BatchSize = 1
    MaxWriterFaults = 1
PROPERTIES
    FailedBatchRetried
CHECK_DEADLOCK FALSE
