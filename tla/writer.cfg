SPECIFICATION SystemFairSpec
CONSTANTS
    m1 = m1
    m2 = m2
    k1 = k1
    k2 = k2
    t1 = t1
    Prefixed = {k2}
    Msg = {m1, m2}
    Key = {k1, k2}
    AlertId = {"a1", "a2"}
    Tenant = {t1}
    Handler = {"h1"}
    MobileAction = {"REJECT"}
    NoTenant = NoTenant
    NoMsg = NoMsg
    KeyOf <- MCKeyOf
    IdOf <- MCIdOf
    TenantOf <- MCTenantOf
    High = {m1, m2}
    DecisionTimeout = 1
    ExecutedTTL = 1
    Horizon = 0
    MaxTime = 1
    MaxFaults = 0
    BatchSize = 1
    MaxWriterFaults = 1
INVARIANTS
    WriterTypeOK
    PayloadKeptUntilRow
    AckedMeansRecorded
    FirstDecisionKept
    TrackedUntilRuled
PROPERTIES
    DecisionAcked
    FailSecure
    PlaneSpec
CHECK_DEADLOCK FALSE
