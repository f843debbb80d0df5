SPECIFICATION Spec
CONSTANTS
    Parts = {"queue"}
    \* LoginGuard
    Account = {"u1"}
    Request = {"r1"}
    Surface = {"web", "mobile"}
    Limit <- MCLimit
    LockAfter = 2
    GuardFaults = 1
    \* TokenSessions
    Pair = {"p1", "p2"}
    Call = {"c1", "c2"}
    TokenFaults = 1
    \* TenantGate
    Visit = {"v1", "v2"}
    StatusChanges = 2
    GateFaults = 1
    \* TenantSignup
    Email = {"e1", "e2"}
    Signup = {"s1", "s2", "s3"}
    Tenants = 3
    SignupFaults = 1
    \* TenantBilling
    Tenant = {"t1"}
    Create = {"n1", "n2"}
    MaxOf <- MCMaxOf
    Events = 3
    SensorBound = 4
    BillingFaults = 1
    \* SensorFleet
    Beat = {"h1", "h2"}
    Post = {"q1", "q2"}
    Packets = 3
    BatchSize = 2
    BufferSize = 2
    IngestLimit = 3
    Retries = 2
    FleetFaults = 1
    \* RealtimeHub
    Socket = {"w1", "w2", "w3"}
    Messages = 1
    Hubs = {"mobile", "web"}
    HubFaults = 1
    \* ListPages
    Rows = 3
    Times = 2
    PerPage = 1
    Lists = {"alerts"}
    Asks = 2
    Updates = 1
    Loads = 3
    \* OfflineQueue
    Decision = {"d1", "d2"}
    Sessions = 2
    NetFaults = 2
    Kills = 1
INVARIANT
    QueueDurable
CHECK_DEADLOCK FALSE
