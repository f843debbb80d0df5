SPECIFICATION Spec
CONSTANTS
    t1 = t1
    t2 = t2
    a1 = a1
    a2 = a2
    Parts = {"registry"}
    \* TrafficWindow
    Flow <- MCFlow
    Size = {1}
    Window = 1
    Ttl = 2
    KeyLife = 3
    Cap = 2
    MaxActive = 2
    NoFlow = NoFlow
    MaxTime = 3
    WindowFaults = 1
    \* FeaturePipeline
    Packets = 3
    Source <- MCSource
    SourceOf <- MCSourceOf
    BadPacket = {}
    BadFeature = {}
    Chaos = TRUE
    FeatureMax = 2
    MaxLives = 2
    FlowFaults = 1
    \* AlertAnalyzer
    Alerts = 4
    TenantOfAlert <- MCTenantOf
    BucketOf <- MCBucketOf
    BadAlert = {}
    Client = TRUE
    Chain = 2
    Threshold = 2
    AlertFaults = 1
    \* ModelRegistry
    Runs = 2
    AutoRuns = {}
    Score = {90}
    Promotions = {"q1"}
    EngineStops = 1
    \* Blocklist
    Ip = {a1}
    Tenant = {t1, t2}
    NoTenant = NoTenant
    Entries = 2
    PairOf <- MCPairOf
    Bad = {1}
    OsFirewall = TRUE
    Request = {1, 2}
    MaxFaults = 1
INVARIANT
    OnlyOneActive
CHECK_DEADLOCK FALSE
