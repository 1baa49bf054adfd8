CONSTANTS
    Scenarios = {"audit", "sessions", "limits", "travel", "views", "sockets", "reports", "ceremony", "provisioning", "client", "feeds", "lists", "release", "registry", "gate"}
    Workers = {w1, w2}
    MaxMined = 4
    Clock = {1, 2, 3}
    PageSize = 2
    MaxRows = 2
    Retries = 2
    MaxEntries = 4
    SignIns = {n1}
    Limit = 2
    LastWindow = 4
    TravelData = {d1, d2}
    Forms = {f1, f2}
    Services = {u1, u2}
    MaxAttempts = 2
    MaxBlocks = 4
    Connections = {j1}
    Tenants = {b1, b2}
    Period = {z1, z2}
    ReportIds = {i1}
    References = {y1, y2}
    Order <- MCOrder
    MaxStops = 1
    MaxForks = 1
    MaxNonce = 4
    MaxReplaced = 2
    Lines = {k1, k2, k3}
    Channels = {"risk", "system"}
    Callbacks = {g1, g2}
    MaxReconnects = 2
    MaxStray = 1
    LastHour = 1
    MaxAge = 0
    EngineMaxAge = 1
    Ids = {1, 2, 3}
    Times = {1, 2}
    PerPage = 1
    Filters = {"all", "flagged"}
    KeyIds = {"k1", "k2"}
    MaxEdits = 2
    l1 = l1
    l2 = l2
    e1 = e1
    e2 = e2
    s1 = s1
    s2 = s2
    s3 = s3
    None = none
    Wallets = {e1, e2}
    Businesses = {e1, e2}
    Licenses = {l1, l2}
    Jurisdictions = {"UAE", "INTERNATIONAL"}
    WellFormed <- MCWellFormed
    REVERIFICATION_INTERVAL = 1
    Tiers = {0, 1, 2}
    RegistryPauses = {TRUE, FALSE}
    Payers = {e1, e2}
    Payees = {e1, e2}
    Seals = {s1, s2, s3}
    Purpose <- MCPurpose
    NoSeal = noseal
    Policies <- MCPolicies
    GatePauses = {TRUE, FALSE}
SPECIFICATION MCSpec
CONSTRAINT Small
SYMMETRY ServicesSymmetry
INVARIANTS TypesOK IndexesExact SealCarriesOneCorridor AuditHolds  FilingsHold 
PROPERTIES RevokedForever ClosedForGood 
CHECK_DEADLOCK FALSE
