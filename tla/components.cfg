SPECIFICATION Spec
CONSTANTS
    Parts = {"queue", "rate", "deploy", "register", "gate", "dashboard", "store", "reader", "wallet"}
    Jobs = {j1, j2, j3}
    MaxQueueFaults = 2
    Addresses = {d1, d2, d3}
    ConfiguredAddresses = {e1}
    AutoDeploy = TRUE
    NoAddress = none
    MaxExits = 2
    Requests = {1, 2, 3}
    DustAddresses = {u1}
    Ips = {i1}
    MaxPerDustAddress = 1
    MaxPerIp = 2
    WindowMs = 3
    NoLimit = none
    MaxDelay = 1
    MaxClock = 3
    Calls = {1, 2, 3}
    VeilIds = {v1, v2}
    Fee = 2
    MinSponsoredDust = 1
    MaxDust = 2
    SponsorConfigured = TRUE
    InitiallyRegistered = {v2}
    InitiallyProved = {v2}
    NoId = none
    GatedIds = {v1, v2}
    MaxSwitches = 1
    Accounts = {a1, a2}
    Nobody = none
    Slots = {1, 2}
    MaxEvents = 2
    Processes = {p1, p2}
    Operations = {o1, o2, o3}
    LockRetries = 2
    MaxUint32 = 100000
    MaxChains = 21
    NoWitness = none
    s1 = s1  s2 = s2  s3 = s3  k1 = k1  k2 = k2
    Seeds = {s1, s2, s3}
    CacheKeys = {k1, k2}
    CacheKeyOf <- KeyByPrefix
    WalletProviders = {w1, w2}
    NoSeed = none
    MaxSaves = 2
INVARIANTS
    TasksAttended
    WindowKept
    OneContractKept
    AnswersOwnTxId
    GateSuffices
    RegisteredIsReal
    DecisionIsForShown
    BusyAttended
    PageShowsOwn
    CacheTruthful
    LockedOutByOther
    WitnessAccepted
    WalletOfKey
PROPERTIES
    QueuePromise
    QueuedFinishes
    DerivingEnds
    OperationsSettle
CHECK_DEADLOCK FALSE
