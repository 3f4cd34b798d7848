\* Leases of one address over two coins, with one fault.
SPECIFICATION Spec
CONSTANTS
    Coins = {c1, c2}
    InitialCoins = {c1, c2}
    Addresses = {a1}
    Operating = Operating
    Free = Free
    Absent = Absent
    TTL = 1
    StaleAfter = 1
    MaxAttempts = 1
    RequestLimit = 1
    MaintenanceLimit = 2
    TargetFreeUtxos = 0
    MaxSplitOutputs = 1
    QueueBound = 1
    LeaseBound = 2
    FaultBound = 1
    MayDrop = FALSE
SYMMETRY CoinSymmetry
INVARIANTS
    TypeOK
    OneActiveLease
    ActiveLeaseIntact
    FirstTermRespected
