\* One coin, two leases that compete for the sweeps.
SPECIFICATION FairSpec
CONSTANTS
    Coins = {c1}
    InitialCoins = {c1}
    Addresses = {a1}
    Operating = Operating
    Free = Free
    Absent = Absent
    TTL = 1
    StaleAfter = 1
    MaxAttempts = 2
    RequestLimit = 1
    MaintenanceLimit = 1
    TargetFreeUtxos = 0
    MaxSplitOutputs = 1
    QueueBound = 1
    LeaseBound = 2
    FaultBound = 1
    MayDrop = FALSE
PROPERTIES
    ExpiredLeaseSwept
    ReclaimConcluded
