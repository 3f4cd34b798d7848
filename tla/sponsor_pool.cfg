\* The pool is split while a lease is given out and reclaimed.
SPECIFICATION Spec
CONSTANTS
    Coins = {c1, c2}
    InitialCoins = {c1}
    Addresses = {a1}
    Operating = Operating
    Free = Free
    Absent = Absent
    TTL = 1
    StaleAfter = 1
    MaxAttempts = 1
    RequestLimit = 1
    MaintenanceLimit = 2
    TargetFreeUtxos = 2
    MaxSplitOutputs = 1
    QueueBound = 1
    LeaseBound = 2
    FaultBound = 1
    MayDrop = FALSE
INVARIANTS
    AttemptsBounded
    LeasedUtxosDisjoint
