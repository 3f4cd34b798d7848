\* A registration shows only after the wait for it timed out.
SPECIFICATION Spec
CONSTANTS
    Coins = {c1}
    InitialCoins = {c1}
    Addresses = {a1}
    Operating = Operating
    Free = Free
    Absent = Absent
    TTL = 1
    StaleAfter = 1
    MaxAttempts = 1
    RequestLimit = 1
    MaintenanceLimit = 2
    TargetFreeUtxos = 0
    MaxSplitOutputs = 1
    QueueBound = 1
    LeaseBound = 1
    FaultBound = 0
    MayDrop = FALSE
INVARIANTS
    RecordedForReclaim
