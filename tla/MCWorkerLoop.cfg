CONSTANTS
    t1 = t1
    t2 = t2
    TenantOrder <- MCTenantOrder
    Busy = {t2}
    FloatExponentLimit = 1024
    MaxPending = 1
    MaxArrivals = 2
    MaxFaults = 2
    MaxFailures = 1
    MaxChurn = 1
SPECIFICATION FairSpec
CHECK_DEADLOCK FALSE
INVARIANTS
    TypeOK
    PoolOutlivesLoop
    OneLateClaimAtMost
    ReadinessIsHonest
PROPERTIES
    ShutdownCompletes
    ReadyAgain
    EveryTenantServed
