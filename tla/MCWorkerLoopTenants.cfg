CONSTANTS
    t1 = t1
    t2 = t2
    TenantOrder <- MCTenantOrder
    Busy = {t1}
    FloatExponentLimit = 1024
    MaxPending = 1
    MaxArrivals = 1
    MaxFaults = 0
    MaxFailures = 1
    MaxChurn = 0
SPECIFICATION FairSpec
CHECK_DEADLOCK FALSE
PROPERTY EveryTenantServed
