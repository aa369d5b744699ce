CONSTANTS
    t1 = t1
    t2 = t2
    TenantOrder <- OneTenant
    Busy = {}
    FloatExponentLimit = 1024
    MaxPending = 1
    MaxArrivals = 0
    MaxFaults = 1
    MaxFailures = 1100
    MaxChurn = 0
SPECIFICATION Spec
CHECK_DEADLOCK FALSE
INVARIANT OutageDoesNotEndLoop
