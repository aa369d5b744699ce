CONSTANTS
    s1 = s1
    w1 = w1
    w2 = w2
    Subjects = {s1}
    MaxRevision = 2
    Workers = {w1, w2}
    MaxAttempts = 2
    MaxDeliveries = 2
    MaxStalls = 1
    MaxCancels = 1
    NoEvent = NoEvent
SPECIFICATION FairSpec
CHECK_DEADLOCK FALSE
INVARIANTS
    TypeOK
    OneRequestAtATime
    SyncedIsInPlace
    DeliveredInOrder
PROPERTIES
    SettledStaysSettled
    OutboxDrains
