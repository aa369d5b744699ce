CONSTANTS
    t1 = t1
    t2 = t2
    w1 = w1
    w2 = w2
    k = k
    o = o
    NoTask = NoTask
    NoOwner = NoOwner
    NoKey = NoKey
    Tasks = {t2}
    Workers = {w1, w2}
    OwnerId <- MCOwnerId
    DedupeKey <- MCNoKeys
    ReconcileCancel = {}
    MaxAttempts = 2
    LeaseTicks = 2
    RetryBackoff <- MCBackoff
    HandlerBackoffs = {1}
    MaxStalls = 3
SPECIFICATION FairSpec
CHECK_DEADLOCK FALSE
PROPERTIES
    EveryTaskSettles
    ImplementsFencedQueue
    RowsAreAttempts
