CONSTANTS
    t1 = t1
    t2 = t2
    w1 = w1
    w2 = w2
    k = k
    o = o
    NoTask = NoTask
    NoOwner = NoOwner
    NoKey = NoKey
    Tasks = {t1, t2}
    Workers = {w1, w2}
    OwnerId <- MCOwnerId
    DedupeKey <- MCDedupeKey
    ReconcileCancel = {t1}
    MaxAttempts = 2
    LeaseTicks = 2
    RetryBackoff <- MCBackoff
    HandlerBackoffs = {1}
    MaxStalls = 2
SPECIFICATION Spec
SYMMETRY WorkerSymmetry
CHECK_DEADLOCK FALSE
INVARIANTS
    TypeOK
    OneHolderPerFence
    ResultAcceptedOnce
    RestingRowsSettled
    OneLiveRowPerKey
    EveryLiveRowReclaimable
    RetryUnderCap
PROPERTIES
    CommitsFollowFences
    TerminalIsFinal
