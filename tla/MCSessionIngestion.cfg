CONSTANTS
    whole = whole
    a = a
    b = b
    c = c
    d = d
    w1 = w1
    w2 = w2
    Workers = {w1, w2}
    Plans <- MCPlans
    NoSegment = NoSegment
    NoSession = NoSession
    MaxAttempts = 2
    MaxFaults <- OneEach
    MaxTrouble = 3
SPECIFICATION Spec
SYMMETRY WorkerSymmetry
CHECK_DEADLOCK FALSE
INVARIANTS
    TypeOK
    FanOutComplete
    CountedOnceWhenPlanReadable
    NeverDropped
