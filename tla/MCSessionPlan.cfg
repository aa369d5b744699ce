CONSTANTS
    whole = whole
    a = a
    b = b
    c = c
    d = d
    w1 = w1
    w2 = w2
    Workers = {w1}
    Plans <- TwoPlans
    NoSegment = NoSegment
    NoSession = NoSession
    MaxAttempts = 3
    MaxFaults <- CrashAndStore
    MaxTrouble = 2
SPECIFICATION Spec
CHECK_DEADLOCK FALSE
INVARIANT CountedOnce
