CONSTANTS
    whole = whole
    a = a
    b = b
    c = c
    d = d
    w1 = w1
    w2 = w2
    Workers = {w1, w2}
    Plans <- TwoPlans
    NoSegment = NoSegment
    NoSession = NoSession
    MaxAttempts = 3
    MaxFaults <- OneCrash
    MaxTrouble = 1
SPECIFICATION Spec
SYMMETRY WorkerSymmetry
CHECK_DEADLOCK FALSE
INVARIANT FanOutResumes
