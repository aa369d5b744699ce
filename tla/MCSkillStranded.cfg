CONSTANTS
    c1 = c1
    k1 = k1
    w1 = w1
    w2 = w2
    Candidates = {c1}
    NoCandidate = NoCandidate
    Validations = {k1}
    Cycles = {e1}
    NoJob = NoJob
    Modes = {"evaluate", "force"}
    AutoModes = {"off", "auto"}
    Trees = {ta, tb}
    NoTree = NoTree
    NoBase = NoBase
    ApiMutations = {m1}
    Workers = {w1, w2}
    MaxAttempts = 2
    MaxRevision = 2
    MaxStalls = 0
SPECIFICATION Spec
SYMMETRY Symmetry
CHECK_DEADLOCK FALSE
INVARIANT
    ValidatingIsRunning
