CONSTANTS
    r1 = r1
    r2 = r2
    w1 = w1
    w2 = w2
    Runs = {r1, r2}
    NoRun = NoRun
    Workers = {w1, w2}
    NumStages <- MCNumStages
    MaxAttempts = 2
    MaxStalls = 2
SPECIFICATION Spec
SYMMETRY Symmetry
CHECK_DEADLOCK FALSE
INVARIANTS
    TypeOK
    OneCompileAtATime
    
PROPERTIES
    CheckpointsKept
