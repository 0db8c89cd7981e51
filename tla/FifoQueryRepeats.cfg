SPECIFICATION Behaviour
CONSTANTS
    Scene = {"locksFew"}
    w1 = w1
    w2 = w2
    a = a
    b = b
    p1 = p1
    p2 = p2
    Export = {e1}
    MaxRetry = 1
    MaxCrash = 0
INVARIANTS
    FifoQueryRepeats
CHECK_DEADLOCK FALSE
