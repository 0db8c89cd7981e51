SPECIFICATION Spec
CONSTANTS
    Scene = {"syncFails", "upsertFew", "locksFew", "exports"}
    w1 = w1
    w2 = w2
    a = a
    b = b
    p1 = p1
    p2 = p2
    Export = {e1}
    MaxRetry = 3
    MaxCrash = 2
PROPERTIES
    WorkEnds
CHECK_DEADLOCK FALSE
