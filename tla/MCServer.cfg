SPECIFICATION Behaviour
CONSTANTS
    Scene = {"sync", "upsert", "locks", "locksLines", "locksOneItem", "exports", "settings"}
    w1 = w1
    w2 = w2
    a = a
    b = b
    p1 = p1
    p2 = p2
    Export = {e1, e2}
    MaxRetry = 1
    MaxCrash = 2
INVARIANTS
    TypeOK
    OneSync
    CapKept
    Idempotent
    LedgerBalances
    PlanHolds
    NoDeadlock
    SucceededIsSent
PROPERTIES
    OperatorsDecide
    ImplementsLife
CHECK_DEADLOCK FALSE
