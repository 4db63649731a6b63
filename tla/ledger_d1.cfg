\* D1: the recipients are read beside the revision that guards them.
SPECIFICATION StoreSpec
CONSTANTS
    Recipients = {r1, r2}
    EventIds = {e1, e2}
    EventTypes = {"delivered"}
    Callers = {c1, c2}
    Backend = "d1"
    MaxAttempts = 2
PROPERTY ImplementsAtomicLedger
CHECK_DEADLOCK FALSE
