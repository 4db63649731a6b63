\* DynamoDB: two concurrent calls over one message with two recipients.
SPECIFICATION StoreSpec
CONSTANTS
    Recipients = {r1, r2}
    EventIds = {e1, e2}
    EventTypes = {"delivered"}
    Callers = {c1, c2}
    Backend = "dynamo"
    MaxAttempts = 2
SYMMETRY AllSymmetry
PROPERTY ImplementsAtomicLedger
CHECK_DEADLOCK FALSE
