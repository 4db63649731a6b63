\* Two workers and an API client race over one e-mail; no provider events.
SPECIFICATION Spec
CONSTANTS
    Recipients = {r1, r2}
    Workers = {w1, w2}
    Clients = {c1}
    EventIds = {}
    SendLease = 1
    MaxNow = 3
    ReceiveCounts = {1, 2}
    MaxSends = 3
    ClaimRule = "increment"
SYMMETRY WorkerSymmetry
INVARIANTS NoConcurrentSubmission DuplicatesAreRetries AttemptBound DeliveryInv
PROPERTIES FinalIsFinal
CHECK_DEADLOCK FALSE
