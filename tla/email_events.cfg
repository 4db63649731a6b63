\* Provider events, cancellations and suppressions of two recipients.
SPECIFICATION Spec
CONSTANTS
    Recipients = {r1, r2}
    Workers = {w1}
    Clients = {c1}
    EventIds = {e1, e2, e3}
    SendLease = 1
    MaxNow = 2
    ReceiveCounts = {1}
    MaxSends = 2
    ClaimRule = "increment"
SYMMETRY EventSymmetry
INVARIANTS PublicStatusAgrees
PROPERTIES ComplaintsAreSticky UsesAtomicLedger
CHECK_DEADLOCK FALSE
