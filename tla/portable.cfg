\* One e-mail over the PostgreSQL queue: a lost process or acknowledgement, a reschedule or a cancellation.
SPECIFICATION PipelineSpec
CONSTANTS
    Recipients = {r1}
    Workers = {w1}
    Clients = {c1}
    EventIds = {}
    SendLease = 1
    MaxNow = 5
    ReceiveCounts = {1, 2, 3, 4, 5, 6, 7, 8, 9}
    MaxSends = 2
    ClaimRule = "increment"
    JobLease = 4
    RetryDelay = 1
    OutboxLease = 2
    MaxDelay = 9
    MaxCalls = 1
    MaxLost = 1
INVARIANT UnsentIsDriven
PROPERTY ImplementsEmailDelivery
CHECK_DEADLOCK FALSE
