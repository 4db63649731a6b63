\* A worker is lost after its claim; the job lease is shorter than the send lease.
SPECIFICATION PipelineSpec
CONSTANTS
    Recipients = {r1}
    Workers = {w1, w2}
    Clients = {}
    EventIds = {}
    SendLease = 4
    MaxNow = 4
    ReceiveCounts = {1, 2, 3, 4, 5, 6, 7, 8, 9}
    MaxSends = 2
    ClaimRule = "increment"
    JobLease = 2
    RetryDelay = 1
    OutboxLease = 2
    MaxDelay = 9
    MaxCalls = 0
    MaxLost = 1
INVARIANT SendingIsDriven
CHECK_DEADLOCK FALSE
