\* One e-mail over SQS and Scheduler: a lost function, a failing scheduler call, one request of a client.
SPECIFICATION PipelineSpec
CONSTANTS
    Recipients = {r1}
    Workers = {w1}
    Clients = {c1}
    EventIds = {}
    SendLease = 1
    MaxNow = 4
    ReceiveCounts = {1, 2}
    MaxSends = 2
    ClaimRule = "receive_count"
    Messages = {m1, m2}
    Visibility = 3
    RunLimit = 1
    MaxReceives = 2
    OutboxLease = 2
    NearDelay = 1
    MaxCalls = 1
    MaxFailures = 1
SYMMETRY MessageSymmetry
INVARIANT UnsentIsDriven
PROPERTY ImplementsEmailDelivery
CHECK_DEADLOCK FALSE
