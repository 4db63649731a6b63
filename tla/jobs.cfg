\* Two competing processes, the first with two handles, a crash or shutdown, and a
\* lease that expires under a handle or a queue operation that throws.
SPECIFICATION Spec
CONSTANTS
    Jobs = {"j1", "j2"}
    Processes = {"p1", "p2"}
    Handles = {"h1", "h2", "h3"}
    ProcessOf <- TwoAndOne
    NoOwner = NoOwner
    NoJob = NoJob
    Lease = 2
    Concurrency = 2
    RetryDelay = 1
    MaxWait = 1
    MaxAttempts = 2
    MaxLost = 1
    MaxMishaps = 1
INVARIANT LeasedRunsAlone
PROPERTY JobSettles
