\* The parts around the sending pipeline, one at a time.
SPECIFICATION OperationsSpec
CONSTANTS
    \* hayasend aws: two operators, one failing call
    Sessions = {1, 2}
    Commands = {"deploy", "upgrade", "cleanup", "bootstrap", "status"}
    Existing <- Starts
    Changes <- Proposals
    MaxFaults = 1
    MaxGeneration = 2
    \* hayasend cloudflare: two operators, two failing calls
    Runs = {1, 2}
    CfCommands = {"deploy", "upgrade", "rollback", "subscribe", "cleanup", "doctor"}
    Builds = {1, 2}
    MaxCfFaults = 2
    \* the log retention resource: three groups, an invocation retried twice
    Groups <- ThreeGroups
    MaxInvocations = 3
    \* schema migrations: three processes of three releases
    Migrators = {"m1", "m2", "m3"}
    Releases <- ShippedReleases
    NoMigrator = NoMigrator
    \* the migration from Resend: two comparisons of one stream
    Streams = {"login"}
    Comparisons = {"login1", "login2"}
    StreamOf <- ComparedStream
    Features = {"templates", "webhooks"}
    \* provider events: two attempts, two reports, one store fault
    Providers = {"ses", "cloudflare", "acs", "sendgrid"}
    Reports = {"r1", "r2"}
    MaxSubmissions = 2
    MaxTries = 2
    MaxStoreFaults = 1
    \* the Cloudflare runtime: one payload, one sweeper
    Payloads = {1}
    Sweepers = {"s1"}
    OrphanAge = 3
    InvocationTime = 1
    PageSize = 1
    QueueRetries = 1
    MaxSubmits = 3
    LastHour = 5
    MaxWorkerFaults = 4
    \* the proof scripts: two sweeps, three faults
    OutboxSweepers = {"w1", "w2"}
    MaxProofFaults = 3
INVARIANTS NothingLostUnacknowledged SuccessLeavesProtected CompleteMeansGone ServedSchemaIsMigrated
INVARIANTS FailedRestores MigrationJobsDoNotCollide AcknowledgedIsRecorded QueuedCanBeSent EvidenceIsHonest
PROPERTY GoIsEarned
CHECK_DEADLOCK FALSE
