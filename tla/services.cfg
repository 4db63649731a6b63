\* The services behind the HTTP API, one at a time.
SPECIFICATION ServicesSpec
CONSTANTS
    \* e-mail intake: three requests under one key, on each of the four stores
    Calls = {1, 2, 3}
    Keys = {k}
    Hashes = {"h1", "h2"}
    Backends = {"memory", "postgres", "d1", "dynamo"}
    Window = 2
    CallLimit = 1
    MaxNow = 3
    MaxLost = 1
    NoClaim = NoClaim
    \* received e-mail: two deliveries of one notification
    Events = {"e1", "e2"}
    Parts = {"a1"}
    LeaseTime = 5
    FunctionTime = 4
    RetryAfter <- RedeliveredAfter
    Nobody = Nobody
    MaxReceiveFaults = 1
    \* attachments: two uploads, every storage
    Uploads = {u1, u2}
    StoreKinds = {"native", "s3", "gcs", "azure", "blob", "memory", "disabled", "inline"}
    MaxUploads = 1
    ReferenceDays = 1
    ScheduleDays = 3
    RetentionDays = 4
    LastDay = 8
    \* templates: the CLI's push beside another client
    TemplateIds = {t1, t2}
    Aliases = {a1}
    TemplateClients = {"push", "c1"}
    HistoryLimit = 1
    MaxVersion = 2
    NoAlias = NoAlias
    NoTemplate = NoTemplate
    \* administration: two requests at a time, three in all
    AdminCallers = {1, 2}
    DomainIds = {"d1"}
    KeyIds = {"k1"}
    GrantableScopes = {"api_keys:write", "domains:write"}
    RecordStores = {"postgres", "dynamo"}
    DomainProviders = {"ses", "sendgrid", "acs", "local"}
    LastKeyHour = 1
    MaxAdminRequests = 3
    MaxAdminFaults = 1
INVARIANTS OneEmailPerWindow AnswersAreOwed
INVARIANTS ReceivedIsAnnounced AttachmentsArrive AliasesAgree PushPublishesManifest
INVARIANTS AcknowledgementsHold
CHECK_DEADLOCK FALSE
