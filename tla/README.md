# HayaSend verification

TLA+ specifications of HayaSend (`src/src`): the delivery path, the services
around it and the commands that deploy, migrate and prove a deployment. TLC
configurations check them on small instances, and TLAPS proofs establish most of
the safety properties for every value of the constants. Definitions keep the names
of the code where TLA+ allows it; `PROJECT.json` maps each one to its source lines.

    tlc -config <run>.cfg <MC module>      # one run, see "Runs"
    tlapm <module>Proofs.tla               # one module of proofs, see "Proofs"

## 1. The system

HayaSend accepts e-mails over an HTTP API, keeps them in a store, sends them
through a provider, applies the provider's events, and publishes webhooks. One
set of services runs on several back ends:

| | AWS | portable | Cloudflare | tests |
|---|---|---|---|---|
| store | DynamoDB | PostgreSQL | D1 | memory |
| jobs | SQS, Lambda | `jobs` table, resident workers | Queues | in process |
| time | EventBridge Scheduler | delayed rows | delayed messages | timers |

### Inventory

| Component | State | Operations | Hard because |
|---|---|---|---|
| Recipient ledger (`core/recipient-ledger.ts`) | none: plans over a snapshot | attempt start, completion, provider event, local state, derived statuses | events out of order, aggregates derived from recipients |
| E-mail service (`services/email-service.ts`) | e-mail, message, recipients, attempts, events | create, processSend, cancel, reschedule, applyProviderEvent | every await is an interleaving point; at-least-once jobs; ambiguous provider calls; expiring send lease |
| Delivery stores (memory, PostgreSQL, DynamoDB, D1) | the records above, idempotency claims, outbox | commitDelivery, claim, ledger operations, outbox lease | several reads and conditional writes per operation, each store in its own way |
| Outbox reconciler (`services/outbox-reconciler.ts`) | outbox item: due time, lease, dispatched | lease, publish, acknowledge, fail, reschedule | lost sweeps, leases that expire under a sweep, shared owner |
| PostgreSQL queue and worker (`postgres-job-queue.ts`, `portable/worker.ts`) | job rows, handles of a process | enqueue, lease, heartbeat, settle, recover, prune, stop | lost processes, late heartbeats, a rejected tick |
| AWS queue and schedules (`aws/worker.ts`, `sqs-job-queue.ts`, `email-scheduler.ts`) | messages, one schedule per e-mail | receive, delete, schedule, fire | visibility against lease, schedules rewritten by late calls |
| Webhooks (`services/webhook-service.ts`) | endpoints, delivery records, jobs | create/update/delete, publish, replay, deliver | record and job are two writes; overlapping runs; paging over a changing list |
| Suppression list (`services/suppression-service.ts`) | addresses | put, delete, look-up | races a send and a late bounce |
| Received e-mail (`services/received-email-service.ts`, `aws/inbound.ts`) | claim, stored parts, record, announcement | ingest, publish, read | notifications more than once, a claim that expires under a slow run, three attempts in all |
| Templates (`services/template-service.ts`, `cli.ts`) | draft, published version, history, two alias tables | create, update, publish, restore, delete, push | read, review and commit are separate requests |
| Attachments (`services/attachment-service.ts` and its storages) | upload records, objects | declare, upload, resolve, read | checked at acceptance, read days later; storages check different things |
| API keys and domains (`services/*`, `app.ts`, `console-auth.ts`) | keys, domain records, identities at the provider | create, revoke, authenticate, verify, delete | a provider call and a record per operation; read-then-put on DynamoDB |
| Transports and event ingress (SES, ACS, SendGrid, Cloudflare) | none of their own | send, decode, correlate, record, suppress, acknowledge | reports early, late, again, in batches that fail in part |
| Cloudflare runtime (`workers/index.ts`, Queues, R2) | payload objects, messages | fetch, queue, dead letter, scheduled | an object before its row, retries shorter than the lease, orphan sweeps |
| Deployment CLIs (`cli-aws-deploy.ts`, `cli-aws-bootstrap.ts`, `cli-cloudflare-deploy.ts`) | cloud resources | deploy, upgrade, rollback, cleanup, bootstrap, doctor | calls that fail after taking effect, two operators at once |
| Log retention (`aws/log-retention.ts`) | policies of log groups | custom resource | rollback that fails in part, retried invocations |
| PostgreSQL migrations | schema, registry | migrate | several releases at once, lost sessions |
| Migration from Resend (`cli-resend-migration.ts`) | canary results, report | inventory, canary, report | two providers that reach their final events at different times |
| Hosted and backup/restore proofs (`portable/*-proof.ts`) | a fixture in the deployment's database | hosted proof, seed, restore | failure before the identities are known, stalled sweeps, abandoned requests |
| Vercel functions, configuration, console, preview, client CLIs, capability registries | none | wake-ups, routing, validation, formatting | – |

Interaction: `create` commits the e-mail, its ledger, its outbox item and the
idempotency claim in one transaction and wakes the dispatcher; the reconciler
publishes a `send_email` job and acknowledges the item; a worker runs
`processSend`; provider events come back through `applyProviderEvent`. Each of
these publishes webhook events, which become `deliver_webhook` jobs of the same
queue. `reschedule` moves the outbox item while it is pending, and otherwise asks
the scheduler for a corrective job.

What must hold: nobody submits an e-mail twice at once, or again after an
outcome that is final or ambiguous; the public status says what the recipients
say; nothing accepted is forgotten; a repeated request gives the first answer;
what the history records did happen; what was acknowledged, to a provider, to an
operator or to Lambda, stays true; a command that reports success has achieved
it, and destroys only what its operator has agreed to.

## 2. Modules

| Module | Models | Lines it follows |
|---|---|---|
| `RecipientLedger` | the planners and derivations as operators | `core/recipient-ledger.ts` |
| `EmailDelivery` | one e-mail: `processSend` in a step per await, cancel, reschedule, provider events, suppression changes; worker loss anywhere; the most general at-least-once queue | `services/email-service.ts`, the memory and PostgreSQL stores |
| `AtomicLedger` | abstract specification of a delivery store: each operation takes effect at once or not at all | `ports/delivery-ledger-store.ts` as the stores implement it |
| `LedgerStore` | the DynamoDB and D1 stores: reads in pages or statements, plan, conditional commit, retry | `dynamo-store.ts`, `d1-delivery-store.ts` |
| `EmailIntake` | `create` and `commitDelivery` under an idempotency key, on four stores | `email-service.ts`, all stores |
| `Outbox` | outbox items and sweeps | `outbox-reconciler.ts`, the stores |
| `PortableWorker` | job rows and worker processes | `postgres-job-queue.ts`, `portable/worker.ts` |
| `PortableSend` | `EmailDelivery` with outbox item, job rows and `QueueEmailScheduler` | the portable pipeline |
| `AwsSend` | `EmailDelivery` with outbox item, SQS and `AwsEmailScheduler` | the AWS pipeline |
| `WebhookDelivery` | endpoints, publication, replay, deliveries | `webhook-service.ts`, the stores |
| `ReceivedEmail` | an SES event in several invocations: claim, objects, record, announcement, read | `received-email-service.ts`, `aws/inbound.ts`, `inbound-storage.ts` |
| `Attachments` | declaration, upload, acceptance and read on eight storages | `attachment-service.ts`, the storages, `cli-send-attachments.ts` |
| `Templates` | requests of several clients and the push command | `template-service.ts`, the stores, `app.ts`, `cli.ts` |
| `Administration` | authenticated requests for keys, domains, suppressions | `app.ts`, `api-key-service.ts`, `domain-service.ts`, the domain providers |
| `ProviderEvents` | transports' answers and the four ingress paths | `ses-*`, `acs-*`, `sendgrid-*`, `email-sending-*` |
| `CloudflareWorker` | intake, queue consumers, cron | `workers/index.ts`, `queues-job-queue.ts`, `r2-payload-storage.ts` |
| `AwsDeployment` | sessions of the AWS commands over CloudFormation | `cli-aws-deploy.ts`, `cli-aws-bootstrap.ts` |
| `CloudflareDeployment` | runs of the Cloudflare commands | `cli-cloudflare-deploy.ts` |
| `LogRetention` | invocations of the custom resource | `aws/log-retention.ts` |
| `SchemaMigrations` | migration processes of several releases | `postgres-migrations.ts`, `portable/migrate.ts` |
| `ResendMigration` | canaries and the go/no-go report | `cli-resend-migration.ts` |
| `HostedProof` | the three proof scripts beside the deployment they exercise | `portable/hosted-proof.ts`, `portable/backup-restore-proof.ts` |
| `EmailDeliveryProofs` | theorems about `EmailDelivery`, and that it implements `AtomicLedger` | |
| `StoreProofs` | theorems about `Outbox` and `LedgerStore` | |
| `PortableWorkerProofs` | theorems about `PortableWorker` | |
| `PortableSendProofs`, `AwsSendProofs` | that the two pipelines implement `EmailDelivery` | |
| `WebhookDeliveryProofs` | theorems about `WebhookDelivery` | |
| `ServicesProofs` | theorems about `EmailIntake`, `Attachments`, `Templates`, `Administration`, `ReceivedEmail` | |
| `OperationsProofs` | theorems about `SchemaMigrations`, `CloudflareWorker`, `LogRetention`, `ProviderEvents`, `HostedProof`, `ResendMigration`, `CloudflareDeployment`, `AwsDeployment` | |
| `MCServices`, `MCOperations` | several of the modules above side by side, one chosen at the start | |
| other `MC*` | symmetry sets and constants for TLC | |

`EmailDelivery` and `AtomicLedger` EXTEND `RecipientLedger`; `LedgerStore`
EXTENDS `AtomicLedger`; `PortableSend` and `AwsSend` EXTEND `EmailDelivery`, add
the queue's variables and conjoin its actions with the ones of `processSend`.
These refinements tie them together:

    PortableSend, AwsSend  =>  EmailDelivery      (ImplementsEmailDelivery)
    EmailDelivery          =>  AtomicLedger       (UsesAtomicLedger)
    LedgerStore (DynamoDB) =>  AtomicLedger       (ImplementsAtomicLedger)

All four are checked by TLC and proved (section 4). What is proved of
`EmailDelivery` holds over both queues, and `EmailDelivery`, which takes the
store's operations to be atomic, may take them so for PostgreSQL (row locks),
memory (no await) and DynamoDB (proved), and not for D1 (section 6).

How state and actions correspond:

- **EmailDelivery.** `email`, `message`, `rcpt`, `latest`, `attempts`, `events`
  are the stored records, `worker` and `client` the locals of each call with a
  program counter that names the last await. `LoadEmail`, `FindSuppressed`,
  `ClaimEmailForSend`, `ReadLedger`, `BeginDeliveryAttempt`, `Submit`,
  `CompleteDeliveryAttempt` are the awaits of `processSend`; early returns and
  throws are the disjuncts of each. `accepted` is a history variable: the
  attempts the provider took, whatever it answered. A lost worker (`Crash`)
  leaves the records as they are.
- **LedgerStore.** A call keeps what it has read in `view`; `Read` adds one page
  or one statement, `Commit` compares and writes, `Conflict` reads again or gives
  up (`DELIVERY_LEDGER_RETRIES`). Records are compared without timestamps, which
  makes the guards weaker than the code's. Two pages are enough for the largest
  partition the API admits.
- **EmailIntake.** `call` holds the clock reading taken in `create`; every store
  compares claims with that reading. PostgreSQL looks, deletes the expired claim
  and writes; D1 looks and writes; DynamoDB writes and looks afterwards; memory
  does it in one step.
- **Outbox, PortableWorker.** Times are kept as distances (`wait`, `ttl`, `left`),
  so that the state space is finite without a bound on the clock and liveness can
  be checked. `left` is the time a sweep or handle believes its lease has.
- **PortableSend, AwsSend.** `item`, `due` are the e-mail's outbox item; `jobs` or
  `msgs` and `schedule` the queue; `held` the job of each worker; `wake` the steps
  of `reschedule` after its store update.
- **WebhookDelivery.** `branch` is the program point of `enqueueDelivery` for each
  delivery of a call, so that the branches of `Promise.all` run concurrently and
  on after one has thrown. `webhook[w]` is the sequence of an endpoint's states from
  the one a listing shows to the one its record has: DynamoDB lists through GSI1,
  which follows the table late (`Reindex`), the other stores list what is written, and
  their sequences have one element. An update that changes nothing is left out.
  `answered`, `unwanted`, `sent`, `cut` record what happened outside the store: the
  endpoints' answers and the runs that were lost.
- **ReceivedEmail.** `ingestion` is the invocation of each event with its program
  point; `inboundClaim` the lease and who may still release it. The `finally` block
  runs while the announcement is still being queued, as in the code.
- **Attachments.** Time is in days. `upload` and `stored` are the record and the
  object; a client may write any content its URL admits, before and after the
  e-mail was accepted.
- **Templates.** `clientCall` is a request between its look-up, its load and its
  commit; `draftAlias` and `sentAlias` are the alias tables, which the code keeps
  beside the records. The push command is one more client, with its plan, update,
  review and publication.
- **Administration.** `request` walks through authentication and the calls of its
  route; `identities` is the provider's side of a domain; `late` marks a request
  that arrived after a revocation was answered.
- **ProviderEvents.** `intake` is a batch and the steps left for its first report
  (apply, suppress); what is not acknowledged comes back.
- **CloudflareWorker.** `object` and `mailbox` are R2 and D1, `jobs` the messages of
  both queues with their delivery counts, `sweep` what a cron run has listed.
- **AwsDeployment, CloudflareDeployment.** A command is the sequence of its calls,
  each a step that may fail with or without effect; `sessions` and `runs` are its
  locals, `effects` a history of what was replaced or purged and whether the
  operator had acknowledged it. `alone` names the run that has the AWS account to
  itself: no other was under way when it began, and none has begun since.
- **LogRetention, SchemaMigrations.** `handler` and `migrator` are the running
  invocation and processes, with what they found and what they changed.
- **ResendMigration.** `lastEvent` is the providers' side; `results` and
  `migrationReport` what the commands print.
- **HostedProof.** `rows` is what the database holds of the fixture, `proof` the
  script with the identities it has learned, `late` the rows written when it
  looks no more.

The parts of `MCServices` and of `MCOperations` share no state. Each composite picks
one of its parts in the initial state and leaves the others where they start, so
that its state space is the sum of theirs; the parts are checked one at a time.

External parts, modelled from how the code uses them: SQS and Cloudflare Queues
(visibility, retries, redrive), EventBridge Scheduler, DynamoDB's time-to-live and its
index GSI1 (listings that lag behind the table: `WebhookDelivery`, `Templates`),
S3 and the other object stores, Lambda's retries, CloudFormation, Cloudflare's
API, CloudWatch Logs, PostgreSQL's locks and transactions, the e-mail providers.

## 3. Runs

| Run | Checks | Shows |
|---|---|---|
| `email_submissions` | `NoConcurrentSubmission`, `DuplicatesAreRetries`, `AttemptBound`, `DeliveryInv`, `FinalIsFinal` | two workers and a client over one e-mail with two recipients: no concurrent submission even after a send lease has expired; the provider takes a message twice only across a recorded transient failure; at most three attempts; final is final |
| `email_events` | `PublicStatusAgrees`, `ComplaintsAreSticky`, `UsesAtomicLedger` | three events in any order, racing a send, a cancellation and suppressions: aggregates agree with recipients, complaints stay |
| `outbox` | `DispatchedWasPublished`, `BacklogIsIndexed`, `LiveLeaseIsExclusive`, `DueIsDispatched` | three sweeps, with an owner each or two sharing one; DynamoDB's hand-kept index and the backlog metrics agree with the other stores |
| `jobs` | `LeasedRunsAlone`, `JobSettles` | two processes, one of them with two handles; a crash or a stop; a stall or a throwing settlement: a leased job runs in one place, and no row stays live for ever |
| `portable` | `UnsentIsDriven`, `ImplementsEmailDelivery` | the PostgreSQL queue is a queue of `EmailDelivery`; claimed or waiting e-mails keep a driver |
| `aws` | `UnsentIsDriven`, `ImplementsEmailDelivery` | the same of SQS, Lambda and Scheduler |
| `ledger_dynamo` | `ImplementsAtomicLedger` | two concurrent calls, claims and reschedules over paged reads |
| `webhooks` | `PublicationReachesAll`, `SettledWasAnswered`, `UnfinishedIsDriven`, `AttemptsCoverRequests` | a publication over two pages of endpoints listed late, a replay, overlapping runs, a lost process: every steady and listed endpoint gets a job; what stays unfinished without a driver is exactly the delivery a process was lost over |
| `services` | intake: `OneEmailPerWindow`, `AnswersAreOwed` | three requests under one key, two bodies, on each store |
| | received e-mail: `ReceivedIsAnnounced` | two events for one message; lease, function timeout and retry delays fit together |
| | attachments: `AttachmentsArrive` | what is sent is what was declared, and references, schedules and retention fit together |
| | templates: `AliasesAgree`, `PushPublishesManifest` | two templates, one alias, push beside another client |
| | administration: `AcknowledgementsHold` | revoked keys and deleted domains stay so, on DynamoDB but for a verification between its read and its put |
| `operations` | AWS: `NothingLostUnacknowledged`, `SuccessLeavesProtected` | two sessions, one failing call: one after the other (a deployment that failed half way and its retry) or interleaved |
| | Cloudflare: `CompleteMeansGone`, `ServedSchemaIsMigrated` | two runs, two failing calls, two builds |
| | log retention: `FailedRestores` | three groups, an invocation retried twice |
| | migrations: `MigrationJobsDoNotCollide` | three processes of three releases |
| | Resend: `GoIsEarned` | two comparisons of one stream |
| | provider events: `AcknowledgedIsRecorded` | two attempts, two reports, four providers |
| | Cloudflare runtime: `QueuedCanBeSent` | one payload through intake, both queues and the orphan sweep |
| | proofs: `EvidenceIsHonest` | each script, three faults, two sweepers, damaged backups |
| `portable_process_loss` | `SendingIsDriven`, violated | section 6 |
| `ledger_d1` | `ImplementsAtomicLedger`, violated | section 6 |

### Bounds

Every bound is a constant in the `.cfg`. Why they are enough:

- *One e-mail, one key.* The records of different e-mails and keys are disjoint;
  no operation reads two of them.
- *Two recipients* make mixed aggregates possible (one delivered, one bounced);
  a plan that starts or ends an attempt treats all recipients alike.
- *Two workers, calls or runs* race; the third sweep and the third handle are for
  owners shared within a process. The third request of the intake meets the claim
  that two others raced for, the third migrator a schema that two have changed.
- *Leases* of one or two ticks with a clock of three to five let a lease expire
  and be taken over at least once. `MaxSends = 3` as in the code, two where the
  run is not about the count. `ReceiveCounts` are the receive counts a queue may
  report of a message; the runs take the first few.
- *One or two faults*, in `jobs` one stall or one throwing settlement beside a lost
  process: each property is about surviving one fault, and the
  liveness runs ask for the recovery after the last of them.
- `JobLease = 4` against `SendLease = 1` in `portable` stands for a job lease of more
  than twice the send lease, what a heartbeat of half the lease takes;
  `portable_process_loss` has the default proportion.
- `MaxCalls = 1` in `portable` and `aws`: under two calls `UnsentIsDriven` is false of
  both (section 6). `MaxDelay` is beyond `MaxNow` in `portable` for the same reason.
  The theorems of section 4 put a finer condition in the place of both bounds.
- `aws` covers deployments with `maxReceiveCount` 1 and 2 (`limit`): under 1 the
  redrive happens within the clock bound, under 2 a message comes back.
- `PageSize = 1` with two endpoints gives two pages; a webhook run has
  one change of an endpoint or expiry (`MaxChanges`), two records, two runs and one
  fault (`Faults`): a call or run cut short, a second receive of a job in hand, a store
  or queue call that throws, an endpoint listed late. The proofs bound none of these.

- `services` and `operations` number interchangeable requests and operators and
  let them start in order; of two behaviours that differ in their names only one
  is explored. The four faults of the Cloudflare runtime are what it takes to
  exhaust both queues. `LeaseTime`, `FunctionTime` and `RetryAfter` keep the
  proportion of the claim's lease, the function's timeout and Lambda's waits;
  `ReferenceDays`, `ScheduleDays` and `RetentionDays` the one of upload references,
  the schedule horizon and the bucket's lifecycle.

Deadlock is checked in `outbox` and `jobs`. The other instances stop when their
clocks, calls, faults or attempts are used up.

### Fairness

- `Outbox`: `WF` on the clock and on each sweep. Sweeps recur every second
  (`portable/worker.ts`) or minute (AWS); a sweep that is not lost goes on.
  Refused publications, losses and reschedules are not forced, and faults are
  finite: a queue that refuses for ever dispatches nothing.
- `PortableWorker`: `WF` on each handle (transports and fetches time out) and each
  heartbeat; `SF` on the lease of each row, because `lease` takes the longest
  waiting rows first, so that a row that is leasable again and again is taken;
  `SF` on the clock, which passes without end even when a lease that is about to
  expire is being prolonged.

The other modules are checked for safety only.

## 4. Proofs

Each module of proofs EXTENDS the modules it is about, so that its theorems are
about the specification TLC runs. Nothing bounds a set there: recipients, workers,
clients, events, items, sweeps, jobs, requests, endpoints, uploads, templates,
releases, reports and so on are any sets, the bounds on faults, clocks and attempts
any numbers. Every inductive invariant below was an invariant of a run before it
was proved, and each proof has a step per action and, under it, a step per part of
the invariant the action can disturb; the lemmas state what the planners, the
record updates and the small state machines inside the actions do.

### Theorems

| Module | Property (theorem: name + `Holds`) | Inductive invariant |
|---|---|---|
| `EmailDeliveryProofs` | `NoConcurrentSubmission`, `PublicStatusAgrees`, `DuplicatesAreRetries`, `FinalIsFinal`, `ComplaintsAreSticky` | `TypeOK /\ SubmissionInv` (`SubmissionInvariant`, `TypeCorrectness`) |
| | `AttemptBound`, for `ClaimRule = "increment"` | `DeliveryInv` (`DeliveryInvariant`) |
| | `UsesAtomicLedger`: refinement | `DeliveryInv` |
| `StoreProofs` | `DispatchedWasPublished`, `LiveLeaseIsExclusive`, `BacklogIsIndexed` | `OutboxInv` |
| | `ImplementsAtomicLedger`, for `Backend = "dynamo"`: refinement | `StoreInv` |
| `PortableWorkerProofs` | `LeasedRunsAlone` | `TypeOK /\ LeasesInv` |
| `PortableSendProofs` | `ImplementsEmailDelivery`: refinement; `PortableSubmissions`, `PortableAttemptBound` from it | `PipelineInv` |
| | `UnsentIsDriven`, on two conditions on reschedules; `OneCallUnsentIsDriven` and `NearCorrectionHolds` say when they hold by themselves | `DrivenInv`, `CallInv`, `TimesInv` |
| `AwsSendProofs` | `ImplementsEmailDelivery`: refinement; `AwsSubmissions` from it | `PipelineInv` |
| | `UnsentIsDriven` | `DrivenInv` |
| `WebhookDeliveryProofs` | `SettledWasAnswered`, `PublicationReachesAll` | `Inv` (`WebhookInvariant`) |
| | `UnfinishedIsDriven` | `DrivenInv` |
| | `AttemptsCoverRequests` | `CountedInv` |
| `ServicesProofs` | `OneEmailPerWindow`, `AnswersAreOwed` | `IntakeInv` |
| | `AttachmentsArrive` | `AttInv` |
| | `AliasesAgree`, `PushPublishesManifest` | `TmInv` |
| | `AcknowledgementsHold` | `AdminInv` |
| | `ReceivedIsAnnounced` | `ReceiveInv` |
| `OperationsProofs` | `MigrationJobsDoNotCollide` | `PgInv` |
| | `QueuedCanBeSent` | `WkInv` |
| | `FailedRestores` | `LrInv` |
| | `AcknowledgedIsRecorded` | `EventInv` |
| | `EvidenceIsHonest` | `ProofInv` |
| | `GoIsEarned` | `RmInv` |
| | `ServedSchemaIsMigrated`, `CompleteMeansGone` | `CfInv` |
| | `NothingLostUnacknowledged` | `AwsInv` |
| | `SuccessLeavesProtected` | `AwsInv`, `AloneInv` |

`FinalIsFinal`, `ComplaintsAreSticky` and `GoIsEarned` are action properties, `[][...]_vars`.

### Assumptions

The theorems rest on the ASSUMEs of the modules, which TLC evaluates in every run,
and on hypotheses that they state themselves.

- Bounds are natural numbers, positive where the code divides time by them; sets
  whose size is taken (`Items`, `Jobs`, `Handles`, `OutboxSweepers`) are finite;
  the value for "no owner" or "no claim" is not an owner or a claim, and the names of
  `HostedProof`'s sweepers are not states of an outbox item.
- `ReceiveCounts`: `EmailDelivery` takes any receive count of this set. The portable
  pipeline implements it when the set is `Nat \ {0}` (the queue does not bound
  retries, section 6), the AWS pipeline when it contains `1..MaxReceives`.
- `UnsentIsDriven` of the portable pipeline: where a process may be lost, the job lease
  is more than `2 * SendLease + 1`, a `HAYASEND_WORKER_LEASE_SECONDS` of 242 or more
  (the default of 60 is `portable_process_loss`); and two conditions on steps.
  `FirstCorrection`: once a corrective job has been asked for, the schedule stays as
  it is. `NearCorrection`: a reschedule that does not move the outbox item with it is
  within the queue's largest delay. Without any of the three TLC violates the
  property. Times up to which the outbox item waits, and reschedules that move it, are
  not limited.
- `UnsentIsDriven` of the AWS pipeline: the visibility timeout (180 s) is longer than
  the function's time-out (30 s) and the send lease (120 s) together; requests do not
  overlap (there is one client); and where scheduler calls may fail there is one call
  that changes something. Without any of them TLC violates the property.
- Both: the value for "no job in hand" is not a worker, nor a message.
- `WindowAssumption` (`EmailIntake`): a call is shorter than the idempotency window
  of 24 hours. `WorkerAssumption` (`CloudflareWorker`): two invocations are shorter
  than the age at which the sweep takes an object for an orphan.
- `DaysAssumption` (`Attachments`): 24 hours of upload reference and 30 days of
  schedule are within the bucket's 45 days. `ReceivingAssumption` (`ReceivedEmail`):
  the claim's lease of 150 s is over before Lambda's second wait (60 s and 120 s);
  without it `OneFaultIsSurvived` is false.
- `ExistingAreAtRest`, `GenerationsAreCounted`, `ChangesAreTold` (`AwsDeployment`): a
  stack there was before the commands started is of its first generation and at rest,
  deployed or rolled back; the creations that are bounded are numbered from 1; a change
  set tells an action, a replacement and a policy of every change.
  `BuildsAreNumbers` (`CloudflareDeployment`): versions are numbered.
- `AttemptBound` needs a store that counts claims; on DynamoDB the claim stores the
  receive count (section 6).

### Why the invariants are what they are

- **SubmissionInv.** Nothing in `NoConcurrentSubmission` says why the second of two
  workers that both passed the claim is turned away. `AttemptsInv`: every attempt
  but the last is a retryable failure; recipients are queued exactly when another
  attempt may follow, and in flight exactly while the last one is open, all alike;
  `latest` names it. `WorkersInv`: a worker in a submission owns the last attempt,
  which is open. `PublicStatusAgrees` is a part because the guards of claim, cancel
  and suppression read the public status and not the recipients. A second
  `BeginDeliveryAttempt` would need queued recipients, which an open attempt
  excludes: the ledger keeps workers apart, not the send lease. A duplicate
  acceptance implies that the earlier attempt is not the last, hence retryable.
- **DeliveryInv** adds that claim counts are distinct, so that `MaxSends` attempts
  behind distinct counts below the limit exhaust it.
- **Refinements.** `EmailDelivery` maps to `AtomicLedger` by dropping what is not
  stored, `LedgerStore` by dropping the calls' views: a commit is one abstract
  operation because it compares every record it planned on, so that what the call
  read is what is there. `StoreInv` supplies what the plan needs besides: in any ledger
  that is there only the last attempt is not a retryable failure, with the recipients
  queued or in flight to match (`LedgerInv`), and the attempt a call names is one it
  began (`CallsInv`). The pipelines map to `EmailDelivery` by the identity; what is to
  be shown is that a worker is handed a job only with a receive count `EmailDelivery`
  admits, and that the queue's own steps leave its variables alone. The safety
  theorems carry over by implication.
- **DrivenInv** of the pipelines. `Driven` alone is not inductive: the job that makes it
  true may be about to be acknowledged. `DriverInv` therefore counts only what will
  look at the e-mail again: for an e-mail that waits, or whose send lease has expired,
  the item, a job that no call that has returned still holds (`Alive`), the schedule,
  or a corrective job being asked for; for one that is claimed, a job whose worker goes
  on to the submission or that comes back after the send lease (`Claimant`), so that
  when the lease runs out the job turns from the second kind into the first. What a
  step of `processSend` can come to is shared by both (`SendStepOutcome` in
  `EmailDeliveryProofs`). `HeldInv` says that a job in hand is hidden from everybody
  else for as long as its worker can run. The portable `ScheduleInv` says that whatever is
  on its way to the one corrective job has the e-mail's schedule and that this job is
  not received ahead of it, since its successor would collide with it. On AWS a schedule
  can be taken away: by the wake-up that hurries the outbox on, which takes its name, and
  by a failing `rescheduleDelivery`. `HurryInv` and `FailInv` say that the e-mail does
  not depend on it then, and `FreshInv` why: before a first reschedule there is no
  schedule, and no message ahead of the e-mail's time.
- **OutboxInv.** `SweepsInv`: an item a sweep has had accepted is published, and
  nothing is dispatched that is not. `LeasesInv`: owners are distinct, and a sweep that
  believes it has time left owns each item it holds, for at least that long.
  `IndexInv`: which index entry and which count an item has in each of its states.
- **LeasesInv** of the worker speaks until a queue operation throws: a handle at work
  is awaited by the tick of its process, the handles of a process have different jobs,
  and a handle with lease left works on a live row its process owns for at least as
  long. A stop therefore releases only leases nobody works under.
- **Inv** of webhooks: `ReachedInv` says what a call has done by its cursor,
  `EnqueuedInv` that a record is not there before its branch creates it and a job not
  before its branch enqueues it, `RunInv` that the job of a run was received, and what
  the run is about to settle was answered or found unwanted. `DrivenInv` names what
  drives each unfinished delivery, and the lost call or run of each that has no
  driver. `CountedInv` speaks until two runs overlap, as the property it carries does.
- **IntakeInv** says of each call what the store has told it, by the clock reading
  taken in `create`: claims are of accepted e-mails and live a window from their
  request, what was found expired is over, what is to be replayed stands, and a claim
  that no longer names an e-mail has outlived its window. **AdminInv** says which check
  a request has passed at each of its points, and that what was revoked or deleted
  stays so. **AttInv**: objects outlast the day on which they are due, and hold what was
  declared wherever the storage checks it. **TmInv**: the draft in a request's hands is
  the stored one until somebody commits a later, and what a push releases it has
  reviewed. **ReceiveInv**: where each ingestion stands, that the run that was first
  goes on to announce, and that one fault leaves a redelivery that outlives the claim.
- **PgInv** says that the session in the migration loop holds the lock, that the
  registry agrees with the schema, and that the versions a process has passed are
  registered with the checksums of its release; **WkInv** bounds the age of an object whose intake still runs
  and dates what a sweep has listed; **LrInv** says of each group whether it is
  changed, undone, in hand or in doubt. **EventInv** says of the report at the head of
  a batch which calls are done and which are left, and that what was acknowledged has
  its effects. **ProofInv** says what a script has learned at each step: everything it
  answers for hangs on the e-mail until its cleanup, the cleanup has verified what it
  deleted, and a lost row or object is met before a verification can succeed.
- **RmInv** says that a final event a canary or a result saw is still the provider's
  last one or was followed by the one that is, and that a result that says ok saw one
  final event at both. **CfInv** says of each version, known or about to be, that the
  database it is bound to has its schema, and of a cleanup beside which nobody deploys
  that what it has passed in its sequence of calls is gone.
- **AwsInv.** `PointsOf` says which command a session is in at each call, and that what
  it executes it has inspected. `OwnersInv`: a deployment finds a change set of its own
  among those that are new. `StackInv`: generations are numbered as they are created, the
  stack's has resources, and there is no data where no creation was completed.
  `PurgeInv`: what a cleanup may purge was rolled back, and stays so, although the
  application stack may have been created anew meanwhile. `ProtectionInv`: a stack that
  lacks a protection has a session that answers for it (a deployment on its way to the
  protections, a cleanup that has switched one off, a run that has failed), or was
  open when the deployments found it, in which case none has ended. Nothing weaker is
  inductive: a deployment may end well only because whoever opens the stack afterwards
  is still under way or fails. **AloneInv** is for the run that has the account to
  itself: nobody else takes a step, and once it is past a protection, the stack has
  it, whatever an earlier run left; in particular when no changes were found.

### Model-checked only

- `DueIsDispatched` and `JobSettles`: liveness under fairness is out of the prover's
  reach.
- `RecipientLedger`'s planners are operators without recursion; what the proofs use
  of them is proved as lemmas (`TransitionLemma`, `DerivedStatusLemma`,
  `LocalPlanLemma`, `EventPlanLemma`).

## 5. Not modelled

- The functions of Vercel and the Pub/Sub wake-ups: a request that runs one tick of
  the worker and one sweep. `PortableWorker` and `Outbox` let a process do this at
  any time already.
- Configuration and wiring, the operator console, the preview, the CLI commands
  that make one request and print its answer, and the capability registries: they
  hold no state or only format it.
- `workers/cloudflare-backup-restore-probe.ts`, which repeats on D1 and R2 what
  `HostedProof` models on PostgreSQL.
- The shell, workflow and smoke-test scripts outside `src/src`.

Within the modelled components: listing and summaries, rendering of requests and
templates, the MIME parser and the decoders of provider payloads below the
question whether a payload is valid and of which kind, batches of `create` (one per
element), payload digests and provider references (they choose no step), argument
parsers and the wording of plans, duplicate copies made by SQS itself beyond its
redeliveries.

## 6. Where code and documentation disagree

Two disagreements have a run that exhibits them:

- **`portable_process_loss`.** A worker is lost after `claimEmailForSend`. Its job
  lease (60 s) expires before the send lease (120 s); the next worker finds the
  e-mail claimed, returns, and its job is completed. Nothing is left to send the
  e-mail, although docs/portable-postgres.md:216 says the worker "recovers expired
  leases after process loss".
- **`ledger_d1`.** `getStoredDeliveryState` reads the recipients and attempts beside
  the header that carries the revision. When an attempt begins between the two, a
  local "suppressed" is planned on the old recipients and passes the revision
  guard, although docs/cloudflare-workers.md:31 promises "conditional revision and
  lease-owner guards for concurrent ledger and outbox mutation".

Others the models admit, which no property denies:

- `cancel` reads the status and writes later; an e-mail accepted in between is
  shown as canceled (`email-service.ts:703`; docs/compatibility.md:10 "queued or
  scheduled only").
- docs/architecture.md:80-84 and :228-229 say that, when a worker stops between the
  provider's acceptance and the record of it, "a later retry can produce a duplicate".
  By the code it cannot: the open attempt leaves the recipients in sending, and
  `planAttemptStart` begins another attempt only with queued ones
  (`recipient-ledger.ts`), so that the e-mail stays in sending and is not submitted
  again. `DuplicatesAreRetries` shows it with lost workers; what the documents say is
  a possibility, which no run can violate.
- `processSend` reads the schedule and the suppression list several awaits before
  the submission (`email-service.ts:821`, `:826`); docs/architecture.md:48 says a newly
  suppressed recipient "cannot be delivered".
- The DynamoDB claim stores the receive count, so that a second message for one
  e-mail starts the count again (`dynamo-store.ts:1143`; docs/architecture.md:54).
- `lease` of the PostgreSQL queue does not compare `max_attempts`
  (`postgres-job-queue.ts:187`).
- On the portable queue a corrective job beyond the delay limit is received ahead of
  the schedule and collides with its successor, which has its identity; so does the one
  of a second reschedule. The job in hand is then acknowledged and no other is left
  (`email-scheduler.ts:64`).
- On AWS, a second reschedule that fails between the deletion of the schedule and
  the enqueue, or a late outbox wake-up of another request, leaves a dispatched
  e-mail without a wake-up (`email-scheduler.ts:138`, `email-service.ts:772`).
- On D1 an expired idempotency claim is neither replayed nor replaced
  (`d1-delivery-store.ts:1197`).
- A late duplicate of a webhook job writes over a delivery that succeeded
  (`webhook-service.ts:379`).
- On DynamoDB endpoints are listed through GSI1, eventually consistent
  (`dynamo-store.ts:2682`): one created or enabled just before a publication may be
  missed by it. `PublicationReachesAll` is about endpoints whose last change the listing
  showed when the publication began.
- A process lost between the record of a webhook delivery and its job leaves a pending
  record that nobody drives (`webhook-service.ts:413`); `UnfinishedIsDriven` excepts it.
- A message that Cloudflare Queues retries after 30 s finds the send lease of 120 s
  still live and is acknowledged: the e-mail of a lost run stays in sending
  (`queues-job-queue.ts:124`). `QueuedCanBeSent` is about queued e-mail.
- The Cloudflare event consumer acknowledges a report whose commit gave up with a
  conflict (`email-sending-events.ts:243`); `AcknowledgedIsRecorded` excepts it.
- On DynamoDB a verification under way brings a deleted domain back
  (`dynamo-store.ts:2576`); `AcknowledgementsHold` excepts a deletion answered while the
  verification is between its read and its put, and nothing else.
- Reschedules of 30 days each can be chained past the 45 days for which the bucket
  keeps attachments; `AttachmentsArrive` is about e-mail that was not moved.
- After a Cloudflare cleanup whose object deletion or key query failed, the
  database with the only list of keys is deleted, so that a retry cannot empty the
  bucket (`cli-cloudflare-deploy.ts:1032`). It does not report itself complete.
- A first AWS deployment lost before its change set was executed leaves the stack
  in REVIEW_IN_PROGRESS, which neither `deploy` nor `cleanup` accepts.
- A canary prints `terminal_event_match` for equal events that are not final
  (`cli-resend-migration.ts:955`); `GoIsEarned` shows that the report does not rest on it.
- A seed of the backup proof that fails before it knows the outbox identity deletes
  the upload record only (`backup-restore-proof.ts:730`), unlike the hosted proof;
  `EvidenceIsHonest` excepts what the seed does not know. And the e-mail shows as
  sent before its job is completed, so that a proof may fail although nothing is
  wrong (`hosted-proof.ts:766`).
- When a migration's connection is lost, the unlock in the `finally` block throws and
  the client is not released (`postgres-migrations.ts:272`).

## 7. Plan

Modelled and checked: everything section 2 lists. Proved: every safety property the
passing runs check (section 4). Left: liveness, which stays with TLC.
