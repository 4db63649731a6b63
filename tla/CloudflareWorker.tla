--------------------------- MODULE CloudflareWorker ---------------------------
(* The Worker of a Cloudflare deployment: intake puts an e-mail's payload   *)
(* into R2 and then commits its records to D1; the queue consumers process, *)
(* retry and recover its jobs; the cron trigger sweeps the outbox and the   *)
(* payloads no record refers to.  Every intake makes a key of its own, so   *)
(* that key and e-mail are one here.                                        *)
(*                                                                          *)
(* Queues is external: at least once, a retry counts the delivery, and a    *)
(* message out of retries moves to the dead-letter queue, whose own messages *)
(* are dropped when they run out.                                           *)
EXTENDS Naturals, FiniteSets

CONSTANTS Payloads,       \* keys, numbers for R2's order of listing
          Sweepers,       \* overlapping runs of the cron trigger
          OrphanAge,      \* DEFAULT_ORPHAN_RETENTION_SECONDS
          InvocationTime, \* how long a request or a cron run lasts at most
          PageSize,       \* objects a sweep lists
          QueueRetries,   \* max_retries of the consumers
          MaxSubmits,    \* attempts of an e-mail
          LastHour, MaxWorkerFaults

ASSUME WorkerAssumption ==
    InvocationTime \in Nat /\ OrphanAge \in Nat /\ 2 * InvocationTime < OrphanAge

VARIABLES hour,
          object,    \* key -> is it in the bucket, and since when
          posting,   \* key -> the step of its intake
          mailbox,   \* key -> status, attempts and outbox item of the e-mail
          jobs,      \* messages of the primary and the dead-letter queue
          sweep,     \* sweeper -> what it has read
          dropped,   \* e-mails whose job ran out of retries in both queues
          workerFaults

wkVars == <<hour, object, posting, mailbox, jobs, sweep, dropped, workerFaults>>

NoPayload == [there |-> FALSE, since |-> 0]
NoMailbox == [status |-> "none", attempts |-> 0, item |-> "none"]
NoSweep == [step |-> "idle", since |-> 0, referenced |-> {}, doomed |-> {}]

WkInit ==
    /\ hour = 0
    /\ object = [k \in Payloads |-> NoPayload]
    /\ posting = [k \in Payloads |-> "idle"]
    /\ mailbox = [k \in Payloads |-> NoMailbox]
    /\ jobs = {}
    /\ sweep = [s \in Sweepers |-> NoSweep]
    /\ dropped = {} /\ workerFaults = 0

WorkerFault == workerFaults < MaxWorkerFaults /\ workerFaults' = workerFaults + 1

\* Neither a request nor a cron run outlives InvocationTime.
HourPasses ==
    /\ hour < LastHour
    /\ \A k \in Payloads : posting[k] = "put" => hour < object[k].since + InvocationTime
    /\ \A s \in Sweepers : sweep[s].step # "idle" => hour < sweep[s].since + InvocationTime
    /\ hour' = hour + 1
    /\ UNCHANGED <<object, posting, mailbox, jobs, sweep, dropped, workerFaults>>

----------------------------------------------------------------------------
(* POST /emails.                                                            *)

\* externalizeEmail: the key is new, so that the put cannot find an object.
PutPayload(k) ==
    /\ posting[k] = "idle"
    /\ object' = [object EXCEPT ![k] = [there |-> TRUE, since |-> hour]]
    /\ posting' = [posting EXCEPT ![k] = "put"]
    /\ UNCHANGED <<hour, mailbox, jobs, sweep, dropped, workerFaults>>

\* commitDelivery: one batch inserts the e-mail, its ledger and its outbox item.
CommitRecords(k) ==
    /\ posting[k] = "put"
    /\ mailbox' = [mailbox EXCEPT ![k] = [status |-> "queued", attempts |-> 0, item |-> "pending"]]
    /\ posting' = [posting EXCEPT ![k] = "done"]
    /\ UNCHANGED <<hour, object, jobs, sweep, dropped, workerFaults>>

\* The batch fails, or another request has the idempotency key: the payload
\* is an orphan.
CommitFails(k) ==
    /\ posting[k] = "put"
    /\ posting' = [posting EXCEPT ![k] = "done"]
    /\ UNCHANGED <<hour, object, mailbox, jobs, sweep, dropped, workerFaults>>

----------------------------------------------------------------------------
(* The queues.                                                              *)

Job(k, n, q) == [key |-> k, tries |-> n, queue |-> q]

\* outbox.sweep, from the cron trigger or a reconcile_outbox job: the item is
\* acknowledged after the send, or the sweep is lost in between.
PublishJob(k, lost) ==
    /\ mailbox[k].item = "pending"
    /\ jobs' = jobs \cup {Job(k, 1, "primary")}
    /\ IF lost THEN WorkerFault /\ UNCHANGED mailbox
       ELSE mailbox' = [mailbox EXCEPT ![k].item = "dispatched"] /\ UNCHANGED workerFaults
    /\ UNCHANGED <<hour, object, posting, sweep, dropped>>

\* claimEmailForSend: not a live lease, nor a final status.
Claimed(k) == mailbox[k].status \in {"queued", "expired"}

Ack(m) == jobs' = jobs \ {m}

\* message.retry: the next delivery, or the dead-letter queue.
Retried(m) ==
    (jobs \ {m}) \cup {IF m.tries <= QueueRetries THEN [m EXCEPT !.tries = @ + 1]
                       ELSE Job(m.key, 1, "dead")}

Attempt(k, m) == IF mailbox[k].attempts + 1 > m.tries THEN mailbox[k].attempts + 1 ELSE m.tries

\* processSend to its end: the outcome of the provider, and whether the error
\* can be retried.
ProcessJob(m, outcome) ==
    LET k == m.key  n == Attempt(k, m)
        failsForGood == outcome = "refused" \/ n >= MaxSubmits
    IN  /\ m \in jobs /\ m.queue = "primary" /\ Claimed(k)
        /\ object[k].there
        /\ mailbox' = [mailbox EXCEPT ![k].attempts = n,
             ![k].status = IF outcome = "accepted" THEN "sent"
                           ELSE IF failsForGood THEN "failed" ELSE "queued"]
        /\ IF outcome = "accepted" \/ failsForGood THEN Ack(m) ELSE jobs' = Retried(m)
        /\ UNCHANGED <<hour, object, posting, sweep, dropped, workerFaults>>

\* Nothing to claim: the e-mail is final, or another run holds the lease.
SkipJob(m) ==
    /\ m \in jobs /\ m.queue = "primary" /\ ~Claimed(m.key)
    /\ Ack(m)
    /\ UNCHANGED <<hour, object, posting, mailbox, sweep, dropped, workerFaults>>

\* An error before the claim, or a lost run: the message comes back.
JobThrows(m) ==
    /\ m \in jobs /\ m.queue = "primary" /\ WorkerFault
    /\ jobs' = Retried(m)
    /\ UNCHANGED <<hour, object, posting, mailbox, sweep, dropped>>

\* The run is lost after the claim, or cannot read the payload: the lease stays.
JobLostAfterClaim(m) ==
    /\ m \in jobs /\ m.queue = "primary" /\ Claimed(m.key) /\ WorkerFault
    /\ mailbox' = [mailbox EXCEPT ![m.key].status = "sending",
                                  ![m.key].attempts = Attempt(m.key, m)]
    /\ jobs' = Retried(m)
    /\ UNCHANGED <<hour, object, posting, sweep, dropped>>

LeaseExpires(k) ==
    /\ mailbox[k].status = "sending"
    /\ mailbox' = [mailbox EXCEPT ![k].status = "expired"]
    /\ UNCHANGED <<hour, object, posting, jobs, sweep, dropped, workerFaults>>

\* recoverCloudflareDeadLetterBatch: the job is sent again, then acknowledged;
\* a run lost in between sends it twice.
RecoverJob(m, lost) ==
    /\ m \in jobs /\ m.queue = "dead"
    /\ IF lost THEN WorkerFault /\ jobs' = jobs \cup {Job(m.key, 1, "primary")}
       ELSE /\ jobs' = (jobs \ {m}) \cup {Job(m.key, 1, "primary")}
            /\ UNCHANGED workerFaults
    /\ UNCHANGED <<hour, object, posting, mailbox, sweep, dropped>>

\* The send fails: a retry, until the message has none left.
RecoverFails(m) ==
    /\ m \in jobs /\ m.queue = "dead" /\ WorkerFault
    /\ jobs' = IF m.tries <= QueueRetries
               THEN (jobs \ {m}) \cup {[m EXCEPT !.tries = @ + 1]} ELSE jobs \ {m}
    /\ dropped' = IF m.tries <= QueueRetries THEN dropped ELSE dropped \cup {m.key}
    /\ UNCHANGED <<hour, object, posting, mailbox, sweep>>

----------------------------------------------------------------------------
(* The sweep of orphans.                                                    *)

ReadReferences(s) ==
    /\ sweep[s].step = "idle"
    /\ sweep' = [sweep EXCEPT ![s] =
         [step |-> "list", since |-> hour, doomed |-> {},
          referenced |-> {k \in Payloads : mailbox[k].status # "none"}]]
    /\ UNCHANGED <<hour, object, posting, mailbox, jobs, dropped, workerFaults>>

InBucket == {k \in Payloads : object[k].there}
FirstPage == {k \in InBucket : Cardinality({j \in InBucket : j < k}) < PageSize}

\* Mutant: every payload without a reference is an orphan, however new.
OldEnough_Any(k) == TRUE

\* Both the upload and the time to retain it lie OrphanAge back.
OldEnough(k) == object[k].since + OrphanAge <= hour

ListOrphans(s) ==
    /\ sweep[s].step = "list"
    /\ sweep' = [sweep EXCEPT ![s].step = "delete",
         ![s].doomed = {k \in FirstPage \ sweep[s].referenced : OldEnough(k)}]
    /\ UNCHANGED <<hour, object, posting, mailbox, jobs, dropped, workerFaults>>

\* The objects are deleted, or the run is lost before.
DeleteOrphans(s, lost) ==
    /\ sweep[s].step = "delete"
    /\ sweep' = [sweep EXCEPT ![s] = NoSweep]
    /\ IF lost THEN WorkerFault /\ UNCHANGED object
       ELSE /\ object' = [k \in Payloads |-> IF k \in sweep[s].doomed
                                             THEN [object[k] EXCEPT !.there = FALSE] ELSE object[k]]
            /\ UNCHANGED workerFaults
    /\ UNCHANGED <<hour, posting, mailbox, jobs, dropped>>

WkNext ==
    \/ HourPasses
    \/ \E k \in Payloads :
         \/ PutPayload(k)
         \/ CommitRecords(k)
         \/ CommitFails(k)
         \/ \E lost \in BOOLEAN : PublishJob(k, lost)
         \/ LeaseExpires(k)
    \/ \E m \in jobs :
         \/ \E outcome \in {"accepted", "refused", "transient"} : ProcessJob(m, outcome)
         \/ SkipJob(m)
         \/ JobThrows(m)
         \/ JobLostAfterClaim(m)
         \/ \E lost \in BOOLEAN : RecoverJob(m, lost)
         \/ RecoverFails(m)
    \/ \E s \in Sweepers :
         \/ ReadReferences(s)
         \/ ListOrphans(s)
         \/ \E lost \in BOOLEAN : DeleteOrphans(s, lost)

WkSpec == WkInit /\ [][WkNext]_wkVars

----------------------------------------------------------------------------
(* An accepted e-mail that is still to be sent can be sent: its payload is in *)
(* R2, whatever sweeps overlap its intake, and, while no run was lost with    *)
(* its lease, an outbox item or a message leads to it, through retries, the   *)
(* dead-letter queue and its recovery.  A job that ran out of retries in both *)
(* queues is excepted.                                                        *)
QueuedCanBeSent ==
    \A k \in Payloads :
      /\ mailbox[k].status \in {"queued", "sending", "expired"} => object[k].there
      /\ mailbox[k].status = "queued" /\ k \notin dropped =>
           mailbox[k].item = "pending" \/ \E m \in jobs : m.key = k
=============================================================================
