---------------------------- MODULE PortableSend ----------------------------
(***************************************************************************)
(* The send path of a portable deployment: EmailDelivery driven by its     *)
(* outbox item and by the send_email jobs of the PostgreSQL queue, instead *)
(* of by the general at-least-once queue EmailDelivery assumes.            *)
(*                                                                         *)
(* Two jobs can be published for an e-mail, each under one identity for    *)
(* life (jobIdentity in src/src/core/job-envelope.ts): "item", the job of  *)
(* its outbox item, and "direct", the corrective job of                    *)
(* QueueEmailScheduler.rescheduleDelivery                                  *)
(* (src/src/adapters/email-scheduler.ts).  reconcile_outbox jobs only hurry *)
(* the outbox on and are left out.  PortableWorker and Outbox have the     *)
(* details of leases and sweeps that are condensed here: a worker stands   *)
(* for one process with one handle, which crashes but does not stall.      *)
(***************************************************************************)
EXTENDS EmailDelivery

CONSTANTS
    JobLease,      \* lease_seconds of the worker
    RetryDelay,    \* retry_delay_seconds
    OutboxLease,   \* lease_seconds of the outbox
    MaxDelay,      \* the 900 s delaySecondsUntil is capped at
    MaxCalls,      \* bound on API calls that change something
    MaxLost        \* bound on processes, and answers to a sweep, that are lost

ASSUME PortableSendAssumption ==
    /\ "none" \notin Workers
    /\ JobLease \in Nat /\ JobLease > 1
    /\ RetryDelay \in Nat
    /\ OutboxLease \in Nat \ {0}
    /\ MaxDelay \in Nat \ {0}
    /\ MaxCalls \in Nat
    /\ MaxLost \in Nat

VARIABLES
    item,    \* the outbox item: pending, leased by a lost sweep, dispatched
    due,     \* when it can be leased: its due_at or the end of its lease
    jobs,    \* the rows of the two jobs
    held,    \* the job a worker holds
    fix,     \* the schedule a worker has still to enqueue a corrective job for
    wake,    \* what is left of a reschedule request after its store update
    calls,   \* such calls so far
    lost     \* such losses so far

queue == <<item, due, jobs, held, fix, wake, calls, lost>>

allVars == <<vars, queue>>

JobIds == {"item", "direct"}

NoRow == [state |-> "absent", at |-> 0, owner |-> "none", until |-> 0, n |-> 0]

\* A completed or failed row holds no lease; it is not leased again, so its
\* other columns are of no more interest.
Settled(row, state) ==
    [row EXCEPT !.state = state, !.at = 0, !.n = 0, !.owner = "none", !.until = 0]

NoWake == [step |-> "none", at |-> 0, from |-> 0]

\* enqueue of a deterministic identity.
Enqueued(js, id, at) ==
    IF js[id].state = "absent"
      THEN [js EXCEPT ![id] = [NoRow EXCEPT !.state = "live", !.at = at]]
    ELSE IF js[id].state = "live" /\ at < js[id].at
      THEN [js EXCEPT ![id].at = at]
    ELSE js

\* enqueue with a delay of delaySecondsUntil(at, from), which is capped.
DelayedUntil(at, from) ==
    now + IF secondsUntil(at, from) > MaxDelay THEN MaxDelay
                                               ELSE secondsUntil(at, from)

PipelineInit ==
    /\ Init
    /\ item = IF email.status = "suppressed" THEN "dispatched" ELSE "pending"
    /\ due = IF email.scheduled_at = 0 THEN now ELSE email.scheduled_at
    /\ jobs = [id \in JobIds |-> NoRow]
    /\ held = [w \in Workers |-> "none"]
    /\ fix = [w \in Workers |-> 0]
    /\ wake = [c \in Clients |-> NoWake]
    /\ calls = 0
    /\ lost = 0

-----------------------------------------------------------------------------
Lose == lost < MaxLost /\ lost' = lost + 1

\* A sweep publishes the due item; its acknowledgement may get lost, and the
\* item is then published again once its lease has expired.
PublishItem ==
    /\ item # "dispatched"
    /\ due <= now
    /\ jobs' = Enqueued(jobs, "item", now)
    /\ \/ item' = "dispatched" /\ UNCHANGED <<due, lost>>
       \/ item' = "leased" /\ due' = now + OutboxLease /\ Lose
    /\ UNCHANGED <<vars, held, fix, wake, calls>>

Leasable(id) ==
    /\ jobs[id].state = "live"
    /\ jobs[id].at <= now
    /\ jobs[id].owner = "none" \/ jobs[id].until <= now

\* Mutant: the attempts before this lease are passed on.
ReceiveJob_ZeroBased(w, id) ==
    /\ Leasable(id)
    /\ held[w] = "none"
    /\ LoadEmail(w, jobs[id].n)
    /\ jobs' = [jobs EXCEPT ![id].owner = w, ![id].until = now + JobLease,
                            ![id].n = @ + 1]
    /\ held' = [held EXCEPT ![w] = id]
    /\ fix' = [fix EXCEPT ![w] = 0]
    /\ UNCHANGED <<item, due, wake, calls, lost>>

\* lease, and the first step of processSend with the row's attempt count.
ReceiveJob(w, id) ==
    /\ Leasable(id)
    /\ held[w] = "none"
    /\ LoadEmail(w, jobs[id].n + 1)
    /\ jobs' = [jobs EXCEPT ![id].owner = w, ![id].until = now + JobLease,
                            ![id].n = @ + 1]
    /\ held' = [held EXCEPT ![w] = id]
    /\ fix' = [fix EXCEPT ![w] =
                 IF email.status \notin FINAL_STATUSES
                   /\ email.scheduled_at > now THEN email.scheduled_at ELSE 0]
    /\ UNCHANGED <<item, due, wake, calls, lost>>

\* rescheduleDelivery for an e-mail that was loaded ahead of its schedule.
\* A call that is to end in "threw" is one whose enqueue throws.
Corrective(w) ==
    /\ fix[w] > 0
    /\ jobs' = IF worker[w].pc = "returned"
                 THEN Enqueued(jobs, "direct", DelayedUntil(fix[w], now)) ELSE jobs
    /\ fix' = [fix EXCEPT ![w] = 0]
    /\ UNCHANGED <<vars, item, due, held, wake, calls, lost>>

\* The rest of processSend.
RunJob(w) ==
    /\ fix[w] = 0
    /\ \/ FindSuppressed(w)
       \/ SuppressEmail(w)
       \/ ClaimEmailForSend(w)
       \/ ReadLedger(w)
       \/ BeginDeliveryAttempt(w)
       \/ \E outcome \in Outcome : Submit(w, outcome)
       \/ CompleteDeliveryAttempt(w)
    /\ UNCHANGED queue

Owned(w) ==
    jobs[held[w]].state = "live" /\ jobs[held[w]].owner = w

\* acknowledge, or recordFailure with a retryable or a permanent error.
Settle(w) ==
    /\ fix[w] = 0
    /\ held[w] # "none"
    /\ Finish(w)
    /\ \/ /\ Owned(w)
          /\ worker[w].pc = "returned"
          /\ jobs' = [jobs EXCEPT ![held[w]] = Settled(@, "completed")]
       \/ /\ Owned(w)
          /\ worker[w].pc = "threw"
          /\ \/ jobs' = [jobs EXCEPT ![held[w]] = Settled(@, "failed")]
             \/ jobs' = [jobs EXCEPT ![held[w]] =
                           [@ EXCEPT !.owner = "none", !.until = 0,
                                     !.at = now + RetryDelay]]
       \/ ~Owned(w) /\ UNCHANGED jobs
    /\ held' = [held EXCEPT ![w] = "none"]
    /\ UNCHANGED <<item, due, fix, wake, calls, lost>>

\* The heartbeat of half the lease.
Heartbeat(w) ==
    /\ held[w] # "none"
    /\ Owned(w)
    /\ jobs[held[w]].until < now + JobLease
    /\ 2 * (jobs[held[w]].until - now) <= JobLease
    /\ jobs' = [jobs EXCEPT ![held[w]].until = now + JobLease]
    /\ UNCHANGED <<vars, item, due, held, fix, wake, calls, lost>>

LoseWorker(w) ==
    /\ Lose
    /\ Crash(w)
    /\ held' = [held EXCEPT ![w] = "none"]
    /\ fix' = [fix EXCEPT ![w] = 0]
    /\ UNCHANGED <<item, due, jobs, wake, calls>>

-----------------------------------------------------------------------------
\* reschedule: the store update.  The outbox item is moved with the e-mail
\* while it is pending and not leased; otherwise rescheduleDelivery follows.
RescheduleStore(c) ==
    /\ wake[c] = NoWake
    /\ \E withOutbox \in BOOLEAN :
         /\ IF withOutbox THEN item = "pending"
                          ELSE item # "pending" \/ due <= now
         /\ RescheduleApply(c, withOutbox)
         /\ LET applied == email.status \in Pending
            IN  /\ due' = IF applied /\ withOutbox THEN client[c].at ELSE due
                /\ wake' = IF applied /\ ~withOutbox
                             THEN [wake EXCEPT ![c] =
                                   [step |-> "schedule", at |-> client[c].at,
                                    from |-> now]]
                             ELSE wake
    /\ UNCHANGED <<item, jobs, held, fix, calls, lost>>

\* Then rescheduleDelivery, and once more if the schedule has been changed
\* meanwhile.
RescheduleWake(c) ==
    /\ \/ /\ wake[c].step = "schedule"
          /\ jobs' = Enqueued(jobs, "direct", DelayedUntil(wake[c].at, wake[c].from))
          /\ wake' = [wake EXCEPT ![c].step = "verify"]
       \/ /\ wake[c].step = "verify"
          /\ jobs' = IF email.status = "scheduled" /\ email.scheduled_at # wake[c].at
                       THEN Enqueued(jobs, "direct", DelayedUntil(email.scheduled_at, now))
                       ELSE jobs
          /\ wake' = [wake EXCEPT ![c] = NoWake]
    /\ UNCHANGED <<vars, item, due, held, fix, calls, lost>>

\* The API process is lost, or enqueue throws, after the store update.
RescheduleLost(c) ==
    /\ Lose
    /\ wake[c] # NoWake
    /\ wake' = [wake EXCEPT ![c] = NoWake]
    /\ UNCHANGED <<vars, item, due, jobs, held, fix, calls>>

Call == calls < MaxCalls /\ calls' = calls + 1

Request(c) ==
    /\ wake[c] = NoWake
    /\ \/ Call /\ CancelRead(c)
       \/ CancelApply(c) /\ UNCHANGED calls
       \/ Call /\ \E at \in 1..MaxNow : RescheduleRead(c, at)
    /\ UNCHANGED <<item, due, jobs, held, fix, wake, lost>>

SuppressionChange ==
    /\ Call
    /\ \E r \in Recipients : PutSuppression(r) \/ DeleteSuppression(r)
    /\ UNCHANGED <<item, due, jobs, held, fix, wake, lost>>

\* A heartbeat comes in time.
PassTime ==
    /\ Tick
    /\ \A w \in Workers :
         held[w] # "none" /\ Owned(w) => 2 * (jobs[held[w]].until - now) > JobLease
    /\ UNCHANGED queue

PipelineNext ==
    \/ PublishItem
    \/ \E w \in Workers :
         \/ \E id \in JobIds : ReceiveJob(w, id)
         \/ Corrective(w)
         \/ RunJob(w)
         \/ Settle(w)
         \/ Heartbeat(w)
         \/ LoseWorker(w)
    \/ \E c \in Clients :
         \/ Request(c)
         \/ RescheduleStore(c)
         \/ RescheduleWake(c)
         \/ RescheduleLost(c)
    \/ SuppressionChange
    \/ PassTime

PipelineSpec == PipelineInit /\ [][PipelineNext]_allVars

-----------------------------------------------------------------------------
\* Something will still act on the e-mail: its outbox item, a job that is
\* queued, running or isolated as failed, or a request in mid-flight.  A
\* submission whose worker was lost is open for ever, by design: it is
\* "ambiguous" and left to the operator (docs/operations.md).
Driven ==
    \/ item # "dispatched"
    \/ \E id \in JobIds : jobs[id].state \in {"live", "failed"}
    \/ \E c \in Clients : wake[c].step = "schedule"
    \/ \E i \in DOMAIN attempts : attempts[i].status = "submitting"

\* The queue and its workers only ever do what EmailDelivery allows its
\* general at-least-once queue, so what is proved of EmailDelivery holds here.
ImplementsEmailDelivery == Spec

\* "Recovers expired leases after process loss" (docs/portable-postgres.md):
\* an e-mail claimed by a worker that was lost is still going to be sent.
SendingIsDriven == email.status = "sending" => Driven

\* "... creates a corrective direct job instead of reviving an acknowledged
\* outbox row" (docs/delivery-model.md): an e-mail waiting for its time is
\* still going to be sent.
ScheduledIsDriven == email.status \in Pending => Driven

\* Between them: an e-mail that is not final is never left to nobody, however
\* losses, retries, reschedules and cancellations interleave.
UnsentIsDriven == SendingIsDriven /\ ScheduledIsDriven
=============================================================================
