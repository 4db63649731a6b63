------------------------------ MODULE AwsSend ------------------------------
(***************************************************************************)
(* The send path of an AWS deployment: EmailDelivery driven by its outbox  *)
(* item, by send_email messages on an SQS queue and by the one EventBridge *)
(* schedule of the e-mail (AwsEmailScheduler in                            *)
(* src/src/adapters/email-scheduler.ts, whose rescheduleDelivery is the    *)
(* corrective path), with processWorkerEvent (src/src/aws/worker.ts) as    *)
(* the job handler.                                                        *)
(*                                                                         *)
(* SQS and EventBridge Scheduler are external: a message stays until it is *)
(* deleted, is hidden for the visibility timeout when it is received, and  *)
(* moves to the dead-letter queue after maxReceiveCount receives.          *)
(* reconcile_outbox messages only hurry the outbox on and are left out.    *)
(***************************************************************************)
EXTENDS EmailDelivery

CONSTANTS
    Messages,      \* bound on the messages in the queue at once
    Visibility,    \* VisibilityTimeout, 180 s
    RunLimit,      \* the time-out of the worker function, 30 s
    MaxReceives,   \* largest maxReceiveCount
    OutboxLease,   \* lease_seconds of the outbox
    NearDelay,     \* MAX_SQS_DELAY_SECONDS
    MaxCalls,      \* bound on API calls that change something
    MaxFailures    \* bound on scheduler calls of the API that fail

ASSUME AwsSendAssumption ==
    /\ "none" \notin Messages
    /\ RunLimit \in Nat \ {0}
    /\ Visibility \in Nat
    /\ MaxReceives \in Nat \ {0}
    /\ OutboxLease \in Nat \ {0}
    /\ NearDelay \in Nat
    /\ MaxCalls \in Nat
    /\ MaxFailures \in Nat

VARIABLES
    item,      \* the outbox item: pending, leased by a lost sweep, dispatched
    due,       \* when it can be leased: its due_at or the end of its lease
    msgs,      \* the messages of the job queue
    schedule,  \* when the EventBridge schedule publishes its job; 0 for none
    held,      \* the message a worker was invoked with
    got,       \* when it was received
    fix,       \* the schedule a worker has still to enqueue a corrective job for
    wake,      \* what is left of a reschedule request after its store update
    calls,     \* such calls so far
    failures,  \* failed scheduler calls of the API so far
    limit      \* maxReceiveCount of this deployment

queue == <<item, due, msgs, schedule, held, got, fix, wake, calls, failures,
           limit>>

allVars == <<vars, queue>>

NoMessage == [state |-> "absent", at |-> 0, n |-> 0]

NoWake == [step |-> "none", at |-> 0, from |-> 0]

PipelineInit ==
    /\ Init
    /\ item = IF email.status = "suppressed" THEN "dispatched" ELSE "pending"
    /\ due = IF email.scheduled_at = 0 THEN now ELSE email.scheduled_at
    /\ msgs = [m \in Messages |-> NoMessage]
    /\ schedule = 0
    /\ held = [w \in Workers |-> "none"]
    /\ got = [w \in Workers |-> 0]
    /\ fix = [w \in Workers |-> 0]
    /\ wake = [c \in Clients |-> NoWake]
    /\ calls = 0
    /\ failures = 0
    /\ limit \in 1..MaxReceives

-----------------------------------------------------------------------------
\* SendMessage with a delay.
SendMessage(at) ==
    \E m \in Messages :
        /\ msgs[m].state = "absent"
        /\ msgs' = [msgs EXCEPT ![m] = [state |-> "live", at |-> at, n |-> 0]]

PublishItem ==
    /\ item # "dispatched"
    /\ due <= now
    /\ SendMessage(now)
    /\ \/ item' = "dispatched" /\ UNCHANGED due
       \/ item' = "leased" /\ due' = now + OutboxLease
    /\ UNCHANGED <<vars, schedule, held, got, fix, wake, calls, failures, limit>>

Receivable(m) == msgs[m].state = "live" /\ msgs[m].at <= now

\* Mutant: the receives before this one are passed on.
ReceiveJob_ZeroBased(w, m) ==
    /\ Receivable(m)
    /\ msgs[m].n < limit
    /\ held[w] = "none"
    /\ LoadEmail(w, msgs[m].n)
    /\ msgs' = [msgs EXCEPT ![m].n = @ + 1, ![m].at = now + Visibility]
    /\ held' = [held EXCEPT ![w] = m]
    /\ got' = [got EXCEPT ![w] = now]
    /\ fix' = [fix EXCEPT ![w] = 0]
    /\ UNCHANGED <<item, due, schedule, wake, calls, failures, limit>>

\* A worker is invoked with the message and takes the first step of
\* processSend, with the receive count for an attempt number.
ReceiveJob(w, m) ==
    /\ Receivable(m)
    /\ msgs[m].n < limit
    /\ held[w] = "none"
    /\ LoadEmail(w, msgs[m].n + 1)
    /\ msgs' = [msgs EXCEPT ![m].n = @ + 1, ![m].at = now + Visibility]
    /\ held' = [held EXCEPT ![w] = m]
    /\ got' = [got EXCEPT ![w] = now]
    /\ fix' = [fix EXCEPT ![w] =
                 IF email.status \notin FINAL_STATUSES
                   /\ email.scheduled_at > now THEN email.scheduled_at ELSE 0]
    /\ UNCHANGED <<item, due, schedule, wake, calls, failures, limit>>

Redrive(m) ==
    /\ Receivable(m)
    /\ msgs[m].n = limit
    /\ msgs' = [msgs EXCEPT ![m] = [NoMessage EXCEPT !.state = "dead"]]
    /\ UNCHANGED <<vars, item, due, schedule, held, got, fix, wake, calls,
                   failures, limit>>

FireSchedule ==
    /\ schedule \in 1..now
    /\ SendMessage(now)
    /\ schedule' = 0
    /\ UNCHANGED <<vars, item, due, held, got, fix, wake, calls, failures, limit>>

Near(at, from) == secondsUntil(at, from) <= NearDelay

\* Mutant: a far time is not scheduled.
rescheduleDelivery_NearOnly(at, from) ==
    /\ schedule' = 0
    /\ IF Near(at, from) THEN SendMessage(now + secondsUntil(at, from))
                         ELSE UNCHANGED msgs

\* A near time is a delayed message and replaces the schedule; a far one is
\* the schedule.
rescheduleDelivery(at, from) ==
    IF Near(at, from)
      THEN schedule' = 0 /\ SendMessage(now + secondsUntil(at, from))
      ELSE schedule' = at /\ UNCHANGED msgs

\* It throws: on the way to a near time the schedule may be gone already.
RescheduleDeliveryThrows(at, from) ==
    /\ \/ UNCHANGED schedule
       \/ Near(at, from) /\ schedule' = 0
    /\ UNCHANGED msgs

Corrective(w) ==
    /\ fix[w] > 0
    /\ \/ worker[w].pc = "returned" /\ rescheduleDelivery(fix[w], now)
       \/ worker[w].pc = "threw" /\ RescheduleDeliveryThrows(fix[w], now)
    /\ fix' = [fix EXCEPT ![w] = 0]
    /\ UNCHANGED <<vars, item, due, held, got, wake, calls, failures, limit>>

RunJob(w) ==
    /\ fix[w] = 0
    /\ \/ FindSuppressed(w)
       \/ SuppressEmail(w)
       \/ ClaimEmailForSend(w)
       \/ ReadLedger(w)
       \/ BeginDeliveryAttempt(w)
       \/ \E outcome \in Outcome : Submit(w, outcome)
       \/ CompleteDeliveryAttempt(w)
    /\ UNCHANGED queue

\* A message that is not among the batchItemFailures is deleted.
Deletes(w) == worker[w].pc = "returned"

Settle(w) ==
    /\ fix[w] = 0
    /\ held[w] # "none"
    /\ Finish(w)
    /\ msgs' = IF Deletes(w) THEN [msgs EXCEPT ![held[w]] = NoMessage] ELSE msgs
    /\ held' = [held EXCEPT ![w] = "none"]
    /\ got' = [got EXCEPT ![w] = 0]
    /\ UNCHANGED <<item, due, schedule, fix, wake, calls, failures, limit>>

\* The function times out or its sandbox is lost.
LoseWorker(w) ==
    /\ Crash(w)
    /\ held' = [held EXCEPT ![w] = "none"]
    /\ got' = [got EXCEPT ![w] = 0]
    /\ fix' = [fix EXCEPT ![w] = 0]
    /\ UNCHANGED <<item, due, msgs, schedule, wake, calls, failures, limit>>

-----------------------------------------------------------------------------
\* reschedule: the store update, with the outbox item while that is pending
\* and not leased.
RescheduleStore(c) ==
    /\ wake[c] = NoWake
    /\ \E withOutbox \in BOOLEAN :
         /\ IF withOutbox THEN item = "pending"
                          ELSE item # "pending" \/ due <= now
         /\ RescheduleApply(c, withOutbox)
         /\ LET applied == email.status \in Pending
            IN  /\ due' = IF applied /\ withOutbox THEN client[c].at ELSE due
                /\ wake' = IF applied
                             THEN [wake EXCEPT ![c] =
                                    [step |-> IF withOutbox THEN "hurry"
                                                            ELSE "schedule",
                                     at |-> client[c].at, from |-> now]]
                             ELSE wake
    /\ UNCHANGED <<item, msgs, schedule, held, got, fix, calls, failures, limit>>

\* A wake-up for the outbox: it takes the name of the e-mail's schedule, and
\* its failure is swallowed.
HurryOutbox == schedule' \in {schedule, 0} /\ UNCHANGED msgs

\* The schedule was changed since the store update.
Outdated(c) == email.status = "scheduled" /\ email.scheduled_at # wake[c].at

\* Then the wake-up for the outbox or, where the item was gone,
\* rescheduleDelivery, and once more if the schedule was changed meanwhile.
RescheduleWake(c) ==
    /\ \/ /\ wake[c].step = "hurry"
          /\ HurryOutbox
          /\ wake' = [wake EXCEPT ![c].step = "hurried"]
       \/ /\ wake[c].step = "schedule"
          /\ rescheduleDelivery(wake[c].at, wake[c].from)
          /\ wake' = [wake EXCEPT ![c].step = "verify"]
       \/ /\ \/ wake[c].step = "hurried" /\ Outdated(c) /\ HurryOutbox
             \/ /\ wake[c].step = "verify"
                /\ Outdated(c)
                /\ rescheduleDelivery(email.scheduled_at, now)
             \/ /\ wake[c].step \in {"hurried", "verify"}
                /\ ~Outdated(c)
                /\ UNCHANGED <<schedule, msgs>>
          /\ wake' = [wake EXCEPT ![c] = NoWake]
    /\ UNCHANGED <<vars, item, due, held, got, fix, calls, failures, limit>>

\* The API function is lost, or rescheduleDelivery throws.
RescheduleLost(c) ==
    /\ failures < MaxFailures
    /\ failures' = failures + 1
    /\ \/ /\ wake[c].step = "schedule"
          /\ RescheduleDeliveryThrows(wake[c].at, wake[c].from)
       \/ /\ wake[c].step = "verify"
          /\ Outdated(c)
          /\ RescheduleDeliveryThrows(email.scheduled_at, now)
       \/ /\ wake[c].step \in {"hurry", "hurried", "verify"}
          /\ UNCHANGED <<schedule, msgs>>
    /\ wake' = [wake EXCEPT ![c] = NoWake]
    /\ UNCHANGED <<vars, item, due, held, got, fix, calls, limit>>

Call == calls < MaxCalls /\ calls' = calls + 1

Request(c) ==
    /\ wake[c] = NoWake
    /\ \/ Call /\ CancelRead(c) /\ UNCHANGED schedule
       \/ /\ CancelApply(c)
          /\ schedule' = IF CanChangeLocally(attempts, rcpt) THEN 0 ELSE schedule
          /\ UNCHANGED calls
       \/ /\ Call
          /\ \E at \in 1..MaxNow : RescheduleRead(c, at)
          /\ UNCHANGED schedule
    /\ UNCHANGED <<item, due, msgs, held, got, fix, wake, failures, limit>>

SuppressionChange ==
    /\ Call
    /\ \E r \in Recipients : PutSuppression(r) \/ DeleteSuppression(r)
    /\ UNCHANGED <<item, due, msgs, schedule, held, got, fix, wake, failures,
                   limit>>

\* No invocation outlives the function's time-out.
PassTime ==
    /\ Tick
    /\ \A w \in Workers : held[w] # "none" => now < got[w] + RunLimit
    /\ UNCHANGED queue

PipelineNext ==
    \/ PublishItem
    \/ \E m \in Messages : Redrive(m)
    \/ FireSchedule
    \/ \E w \in Workers :
         \/ \E m \in Messages : ReceiveJob(w, m)
         \/ Corrective(w)
         \/ RunJob(w)
         \/ Settle(w)
         \/ LoseWorker(w)
    \/ \E c \in Clients :
         \/ Request(c)
         \/ RescheduleStore(c)
         \/ RescheduleWake(c)
         \/ RescheduleLost(c)
    \/ SuppressionChange
    \/ PassTime

PipelineSpec == PipelineInit /\ [][PipelineNext]_allVars

-----------------------------------------------------------------------------
\* Something will still act on the e-mail: its outbox item, its schedule, a
\* message that is queued, in flight or in the dead-letter queue, or a request
\* that has not yet called rescheduleDelivery.  A submission whose worker was
\* lost stays open, by design.
Driven ==
    \/ item # "dispatched"
    \/ schedule > 0
    \/ \E m \in Messages : msgs[m].state # "absent"
    \/ \E c \in Clients : wake[c].step = "schedule"
    \/ \E i \in DOMAIN attempts : attempts[i].status = "submitting"

\* A claimed e-mail is in somebody's hands: the visibility timeout outlives
\* the worker function and the send lease together, so that the message of a
\* lost worker comes back when the e-mail can be claimed again.
SendingIsDriven == email.status = "sending" => Driven

\* "The scheduler is never delivery truth" (README.md) and "the periodic
\* dispatcher recovers the due row without a client replay"
\* (docs/architecture.md): an e-mail waiting for its time is still going to
\* be sent.  It takes reschedules not to fail or overlap more than once: the
\* run has one of them.
ScheduledIsDriven == email.status \in Pending => Driven

\* Between them: an e-mail that is not final is never left to nobody, however
\* losses, retries, reschedules and cancellations interleave.
UnsentIsDriven == SendingIsDriven /\ ScheduledIsDriven

\* SQS and its workers only ever do what EmailDelivery allows its general
\* at-least-once queue.
ImplementsEmailDelivery == Spec
=============================================================================
