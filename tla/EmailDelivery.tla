--------------------------- MODULE EmailDelivery ---------------------------
(***************************************************************************)
(* One committed e-mail, from commitDelivery to its last provider event:   *)
(* EmailService.processSend, cancel, reschedule and applyProviderEvent     *)
(* (src/src/services/email-service.ts) over the delivery store, whose      *)
(* operations are atomic (src/src/adapters/memory-store.ts, and row-locked *)
(* transactions in src/src/adapters/postgres/postgres-delivery-store.ts).  *)
(*                                                                         *)
(* Every await of a handler is an interleaving point: each store call, the *)
(* suppression look-up and the provider call is a step of its own, and a   *)
(* worker process may be lost between any two of them.                     *)
(*                                                                         *)
(* The job environment is the most general at-least-once queue: an idle    *)
(* worker may be handed the e-mail's job at any moment, any number of      *)
(* times, with any receive count.  PortableSend and AwsSend put the actual *)
(* queues in its place.                                                    *)
(*                                                                         *)
(* Times are clock readings; 0 stands for an absent timestamp.             *)
(***************************************************************************)
EXTENDS RecipientLedger, Sequences, FiniteSets

CONSTANTS
    Workers,        \* processes that run processSend
    Clients,        \* concurrent API requests
    EventIds,       \* identities of the provider events that can arrive
    SendLease,      \* the 120 s of send_lease_until
    MaxNow,         \* bound on the clock
    ReceiveCounts,  \* the receive counts a job may be handed over with
    MaxSends,       \* the 3 of finalAttempt
    ClaimRule       \* "increment" (memory, PostgreSQL) or "receive_count"
                    \* (DynamoDB): how claimEmailForSend counts attempts

ASSUME EmailDeliveryAssumption ==
    /\ SendLease \in Nat \ {0}
    /\ MaxNow \in Nat \ {0}
    /\ ReceiveCounts \subseteq Nat \ {0}
    /\ MaxSends \in Nat \ {0}
    /\ ClaimRule \in {"increment", "receive_count"}

VARIABLES
    email,       \* EmailRecord: status, scheduled_at, attempts, send_lease_until
    message,     \* DeliveryMessageRecord.status
    rcpt,        \* RecipientRecord.status of every recipient
    latest,      \* RecipientRecord.latest_attempt_id, as a sequence number
    attempts,    \* DeliveryAttemptRecords in sequence order
    events,      \* identities of the provider events stored
    suppressed,  \* recipients on the suppression list
    now,         \* wall clock
    worker,      \* locals of the processSend call of every worker
    client,      \* locals of the API request of every client
    accepted     \* sequence numbers of the submissions the provider took

ledger == <<email, message, rcpt, latest, attempts>>

vars == <<ledger, events, suppressed, now, worker, client, accepted>>

-----------------------------------------------------------------------------
FINAL_STATUSES == EmailStatus \ {"queued", "scheduled", "sending"}

Pending == {"queued", "scheduled"}

\* secondsUntil of a schedule, from the clock reading its caller measures from.
secondsUntil(at, from) == IF at > from THEN at - from ELSE 0

\* What transport.send, or reading the attachments for it, can come to.
\* "transient" errors satisfy shouldRetryOperationalError; "rejected" ones
\* are classified provider_rejected or invalid_data; "refused" stands for
\* the other permanent errors (a 4xx AppError such as a lost attachment).
Outcome == {"accepted", "transient", "rejected", "refused"}

EmailRecord == [status : EmailStatus, scheduled_at : Nat, attempts : Nat,
                lease : Nat]

\* claim is the value of email.attempts the attempt was claimed with.
Attempt == [status : AttemptStatus, claim : Nat]

\* The program points of processSend.  "returned" and "threw" are how the
\* call ended, which is all its caller, the job handler, gets to see.
WorkerPc == {"idle", "loaded", "suppressing", "clear", "claimed", "ledgered",
             "submitting", "answered", "returned", "threw"}

Locals == [pc : WorkerPc, n : Nat, seq : Nat, outcome : Outcome \cup {"none"}]

At(pc, n) == [pc |-> pc, n |-> n, seq |-> 0, outcome |-> "none"]

IdleLocals == At("idle", 0)

ClientPc == {"idle", "cancelling", "rescheduling"}

-----------------------------------------------------------------------------
\* prepareEmail and commitDelivery: a new e-mail is due now, scheduled or,
\* when one of its recipients was on the list, suppressed as a whole.
Init ==
    /\ now = 1
    /\ suppressed \in SUBSET Recipients
    /\ \E s \in {"queued", "scheduled", "suppressed"},
          t \in {0} \cup (now + 1)..MaxNow :
         /\ s = "suppressed" <=> suppressed # {}
         /\ s = "queued" => t = 0
         /\ s = "scheduled" => t > 0
         /\ email = [status |-> s, scheduled_at |-> t, attempts |-> 0,
                     lease |-> 0]
         /\ message = s
         /\ rcpt = [r \in Recipients |->
                      IF s = "suppressed" THEN "suppressed" ELSE "queued"]
    /\ latest = [r \in Recipients |-> 0]
    /\ attempts = <<>>
    /\ events = {}
    /\ worker = [w \in Workers |-> IdleLocals]
    /\ client = [c \in Clients |-> [pc |-> "idle", at |-> 0]]
    /\ accepted = {}

-----------------------------------------------------------------------------
(* What every ledger plan writes: commitLedgerPlan of the recipients, with  *)
(* the message aggregate and the public e-mail derived from them.           *)

\* Mutant: the message record is not saved.
CommitLedgerPlan_NoMessage(rs) ==
    /\ rcpt' = rs
    /\ UNCHANGED message
    /\ email' = [email EXCEPT !.status = updateEmailForRecipients(rs),
                              !.lease = 0]

CommitLedgerPlan(rs) ==
    /\ rcpt' = rs
    /\ message' = deriveDeliveryMessageStatus(rs)
    /\ email' = [email EXCEPT !.status = updateEmailForRecipients(rs),
                              !.lease = 0]

applyLocalDeliveryState(status) ==
    /\ CanChangeLocally(attempts, rcpt)
    /\ CommitLedgerPlan(planLocalRecipientState(rcpt, status))
    /\ UNCHANGED <<latest, attempts>>

-----------------------------------------------------------------------------
(* processSend.                                                             *)

Goto(w, pc) == worker' = [worker EXCEPT ![w].pc = pc]

Return(w) == worker' = [worker EXCEPT ![w] = At("returned", 0)]

Throw(w) == worker' = [worker EXCEPT ![w] = At("threw", 0)]

\* getEmail and the two early returns: a final e-mail, and one whose
\* schedule is still in the future.  For that one rescheduleDelivery first
\* enqueues a corrective job, which may fail; PortableSend and AwsSend model
\* that call.
LoadEmail(w, n) ==
    /\ worker[w].pc = "idle"
    /\ \/ /\ email.status \in FINAL_STATUSES
          /\ Return(w)
       \/ /\ email.status \notin FINAL_STATUSES
          /\ email.scheduled_at > now
          /\ Return(w) \/ Throw(w)
       \/ /\ email.status \notin FINAL_STATUSES
          /\ email.scheduled_at <= now
          /\ worker' = [worker EXCEPT ![w] = At("loaded", n)]
    /\ UNCHANGED <<ledger, events, suppressed, now, client, accepted>>

FindSuppressed(w) ==
    /\ worker[w].pc = "loaded"
    /\ Goto(w, IF suppressed # {} THEN "suppressing" ELSE "clear")
    /\ UNCHANGED <<ledger, events, suppressed, now, client, accepted>>

\* applyLocalDeliveryState throws while a submission is in progress; the
\* email.suppressed webhook published afterwards may fail too.
SuppressEmail(w) ==
    /\ worker[w].pc = "suppressing"
    /\ \/ /\ applyLocalDeliveryState("suppressed")
          /\ Return(w) \/ Throw(w)
       \/ /\ ~CanChangeLocally(attempts, rcpt)
          /\ Throw(w)
          /\ UNCHANGED ledger
    /\ UNCHANGED <<events, suppressed, now, client, accepted>>

LeaseExpired ==
    /\ email.status = "sending"
    /\ email.lease # 0
    /\ email.lease < now

\* Mutant: anything but a live lease can be claimed.
Claimable_UnlessLeased == email.status # "sending" \/ LeaseExpired

\* Mutant: an expired lease cannot be claimed.
Claimable_NeverExpired == email.status \in Pending

Claimable == email.status \in Pending \/ LeaseExpired

\* Mutant: the count the job was received with.
ClaimCount_Receive(n) == n

ClaimCount(n) ==
    IF ClaimRule = "receive_count" THEN n
    ELSE IF n > email.attempts + 1 THEN n
    ELSE email.attempts + 1

\* The claim looks at the status and the lease only: neither the schedule
\* nor the ledger is read again.
ClaimEmailForSend(w) ==
    /\ worker[w].pc = "clear"
    /\ \/ /\ Claimable
          /\ LET k == ClaimCount(worker[w].n)
             IN  /\ email' = [email EXCEPT !.status = "sending",
                                           !.attempts = k,
                                           !.lease = now + SendLease]
                 /\ worker' = [worker EXCEPT ![w].pc = "claimed",
                                             ![w].n = k]
       \/ /\ ~Claimable
          /\ Return(w)
          /\ UNCHANGED email
    /\ UNCHANGED <<message, rcpt, latest, attempts, events, suppressed, now,
                   client, accepted>>

\* getDeliveryLedger: the next sequence number is computed from a snapshot.
ReadLedger(w) ==
    /\ worker[w].pc = "claimed"
    /\ worker' = [worker EXCEPT ![w].pc = "ledgered",
                                ![w].seq = Len(attempts) + 1]
    /\ UNCHANGED <<ledger, events, suppressed, now, client, accepted>>

CanBegin(seq) == seq = Len(attempts) + 1 /\ CanStartAttempt(rcpt)

\* beginDeliveryAttempt commits planAttemptStart, or throws on a sequence
\* number that is taken or a recipient that is not queued.
BeginDeliveryAttempt(w) ==
    /\ worker[w].pc = "ledgered"
    /\ \/ /\ CanBegin(worker[w].seq)
          /\ attempts' = Append(attempts, [status |-> "submitting",
                                           claim |-> worker[w].n])
          /\ rcpt' = [r \in Recipients |-> "sending"]
          /\ latest' = [r \in Recipients |-> worker[w].seq]
          /\ message' = deriveDeliveryMessageStatus(rcpt')
          /\ email' = [email EXCEPT !.status = "sending"]
          /\ Goto(w, "submitting")
       \/ /\ ~CanBegin(worker[w].seq)
          /\ Throw(w)
          /\ UNCHANGED ledger
    /\ UNCHANGED <<events, suppressed, now, client, accepted>>

\* transport.send.  After a transient error (a timeout, a reset connection)
\* the provider may or may not have taken the message.
Submit(w, outcome) ==
    /\ worker[w].pc = "submitting"
    /\ worker' = [worker EXCEPT ![w].pc = "answered", ![w].outcome = outcome]
    /\ \/ /\ outcome \in {"accepted", "transient"}
          /\ accepted' = accepted \cup {worker[w].seq}
       \/ /\ outcome # "accepted"
          /\ UNCHANGED accepted
    /\ UNCHANGED <<ledger, events, suppressed, now, client>>

\* sending.attempts >= 3 || !shouldRetryOperationalError(error)
FinalAttempt(n, outcome) == n >= MaxSends \/ outcome # "transient"

CompletionStatus(n, outcome) ==
    IF outcome = "accepted" THEN "accepted"
    ELSE IF FinalAttempt(n, outcome) THEN "permanent_failed"
    ELSE "retryable_failed"

\* completeDeliveryAttempt commits planAttemptCompletion, then the webhook
\* is published (and may fail) or, for a retryable failure, the provider's
\* error is thrown again so that the queue redelivers the job.
CompleteDeliveryAttempt(w) ==
    /\ worker[w].pc = "answered"
    /\ LET seq    == worker[w].seq
           status == CompletionStatus(worker[w].n, worker[w].outcome)
           rs     == [r \in Recipients |->
                        completedRecipientStatus(status,
                            worker[w].outcome = "rejected")]
       IN  \/ /\ CanCompleteAttempt(attempts[seq], seq, rcpt, latest)
              /\ attempts' = [attempts EXCEPT ![seq].status = status]
              /\ CommitLedgerPlan(rs)
              /\ UNCHANGED latest
              /\ \/ status # "retryable_failed" /\ Return(w)
                 \/ Throw(w)
           \/ /\ ~CanCompleteAttempt(attempts[seq], seq, rcpt, latest)
              /\ Throw(w)
              /\ UNCHANGED ledger
    /\ UNCHANGED <<events, suppressed, now, client, accepted>>

\* The job handler takes note of how the call ended.
Finish(w) ==
    /\ worker[w].pc \in {"returned", "threw"}
    /\ worker' = [worker EXCEPT ![w] = IdleLocals]
    /\ UNCHANGED <<ledger, events, suppressed, now, client, accepted>>

\* The process is lost at any await.
Crash(w) ==
    /\ worker[w].pc # "idle"
    /\ worker' = [worker EXCEPT ![w] = IdleLocals]
    /\ UNCHANGED <<ledger, events, suppressed, now, client, accepted>>

-----------------------------------------------------------------------------
(* The API: cancel and reschedule read the record, check its status and     *)
(* only then change it.                                                     *)

CancelRead(c) ==
    /\ client[c].pc = "idle"
    /\ email.status \in Pending
    /\ client' = [client EXCEPT ![c].pc = "cancelling"]
    /\ UNCHANGED <<ledger, events, suppressed, now, worker, accepted>>

CancelApply(c) ==
    /\ client[c].pc = "cancelling"
    /\ \/ applyLocalDeliveryState("canceled")
       \/ ~CanChangeLocally(attempts, rcpt) /\ UNCHANGED ledger
    /\ client' = [client EXCEPT ![c].pc = "idle"]
    /\ UNCHANGED <<events, suppressed, now, worker, accepted>>

RescheduleRead(c, at) ==
    /\ client[c].pc = "idle"
    /\ email.status \in Pending
    /\ at > now
    /\ client' = [client EXCEPT ![c] = [pc |-> "rescheduling", at |-> at]]
    /\ UNCHANGED <<ledger, events, suppressed, now, worker, accepted>>

\* rescheduleEmailAndOutbox while the outbox item waits undispatched and
\* unleased (withOutbox); otherwise updateEmail, which leaves the message
\* record as it was.  Both are conditional on a pending e-mail.
RescheduleApply(c, withOutbox) ==
    /\ client[c].pc = "rescheduling"
    /\ \/ /\ email.status \in Pending
          /\ email' = [email EXCEPT !.status = "scheduled",
                                    !.scheduled_at = client[c].at]
          /\ message' = IF withOutbox THEN "scheduled" ELSE message
       \/ /\ email.status \notin Pending
          /\ UNCHANGED <<email, message>>
    /\ client' = [client EXCEPT ![c] = [pc |-> "idle", at |-> 0]]
    /\ UNCHANGED <<rcpt, latest, attempts, events, suppressed, now, worker,
                   accepted>>

PutSuppression(r) ==
    /\ r \notin suppressed
    /\ suppressed' = suppressed \cup {r}
    /\ UNCHANGED <<ledger, events, now, worker, client, accepted>>

DeleteSuppression(r) ==
    /\ r \in suppressed
    /\ suppressed' = suppressed \ {r}
    /\ UNCHANGED <<ledger, events, now, worker, client, accepted>>

-----------------------------------------------------------------------------
\* applyProviderEvent and appendProviderEvent: the event names an accepted
\* attempt and some of its recipients (none, when the provider reports no
\* address).  An identity already stored is a replay and changes nothing.
ApplyProviderEvent(id, type, targets) ==
    /\ id \notin events
    /\ \E i \in DOMAIN attempts : attempts[i].status = "accepted"
    /\ events' = events \cup {id}
    /\ CommitLedgerPlan(planProviderEvent(rcpt, type, targets))
    /\ UNCHANGED <<latest, attempts, suppressed, now, worker, client, accepted>>

Tick ==
    /\ now < MaxNow
    /\ now' = now + 1
    /\ UNCHANGED <<ledger, events, suppressed, worker, client, accepted>>

-----------------------------------------------------------------------------
ProcessSend(w) ==
    \/ \E n \in ReceiveCounts : LoadEmail(w, n)
    \/ FindSuppressed(w)
    \/ SuppressEmail(w)
    \/ ClaimEmailForSend(w)
    \/ ReadLedger(w)
    \/ BeginDeliveryAttempt(w)
    \/ \E outcome \in Outcome : Submit(w, outcome)
    \/ CompleteDeliveryAttempt(w)
    \/ Finish(w)

Api(c) ==
    \/ CancelRead(c)
    \/ CancelApply(c)
    \/ \E at \in 1..MaxNow : RescheduleRead(c, at)
    \/ \E withOutbox \in BOOLEAN : RescheduleApply(c, withOutbox)

Next ==
    \/ \E w \in Workers : ProcessSend(w) \/ Crash(w)
    \/ \E c \in Clients : Api(c)
    \/ \E r \in Recipients : PutSuppression(r) \/ DeleteSuppression(r)
    \/ \E id \in EventIds, type \in ProviderEventType,
          targets \in SUBSET Recipients : ApplyProviderEvent(id, type, targets)
    \/ Tick

Spec == Init /\ [][Next]_vars

-----------------------------------------------------------------------------
(* Properties.                                                              *)

Submitting(w) == worker[w].pc \in {"submitting", "answered"}

\* A worker between its claim and the end of its submission.
Claimed(w) == worker[w].pc \in {"claimed", "ledgered"} \/ Submitting(w)

\* The records, the locals and the clock keep their types.
TypeOK ==
    /\ email \in EmailRecord
    /\ message \in MessageStatus
    /\ rcpt \in [Recipients -> RecipientStatus]
    /\ latest \in [Recipients -> Nat]
    /\ attempts \in Seq(Attempt)
    /\ events \subseteq EventIds
    /\ suppressed \subseteq Recipients
    /\ now \in Nat
    /\ worker \in [Workers -> Locals]
    /\ client \in [Clients -> [pc : ClientPc, at : Nat]]
    /\ accepted \subseteq Nat

\* "An atomic send lease prevents concurrent workers from submitting the same
\* queued record" (docs/architecture.md), even once that lease has expired
\* under a slow worker and a second one has claimed the e-mail.
NoConcurrentSubmission ==
    \A v, w \in Workers : Submitting(v) /\ Submitting(w) => v = w

\* The provider takes a message twice only across a transient error that
\* processSend recorded as retryable: never after a recorded acceptance or a
\* permanent failure, nor after a worker lost in mid-submission.
\* docs/architecture.md:80-84 and :228-229 say of that last case that "a later
\* retry can produce a duplicate". It does not: the attempt the lost worker
\* left open keeps the recipients in sending, and planAttemptStart begins
\* another only with queued ones; the e-mail stays in sending instead.
DuplicatesAreRetries ==
    \A i, j \in accepted :
        i < j => attempts[i].status = "retryable_failed"

\* "No more than three delivery attempts" (docs/architecture.md), whatever
\* the number of jobs, receive counts, crashes and expired send leases.
AttemptBound == Len(attempts) <= MaxSends

\* The public e-mail and the message aggregate never contradict the
\* recipients they are derived from.
PublicStatusAgrees ==
    /\ email.status \in Pending =>
         EveryRecipient(rcpt, {"queued"})
    /\ email.status = "sending" =>
         EveryRecipient(rcpt, {"queued"}) \/ EveryRecipient(rcpt, {"sending"})
    /\ email.status \in FINAL_STATUSES =>
         /\ message = deriveDeliveryMessageStatus(rcpt)
         /\ email.status = updateEmailForRecipients(rcpt)
         /\ ~SomeRecipient(rcpt, {"queued", "sending"})

\* processSend "refuses to process a job after the email reaches a final
\* state" (docs/architecture.md): no worker, however stale what it read,
\* reopens a sent, failed, canceled or suppressed e-mail or submits it.
FinalIsFinal ==
    [][email.status \in FINAL_STATUSES =>
         /\ email'.status \in FINAL_STATUSES
         /\ attempts' = attempts
         /\ accepted' = accepted]_vars

\* A complaint or a suppression is never overwritten by a delivery event, a
\* cancellation, or the outcome of a submission.
ComplaintsAreSticky ==
    [][\A r \in Recipients :
         rcpt[r] \in {"complained", "suppressed"} => rcpt'[r] = rcpt[r]]_vars

-----------------------------------------------------------------------------
(* The inductive invariant behind them.                                     *)

\* Only the last attempt can be anything but a retryable failure, and the
\* recipients say which: they are queued exactly when it may be followed by
\* another, and in flight exactly while it is open.
AttemptsInv ==
    LET k == Len(attempts) IN
    /\ \A i \in 1..k : i < k => attempts[i].status = "retryable_failed"
    /\ SomeRecipient(rcpt, {"queued"}) =>
         /\ EveryRecipient(rcpt, {"queued"})
         /\ k > 0 => attempts[k].status = "retryable_failed"
    /\ SomeRecipient(rcpt, {"sending"}) =>
         /\ EveryRecipient(rcpt, {"sending"})
         /\ k > 0
         /\ attempts[k].status = "submitting"
    /\ k > 0 =>
         /\ attempts[k].status = "submitting" =>
              EveryRecipient(rcpt, {"sending"})
         /\ attempts[k].status = "retryable_failed" =>
              ~SomeRecipient(rcpt, {"sending"})
    /\ \A r \in Recipients : latest[r] = k

WorkersInv ==
    /\ \A w \in Workers : Submitting(w) =>
         /\ worker[w].seq = Len(attempts)
         /\ worker[w].seq > 0
         /\ attempts[worker[w].seq].status = "submitting"
         /\ attempts[worker[w].seq].claim = worker[w].n
    /\ \A w \in Workers :
         worker[w].pc = "answered" => worker[w].outcome \in Outcome
    /\ NoConcurrentSubmission
    /\ accepted \subseteq 1..Len(attempts)

SubmissionInv == PublicStatusAgrees /\ AttemptsInv /\ WorkersInv

\* Where every claim counts one more than the last (ClaimRule "increment"),
\* no two claims have the same count: not those of two workers, nor those
\* behind two attempts, nor that of an attempt and of a worker yet to begin
\* one.  An attempt that may be retried was claimed below the limit.
ClaimsInv ==
    LET k == Len(attempts) IN
    /\ \A w \in Workers : Claimed(w) => worker[w].n \in 1..email.attempts
    /\ \A v, w \in Workers :
         Claimed(v) /\ Claimed(w) /\ worker[v].n = worker[w].n => v = w
    /\ \A i \in 1..k : attempts[i].claim \in 1..email.attempts
    /\ \A i, j \in 1..k : attempts[i].claim = attempts[j].claim => i = j
    /\ \A i \in 1..k :
         attempts[i].status = "retryable_failed" => attempts[i].claim < MaxSends
    /\ \A w \in Workers : worker[w].pc \in {"claimed", "ledgered"} =>
         \A i \in 1..k : attempts[i].claim # worker[w].n

DeliveryInv == SubmissionInv /\ (ClaimRule = "increment" => ClaimsInv)

-----------------------------------------------------------------------------
(* The store underneath: the records of the e-mail, as a store keeps them.  *)

LedgerRecords ==
    [status   |-> email.status,
     message  |-> message,
     rcpt     |-> rcpt,
     latest   |-> latest,
     attempts |-> [i \in DOMAIN attempts |-> attempts[i].status]]

Ledger == INSTANCE AtomicLedger
    WITH EventTypes <- ProviderEventType, led <- LedgerRecords

\* processSend, cancel, reschedule and applyProviderEvent change the records
\* through the atomic operations of the delivery store only, so that a store
\* that implements AtomicLedger can stand under them.
UsesAtomicLedger == Ledger!Spec
=============================================================================
