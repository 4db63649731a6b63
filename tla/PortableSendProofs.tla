------------------------- MODULE PortableSendProofs -------------------------
(***************************************************************************)
(* The send path of a portable deployment implements EmailDelivery, for    *)
(* every choice of the leases, delays and bounds: whatever the outbox, the *)
(* queue and its workers do is something the general at-least-once queue   *)
(* of EmailDelivery may do, so that what EmailDeliveryProofs proves holds  *)
(* of this path too.  And an e-mail that is not final is never left to     *)
(* nobody: somebody has still to look at it.                               *)
(***************************************************************************)
EXTENDS PortableSend, EmailDeliveryProofs

Row == [state : {"absent", "live", "completed", "failed"}, at : Nat,
        owner : Workers \cup {"none"}, until : Nat, n : Nat]

Wake == [step : {"none", "schedule", "verify"}, at : Nat, from : Nat]

\* The rows, the schedules in hand and the clock readings keep their types.
QueueTypeOK ==
    /\ jobs \in [JobIds -> Row]
    /\ held \in [Workers -> JobIds \cup {"none"}]
    /\ fix \in [Workers -> Nat]
    /\ wake \in [Clients -> Wake]

\* It takes the types of EmailDelivery, whose invariant keeps them.
PipelineInv == TypeOK /\ SubmissionInv /\ QueueTypeOK

\* Publishing a job under its identity keeps the rows.
LEMMA EnqueuedLemma ==
    ASSUME NEW js \in [JobIds -> Row], NEW id \in JobIds, NEW at \in Nat
    PROVE  Enqueued(js, id, at) \in [JobIds -> Row]
  <1>1. js[id] \in Row
    OBVIOUS
  <1>2. [js[id] EXCEPT !.at = at] \in Row
    BY <1>1 DEF Row
  <1>3. [NoRow EXCEPT !.state = "live", !.at = at] \in Row
    BY DEF NoRow, Row
  <1>4. [js EXCEPT ![id].at = at] \in [JobIds -> Row]
    BY <1>2
  <1>5. [js EXCEPT ![id] = [NoRow EXCEPT !.state = "live", !.at = at]]
          \in [JobIds -> Row]
    BY <1>3
  <1> QED  BY <1>4, <1>5 DEF Enqueued

\* The capped delay of a job ends at a clock reading.
LEMMA DelayLemma ==
    ASSUME now \in Nat, NEW at \in Nat, NEW from \in Nat
    PROVE  DelayedUntil(at, from) \in Nat
  <1>1. secondsUntil(at, from) \in Nat
    BY DEF secondsUntil
  <1>2. MaxDelay \in Nat
    BY PortableSendAssumption
  <1> QED  BY <1>1, <1>2 DEF DelayedUntil

\* What TypeOK says of the readings the queue uses.
LEMMA ReadingsLemma ==
    ASSUME TypeOK
    PROVE  /\ now \in Nat
           /\ email.scheduled_at \in Nat
           /\ \A c \in Clients : client[c].at \in Nat
  BY DEF TypeOK, EmailRecord

-----------------------------------------------------------------------------
(* Refinement.                                                              *)

\* Every step of the pipeline is a step of EmailDelivery, or leaves its
\* variables alone.
LEMMA PipelineStep ==
    ASSUME QueueTypeOK, ReceiveCounts = Nat \ {0}, [PipelineNext]_allVars
    PROVE  [Next]_vars
  <1>1. CASE UNCHANGED allVars
    BY <1>1 DEF allVars
  <1>2. CASE PublishItem
    BY <1>2 DEF PublishItem
  <1>3. ASSUME NEW w \in Workers, NEW id \in JobIds, ReceiveJob(w, id)
        PROVE  Next
    <2>1. jobs[id].n + 1 \in ReceiveCounts
      <3>1. jobs[id].n \in Nat
        BY DEF QueueTypeOK, Row
      <3> QED  BY <3>1
    <2>2. LoadEmail(w, jobs[id].n + 1)
      BY <1>3 DEF ReceiveJob
    <2> QED  BY <2>1, <2>2 DEF Next, ProcessSend
  <1>4. ASSUME NEW w \in Workers, Corrective(w) PROVE UNCHANGED vars
    BY <1>4 DEF Corrective
  <1>5. ASSUME NEW w \in Workers, RunJob(w) PROVE Next
    BY <1>5 DEF RunJob, Next, ProcessSend
  <1>6. ASSUME NEW w \in Workers, Settle(w) PROVE Next
    BY <1>6 DEF Settle, Next, ProcessSend
  <1>7. ASSUME NEW w \in Workers, Heartbeat(w) PROVE UNCHANGED vars
    BY <1>7 DEF Heartbeat
  <1>8. ASSUME NEW w \in Workers, LoseWorker(w) PROVE Next
    BY <1>8 DEF LoseWorker, Next
  <1>9. ASSUME NEW c \in Clients, Request(c) PROVE Next
    BY <1>9 DEF Request, Next, Api
  <1>10. ASSUME NEW c \in Clients, RescheduleStore(c) PROVE Next
    BY <1>10 DEF RescheduleStore, Next, Api
  <1>11. ASSUME NEW c \in Clients, RescheduleWake(c) \/ RescheduleLost(c)
         PROVE  UNCHANGED vars
    BY <1>11 DEF RescheduleWake, RescheduleLost
  <1>12. CASE SuppressionChange
    BY <1>12 DEF SuppressionChange, Next
  <1>13. CASE PassTime
    BY <1>13 DEF PassTime, Next
  <1> QED
    BY <1>1, <1>2, <1>3, <1>4, <1>5, <1>6, <1>7, <1>8, <1>9, <1>10, <1>11,
       <1>12, <1>13 DEF PipelineNext

\* The queue starts with its types.
LEMMA QueueInit == ASSUME PipelineInit PROVE QueueTypeOK
  <1>1. NoRow \in Row /\ NoWake \in Wake
    BY DEF NoRow, Row, NoWake, Wake
  <1> QED  BY <1>1 DEF PipelineInit, QueueTypeOK

\* What a worker does to the queue keeps its types.
LEMMA QueueWorker ==
    ASSUME TypeOK, QueueTypeOK, NEW w \in Workers,
           \/ \E id \in JobIds : ReceiveJob(w, id)
           \/ Corrective(w)
           \/ RunJob(w)
           \/ Settle(w)
           \/ Heartbeat(w)
           \/ LoseWorker(w)
    PROVE  QueueTypeOK'
  <1> USE ReadingsLemma
  <1>0. JobLease \in Nat /\ RetryDelay \in Nat
    BY PortableSendAssumption
  <1>1. ASSUME NEW id \in JobIds, ReceiveJob(w, id) PROVE QueueTypeOK'
    <2> DEFINE r1 == [jobs[id] EXCEPT !.owner = w]
               r2 == [r1 EXCEPT !.until = now + JobLease]
               r3 == [r2 EXCEPT !.n = jobs[id].n + 1]
    <2>1. jobs[id] \in Row
      BY DEF QueueTypeOK
    <2>2. now + JobLease \in Nat
      BY <1>0
    <2>3. r3 \in Row
      <3>1. r1 \in Row
        BY <2>1 DEF Row
      <3>2. r2 \in Row
        BY <3>1, <2>2 DEF Row
      <3>3. jobs[id].n + 1 \in Nat
        BY <2>1 DEF Row
      <3> QED  BY <3>2, <3>3 DEF Row
    <2>4. jobs' = [jobs EXCEPT ![id] = r3]
      <3>1. jobs' = [jobs EXCEPT ![id].owner = w, ![id].until = now + JobLease,
                                 ![id].n = @ + 1]
        BY <1>1 DEF ReceiveJob
      <3> QED  BY <3>1, <2>1 DEF QueueTypeOK, Row
    <2>5. jobs' \in [JobIds -> Row]
      BY <2>3, <2>4 DEF QueueTypeOK
    <2>6. held' \in [Workers -> JobIds \cup {"none"}]
      BY <1>1 DEF ReceiveJob, QueueTypeOK
    <2>7. fix' \in [Workers -> Nat]
      BY <1>1 DEF ReceiveJob, QueueTypeOK
    <2>8. wake' = wake
      BY <1>1 DEF ReceiveJob
    <2> QED  BY <2>5, <2>6, <2>7, <2>8 DEF QueueTypeOK
  <1>2. CASE Corrective(w)
    <2>1. fix[w] \in Nat
      BY DEF QueueTypeOK
    <2>2. DelayedUntil(fix[w], now) \in Nat
      BY <2>1, DelayLemma
    <2>3. Enqueued(jobs, "direct", DelayedUntil(fix[w], now)) \in [JobIds -> Row]
      BY <2>2, EnqueuedLemma DEF QueueTypeOK, JobIds
    <2>4. jobs' \in [JobIds -> Row]
      BY <1>2, <2>3 DEF Corrective, QueueTypeOK
    <2> QED  BY <1>2, <2>4 DEF Corrective, QueueTypeOK
  <1>3. CASE RunJob(w)
    BY <1>3 DEF RunJob, queue, QueueTypeOK
  <1>4. CASE Settle(w)
    <2> DEFINE id == held[w]
    <2>1. id \in JobIds
      BY <1>4 DEF Settle, QueueTypeOK
    <2>2. jobs[id] \in Row
      BY <2>1 DEF QueueTypeOK
    <2>3. now + RetryDelay \in Nat
      BY <1>0
    <2>4. /\ Settled(jobs[id], "completed") \in Row
          /\ Settled(jobs[id], "failed") \in Row
      BY <2>2 DEF Settled, Row
    <2>5. [jobs[id] EXCEPT !.owner = "none", !.until = 0,
                           !.at = now + RetryDelay] \in Row
      BY <2>2, <2>3 DEF Row
    <2>6. \/ jobs' = jobs
          \/ jobs' = [jobs EXCEPT ![id] = Settled(@, "completed")]
          \/ jobs' = [jobs EXCEPT ![id] = Settled(@, "failed")]
          \/ jobs' = [jobs EXCEPT ![id] =
                        [@ EXCEPT !.owner = "none", !.until = 0,
                                  !.at = now + RetryDelay]]
      BY <1>4 DEF Settle
    <2>7. jobs' \in [JobIds -> Row]
      <3> HIDE DEF id
      <3> QED  BY <2>1, <2>4, <2>5, <2>6 DEF QueueTypeOK
    <2> QED  BY <1>4, <2>7 DEF Settle, QueueTypeOK
  <1>5. CASE Heartbeat(w)
    <2>1. held[w] \in JobIds
      BY <1>5 DEF Heartbeat, QueueTypeOK
    <2>2. [jobs[held[w]] EXCEPT !.until = now + JobLease] \in Row
      BY <2>1, <1>0 DEF QueueTypeOK, Row
    <2>3. jobs' = [jobs EXCEPT ![held[w]].until = now + JobLease]
      BY <1>5 DEF Heartbeat
    <2>4. jobs' \in [JobIds -> Row]
      BY <2>1, <2>2, <2>3 DEF QueueTypeOK
    <2> QED  BY <1>5, <2>4 DEF Heartbeat, QueueTypeOK
  <1>6. CASE LoseWorker(w)
    BY <1>6 DEF LoseWorker, QueueTypeOK
  <1> QED  BY <1>1, <1>2, <1>3, <1>4, <1>5, <1>6

\* So does everything else.
LEMMA QueueRest ==
    ASSUME TypeOK, QueueTypeOK,
           \/ PublishItem
           \/ \E c \in Clients : \/ Request(c)
                                 \/ RescheduleStore(c)
                                 \/ RescheduleWake(c)
                                 \/ RescheduleLost(c)
           \/ SuppressionChange
           \/ PassTime
           \/ UNCHANGED allVars
    PROVE  QueueTypeOK'
  <1> USE ReadingsLemma
  <1>0. NoWake \in Wake
    BY DEF NoWake, Wake
  <1>1. CASE PublishItem
    <2>1. Enqueued(jobs, "item", now) \in [JobIds -> Row]
      BY EnqueuedLemma DEF QueueTypeOK, JobIds
    <2> QED  BY <1>1, <2>1 DEF PublishItem, QueueTypeOK
  <1>2. ASSUME NEW c \in Clients, Request(c) PROVE QueueTypeOK'
    BY <1>2 DEF Request, QueueTypeOK
  <1>3. ASSUME NEW c \in Clients, RescheduleStore(c) PROVE QueueTypeOK'
    <2>1. [step |-> "schedule", at |-> client[c].at, from |-> now] \in Wake
      BY DEF Wake
    <2>2. \/ wake' = wake
          \/ wake' = [wake EXCEPT ![c] = [step |-> "schedule", at |-> client[c].at,
                                          from |-> now]]
      BY <1>3 DEF RescheduleStore
    <2>3. wake' \in [Clients -> Wake]
      BY <2>1, <2>2 DEF QueueTypeOK
    <2> QED  BY <1>3, <2>3 DEF RescheduleStore, QueueTypeOK
  <1>4. ASSUME NEW c \in Clients, RescheduleWake(c) PROVE QueueTypeOK'
    <2>1. wake[c] \in Wake
      BY DEF QueueTypeOK
    <2>2. /\ wake[c].at \in Nat /\ wake[c].from \in Nat
          /\ [wake[c] EXCEPT !.step = "verify"] \in Wake
      BY <2>1 DEF Wake
    <2>3. /\ DelayedUntil(wake[c].at, wake[c].from) \in Nat
          /\ DelayedUntil(email.scheduled_at, now) \in Nat
      BY <2>2, DelayLemma
    <2>4. /\ Enqueued(jobs, "direct", DelayedUntil(wake[c].at, wake[c].from))
               \in [JobIds -> Row]
          /\ Enqueued(jobs, "direct", DelayedUntil(email.scheduled_at, now))
               \in [JobIds -> Row]
      BY <2>3, EnqueuedLemma DEF QueueTypeOK, JobIds
    <2>5. jobs' \in [JobIds -> Row]
      BY <1>4, <2>4 DEF RescheduleWake, QueueTypeOK
    <2>6. wake' \in [Clients -> Wake]
      BY <1>4, <1>0, <2>2 DEF RescheduleWake, QueueTypeOK
    <2> QED  BY <1>4, <2>5, <2>6 DEF RescheduleWake, QueueTypeOK
  <1>5. ASSUME NEW c \in Clients, RescheduleLost(c) PROVE QueueTypeOK'
    BY <1>5, <1>0 DEF RescheduleLost, QueueTypeOK
  <1>6. CASE SuppressionChange
    BY <1>6 DEF SuppressionChange, QueueTypeOK
  <1>7. CASE PassTime
    BY <1>7 DEF PassTime, queue, QueueTypeOK
  <1>8. CASE UNCHANGED allVars
    BY <1>8 DEF allVars, queue, QueueTypeOK
  <1> QED  BY <1>1, <1>2, <1>3, <1>4, <1>5, <1>6, <1>7, <1>8

\* Every step keeps the types of the queue.
LEMMA QueueStep ==
    ASSUME TypeOK, QueueTypeOK, [PipelineNext]_allVars
    PROVE  QueueTypeOK'
  BY QueueWorker, QueueRest DEF PipelineNext

-----------------------------------------------------------------------------
\* The records, the rows and the locals keep their types on the portable
\* path, and the ledger, the attempts and the workers agree as they do in
\* EmailDelivery.
THEOREM PipelineInvariant ==
    (ReceiveCounts = Nat \ {0}) => (PipelineSpec => []PipelineInv)
  <1> SUFFICES ASSUME ReceiveCounts = Nat \ {0}
               PROVE  PipelineSpec => []PipelineInv
    OBVIOUS
  <1>1. PipelineInit => PipelineInv
    BY QueueInit, TypeInit, SubmissionInit DEF PipelineInit, PipelineInv
  <1>2. PipelineInv /\ [PipelineNext]_allVars => PipelineInv'
    <2> SUFFICES ASSUME PipelineInv, [PipelineNext]_allVars PROVE PipelineInv'
      OBVIOUS
    <2>1. [Next]_vars
      BY PipelineStep DEF PipelineInv
    <2>2. (TypeOK /\ SubmissionInv)'
      BY <2>1, StepLemma DEF PipelineInv
    <2> QED  BY <2>2, QueueStep DEF PipelineInv
  <1> QED  BY <1>1, <1>2, PTL DEF PipelineSpec

\* The outbox, the PostgreSQL queue and its workers only ever do what
\* EmailDelivery allows its general at-least-once queue, when that may hand a
\* job over with any receive count: a row's count has no bound of its own.
THEOREM ImplementsEmailDeliveryHolds ==
    (ReceiveCounts = Nat \ {0}) => (PipelineSpec => ImplementsEmailDelivery)
  <1> SUFFICES ASSUME ReceiveCounts = Nat \ {0}
               PROVE  PipelineSpec => ImplementsEmailDelivery
    OBVIOUS
  <1>1. PipelineInit => Init
    BY DEF PipelineInit
  <1>2. PipelineInv /\ [PipelineNext]_allVars => [Next]_vars
    BY PipelineStep DEF PipelineInv
  <1> QED
    BY <1>1, <1>2, PipelineInvariant, PTL
    DEF PipelineSpec, ImplementsEmailDelivery, Spec

\* So a portable deployment never has two submissions of an e-mail in the air,
\* hands a message to the provider again only after a recorded transient
\* error, and shows the status its recipients have.
THEOREM PortableSubmissions ==
    (ReceiveCounts = Nat \ {0}) =>
      (PipelineSpec => []( /\ NoConcurrentSubmission
                           /\ DuplicatesAreRetries
                           /\ PublicStatusAgrees))
  <1> SUFFICES ASSUME ReceiveCounts = Nat \ {0}
               PROVE  PipelineSpec => []( /\ NoConcurrentSubmission
                                          /\ DuplicatesAreRetries
                                          /\ PublicStatusAgrees)
    OBVIOUS
  <1> QED
    BY ImplementsEmailDeliveryHolds, NoConcurrentSubmissionHolds,
       DuplicatesAreRetriesHolds, PublicStatusAgreesHolds, PTL
    DEF ImplementsEmailDelivery

\* And it makes no more than MaxSends attempts, its claims being those of
\* PostgreSQL, however many jobs and receives there are.
THEOREM PortableAttemptBound ==
    (ReceiveCounts = Nat \ {0} /\ ClaimRule = "increment") =>
      (PipelineSpec => []AttemptBound)
  <1> SUFFICES ASSUME ReceiveCounts = Nat \ {0}, ClaimRule = "increment"
               PROVE  PipelineSpec => []AttemptBound
    OBVIOUS
  <1> QED
    BY ImplementsEmailDeliveryHolds, AttemptBoundHolds, PTL
    DEF ImplementsEmailDelivery

-----------------------------------------------------------------------------
(* An e-mail that is not final is never left to nobody.                     *)

\* A corrective job has neither been published nor asked for.
NoCorrection ==
    /\ jobs["direct"].state = "absent"
    /\ \A c \in Clients : wake[c].step = "none"
    /\ \A w \in Workers : fix[w] = 0

\* A worker has a row as long as it holds its job, and its heartbeat has left
\* half the lease.
HeldInv ==
    \A w \in Workers :
        /\ held[w] = "none" => worker[w].pc = "idle" /\ fix[w] = 0
        /\ held[w] # "none" =>
             /\ worker[w].pc # "idle"
             /\ jobs[held[w]].state = "live"
             /\ jobs[held[w]].owner = w
             /\ 2 * (jobs[held[w]].until - now) >= JobLease - 1

\* A time that the queue's largest delay reaches, or that the outbox item still
\* waits for; or there is no job, and never was.
Within ==
    \/ email.scheduled_at <= now + MaxDelay
    \/ /\ jobs["direct"].state = "absent"
       /\ \/ item = "pending" /\ due >= email.scheduled_at
          \/ item = "dispatched" /\ jobs["item"].state = "absent"

\* All that is on its way to a corrective job has the e-mail's schedule, within
\* reach of the queue, and that job is not received ahead of it.
ScheduleInv ==
    /\ Within
    /\ \A c \in Clients : wake[c].step # "none" =>
         /\ wake[c].at = email.scheduled_at
         /\ wake[c].from <= now
         /\ wake[c].at <= wake[c].from + MaxDelay
    /\ \A w \in Workers : fix[w] > 0 =>
         /\ fix[w] = email.scheduled_at
         /\ fix[w] <= now + MaxDelay
         /\ worker[w].pc \in {"returned", "threw"}
         /\ held[w] = "item"
    /\ jobs["direct"].state # "absent" =>
         \/ email.scheduled_at <= now
         \/ /\ jobs["direct"].state = "live"
            /\ jobs["direct"].owner = "none"
            /\ jobs["direct"].at >= email.scheduled_at
    /\ item = "pending" => jobs["item"].state = "absent"

\* A job that is not about to be acknowledged.
Alive(id) ==
    \/ jobs[id].state = "failed"
    \/ /\ jobs[id].state = "live"
       /\ \A w \in Workers : held[w] = id => worker[w].pc # "returned"

\* Somebody has still to look at the e-mail.
Waiting ==
    \/ item = "pending"
    \/ \E id \in JobIds : Alive(id)
    \/ /\ jobs["direct"].state = "absent"
       /\ \E w \in Workers : fix[w] > 0 /\ worker[w].pc = "returned"

\* The job an e-mail was claimed under: its worker goes on to the submission,
\* or was lost, and then the job comes back after the send lease.
Claimant(id) ==
    \/ jobs[id].state = "failed"
    \/ /\ jobs[id].state = "live"
       /\ jobs[id].owner # "none"
       /\ \A w \in Workers : held[w] = id => AboutToSubmit(w)
       /\ \/ jobs[id].until > email.lease
          \/ MaxLost = 0 /\ \E w \in Workers : held[w] = id

DriverInv ==
    /\ email.status \in Pending \/ (LeaseExpired /\ Unsubmitted) => Waiting
    /\ email.status = "sending" /\ Unsubmitted /\ ~LeaseExpired =>
         /\ email.lease > 0
         /\ \E id \in JobIds : Claimant(id)

CountersOK == due \in Nat /\ calls \in Nat /\ lost \in Nat

DrivenInv == CountersOK /\ HeldInv /\ ScheduleInv /\ DriverInv

\* The e-mail is not rescheduled once a corrective job has been asked for.
FirstCorrection == email'.scheduled_at # email.scheduled_at => NoCorrection

\* Where the outbox item does not move with it, its new time is within the
\* queue's largest delay.
NearCorrection ==
    email'.scheduled_at # email.scheduled_at =>
      \/ item' = "pending" /\ due' = email'.scheduled_at
      \/ email'.scheduled_at <= now + MaxDelay

\* What a worker may count on: it has the queue's types, a row of its own, and
\* nobody else holds its job.
LEMMA HeldLemma ==
    ASSUME TypeOK, QueueTypeOK, HeldInv, NEW w \in Workers, held[w] # "none"
    PROVE  /\ held[w] \in JobIds
           /\ worker[w].pc # "idle"
           /\ jobs[held[w]].state = "live"
           /\ jobs[held[w]].owner = w
           /\ w # "none"
           /\ jobs[held[w]].until > now
           /\ ~Leasable(held[w])
           /\ \A v \in Workers : held[v] = held[w] => v = w
  <1>1. held[w] \in JobIds
    BY DEF QueueTypeOK
  <1>2. /\ worker[w].pc # "idle"
        /\ jobs[held[w]].state = "live"
        /\ jobs[held[w]].owner = w
        /\ 2 * (jobs[held[w]].until - now) >= JobLease - 1
    BY DEF HeldInv
  <1>3. jobs[held[w]].until > now
    <2>1. jobs[held[w]].until \in Nat /\ now \in Nat
      BY <1>1 DEF QueueTypeOK, Row, TypeOK
    <2>2. JobLease \in Nat /\ JobLease > 1
      BY PortableSendAssumption
    <2> QED  BY <1>2, <2>1, <2>2
  <1>4. w # "none"
    BY PortableSendAssumption
  <1>5. ~Leasable(held[w])
    BY <1>1, <1>2, <1>3, <1>4 DEF Leasable, QueueTypeOK, Row, TypeOK
  <1>6. \A v \in Workers : held[v] = held[w] => v = w
    BY <1>2 DEF HeldInv
  <1> QED  BY <1>1, <1>2, <1>3, <1>4, <1>5, <1>6

\* Publishing touches one row: it appears, or its time may come earlier.
LEMMA EnqueuedRows ==
    ASSUME NEW js \in [JobIds -> Row], NEW id \in JobIds, NEW at \in Nat
    PROVE  LET E == Enqueued(js, id, at)
           IN  /\ \A j \in JobIds : j # id => E[j] = js[j]
               /\ js[id].state = "absent" =>
                    /\ E[id].state = "live"
                    /\ E[id].owner = "none"
                    /\ E[id].at = at
               /\ js[id].state # "absent" =>
                    /\ E[id].state = js[id].state
                    /\ E[id].owner = js[id].owner
                    /\ E[id].until = js[id].until
                    /\ E[id].at = js[id].at \/ E[id].at = at
  <1>1. CASE js[id].state = "absent"
    <2>1. Enqueued(js, id, at) =
            [js EXCEPT ![id] = [NoRow EXCEPT !.state = "live", !.at = at]]
      BY <1>1 DEF Enqueued
    <2> QED  BY <1>1, <2>1 DEF NoRow
  <1>2. CASE js[id].state = "live" /\ at < js[id].at
    <2>1. Enqueued(js, id, at) = [js EXCEPT ![id].at = at]
      BY <1>2 DEF Enqueued
    <2>2. js[id] \in Row
      OBVIOUS
    <2> QED  BY <1>2, <2>1, <2>2 DEF Row
  <1>3. CASE js[id].state # "absent" /\ ~(js[id].state = "live" /\ at < js[id].at)
    <2>1. Enqueued(js, id, at) = js
      BY <1>3 DEF Enqueued
    <2> QED  BY <1>3, <2>1
  <1> QED  BY <1>1, <1>2, <1>3

\* A time that the queue's largest delay reaches is kept.
LEMMA UncappedLemma ==
    ASSUME TypeOK,
           NEW at \in Nat, NEW from \in Nat, from <= now, at <= from + MaxDelay
    PROVE  DelayedUntil(at, from) \in Nat /\ DelayedUntil(at, from) >= at
  <1>1. now \in Nat /\ MaxDelay \in Nat
    BY PortableSendAssumption DEF TypeOK
  <1>2. ~(secondsUntil(at, from) > MaxDelay)
    BY <1>1 DEF secondsUntil
  <1>3. DelayedUntil(at, from) = now + secondsUntil(at, from)
    BY <1>2 DEF DelayedUntil
  <1> QED  BY <1>1, <1>3 DEF secondsUntil

\* The row a lease takes.
LEMMA ReceiveRows ==
    ASSUME QueueTypeOK, NEW w \in Workers, NEW id \in JobIds, ReceiveJob(w, id)
    PROVE  /\ \A j \in JobIds : j # id => jobs'[j] = jobs[j]
           /\ jobs'[id].state = jobs[id].state
           /\ jobs'[id].owner = w
           /\ jobs'[id].until = now + JobLease
           /\ held' = [held EXCEPT ![w] = id]
           /\ jobs[id].state = "live"
           /\ jobs[id].at <= now
           /\ jobs[id].owner = "none" \/ jobs[id].until <= now
           /\ held[w] = "none"
  <1>1. jobs' = [jobs EXCEPT ![id].owner = w, ![id].until = now + JobLease,
                             ![id].n = @ + 1]
    BY DEF ReceiveJob
  <1>2. jobs[id] \in Row /\ jobs \in [JobIds -> Row]
    BY DEF QueueTypeOK
  <1>3. jobs' = [jobs EXCEPT ![id] = [jobs[id] EXCEPT
                   !.owner = w, !.until = now + JobLease, !.n = jobs[id].n + 1]]
    BY <1>1, <1>2
  <1>4. /\ jobs'[id].state = jobs[id].state
        /\ jobs'[id].owner = w
        /\ jobs'[id].until = now + JobLease
    BY <1>2, <1>3 DEF Row
  <1> QED  BY <1>2, <1>3, <1>4 DEF ReceiveJob, Leasable

\* The row a settlement leaves.
LEMMA SettleRows ==
    ASSUME TypeOK, QueueTypeOK, HeldInv, NEW w \in Workers, Settle(w)
    PROVE  /\ held[w] \in JobIds
           /\ \A j \in JobIds : j # held[w] => jobs'[j] = jobs[j]
           /\ \/ worker[w].pc = "returned" /\ jobs'[held[w]].state = "completed"
              \/ worker[w].pc = "threw" /\ jobs'[held[w]].state \in {"failed", "live"}
           /\ held' = [held EXCEPT ![w] = "none"]
  <1> DEFINE id == held[w]
  <1>1. id # "none" /\ held' = [held EXCEPT ![w] = "none"]
    BY DEF Settle
  <1>2. id \in JobIds /\ jobs[id].state = "live" /\ Owned(w)
    BY <1>1, HeldLemma DEF Owned
  <1>3. jobs \in [JobIds -> Row] /\ jobs[id] \in Row
    BY <1>2 DEF QueueTypeOK
  <1>4. \/ /\ worker[w].pc = "returned"
           /\ jobs' = [jobs EXCEPT ![id] = Settled(@, "completed")]
        \/ /\ worker[w].pc = "threw"
           /\ \/ jobs' = [jobs EXCEPT ![id] = Settled(@, "failed")]
              \/ jobs' = [jobs EXCEPT ![id] =
                            [@ EXCEPT !.owner = "none", !.until = 0,
                                      !.at = now + RetryDelay]]
    BY <1>2 DEF Settle
  <1>5. /\ Settled(jobs[id], "completed").state = "completed"
        /\ Settled(jobs[id], "failed").state = "failed"
        /\ [jobs[id] EXCEPT !.owner = "none", !.until = 0,
                            !.at = now + RetryDelay].state = "live"
    BY <1>2, <1>3 DEF Settled, Row
  <1> HIDE DEF id
  <1>6. \A j \in JobIds : j # id => jobs'[j] = jobs[j]
    BY <1>2, <1>3, <1>4
  <1>7. \/ worker[w].pc = "returned" /\ jobs'[id].state = "completed"
        \/ worker[w].pc = "threw" /\ jobs'[id].state \in {"failed", "live"}
    BY <1>2, <1>3, <1>4, <1>5
  <1> USE DEF id
  <1> QED  BY <1>1, <1>2, <1>6, <1>7

\* A heartbeat moves the end of the lease.
LEMMA HeartbeatRows ==
    ASSUME TypeOK, QueueTypeOK, HeldInv, NEW w \in Workers, Heartbeat(w)
    PROVE  /\ held[w] \in JobIds
           /\ \A j \in JobIds :
                /\ jobs'[j].state = jobs[j].state
                /\ jobs'[j].owner = jobs[j].owner
                /\ jobs'[j].at = jobs[j].at
                /\ jobs'[j].until = IF j = held[w] THEN now + JobLease
                                                   ELSE jobs[j].until
           /\ jobs[held[w]].until < now + JobLease
  <1>1. held[w] \in JobIds
    BY HeldLemma DEF Heartbeat
  <1>2. /\ jobs' = [jobs EXCEPT ![held[w]].until = now + JobLease]
        /\ jobs[held[w]].until < now + JobLease
    BY DEF Heartbeat
  <1>3. jobs \in [JobIds -> Row] /\ jobs[held[w]] \in Row
    BY <1>1 DEF QueueTypeOK
  <1> QED  BY <1>1, <1>2, <1>3 DEF Row

\* A step of processSend is one of a worker that runs a job, and leaves the
\* queue alone.
LEMMA RunFacts ==
    ASSUME TypeOK, NEW w \in Workers, RunJob(w)
    PROVE  /\ SendStep(w)
           /\ worker[w].pc \notin {"idle", "returned", "threw"}
           /\ worker'[w].pc # "idle"
           /\ \A v \in Workers : v # w => worker'[v] = worker[v]
           /\ fix[w] = 0
           /\ UNCHANGED <<now, client>>
           /\ UNCHANGED queue
           /\ email'.scheduled_at = email.scheduled_at
  <1>1. SendStep(w) /\ fix[w] = 0 /\ UNCHANGED queue
    BY DEF RunJob, SendStep
  <1> QED  BY <1>1, SendStepFacts

\* Workers go on holding what they hold, under leases that last.
LEMMA HeldWorker ==
    ASSUME TypeOK, QueueTypeOK, HeldInv, NEW w \in Workers,
           \/ \E id \in JobIds : ReceiveJob(w, id)
           \/ Corrective(w)
           \/ RunJob(w)
           \/ Settle(w)
           \/ Heartbeat(w)
           \/ LoseWorker(w)
    PROVE  HeldInv'
  <1>0. /\ worker \in [Workers -> Locals]
        /\ held \in [Workers -> JobIds \cup {"none"}]
        /\ fix \in [Workers -> Nat]
        /\ jobs \in [JobIds -> Row]
        /\ now \in Nat
        /\ JobLease \in Nat
    BY PortableSendAssumption DEF TypeOK, QueueTypeOK
  <1>1. ASSUME NEW id \in JobIds, ReceiveJob(w, id) PROVE HeldInv'
    <2>1. /\ \A j \in JobIds : j # id => jobs'[j] = jobs[j]
          /\ jobs'[id].state = jobs[id].state
          /\ jobs'[id].owner = w
          /\ jobs'[id].until = now + JobLease
          /\ held' = [held EXCEPT ![w] = id]
          /\ jobs[id].state = "live"
          /\ held[w] = "none"
      BY <1>1, ReceiveRows
    <2>2. \A v \in Workers : held[v] # id
      <3>1. Leasable(id)
        BY <1>1 DEF ReceiveJob
      <3>2. id # "none"
        BY DEF JobIds
      <3> QED  BY <3>1, <3>2, HeldLemma
    <2>3. LoadEmail(w, jobs[id].n + 1)
      BY <1>1 DEF ReceiveJob
    <2>4. /\ now' = now
          /\ worker'[w].pc # "idle"
          /\ \A v \in Workers : v # w => worker'[v] = worker[v] /\ fix'[v] = fix[v]
      <3>1. /\ now' = now
            /\ \E p, n : /\ p \in {"returned", "threw", "loaded"}
                         /\ worker' = [worker EXCEPT ![w] = At(p, n)]
        BY <2>3 DEF LoadEmail, Return, Throw
      <3>2. \A v \in Workers : v # w => fix'[v] = fix[v]
        BY <1>0, <1>1 DEF ReceiveJob
      <3> QED  BY <1>0, <3>1, <3>2 DEF At
    <2>5. ASSUME NEW v \in Workers
          PROVE  /\ held'[v] = "none" => worker'[v].pc = "idle" /\ fix'[v] = 0
                 /\ held'[v] # "none" =>
                      /\ worker'[v].pc # "idle"
                      /\ jobs'[held'[v]].state = "live"
                      /\ jobs'[held'[v]].owner = v
                      /\ 2 * (jobs'[held'[v]].until - now') >= JobLease - 1
      <3>1. CASE v = w
        <4>1. held'[v] = id
          BY <1>0, <2>1, <3>1
        <4>2. 2 * ((now + JobLease) - now) >= JobLease - 1
          BY <1>0
        <4>3. id # "none"
          BY DEF JobIds
        <4> QED  BY <2>1, <2>4, <3>1, <4>1, <4>2, <4>3
      <3>2. CASE v # w
        <4>1. held'[v] = held[v]
          BY <1>0, <2>1, <3>2
        <4>2. held[v] # "none" => jobs'[held[v]] = jobs[held[v]]
          BY <1>0, <2>1, <2>2
        <4> QED  BY <2>4, <3>2, <4>1, <4>2 DEF HeldInv
      <3> QED  BY <3>1, <3>2
    <2> QED  BY <2>5 DEF HeldInv
  <1>2. CASE Corrective(w)
    <2>1. /\ UNCHANGED <<held, worker, now>>
          /\ fix' = [fix EXCEPT ![w] = 0]
          /\ \/ jobs' = jobs
             \/ jobs' = Enqueued(jobs, "direct", DelayedUntil(fix[w], now))
      BY <1>2 DEF Corrective, vars
    <2>2. \A j \in JobIds : jobs[j].state # "absent" =>
            /\ jobs'[j].state = jobs[j].state
            /\ jobs'[j].owner = jobs[j].owner
            /\ jobs'[j].until = jobs[j].until
      <3>1. DelayedUntil(fix[w], now) \in Nat
        BY <1>0, DelayLemma
      <3>2. "direct" \in JobIds
        BY DEF JobIds
      <3> QED  BY <1>0, <2>1, <3>1, <3>2, EnqueuedRows
    <2> QED  BY <1>0, <2>1, <2>2 DEF HeldInv
  <1>3. CASE RunJob(w)
    <2>1. /\ worker[w].pc # "idle" /\ worker'[w].pc # "idle"
          /\ \A v \in Workers : v # w => worker'[v] = worker[v]
          /\ UNCHANGED <<now, held, jobs, fix>>
      BY <1>3, RunFacts DEF queue
    <2> QED  BY <2>1 DEF HeldInv
  <1>4. CASE Settle(w)
    <2>1. /\ held[w] # "none"
          /\ fix[w] = 0
          /\ UNCHANGED <<now, fix>>
          /\ worker' = [worker EXCEPT ![w] = IdleLocals]
      BY <1>4 DEF Settle, Finish
    <2>2. /\ \A j \in JobIds : j # held[w] => jobs'[j] = jobs[j]
          /\ held' = [held EXCEPT ![w] = "none"]
      BY <1>4, SettleRows
    <2>3. \A v \in Workers : v # w => held[v] # held[w]
      BY <2>1, HeldLemma
    <2>4. worker'[w].pc = "idle"
      BY <1>0, <2>1 DEF IdleLocals, At
    <2> QED  BY <1>0, <2>1, <2>2, <2>3, <2>4 DEF HeldInv
  <1>5. CASE Heartbeat(w)
    <2>1. /\ \A j \in JobIds :
               /\ jobs'[j].state = jobs[j].state
               /\ jobs'[j].owner = jobs[j].owner
               /\ jobs'[j].until = IF j = held[w] THEN now + JobLease
                                                  ELSE jobs[j].until
      BY <1>5, HeartbeatRows
    <2>2. UNCHANGED <<held, worker, now, fix>>
      BY <1>5 DEF Heartbeat, vars
    <2>3. 2 * ((now + JobLease) - now) >= JobLease - 1
      BY <1>0
    <2> QED  BY <1>0, <2>1, <2>2, <2>3 DEF HeldInv
  <1>6. CASE LoseWorker(w)
    <2>1. /\ worker' = [worker EXCEPT ![w] = IdleLocals]
          /\ held' = [held EXCEPT ![w] = "none"]
          /\ fix' = [fix EXCEPT ![w] = 0]
          /\ UNCHANGED <<now, jobs>>
      BY <1>6 DEF LoseWorker, Crash
    <2>2. worker'[w].pc = "idle"
      BY <1>0, <2>1 DEF IdleLocals, At
    <2> QED  BY <1>0, <2>1, <2>2 DEF HeldInv
  <1> QED  BY <1>1, <1>2, <1>3, <1>4, <1>5, <1>6

\* Nobody else takes a row from a worker.
LEMMA HeldRest ==
    ASSUME TypeOK, QueueTypeOK, HeldInv,
           \/ PublishItem
           \/ \E c \in Clients : \/ Request(c)
                                 \/ RescheduleStore(c)
                                 \/ RescheduleWake(c)
                                 \/ RescheduleLost(c)
           \/ SuppressionChange
           \/ PassTime
           \/ UNCHANGED allVars
    PROVE  HeldInv'
  <1> USE ReadingsLemma
  <1>0. /\ held \in [Workers -> JobIds \cup {"none"}]
        /\ jobs \in [JobIds -> Row]
        /\ JobIds = {"item", "direct"}
        /\ JobLease \in Nat
    BY PortableSendAssumption DEF QueueTypeOK, JobIds
  <1>1. ASSUME UNCHANGED <<worker, now, held, fix>>,
               \/ jobs' = jobs
               \/ \E id \in JobIds, at \in Nat : jobs' = Enqueued(jobs, id, at)
        PROVE  HeldInv'
    <2>1. \A j \in JobIds : jobs[j].state # "absent" =>
            /\ jobs'[j].state = jobs[j].state
            /\ jobs'[j].owner = jobs[j].owner
            /\ jobs'[j].until = jobs[j].until
      BY <1>0, <1>1, EnqueuedRows
    <2> QED  BY <1>0, <1>1, <2>1 DEF HeldInv
  <1>2. CASE PublishItem
    BY <1>0, <1>1, <1>2 DEF PublishItem, vars
  <1>3. ASSUME NEW c \in Clients, Request(c) PROVE HeldInv'
    BY <1>1, <1>3 DEF Request, CancelRead, CancelApply, RescheduleRead
  <1>4. ASSUME NEW c \in Clients, RescheduleStore(c) PROVE HeldInv'
    BY <1>1, <1>4 DEF RescheduleStore, RescheduleApply
  <1>5. ASSUME NEW c \in Clients, RescheduleWake(c) PROVE HeldInv'
    <2>1. wake[c].at \in Nat /\ wake[c].from \in Nat
      BY DEF QueueTypeOK, Wake
    <2>2. /\ DelayedUntil(wake[c].at, wake[c].from) \in Nat
          /\ DelayedUntil(email.scheduled_at, now) \in Nat
      BY <2>1, DelayLemma
    <2>3. \/ jobs' = jobs
          \/ jobs' = Enqueued(jobs, "direct", DelayedUntil(wake[c].at, wake[c].from))
          \/ jobs' = Enqueued(jobs, "direct", DelayedUntil(email.scheduled_at, now))
      BY <1>5 DEF RescheduleWake
    <2>4. UNCHANGED <<worker, now, held, fix>>
      BY <1>5 DEF RescheduleWake, vars
    <2> QED  BY <1>0, <1>1, <2>2, <2>3, <2>4
  <1>6. ASSUME NEW c \in Clients, RescheduleLost(c) PROVE HeldInv'
    BY <1>1, <1>6 DEF RescheduleLost, vars
  <1>7. CASE SuppressionChange
    BY <1>1, <1>7 DEF SuppressionChange, PutSuppression, DeleteSuppression
  <1>8. CASE PassTime
    <2>1. UNCHANGED <<worker, held, fix, jobs>> /\ now' = now + 1
      BY <1>8 DEF PassTime, Tick, queue
    <2>2. \A w \in Workers : held[w] # "none" =>
            2 * (jobs[held[w]].until - now) > JobLease
      BY <1>8, HeldLemma DEF PassTime, Owned
    <2>3. \A w \in Workers : held[w] # "none" =>
            2 * (jobs[held[w]].until - (now + 1)) >= JobLease - 1
      <3>1. \A w \in Workers : held[w] # "none" => jobs[held[w]].until \in Nat
        BY <1>0 DEF Row
      <3> QED  BY <1>0, <2>2, <3>1
    <2> QED  BY <2>1, <2>3 DEF HeldInv
  <1>9. CASE UNCHANGED allVars
    BY <1>1, <1>9 DEF allVars, vars, queue
  <1> QED  BY <1>2, <1>3, <1>4, <1>5, <1>6, <1>7, <1>8, <1>9

\* Corrective jobs are asked for, and published, for the schedule that the
\* e-mail has, and the outbox item is the only publisher of its own job.
LEMMA ScheduleWorker ==
    ASSUME TypeOK, QueueTypeOK, HeldInv, ScheduleInv, NEW w \in Workers,
           \/ \E id \in JobIds : ReceiveJob(w, id)
           \/ Corrective(w)
           \/ RunJob(w)
           \/ Settle(w)
           \/ Heartbeat(w)
           \/ LoseWorker(w)
    PROVE  ScheduleInv'
  <1> USE ReadingsLemma
  <1>0. /\ worker \in [Workers -> Locals]
        /\ held \in [Workers -> JobIds \cup {"none"}]
        /\ fix \in [Workers -> Nat]
        /\ jobs \in [JobIds -> Row]
        /\ JobIds = {"item", "direct"}
        /\ JobLease \in Nat
        /\ \A id \in JobIds : jobs[id].at \in Nat
        /\ MaxDelay \in Nat
    BY PortableSendAssumption DEF TypeOK, QueueTypeOK, JobIds, Row
  <1>1. ASSUME NEW id \in JobIds, ReceiveJob(w, id) PROVE ScheduleInv'
    <2>1. /\ \A j \in JobIds : j # id => jobs'[j] = jobs[j]
          /\ jobs'[id].state = jobs[id].state
          /\ held' = [held EXCEPT ![w] = id]
          /\ jobs[id].state = "live"
          /\ jobs[id].at <= now
          /\ held[w] = "none"
      BY <1>1, ReceiveRows
    <2>2. /\ UNCHANGED <<email, now, client, item, due, wake>>
          /\ fix' = [fix EXCEPT ![w] =
                       IF email.status \notin FINAL_STATUSES
                         /\ email.scheduled_at > now THEN email.scheduled_at ELSE 0]
          /\ LoadEmail(w, jobs[id].n + 1)
      BY <1>1 DEF ReceiveJob, LoadEmail, ledger
    <2>3. id = "direct" => email.scheduled_at <= now
      BY <1>0, <2>1 DEF ScheduleInv
    <2>9. Within' /\ (email.scheduled_at > now => email.scheduled_at <= now + MaxDelay)
      BY <1>0, <2>1, <2>2 DEF ScheduleInv, Within
    <2>4. fix'[w] > 0 => /\ fix'[w] = email.scheduled_at
                         /\ fix'[w] <= now + MaxDelay
                         /\ worker'[w].pc \in {"returned", "threw"}
                         /\ id = "item"
      <3>1. fix'[w] > 0 => /\ email.status \notin FINAL_STATUSES
                           /\ email.scheduled_at > now
                           /\ fix'[w] = email.scheduled_at
        BY <1>0, <2>2
      <3>2. email.status \notin FINAL_STATUSES /\ email.scheduled_at > now =>
              Return(w) \/ Throw(w)
        BY <2>2 DEF LoadEmail
      <3> QED  BY <1>0, <2>3, <2>9, <3>1, <3>2 DEF Return, Throw, At
    <2>5. \A v \in Workers : v # w =>
            worker'[v] = worker[v] /\ fix'[v] = fix[v] /\ held'[v] = held[v]
      <3>1. \E p, n : worker' = [worker EXCEPT ![w] = At(p, n)]
        BY <2>2 DEF LoadEmail, Return, Throw
      <3> QED  BY <1>0, <2>1, <2>2, <3>1
    <2>6. held'[w] = id
      BY <1>0, <2>1
    <2>7. item = "pending" => jobs'["item"].state = "absent"
      BY <1>0, <2>1 DEF ScheduleInv
    <2>8. jobs'["direct"].state # "absent" =>
            \/ email.scheduled_at <= now
            \/ /\ jobs'["direct"].state = "live"
               /\ jobs'["direct"].owner = "none"
               /\ jobs'["direct"].at >= email.scheduled_at
      BY <1>0, <2>1, <2>3 DEF ScheduleInv
    <2> QED  BY <2>2, <2>4, <2>5, <2>6, <2>7, <2>8, <2>9 DEF ScheduleInv
  <1>2. CASE Corrective(w)
    <2>1. /\ UNCHANGED <<email, now, client, worker, item, due, held, wake>>
          /\ fix' = [fix EXCEPT ![w] = 0]
          /\ \/ jobs' = jobs
             \/ jobs' = Enqueued(jobs, "direct", DelayedUntil(fix[w], now))
          /\ fix[w] > 0
      BY <1>2 DEF Corrective, vars, ledger
    <2>2. PICK at : at = DelayedUntil(fix[w], now)
      OBVIOUS
    <2>3. at \in Nat /\ at >= email.scheduled_at
      <3>1. fix[w] = email.scheduled_at /\ email.scheduled_at <= now + MaxDelay
        BY <2>1 DEF ScheduleInv
      <3> QED  BY <2>2, <3>1, UncappedLemma
    <2>4. /\ jobs'["item"] = jobs["item"]
          /\ \/ jobs'["direct"] = jobs["direct"]
             \/ /\ jobs["direct"].state = "absent"
                /\ jobs'["direct"].state = "live"
                /\ jobs'["direct"].owner = "none"
                /\ jobs'["direct"].at = at
             \/ /\ jobs["direct"].state # "absent"
                /\ jobs'["direct"].state = jobs["direct"].state
                /\ jobs'["direct"].owner = jobs["direct"].owner
                /\ jobs'["direct"].at \in {jobs["direct"].at, at}
      BY <1>0, <2>1, <2>2, <2>3, EnqueuedRows
    <2>5. Within'
      BY <2>1 DEF ScheduleInv, Within
    <2> QED  BY <1>0, <2>1, <2>3, <2>4, <2>5 DEF ScheduleInv
  <1>3. CASE RunJob(w)
    <2>1. /\ fix[w] = 0
          /\ \A v \in Workers : v # w => worker'[v] = worker[v]
          /\ UNCHANGED <<now, client, item, due, jobs, held, fix, wake>>
          /\ email'.scheduled_at = email.scheduled_at
      BY <1>3, RunFacts DEF queue
    <2> QED  BY <1>0, <2>1 DEF ScheduleInv, Within
  <1>4. CASE Settle(w)
    <2>1. /\ held[w] # "none"
          /\ fix[w] = 0
          /\ UNCHANGED <<now, fix, email, client, item, due, wake>>
          /\ worker' = [worker EXCEPT ![w] = IdleLocals]
      BY <1>4 DEF Settle, Finish, ledger
    <2>2. /\ \A j \in JobIds : j # held[w] => jobs'[j] = jobs[j]
          /\ held' = [held EXCEPT ![w] = "none"]
      BY <1>4, SettleRows
    <2>3. jobs[held[w]].state = "live" /\ jobs[held[w]].owner # "none"
      BY <2>1, HeldLemma
    <2>4. held[w] = "direct" => email.scheduled_at <= now
      BY <1>0, <2>3 DEF ScheduleInv
    <2>5. item = "pending" => held[w] # "item"
      BY <2>3 DEF ScheduleInv
    <2>6. Within'
      <3>1. email.scheduled_at <= now + MaxDelay
        <4>1. held[w] \in JobIds
          BY <2>1, HeldLemma
        <4> QED  BY <1>0, <2>3, <4>1 DEF ScheduleInv, Within
      <3> QED  BY <2>1, <3>1 DEF Within
    <2> QED  BY <1>0, <2>1, <2>2, <2>4, <2>5, <2>6 DEF ScheduleInv
  <1>5. CASE Heartbeat(w)
    <2>1. \A j \in JobIds : /\ jobs'[j].state = jobs[j].state
                            /\ jobs'[j].owner = jobs[j].owner
                            /\ jobs'[j].at = jobs[j].at
      BY <1>5, HeartbeatRows
    <2>2. UNCHANGED <<email, now, client, worker, item, due, held, fix, wake>>
      BY <1>5 DEF Heartbeat, vars, ledger
    <2> QED  BY <1>0, <2>1, <2>2 DEF ScheduleInv, Within
  <1>6. CASE LoseWorker(w)
    <2>1. /\ worker' = [worker EXCEPT ![w] = IdleLocals]
          /\ held' = [held EXCEPT ![w] = "none"]
          /\ fix' = [fix EXCEPT ![w] = 0]
          /\ UNCHANGED <<email, now, client, jobs, item, due, wake>>
      BY <1>6 DEF LoseWorker, Crash, ledger
    <2> QED  BY <1>0, <2>1 DEF ScheduleInv, Within
  <1> QED  BY <1>1, <1>2, <1>3, <1>4, <1>5, <1>6

\* The requests keep it too, while they do not move the schedule behind a
\* corrective job.
LEMMA ScheduleRest ==
    ASSUME TypeOK, QueueTypeOK, CountersOK, HeldInv, ScheduleInv, DriverInv,
           [FirstCorrection]_allVars, [NearCorrection]_allVars,
           \/ PublishItem
           \/ \E c \in Clients : \/ Request(c)
                                 \/ RescheduleStore(c)
                                 \/ RescheduleWake(c)
                                 \/ RescheduleLost(c)
           \/ SuppressionChange
           \/ PassTime
           \/ UNCHANGED allVars
    PROVE  ScheduleInv'
  <1> USE ReadingsLemma
  <1>0. /\ jobs \in [JobIds -> Row]
        /\ JobIds = {"item", "direct"}
        /\ \A id \in JobIds : jobs[id].at \in Nat
        /\ MaxDelay \in Nat
        /\ due \in Nat
        /\ wake \in [Clients -> Wake]
        /\ client \in [Clients -> [pc : ClientPc, at : Nat]]
        /\ fix \in [Workers -> Nat]
    BY PortableSendAssumption DEF QueueTypeOK, CountersOK, JobIds, Row, TypeOK
  <1>1. CASE PublishItem
    <2>1. /\ jobs' = Enqueued(jobs, "item", now)
          /\ UNCHANGED <<email, now, client, worker, held, fix, wake>>
          /\ item # "dispatched" /\ item' # "pending"
          /\ due <= now
      BY <1>1 DEF PublishItem, vars, ledger
    <2>2. jobs'["direct"] = jobs["direct"]
      BY <1>0, <2>1, EnqueuedRows
    <2>3. email.scheduled_at <= now + MaxDelay
      BY <1>0, <2>1 DEF ScheduleInv, Within
    <2> QED  BY <2>1, <2>2, <2>3 DEF ScheduleInv, Within
  <1>2. ASSUME NEW c \in Clients, Request(c) PROVE ScheduleInv'
    <2>1. UNCHANGED <<now, worker, item, due, jobs, held, fix, wake>>
      BY <1>2 DEF Request, CancelRead, CancelApply, RescheduleRead
    <2>2. email'.scheduled_at = email.scheduled_at
      BY <1>2, CancelOutcome DEF Request, CancelRead, RescheduleRead, ledger
    <2> QED  BY <2>1, <2>2 DEF ScheduleInv, Within
  <1>3. ASSUME NEW c \in Clients, RescheduleStore(c) PROVE ScheduleInv'
    <2>1. /\ UNCHANGED <<now, worker, item, jobs, held, fix>>
          /\ \/ /\ email' = [email EXCEPT !.status = "scheduled",
                                          !.scheduled_at = client[c].at]
                /\ email.status \in Pending
                /\ \/ item = "pending" /\ due' = client[c].at /\ wake' = wake
                   \/ /\ item # "pending" \/ due <= now
                      /\ due' = due
                      /\ wake' = [wake EXCEPT ![c] =
                           [step |-> "schedule", at |-> client[c].at, from |-> now]]
             \/ UNCHANGED <<email, due, wake>>
      BY <1>3 DEF RescheduleStore, RescheduleApply
    <2>2. CASE UNCHANGED <<email, due, wake>>
      BY <2>1, <2>2 DEF ScheduleInv, Within
    <2>3. CASE email'.scheduled_at # email.scheduled_at
      <3>1. NoCorrection /\ NearCorrection
        <4>1. email' # email
          BY <2>3
        <4> QED  BY <2>3, <4>1 DEF FirstCorrection, allVars, vars, ledger
      <3>2. email'.scheduled_at = client[c].at
        BY <2>1, <2>3 DEF TypeOK, EmailRecord
      <3>3. Within'
        BY <1>0, <2>1, <2>3, <3>1, <3>2 DEF NoCorrection, NearCorrection, Within
      <3>4. \A d \in Clients : wake'[d].step # "none" =>
              /\ wake'[d].at = client[c].at
              /\ wake'[d].from <= now
              /\ wake'[d].at <= wake'[d].from + MaxDelay
        <4>1. \A d \in Clients : d # c => wake'[d].step = "none"
          BY <1>0, <2>1, <3>1 DEF NoCorrection
        <4>2. \/ wake'[c].step = "none"
              \/ /\ wake'[c] = [step |-> "schedule", at |-> client[c].at, from |-> now]
                 /\ item # "pending" \/ due <= now
                 /\ due' = due
          BY <1>0, <2>1, <2>3, <3>1 DEF NoCorrection
        <4>3. (item # "pending" \/ due <= now) /\ due' = due =>
                client[c].at <= now + MaxDelay
          BY <1>0, <2>1, <2>3, <3>1, <3>2 DEF NearCorrection
        <4> QED  BY <4>1, <4>2, <4>3
      <3> QED  BY <2>1, <3>1, <3>2, <3>3, <3>4 DEF ScheduleInv, NoCorrection
    <2>4. CASE email'.scheduled_at = email.scheduled_at /\ ~UNCHANGED <<email, due, wake>>
      <3>1. email.status \in Pending /\ client[c].at = email.scheduled_at
        BY <2>1, <2>4 DEF TypeOK, EmailRecord
      <3>2. email.scheduled_at <= now + MaxDelay \/ item = "pending"
        <4>1. SUFFICES ASSUME email.scheduled_at > now + MaxDelay PROVE item = "pending"
          BY <1>0
        <4>2. jobs["direct"].state = "absent"
          BY <1>0, <4>1 DEF ScheduleInv, Within
        <4>3. \A w \in Workers : fix[w] = 0
          BY <1>0, <4>1 DEF ScheduleInv
        <4>4. jobs["item"].state = "absent" => item = "pending"
          BY <1>0, <3>1, <4>2, <4>3 DEF DriverInv, Waiting, Alive
        <4> QED  BY <1>0, <4>1, <4>4 DEF ScheduleInv, Within
      <3>3. Within'
        BY <1>0, <2>1, <2>4, <3>1, <3>2 DEF ScheduleInv, Within
      <3>4. \A d \in Clients : wake'[d].step # "none" =>
              /\ wake'[d].at = email.scheduled_at
              /\ wake'[d].from <= now
              /\ wake'[d].at <= wake'[d].from + MaxDelay
        <4>1. \A d \in Clients : d # c => wake'[d] = wake[d]
          BY <1>0, <2>1, <2>4
        <4>2. \/ wake'[c] = wake[c]
              \/ /\ wake'[c] = [step |-> "schedule", at |-> client[c].at, from |-> now]
                 /\ item # "pending" \/ due <= now
          BY <1>0, <2>1, <2>4
        <4>3. item # "pending" \/ due <= now => email.scheduled_at <= now + MaxDelay
          BY <1>0, <3>2 DEF ScheduleInv, Within
        <4> QED  BY <1>0, <3>1, <4>1, <4>2, <4>3 DEF ScheduleInv
      <3> QED  BY <2>1, <2>4, <3>3, <3>4 DEF ScheduleInv
    <2> QED  BY <2>2, <2>3, <2>4
  <1>4. ASSUME NEW c \in Clients, RescheduleWake(c) PROVE ScheduleInv'
    <2>1. /\ UNCHANGED <<email, now, client, worker, item, due, held, fix>>
          /\ \/ wake' = [wake EXCEPT ![c].step = "verify"]
             \/ wake' = [wake EXCEPT ![c] = NoWake]
          /\ wake[c].step # "none"
      BY <1>4 DEF RescheduleWake, vars, ledger
    <2>2. /\ wake[c].at = email.scheduled_at
          /\ wake[c].from <= now
          /\ wake[c].at <= wake[c].from + MaxDelay
      BY <2>1 DEF ScheduleInv
    <2>3. PICK at : at = DelayedUntil(wake[c].at, wake[c].from)
      OBVIOUS
    <2>4. at \in Nat /\ at >= email.scheduled_at
      <3>1. wake[c].from \in Nat
        BY <1>0 DEF Wake
      <3> QED  BY <2>2, <2>3, <3>1, UncappedLemma
    <2>5. jobs' = jobs \/ jobs' = Enqueued(jobs, "direct", at)
      BY <1>4, <2>2, <2>3 DEF RescheduleWake
    <2>6. /\ jobs'["item"] = jobs["item"]
          /\ \/ jobs'["direct"] = jobs["direct"]
             \/ /\ jobs["direct"].state = "absent"
                /\ jobs'["direct"].state = "live"
                /\ jobs'["direct"].owner = "none"
                /\ jobs'["direct"].at = at
             \/ /\ jobs["direct"].state # "absent"
                /\ jobs'["direct"].state = jobs["direct"].state
                /\ jobs'["direct"].owner = jobs["direct"].owner
                /\ jobs'["direct"].at \in {jobs["direct"].at, at}
      BY <1>0, <2>4, <2>5, EnqueuedRows
    <2>7. \A d \in Clients : wake'[d].step # "none" =>
            /\ wake[d].step # "none"
            /\ wake'[d].at = wake[d].at
            /\ wake'[d].from = wake[d].from
      <3>1. wake[c] \in Wake
        BY <1>0
      <3> QED  BY <1>0, <2>1, <3>1 DEF NoWake, Wake
    <2>8. Within'
      <3>1. email.scheduled_at <= now + MaxDelay
        <4>1. wake[c].from \in Nat
          BY <1>0 DEF Wake
        <4> QED  BY <1>0, <2>2, <4>1
      <3> QED  BY <2>1, <3>1 DEF Within
    <2> QED  BY <1>0, <2>1, <2>4, <2>6, <2>7, <2>8 DEF ScheduleInv
  <1>5. ASSUME NEW c \in Clients, RescheduleLost(c) PROVE ScheduleInv'
    <2>1. /\ UNCHANGED <<email, now, client, worker, item, due, jobs, held, fix>>
          /\ wake' = [wake EXCEPT ![c] = NoWake]
      BY <1>5 DEF RescheduleLost, vars, ledger
    <2> QED  BY <1>0, <2>1 DEF ScheduleInv, Within, NoWake
  <1>6. CASE SuppressionChange
    BY <1>6 DEF SuppressionChange, PutSuppression, DeleteSuppression, ledger,
                ScheduleInv, Within
  <1>7. CASE PassTime
    <2>1. /\ UNCHANGED <<email, client, worker, item, due, jobs, held, fix, wake>>
          /\ now' = now + 1
      BY <1>7 DEF PassTime, Tick, queue, ledger
    <2>2. email.scheduled_at <= now => email.scheduled_at <= now'
      BY <2>1
    <2>3. \A c \in Clients : wake[c].from <= now => wake[c].from <= now'
      BY <1>0, <2>1 DEF Wake
    <2>4. Within'
      BY <1>0, <2>1 DEF ScheduleInv, Within
    <2>5. \A w \in Workers : fix[w] <= now + MaxDelay => fix[w] <= now' + MaxDelay
      BY <1>0, <2>1
    <2> QED  BY <2>1, <2>2, <2>3, <2>4, <2>5 DEF ScheduleInv
  <1>8. CASE UNCHANGED allVars
    BY <1>8 DEF allVars, vars, queue, ledger, ScheduleInv, Within
  <1> QED  BY <1>1, <1>2, <1>3, <1>4, <1>5, <1>6, <1>7, <1>8

\* A final e-mail needs nobody.
LEMMA DriverFinal == ASSUME email'.status \in FINAL_STATUSES PROVE DriverInv'
  BY DEF DriverInv, FINAL_STATUSES, Pending, LeaseExpired

\* A step that leaves the records and the clock alone, and loses no driver.
LEMMA DriverFrame ==
    ASSUME DriverInv, UNCHANGED <<email, attempts, now>>,
           Waiting => Waiting',
           \A id \in JobIds :
             email.status = "sending" /\ Unsubmitted /\ ~LeaseExpired
               /\ email.lease > 0 /\ Claimant(id) => Claimant(id)'
    PROVE  DriverInv'
  <1>1. /\ LeaseExpired' <=> LeaseExpired
        /\ Unsubmitted' <=> Unsubmitted
    BY DEF LeaseExpired, Unsubmitted
  <1> QED  BY <1>1 DEF DriverInv

\* A worker that goes on, or ends with an error, keeps its job: it does not
\* give up a submission that is still its own.
LEMMA DriverRun ==
    ASSUME TypeOK, QueueTypeOK, HeldInv, DriverInv, NEW w \in Workers,
           UNCHANGED <<email, attempts, now, item, jobs, held, fix>>,
           worker[w].pc \notin {"idle", "returned", "threw"},
           worker'[w].pc # "returned",
           \A v \in Workers : v # w => worker'[v] = worker[v],
           email.status = "sending" /\ Unsubmitted /\ AboutToSubmit(w) =>
             worker'[w].pc = "ledgered" /\ worker'[w].seq = Len(attempts) + 1
    PROVE  DriverInv'
  <1>1. \A id \in JobIds : Alive(id) => Alive(id)'
    BY DEF Alive
  <1>2. Waiting => Waiting'
    BY <1>1 DEF Waiting
  <1>3. ASSUME NEW id \in JobIds, email.status = "sending", Unsubmitted, Claimant(id)
        PROVE  Claimant(id)'
    <2>1. CASE jobs[id].state = "failed"
      BY <2>1 DEF Claimant, AboutToSubmit
    <2>2. CASE jobs[id].state # "failed"
      <3>1. \A v \in Workers : held[v] = id =>
              \/ worker[v].pc = "claimed"
              \/ worker[v].pc = "ledgered" /\ worker[v].seq = Len(attempts) + 1
        BY <1>3, <2>2 DEF Claimant, AboutToSubmit
      <3>2. \A v \in Workers : held'[v] = id =>
              \/ worker'[v].pc = "claimed"
              \/ worker'[v].pc = "ledgered" /\ worker'[v].seq = Len(attempts') + 1
        BY <1>3, <3>1 DEF AboutToSubmit
      <3> QED  BY <1>3, <2>2, <3>2 DEF Claimant, AboutToSubmit
    <2> QED  BY <2>1, <2>2
  <1> QED  BY <1>2, <1>3, DriverFrame

\* The claim's job outlives its send lease, if its worker is not lost for
\* certain.
LEMMA ClaimKeepsDriver ==
    ASSUME TypeOK, QueueTypeOK, HeldInv, DriverInv,
           MaxLost = 0 \/ 2 * SendLease + 1 < JobLease,
           NEW w \in Workers, held[w] # "none", ClaimEmailForSend(w),
           UNCHANGED queue
    PROVE  DriverInv'
  <1>0. /\ worker \in [Workers -> Locals]
        /\ email \in EmailRecord
        /\ now \in Nat
        /\ SendLease \in Nat \ {0}
        /\ JobLease \in Nat
    BY EmailDeliveryAssumption, PortableSendAssumption DEF TypeOK
  <1>1. /\ held[w] \in JobIds
        /\ jobs[held[w]].state = "live"
        /\ jobs[held[w]].owner = w
        /\ w # "none"
        /\ \A v \in Workers : held[v] = held[w] => v = w
        /\ 2 * (jobs[held[w]].until - now) >= JobLease - 1
    BY HeldLemma DEF HeldInv
  <1>2. UNCHANGED <<item, jobs, held, fix, now, attempts>>
    BY DEF queue, ClaimEmailForSend
  <1>3. CASE Claimable
    <2>1. PICK k : k = ClaimCount(worker[w].n)
      OBVIOUS
    <2>2. /\ email' = [email EXCEPT !.status = "sending", !.attempts = k,
                                    !.lease = now + SendLease]
          /\ worker' = [worker EXCEPT ![w].pc = "claimed", ![w].n = k]
      BY <1>3, <2>1 DEF ClaimEmailForSend
    <2>3. email'.status = "sending" /\ email'.lease = now + SendLease
      BY <1>0, <2>2 DEF EmailRecord
    <2>4. worker'[w].pc = "claimed"
      BY <1>0, <2>2 DEF Locals
    <2>5. ~LeaseExpired' /\ email'.lease > 0
      BY <1>0, <1>2, <2>3 DEF LeaseExpired
    <2>6. jobs[held[w]].until \in Nat
      BY <1>1 DEF QueueTypeOK, Row
    <2>7. \/ jobs[held[w]].until > now + SendLease
          \/ MaxLost = 0
      BY <1>0, <1>1, <2>6
    <2>8. Claimant(held[w])'
      BY <1>1, <1>2, <2>3, <2>4, <2>7 DEF Claimant, AboutToSubmit
    <2>9. (\E id \in JobIds : Claimant(id))'
      BY <1>1, <1>2, <2>8
    <2> QED  BY <2>3, <2>5, <2>9 DEF DriverInv, Pending
  <1>4. CASE ~Claimable
    <2>1. UNCHANGED email /\ Return(w) /\ worker[w].pc = "clear"
      BY <1>4 DEF ClaimEmailForSend
    <2>2. ~(email.status \in Pending) /\ ~LeaseExpired
      BY <1>4 DEF Claimable
    <2>3. LeaseExpired' <=> LeaseExpired
      BY <1>2, <2>1 DEF LeaseExpired
    <2>4. Unsubmitted' <=> Unsubmitted
      BY <1>2 DEF Unsubmitted
    <2>5. ASSUME NEW id \in JobIds, Claimant(id) PROVE Claimant(id)'
      <3>1. id # held[w]
        BY <1>1, <2>1, <2>5 DEF Claimant, AboutToSubmit
      <3>2. \A v \in Workers : v # w => worker'[v] = worker[v]
        BY <1>0, <2>1 DEF Return
      <3> QED  BY <1>2, <2>1, <2>5, <3>1, <3>2 DEF Claimant, AboutToSubmit
    <2>6. email.status = "sending" /\ Unsubmitted =>
            email.lease > 0 /\ (\E id \in JobIds : Claimant(id))'
      BY <2>2, <2>5 DEF DriverInv
    <2> QED  BY <2>1, <2>2, <2>3, <2>4, <2>6 DEF DriverInv
  <1> QED  BY <1>3, <1>4

\* So does every other step of processSend.
LEMMA DriverRunJob ==
    ASSUME TypeOK, SubmissionInv, QueueTypeOK, HeldInv, DriverInv,
           MaxLost = 0 \/ 2 * SendLease + 1 < JobLease,
           NEW w \in Workers, RunJob(w)
    PROVE  DriverInv'
  <1>1. /\ SendStep(w)
        /\ worker[w].pc \notin {"idle", "returned", "threw"}
        /\ \A v \in Workers : v # w => worker'[v] = worker[v]
        /\ UNCHANGED <<now, item, jobs, held, fix>>
        /\ UNCHANGED queue
    BY RunFacts DEF queue
  <1>2. held[w] # "none"
    BY <1>1 DEF HeldInv
  <1>3. CASE email'.status \in FINAL_STATUSES
    BY <1>3, DriverFinal
  <1>4. CASE ClaimEmailForSend(w)
    BY <1>1, <1>2, <1>4, ClaimKeepsDriver
  <1>5. CASE email'.status = "sending" /\ ~Unsubmitted'
    BY <1>5 DEF DriverInv, Pending
  <1>6. CASE email'.status = "queued" /\ worker'[w].pc = "threw"
    <2>1. /\ held[w] \in JobIds
          /\ jobs[held[w]].state = "live"
          /\ \A v \in Workers : held[v] = held[w] => v = w
      BY <1>2, HeldLemma
    <2>2. Alive(held[w])'
      BY <1>1, <1>6, <2>1 DEF Alive
    <2>3. Waiting'
      BY <1>1, <2>1, <2>2 DEF Waiting
    <2> QED  BY <1>6, <2>3 DEF DriverInv
  <1>7. ASSUME UNCHANGED <<email, attempts>>,
               worker'[w].pc # "returned",
               email.status = "sending" /\ Unsubmitted /\ AboutToSubmit(w) =>
                 worker'[w].pc = "ledgered" /\ worker'[w].seq = Len(attempts) + 1
        PROVE  DriverInv'
    BY <1>1, <1>7, DriverRun
  <1> QED  BY <1>1, <1>3, <1>4, <1>5, <1>6, <1>7, SendStepOutcome

\* Publishing a corrective job takes no driver away, and is one when it is new.
LEMMA DriverCorrected ==
    ASSUME TypeOK, QueueTypeOK, HeldInv, DriverInv,
           NEW id \in JobIds, NEW at \in Nat,
           UNCHANGED <<email, attempts, now, worker, held>>,
           jobs' = Enqueued(jobs, id, at) \/ jobs' = jobs,
           item' = "pending" \/ item # "pending" \/ Alive(id)',
           jobs'["direct"] # jobs["direct"] => id = "direct" /\ jobs' # jobs,
           \A w \in Workers :
             fix[w] > 0 /\ worker[w].pc = "returned" =>
               fix'[w] = fix[w] \/ jobs'["direct"].state # "absent"
    PROVE  DriverInv'
  <1>0. /\ jobs \in [JobIds -> Row]
        /\ "direct" \in JobIds
        /\ held \in [Workers -> JobIds \cup {"none"}]
    BY DEF QueueTypeOK, JobIds
  <1>1. \A j \in JobIds :
          /\ jobs[j].state # "absent" =>
               /\ jobs'[j].state = jobs[j].state
               /\ jobs'[j].owner = jobs[j].owner
               /\ jobs'[j].until = jobs[j].until
          /\ jobs[j].state = "absent" =>
               jobs'[j].state \in {"absent", "live"}
    BY <1>0, EnqueuedRows
  <1>2. \A j \in JobIds : Alive(j) => Alive(j)'
    BY <1>1 DEF Alive
  <1>3. \A j \in JobIds : Claimant(j) => Claimant(j)'
    BY <1>1 DEF Claimant, AboutToSubmit
  <1>4. ASSUME jobs["direct"].state = "absent", jobs'["direct"].state # "absent"
        PROVE  Alive("direct")'
    <2>1. jobs'["direct"].state = "live"
      BY <1>0, <1>1, <1>4
    <2>2. \A w \in Workers : held[w] # "direct"
      <3>1. "direct" # "none"
        OBVIOUS
      <3> QED  BY <1>4, <3>1, HeldLemma
    <2> QED  BY <2>1, <2>2 DEF Alive
  <1>5. Waiting => Waiting'
    <2>1. CASE item = "pending"
      BY <2>1 DEF Waiting
    <2>2. CASE \E j \in JobIds : Alive(j)
      BY <1>2, <2>2 DEF Waiting
    <2>3. ASSUME jobs["direct"].state = "absent",
                 NEW w \in Workers, fix[w] > 0, worker[w].pc = "returned"
          PROVE  Waiting'
      <3>1. CASE jobs'["direct"].state = "absent"
        BY <2>3, <3>1 DEF Waiting
      <3>2. CASE jobs'["direct"].state # "absent"
        BY <1>0, <1>4, <2>3, <3>2 DEF Waiting
      <3> QED  BY <3>1, <3>2
    <2> QED  BY <2>1, <2>2, <2>3 DEF Waiting
  <1> QED  BY <1>3, <1>5, DriverFrame

\* A worker lets go of a job only when somebody else looks after the e-mail.
LEMMA DriverWorker ==
    ASSUME TypeOK, SubmissionInv, QueueTypeOK, CountersOK, HeldInv, ScheduleInv,
           DriverInv,
           MaxLost = 0 \/ 2 * SendLease + 1 < JobLease,
           NEW w \in Workers,
           \/ \E id \in JobIds : ReceiveJob(w, id)
           \/ Corrective(w)
           \/ RunJob(w)
           \/ Settle(w)
           \/ Heartbeat(w)
           \/ LoseWorker(w)
    PROVE  DriverInv'
  <1> USE ReadingsLemma
  <1>0. /\ worker \in [Workers -> Locals]
        /\ held \in [Workers -> JobIds \cup {"none"}]
        /\ fix \in [Workers -> Nat]
        /\ jobs \in [JobIds -> Row]
        /\ JobIds = {"item", "direct"}
        /\ JobLease \in Nat
        /\ email \in EmailRecord
        /\ \A id \in JobIds : jobs[id].until \in Nat
        /\ \A id \in JobIds : jobs[id].at \in Nat
    BY PortableSendAssumption DEF TypeOK, QueueTypeOK, JobIds, Row
  <1>1. ASSUME NEW id \in JobIds, ReceiveJob(w, id) PROVE DriverInv'
    <2>1. /\ \A j \in JobIds : j # id => jobs'[j] = jobs[j]
          /\ jobs'[id].state = jobs[id].state
          /\ held' = [held EXCEPT ![w] = id]
          /\ jobs[id].state = "live"
          /\ jobs[id].at <= now
          /\ jobs[id].owner = "none" \/ jobs[id].until <= now
          /\ held[w] = "none"
      BY <1>1, ReceiveRows
    <2>2. /\ UNCHANGED <<email, now, attempts, item>>
          /\ fix' = [fix EXCEPT ![w] =
                       IF email.status \notin FINAL_STATUSES
                         /\ email.scheduled_at > now THEN email.scheduled_at ELSE 0]
          /\ LoadEmail(w, jobs[id].n + 1)
      BY <1>1 DEF ReceiveJob, LoadEmail, ledger
    <2>3. CASE email.status \in FINAL_STATUSES
      BY <2>2, <2>3, DriverFinal
    <2>4. CASE email.status \notin FINAL_STATUSES
      <3>1. \A v \in Workers : held[v] # id
        <4>1. Leasable(id) /\ id # "none"
          BY <1>0, <1>1 DEF ReceiveJob
        <4> QED  BY <4>1, HeldLemma
      <3>2. \A v \in Workers : v # w => held'[v] # id /\ worker'[v] = worker[v]
        <4>1. \E p, n : worker' = [worker EXCEPT ![w] = At(p, n)]
          BY <2>2 DEF LoadEmail, Return, Throw
        <4> QED  BY <1>0, <2>1, <3>1, <4>1
      <3>3. held'[w] = id
        BY <1>0, <2>1
      <3>4. Waiting'
        <4>1. CASE worker'[w].pc # "returned"
          <5>1. Alive(id)'
            BY <2>1, <3>2, <4>1 DEF Alive
          <5> QED  BY <5>1 DEF Waiting
        <4>2. CASE worker'[w].pc = "returned"
          <5>1. email.scheduled_at > now
            <6>1. ASSUME worker' = [worker EXCEPT ![w] = At("loaded", jobs[id].n + 1)]
                  PROVE  FALSE
              BY <1>0, <4>2, <6>1 DEF At
            <6>2. ASSUME Throw(w) PROVE FALSE
              BY <1>0, <4>2, <6>2 DEF Throw, At
            <6> QED  BY <2>2, <2>4, <6>1, <6>2 DEF LoadEmail
          <5>2. fix'[w] > 0
            BY <1>0, <2>2, <2>4, <5>1
          <5>3. id = "item" /\ jobs'["direct"] = jobs["direct"]
            BY <1>0, <2>1, <5>1 DEF ScheduleInv
          <5>4. CASE jobs["direct"].state = "absent"
            BY <4>2, <5>2, <5>3, <5>4 DEF Waiting
          <5>5. CASE jobs["direct"].state # "absent"
            <6>1. jobs["direct"].state = "live" /\ jobs["direct"].owner = "none"
              BY <1>0, <5>1, <5>5 DEF ScheduleInv
            <6>2. \A v \in Workers : held'[v] # "direct"
              <7>1. \A v \in Workers : held[v] # "direct"
                <8>1. "direct" # "none"
                  OBVIOUS
                <8> QED  BY <6>1, <8>1, HeldLemma
              <7> QED  BY <1>0, <2>1, <5>3, <7>1
            <6>3. Alive("direct")'
              BY <5>3, <6>1, <6>2 DEF Alive
            <6> QED  BY <1>0, <6>3 DEF Waiting
          <5> QED  BY <5>4, <5>5
        <4> QED  BY <4>1, <4>2
      <3>5. ASSUME NEW j \in JobIds, email.status = "sending", ~LeaseExpired,
                   email.lease > 0, Claimant(j)
            PROVE  Claimant(j)'
        <4>1. email.lease >= now
          BY <1>0, <3>5 DEF LeaseExpired, EmailRecord
        <4>2. j # id
          <5>1. CASE jobs[j].until > email.lease
            BY <1>0, <2>1, <3>5, <4>1, <5>1 DEF Claimant, EmailRecord
          <5>2. CASE \E v \in Workers : held[v] = j
            BY <3>1, <5>2
          <5> QED  BY <2>1, <3>5, <5>1, <5>2 DEF Claimant, AboutToSubmit
        <4>3. \A v \in Workers : held'[v] = j => v # w /\ held[v] = j
          BY <1>0, <2>1, <3>3, <4>2
        <4>4. \A v \in Workers : held[v] = j => held'[v] = j
          <5>1. j # "none"
            BY <1>0
          <5> QED  BY <1>0, <2>1, <5>1
        <4> QED  BY <2>1, <2>2, <3>2, <3>5, <4>2, <4>3, <4>4 DEF Claimant, AboutToSubmit
      <3> QED  BY <2>2, <3>4, <3>5, DriverFrame
    <2> QED  BY <2>3, <2>4
  <1>2. CASE Corrective(w)
    <2>1. /\ UNCHANGED <<email, attempts, now, worker, item, held>>
          /\ fix' = [fix EXCEPT ![w] = 0]
          /\ jobs' = IF worker[w].pc = "returned"
                       THEN Enqueued(jobs, "direct", DelayedUntil(fix[w], now))
                       ELSE jobs
      BY <1>2 DEF Corrective, vars, ledger
    <2>2. PICK at : at = DelayedUntil(fix[w], now)
      OBVIOUS
    <2>3. at \in Nat
      BY <1>0, <2>2, DelayLemma
    <2>4. ASSUME NEW v \in Workers, fix[v] > 0, worker[v].pc = "returned"
          PROVE  fix'[v] = fix[v] \/ jobs'["direct"].state # "absent"
      <3>1. CASE v = w
        <4>1. jobs' = Enqueued(jobs, "direct", at)
          BY <2>1, <2>2, <2>4, <3>1
        <4>2. jobs'["direct"].state # "absent"
          BY <1>0, <2>3, <4>1, EnqueuedRows
        <4> QED  BY <4>2
      <3>2. CASE v # w
        BY <1>0, <2>1, <3>2
      <3> QED  BY <3>1, <3>2
    <2>5. CASE jobs' = jobs
      BY <1>0, <2>1, <2>3, <2>4, <2>5, DriverCorrected
    <2>6. CASE jobs' # jobs
      <3>1. jobs' = Enqueued(jobs, "direct", at)
        BY <2>1, <2>2, <2>6
      <3> QED  BY <1>0, <2>1, <2>3, <2>4, <2>6, <3>1, DriverCorrected
    <2> QED  BY <2>5, <2>6
  <1>3. CASE RunJob(w)
    BY <1>3, DriverRunJob
  <1>4. CASE Settle(w)
    <2>1. /\ held[w] # "none"
          /\ fix[w] = 0
          /\ UNCHANGED <<now, fix, email, attempts, item>>
          /\ worker' = [worker EXCEPT ![w] = IdleLocals]
          /\ worker[w].pc \in {"returned", "threw"}
      BY <1>4 DEF Settle, Finish, ledger
    <2>2. /\ \A j \in JobIds : j # held[w] => jobs'[j] = jobs[j]
          /\ \/ worker[w].pc = "returned" /\ jobs'[held[w]].state = "completed"
             \/ worker[w].pc = "threw" /\ jobs'[held[w]].state \in {"failed", "live"}
          /\ held' = [held EXCEPT ![w] = "none"]
      BY <1>4, SettleRows
    <2>3. /\ jobs[held[w]].state = "live"
          /\ held[w] \in JobIds
          /\ \A v \in Workers : held[v] = held[w] => v = w
      BY <2>1, HeldLemma
    <2>4. ASSUME NEW v \in Workers, NEW j \in JobIds, held'[v] = j
          PROVE  v # w /\ held[v] = j /\ j # held[w] /\ worker'[v] = worker[v]
      BY <1>0, <2>1, <2>2, <2>3, <2>4
    <2>5. \A v \in Workers, j \in JobIds : held[v] = j /\ j # held[w] => held'[v] = j
      BY <1>0, <2>2
    <2>6. ASSUME NEW j \in JobIds, Alive(j) PROVE Alive(j)'
      <3>1. CASE j = held[w]
        <4>1. jobs'[held[w]].state \in {"failed", "live"}
          BY <2>2, <2>3, <2>6, <3>1 DEF Alive
        <4> QED  BY <2>4, <3>1, <4>1 DEF Alive
      <3>2. CASE j # held[w]
        BY <2>2, <2>4, <2>6, <3>2 DEF Alive
      <3> QED  BY <3>1, <3>2
    <2>7. Waiting => Waiting'
      <3>1. ASSUME jobs["direct"].state = "absent",
                   NEW v \in Workers, fix[v] > 0, worker[v].pc = "returned"
            PROVE  Waiting'
        <4>1. jobs'["direct"].state = "absent"
          BY <1>0, <2>2, <2>3, <3>1
        <4>2. v # w /\ worker'[v] = worker[v] /\ fix'[v] = fix[v]
          BY <1>0, <2>1, <3>1
        <4> QED  BY <3>1, <4>1, <4>2 DEF Waiting
      <3>2. CASE item = "pending"
        BY <2>1, <3>2 DEF Waiting
      <3>3. CASE \E j \in JobIds : Alive(j)
        BY <2>6, <3>3 DEF Waiting
      <3> QED  BY <3>1, <3>2, <3>3 DEF Waiting
    <2>8. ASSUME NEW j \in JobIds, Claimant(j) PROVE Claimant(j)'
      <3>1. j # held[w]
        BY <2>1, <2>3, <2>8 DEF Claimant, AboutToSubmit
      <3> QED  BY <2>1, <2>2, <2>4, <2>5, <2>8, <3>1 DEF Claimant, AboutToSubmit
    <2> QED  BY <2>1, <2>7, <2>8, DriverFrame
  <1>5. CASE Heartbeat(w)
    <2>1. /\ held[w] \in JobIds
          /\ \A j \in JobIds :
               /\ jobs'[j].state = jobs[j].state
               /\ jobs'[j].owner = jobs[j].owner
               /\ jobs'[j].until = IF j = held[w] THEN now + JobLease
                                                  ELSE jobs[j].until
          /\ jobs[held[w]].until < now + JobLease
      BY <1>5, HeartbeatRows
    <2>2. UNCHANGED <<email, attempts, now, worker, item, held, fix>>
      BY <1>5 DEF Heartbeat, vars, ledger
    <2>3. \A j \in JobIds : Alive(j) => Alive(j)'
      BY <2>1, <2>2 DEF Alive
    <2>4. Waiting => Waiting'
      BY <1>0, <2>1, <2>2, <2>3 DEF Waiting
    <2>5. ASSUME NEW j \in JobIds, Claimant(j) PROVE Claimant(j)'
      <3>1. jobs[j].until > email.lease => jobs'[j].until > email.lease
        BY <1>0, <2>1 DEF EmailRecord
      <3> QED  BY <2>1, <2>2, <2>5, <3>1 DEF Claimant, AboutToSubmit
    <2> QED  BY <2>2, <2>4, <2>5, DriverFrame
  <1>6. CASE LoseWorker(w)
    <2>1. /\ worker' = [worker EXCEPT ![w] = IdleLocals]
          /\ held' = [held EXCEPT ![w] = "none"]
          /\ fix' = [fix EXCEPT ![w] = 0]
          /\ UNCHANGED <<email, attempts, now, jobs, item>>
          /\ worker[w].pc # "idle"
          /\ lost < MaxLost
      BY <1>6 DEF LoseWorker, Crash, Lose, ledger
    <2>2. held[w] # "none"
      BY <2>1 DEF HeldInv
    <2>3. /\ held[w] \in JobIds
          /\ jobs[held[w]].state = "live"
          /\ \A v \in Workers : held[v] = held[w] => v = w
      BY <2>2, HeldLemma
    <2>4. MaxLost # 0
      BY <2>1 DEF CountersOK
    <2>5. \A v \in Workers, j \in JobIds : held'[v] = j =>
            v # w /\ held[v] = j /\ worker'[v] = worker[v]
      BY <1>0, <2>1
    <2>7. Waiting'
      <3>1. PICK k \in JobIds : k = held[w]
        BY <2>3
      <3>2. Alive(k)'
        BY <2>1, <2>3, <2>5, <3>1 DEF Alive
      <3> QED  BY <3>2 DEF Waiting
    <2>8. ASSUME NEW j \in JobIds, Claimant(j) PROVE Claimant(j)'
      BY <2>1, <2>4, <2>5, <2>8 DEF Claimant, AboutToSubmit
    <2> QED  BY <2>1, <2>7, <2>8, DriverFrame
  <1> QED  BY <1>1, <1>2, <1>3, <1>4, <1>5, <1>6

\* An e-mail is only ever rescheduled while it waits, and then it waits on.
LEMMA DriverRest ==
    ASSUME TypeOK, QueueTypeOK, HeldInv, ScheduleInv, DriverInv,
           \/ PublishItem
           \/ \E c \in Clients : \/ Request(c)
                                 \/ RescheduleStore(c)
                                 \/ RescheduleWake(c)
                                 \/ RescheduleLost(c)
           \/ SuppressionChange
           \/ PassTime
           \/ UNCHANGED allVars
    PROVE  DriverInv'
  <1> USE ReadingsLemma
  <1>0. /\ jobs \in [JobIds -> Row]
        /\ JobIds = {"item", "direct"}
        /\ wake \in [Clients -> Wake]
        /\ rcpt \in [Recipients -> RecipientStatus]
        /\ email \in EmailRecord
    BY DEF QueueTypeOK, JobIds, TypeOK
  <1>1. ASSUME UNCHANGED <<email, attempts, now, worker, held, fix, item, jobs>>
        PROVE  DriverInv'
    <2>1. /\ Waiting => Waiting'
          /\ \A id \in JobIds : Claimant(id) => Claimant(id)'
      BY <1>1 DEF Waiting, Alive, Claimant, AboutToSubmit
    <2> QED  BY <1>1, <2>1, DriverFrame
  <1>2. CASE PublishItem
    <2>1. /\ jobs' = Enqueued(jobs, "item", now)
          /\ UNCHANGED <<email, attempts, now, worker, held, fix>>
      BY <1>2 DEF PublishItem, vars, ledger
    <2>2. jobs'["direct"] = jobs["direct"]
      BY <1>0, <2>1, EnqueuedRows
    <2>3. item = "pending" => Alive("item")'
      <3>1. SUFFICES ASSUME item = "pending" PROVE Alive("item")'
        OBVIOUS
      <3>2. jobs["item"].state = "absent"
        BY <3>1 DEF ScheduleInv
      <3>3. jobs'["item"].state = "live"
        BY <1>0, <2>1, <3>2, EnqueuedRows
      <3>4. \A w \in Workers : held[w] # "item"
        <4>1. "item" # "none"
          OBVIOUS
        <4> QED  BY <3>2, <4>1, HeldLemma
      <3> QED  BY <2>1, <3>3, <3>4 DEF Alive
    <2> QED  BY <1>0, <2>1, <2>2, <2>3, DriverCorrected
  <1>3. ASSUME NEW c \in Clients, Request(c) PROVE DriverInv'
    <2>1. UNCHANGED <<now, worker, item, jobs, held, fix>>
      BY <1>3 DEF Request, CancelRead, CancelApply, RescheduleRead
    <2>2. email'.status \in FINAL_STATUSES \/ UNCHANGED <<email, attempts>>
      BY <1>3, CancelOutcome DEF Request, CancelRead, RescheduleRead, ledger
    <2> QED  BY <1>1, <2>1, <2>2, DriverFinal
  <1>4. ASSUME NEW c \in Clients, RescheduleStore(c) PROVE DriverInv'
    <2>1. /\ UNCHANGED <<now, worker, item, jobs, held, fix, attempts>>
          /\ \/ /\ email' = [email EXCEPT !.status = "scheduled",
                                          !.scheduled_at = client[c].at]
                /\ email.status \in Pending
             \/ email' = email
      BY <1>4 DEF RescheduleStore, RescheduleApply
    <2>2. CASE email' = email
      BY <1>1, <2>1, <2>2
    <2>3. CASE email' # email
      <3>1. email'.status = "scheduled" /\ email.status \in Pending
        BY <1>0, <2>1, <2>3 DEF EmailRecord
      <3>2. Waiting'
        BY <2>1, <3>1 DEF DriverInv, Waiting, Alive
      <3> QED  BY <3>1, <3>2 DEF DriverInv
    <2> QED  BY <2>2, <2>3
  <1>5. ASSUME NEW c \in Clients, RescheduleWake(c) PROVE DriverInv'
    <2>1. /\ UNCHANGED <<email, attempts, now, worker, item, held, fix>>
          /\ \/ jobs' = Enqueued(jobs, "direct", DelayedUntil(wake[c].at, wake[c].from))
             \/ jobs' = Enqueued(jobs, "direct", DelayedUntil(email.scheduled_at, now))
             \/ jobs' = jobs
      BY <1>5 DEF RescheduleWake, vars, ledger
    <2>2. PICK at \in Nat : jobs' = Enqueued(jobs, "direct", at) \/ jobs' = jobs
      <3>1. wake[c].at \in Nat /\ wake[c].from \in Nat
        BY <1>0 DEF Wake
      <3>2. /\ DelayedUntil(wake[c].at, wake[c].from) \in Nat
            /\ DelayedUntil(email.scheduled_at, now) \in Nat
        BY <3>1, DelayLemma
      <3> QED  BY <2>1, <3>2
    <2>3. CASE jobs' = jobs
      BY <1>1, <2>1, <2>3
    <2>4. CASE jobs' # jobs
      BY <1>0, <2>1, <2>2, <2>4, DriverCorrected
    <2> QED  BY <2>3, <2>4
  <1>6. ASSUME NEW c \in Clients, RescheduleLost(c) PROVE DriverInv'
    BY <1>1, <1>6 DEF RescheduleLost, vars, ledger
  <1>7. CASE SuppressionChange
    BY <1>1, <1>7 DEF SuppressionChange, PutSuppression, DeleteSuppression, ledger
  <1>8. CASE PassTime
    <2>1. /\ UNCHANGED <<email, attempts, worker, item, jobs, held, fix>>
          /\ now' = now + 1
      BY <1>8 DEF PassTime, Tick, queue, ledger
    <2>2. LeaseExpired => LeaseExpired'
      BY <1>0, <2>1 DEF LeaseExpired, EmailRecord
    <2>3. \A id \in JobIds : Claimant(id) => Alive(id)
      BY DEF Claimant, AboutToSubmit, Alive
    <2>4. /\ Waiting => Waiting'
          /\ \A id \in JobIds : Claimant(id) => Claimant(id)'
          /\ Unsubmitted' <=> Unsubmitted
      BY <2>1 DEF Waiting, Alive, Claimant, AboutToSubmit, Unsubmitted
    <2>5. LeaseExpired' /\ Unsubmitted /\ ~LeaseExpired => Waiting
      <3>1. LeaseExpired' => email.status = "sending"
        BY <2>1 DEF LeaseExpired
      <3> QED  BY <2>3, <3>1 DEF DriverInv, Waiting
    <2> QED  BY <2>1, <2>2, <2>4, <2>5 DEF DriverInv
  <1>9. CASE UNCHANGED allVars
    BY <1>1, <1>9 DEF allVars, vars, queue, ledger
  <1> QED  BY <1>2, <1>3, <1>4, <1>5, <1>6, <1>7, <1>8, <1>9

\* The readings and the counts of the queue stay numbers.
LEMMA CountersStep ==
    ASSUME TypeOK, CountersOK, [PipelineNext]_allVars
    PROVE  CountersOK'
  <1> USE ReadingsLemma DEF CountersOK
  <1>1. CASE PublishItem
    <2>1. OutboxLease \in Nat
      BY PortableSendAssumption
    <2> QED  BY <1>1, <2>1 DEF PublishItem, Lose
  <1>2. ASSUME NEW w \in Workers,
               \/ \E id \in JobIds : ReceiveJob(w, id)
               \/ Corrective(w)
               \/ RunJob(w)
               \/ Settle(w)
               \/ Heartbeat(w)
               \/ LoseWorker(w)
        PROVE  CountersOK'
    <2>1. UNCHANGED <<due, calls>>
      BY <1>2 DEF ReceiveJob, Corrective, RunJob, Settle, Heartbeat, LoseWorker,
                  queue
    <2>2. UNCHANGED lost \/ Lose
      BY <1>2 DEF ReceiveJob, Corrective, RunJob, Settle, Heartbeat, LoseWorker,
                  queue
    <2> QED  BY <2>1, <2>2 DEF Lose
  <1>3. ASSUME NEW c \in Clients, Request(c) PROVE CountersOK'
    BY <1>3 DEF Request, Call
  <1>4. ASSUME NEW c \in Clients, RescheduleStore(c) PROVE CountersOK'
    BY <1>4 DEF RescheduleStore
  <1>5. ASSUME NEW c \in Clients, RescheduleWake(c) \/ RescheduleLost(c)
        PROVE  CountersOK'
    BY <1>5 DEF RescheduleWake, RescheduleLost, Lose
  <1>6. CASE SuppressionChange
    BY <1>6 DEF SuppressionChange, Call
  <1>7. CASE PassTime \/ UNCHANGED allVars
    BY <1>7 DEF PassTime, queue, allVars
  <1> QED  BY <1>1, <1>2, <1>3, <1>4, <1>5, <1>6, <1>7 DEF PipelineNext

\* A committed e-mail has its outbox item, or is final.
LEMMA DrivenInit == ASSUME PipelineInit PROVE DrivenInv
  <1>1. PICK s \in {"queued", "scheduled", "suppressed"},
             t \in {0} \cup (now + 1)..MaxNow :
          email = [status |-> s, scheduled_at |-> t, attempts |-> 0, lease |-> 0]
    BY DEF PipelineInit, Init
  <1>2. /\ now = 1
        /\ t \in Nat
        /\ email.scheduled_at = t
        /\ email.status = s
    BY <1>1, EmailDeliveryAssumption DEF PipelineInit, Init
  <1>3. /\ item = IF s = "suppressed" THEN "dispatched" ELSE "pending"
        /\ due = IF t = 0 THEN now ELSE t
        /\ jobs = [id \in JobIds |-> NoRow]
        /\ held = [w \in Workers |-> "none"]
        /\ fix = [w \in Workers |-> 0]
        /\ wake = [c \in Clients |-> NoWake]
        /\ worker = [w \in Workers |-> IdleLocals]
        /\ client = [c \in Clients |-> [pc |-> "idle", at |-> 0]]
    BY <1>2 DEF PipelineInit, Init
  <1>4. CountersOK
    BY <1>2 DEF PipelineInit, CountersOK
  <1>5. HeldInv
    BY <1>3 DEF HeldInv, IdleLocals, At
  <1>6. ScheduleInv
    <2>1. \A id \in JobIds : jobs[id].state = "absent"
      BY <1>3 DEF NoRow
    <2>2. \A c \in Clients : wake[c].step = "none"
      BY <1>3 DEF NoWake
    <2>3. "item" \in JobIds /\ "direct" \in JobIds
      BY DEF JobIds
    <2>4. Within
      BY <1>2, <1>3, <2>1, <2>3 DEF Within
    <2> QED  BY <1>3, <2>1, <2>2, <2>3, <2>4 DEF ScheduleInv
  <1>7. DriverInv
    <2>1. email.lease = 0 /\ email.status # "sending"
      BY <1>1
    <2>2. email.status \in Pending => item = "pending"
      BY <1>2, <1>3 DEF Pending
    <2> QED  BY <2>1, <2>2 DEF DriverInv, LeaseExpired, Waiting
  <1> QED  BY <1>4, <1>5, <1>6, <1>7 DEF DrivenInv

\* The four parts are kept together.
LEMMA DrivenStep ==
    ASSUME PipelineInv, DrivenInv,
           MaxLost = 0 \/ 2 * SendLease + 1 < JobLease,
           [PipelineNext]_allVars,
           [FirstCorrection]_allVars, [NearCorrection]_allVars
    PROVE  DrivenInv'
  <1> USE DEF PipelineInv, DrivenInv
  <1>1. CountersOK'
    BY CountersStep
  <1>2. ASSUME NEW w \in Workers,
               \/ \E id \in JobIds : ReceiveJob(w, id)
               \/ Corrective(w)
               \/ RunJob(w)
               \/ Settle(w)
               \/ Heartbeat(w)
               \/ LoseWorker(w)
        PROVE  HeldInv' /\ ScheduleInv' /\ DriverInv'
    <2>1. HeldInv'
      BY <1>2, HeldWorker
    <2>2. ScheduleInv'
      BY <1>2, ScheduleWorker
    <2>3. DriverInv'
      BY <1>2, DriverWorker
    <2> QED  BY <2>1, <2>2, <2>3
  <1>3. CASE \/ PublishItem
             \/ \E c \in Clients : \/ Request(c)
                                   \/ RescheduleStore(c)
                                   \/ RescheduleWake(c)
                                   \/ RescheduleLost(c)
             \/ SuppressionChange
             \/ PassTime
             \/ UNCHANGED allVars
    <2>1. HeldInv'
      BY <1>3, HeldRest
    <2>2. ScheduleInv'
      BY <1>3, ScheduleRest
    <2>3. DriverInv'
      BY <1>3, DriverRest
    <2> QED  BY <1>1, <2>1, <2>2, <2>3
  <1> QED  BY <1>1, <1>2, <1>3 DEF PipelineNext

\* Whoever has still to look at a waiting e-mail is one of its drivers, and so
\* is the job an e-mail being sent was claimed under.
LEMMA DrivenFollows == ASSUME TypeOK, QueueTypeOK, HeldInv, DriverInv PROVE UnsentIsDriven
  <1>1. ASSUME Waiting PROVE Driven
    <2>1. CASE item = "pending"
      BY <2>1 DEF Driven
    <2>2. CASE \E id \in JobIds : Alive(id)
      BY <2>2 DEF Alive, Driven
    <2>3. ASSUME NEW w \in Workers, fix[w] > 0 PROVE Driven
      <3>1. held[w] # "none"
        BY <2>3 DEF HeldInv
      <3>2. held[w] \in JobIds /\ jobs[held[w]].state = "live"
        BY <3>1, HeldLemma
      <3> QED  BY <3>2 DEF Driven
    <2> QED  BY <1>1, <2>1, <2>2, <2>3 DEF Waiting
  <1>2. \A id \in JobIds : Claimant(id) => Driven
    BY DEF Claimant, Driven
  <1>3. ~Unsubmitted => Driven
    BY DEF Unsubmitted, Driven
  <1> QED  BY <1>1, <1>2, <1>3 DEF UnsentIsDriven, SendingIsDriven,
                                   ScheduledIsDriven, DriverInv

\* An e-mail that is not final is never left to nobody, however many workers,
\* requests, receives and losses there are: its outbox item, one of its jobs or
\* a request in flight still leads to it.  A job must outlive the send lease it
\* was claimed under, so that a second receive finds that lease expired.  A
\* reschedule that no longer finds the outbox item must stay within the queue's
\* largest delay, and must be the last one: rescheduleDelivery publishes one
\* corrective job, and a second one shares its identity.
THEOREM UnsentIsDrivenHolds ==
    ( /\ ReceiveCounts = Nat \ {0}
      /\ MaxLost = 0 \/ 2 * SendLease + 1 < JobLease ) =>
      ( PipelineSpec /\ [][FirstCorrection /\ NearCorrection]_allVars
          => []UnsentIsDriven )
  <1> SUFFICES ASSUME ReceiveCounts = Nat \ {0},
                      MaxLost = 0 \/ 2 * SendLease + 1 < JobLease
               PROVE  PipelineSpec /\ [][FirstCorrection /\ NearCorrection]_allVars
                        => []UnsentIsDriven
    OBVIOUS
  <1>1. PipelineInit => DrivenInv
    BY DrivenInit
  <1>2. /\ PipelineInv /\ DrivenInv
        /\ [PipelineNext]_allVars /\ [FirstCorrection /\ NearCorrection]_allVars
        => DrivenInv'
    BY DrivenStep
  <1>3. PipelineInv /\ DrivenInv => UnsentIsDriven
    BY DrivenFollows DEF PipelineInv, DrivenInv
  <1> QED  BY <1>1, <1>2, <1>3, PipelineInvariant, PTL DEF PipelineSpec

(* With one call that changes something, as the run has it, there is no     *)
(* second reschedule, and the first proviso of the theorem holds by itself.  *)

\* A first reschedule finds no corrective job: the e-mail's job is not
\* received ahead of a schedule that has never been changed.  An e-mail that
\* was suppressed at intake has no job.
CallInv ==
    /\ calls <= MaxCalls
    /\ calls = 0 => \A c \in Clients : client[c].pc = "idle"
    /\ \A c, d \in Clients : client[c].pc # "idle" /\ client[d].pc # "idle" => c = d
    /\ calls = 0 \/ (\E c \in Clients : client[c].pc = "rescheduling") =>
         /\ NoCorrection
         /\ \/ email.scheduled_at <= now
            \/ item = "pending" /\ due >= email.scheduled_at
            \/ item = "dispatched" /\ \A id \in JobIds : jobs[id].state = "absent"

\* A schedule is only ever changed by the store update of a reschedule.
LEMMA ScheduleChange ==
    ASSUME TypeOK, [PipelineNext]_allVars, email'.scheduled_at # email.scheduled_at
    PROVE  \E c \in Clients : RescheduleStore(c)
  <1>1. CASE PublishItem
    BY <1>1 DEF PublishItem, vars, ledger
  <1>2. ASSUME NEW w \in Workers, \E id \in JobIds : ReceiveJob(w, id)
        PROVE  FALSE
    BY <1>2 DEF ReceiveJob, LoadEmail, ledger
  <1>3. ASSUME NEW w \in Workers, RunJob(w) PROVE FALSE
    BY <1>3, RunFacts
  <1>4. ASSUME NEW w \in Workers, Settle(w) PROVE FALSE
    BY <1>4 DEF Settle, Finish, ledger
  <1>5. ASSUME NEW w \in Workers, Corrective(w) \/ Heartbeat(w) \/ LoseWorker(w)
        PROVE  FALSE
    BY <1>5 DEF Corrective, Heartbeat, LoseWorker, Crash, vars, ledger
  <1>6. ASSUME NEW c \in Clients, Request(c) PROVE FALSE
    BY <1>6, CancelOutcome DEF Request, CancelRead, RescheduleRead, ledger
  <1>7. ASSUME NEW c \in Clients, RescheduleWake(c) \/ RescheduleLost(c)
        PROVE  FALSE
    BY <1>7 DEF RescheduleWake, RescheduleLost, vars, ledger
  <1>8. CASE SuppressionChange
    BY <1>8 DEF SuppressionChange, PutSuppression, DeleteSuppression, ledger
  <1>9. CASE PassTime
    BY <1>9 DEF PassTime, Tick, ledger
  <1>10. CASE UNCHANGED allVars
    BY <1>10 DEF allVars, vars, ledger
  <1> QED  BY <1>1, <1>2, <1>3, <1>4, <1>5, <1>6, <1>7, <1>8, <1>9, <1>10
           DEF PipelineNext

\* So every change of it is a first one.
LEMMA CallIsFirst ==
    ASSUME TypeOK, CallInv, [PipelineNext]_allVars
    PROVE  [FirstCorrection]_allVars
  <1>1. SUFFICES ASSUME email'.scheduled_at # email.scheduled_at PROVE NoCorrection
    BY DEF FirstCorrection
  <1>2. \E c \in Clients : client[c].pc = "rescheduling"
    BY <1>1, ScheduleChange DEF RescheduleStore, RescheduleApply
  <1> QED  BY <1>2 DEF CallInv

\* A step of a worker leaves the calls alone, and asks for no correction
\* while the item or the clock guards the schedule.
LEMMA CallWorker ==
    ASSUME TypeOK, QueueTypeOK, HeldInv, ScheduleInv, CallInv, NEW w \in Workers,
           \/ \E id \in JobIds : ReceiveJob(w, id)
           \/ Corrective(w)
           \/ RunJob(w)
           \/ Settle(w)
           \/ Heartbeat(w)
           \/ LoseWorker(w)
    PROVE  CallInv'
  <1> USE ReadingsLemma
  <1>0. /\ JobIds = {"item", "direct"}
        /\ fix \in [Workers -> Nat]
        /\ jobs \in [JobIds -> Row]
    BY DEF JobIds, QueueTypeOK
  <1>1. UNCHANGED <<calls, item, due, wake, client, now>>
    <2>1. CASE RunJob(w)
      BY <2>1, RunFacts DEF queue
    <2>2. CASE ~RunJob(w)
      BY <2>2 DEF ReceiveJob, Corrective, Settle, Heartbeat, LoseWorker,
                  LoadEmail, Finish, Crash, vars
    <2> QED  BY <2>1, <2>2
  <1>2. email'.scheduled_at = email.scheduled_at
    <2>1. [PipelineNext]_allVars
      BY DEF PipelineNext
    <2>2. ~\E c \in Clients : RescheduleStore(c)
      <3>1. ASSUME NEW c \in Clients, RescheduleStore(c), \A d \in Clients : client'[d] = client[d]
            PROVE  FALSE
        BY <3>1 DEF RescheduleStore, RescheduleApply, TypeOK
      <3> QED  BY <1>1, <3>1
    <2> QED  BY <2>1, <2>2, ScheduleChange
  <1>3. SUFFICES ASSUME NoCorrection,
                        \/ email.scheduled_at <= now
                        \/ item = "pending" /\ due >= email.scheduled_at
                        \/ /\ item = "dispatched"
                           /\ \A id \in JobIds : jobs[id].state = "absent"
                 PROVE  /\ NoCorrection'
                        /\ \A id \in JobIds : jobs[id].state = "absent" =>
                                                jobs'[id].state = "absent"
    BY <1>1, <1>2 DEF CallInv
  <1> DEFINE Kept == /\ NoCorrection'
                     /\ \A id \in JobIds : jobs[id].state = "absent" =>
                                             jobs'[id].state = "absent"
  <1>4. ASSUME NEW id \in JobIds, ReceiveJob(w, id) PROVE Kept
    <2>1. /\ jobs[id].state = "live"
          /\ \A j \in JobIds : jobs'[j].state = jobs[j].state
      BY <1>4, ReceiveRows
    <2>2. email.scheduled_at <= now
      BY <1>0, <1>3, <2>1 DEF ScheduleInv, NoCorrection
    <2>3. fix' = [fix EXCEPT ![w] = 0]
      <3>1. fix' = [fix EXCEPT ![w] =
                      IF email.status \notin FINAL_STATUSES
                        /\ email.scheduled_at > now THEN email.scheduled_at ELSE 0]
        BY <1>4 DEF ReceiveJob
      <3>2. ~(email.scheduled_at > now)
        BY <2>2
      <3> QED  BY <3>1, <3>2
    <2> QED  BY <1>0, <1>1, <1>3, <2>1, <2>3 DEF NoCorrection
  <1>5. ASSUME Corrective(w) PROVE Kept
    BY <1>3, <1>5 DEF Corrective, NoCorrection
  <1>6. ASSUME RunJob(w) PROVE Kept
    BY <1>3, <1>6 DEF RunJob, queue, NoCorrection
  <1>7. ASSUME Settle(w) PROVE Kept
    <2>1. /\ \A j \in JobIds : j # held[w] => jobs'[j] = jobs[j]
          /\ held[w] # "none"
          /\ UNCHANGED fix
      BY <1>7, SettleRows DEF Settle
    <2>2. jobs[held[w]].state = "live"
      BY <2>1, HeldLemma
    <2> QED  BY <1>0, <1>1, <1>3, <2>1, <2>2 DEF NoCorrection
  <1>8. ASSUME Heartbeat(w) PROVE Kept
    <2>1. /\ \A j \in JobIds : jobs'[j].state = jobs[j].state
          /\ UNCHANGED fix
      BY <1>8, HeartbeatRows DEF Heartbeat
    <2> QED  BY <1>0, <1>1, <1>3, <2>1 DEF NoCorrection
  <1>9. ASSUME LoseWorker(w) PROVE Kept
    BY <1>0, <1>3, <1>9 DEF LoseWorker, NoCorrection
  <1> HIDE DEF Kept
  <1>10. Kept
    BY <1>4, <1>5, <1>6, <1>7, <1>8, <1>9
  <1> QED  BY <1>10 DEF Kept

\* Nor does the outbox or the clock; and the one call there is is either the
\* reschedule that changes the schedule or none.
LEMMA CallRest ==
    ASSUME TypeOK, QueueTypeOK, CountersOK, CallInv, MaxCalls <= 1,
           \/ PublishItem
           \/ \E c \in Clients : \/ Request(c)
                                 \/ RescheduleStore(c)
                                 \/ RescheduleWake(c)
                                 \/ RescheduleLost(c)
           \/ SuppressionChange
           \/ PassTime
           \/ UNCHANGED allVars
    PROVE  CallInv'
  <1> USE ReadingsLemma
  <1>0. /\ JobIds = {"item", "direct"}
        /\ jobs \in [JobIds -> Row]
        /\ MaxCalls \in Nat
        /\ calls \in Nat
        /\ due \in Nat
        /\ client \in [Clients -> [pc : ClientPc, at : Nat]]
    BY PortableSendAssumption DEF JobIds, QueueTypeOK, CountersOK, TypeOK
  <1> DEFINE Hopeful == calls = 0 \/ \E c \in Clients : client[c].pc = "rescheduling"
  <1>1. CASE PublishItem
    <2>1. /\ jobs' = Enqueued(jobs, "item", now)
          /\ UNCHANGED <<email, now, client, fix, wake, calls>>
          /\ item # "dispatched"
          /\ due <= now
      BY <1>1 DEF PublishItem, vars, ledger
    <2>2. jobs'["direct"] = jobs["direct"]
      BY <1>0, <2>1, EnqueuedRows
    <2>3. NoCorrection => NoCorrection'
      BY <2>1, <2>2 DEF NoCorrection
    <2>4. Hopeful => email.scheduled_at <= now
      BY <1>0, <2>1 DEF CallInv
    <2> QED  BY <2>1, <2>3, <2>4 DEF CallInv
  <1>2. ASSUME NEW c \in Clients, Request(c) PROVE CallInv'
    <2>1. UNCHANGED <<now, item, due, jobs, fix, wake>>
      BY <1>2 DEF Request, CancelRead, CancelApply, RescheduleRead
    <2>2. NoCorrection => NoCorrection'
      BY <2>1 DEF NoCorrection
    <2>3. CASE Call /\ CancelRead(c)
      <3>1. calls = 0 /\ calls' = 1 /\ MaxCalls = 1
        BY <1>0, <2>3 DEF Call
      <3>2. client' = [client EXCEPT ![c].pc = "cancelling"]
        BY <2>3 DEF CancelRead
      <3>3. \A d \in Clients : d # c => client'[d].pc = "idle"
        BY <1>0, <3>1, <3>2 DEF CallInv
      <3>4. client'[c].pc = "cancelling"
        BY <1>0, <3>2
      <3> QED  BY <3>1, <3>3, <3>4 DEF CallInv
    <2>4. CASE CancelApply(c) /\ UNCHANGED calls
      <3>1. /\ client' = [client EXCEPT ![c].pc = "idle"]
            /\ client[c].pc = "cancelling"
        BY <2>4 DEF CancelApply
      <3>2. /\ calls # 0
            /\ \A d \in Clients : client'[d].pc # "idle" => client'[d].pc = client[d].pc
        BY <1>0, <3>1 DEF CallInv
      <3>3. email'.scheduled_at = email.scheduled_at
        BY <2>4, CancelOutcome
      <3>4. Hopeful' => Hopeful
        BY <2>4, <3>2
      <3> QED  BY <2>1, <2>2, <2>4, <3>2, <3>3, <3>4 DEF CallInv
    <2>5. CASE Call /\ \E at \in 1..MaxNow : RescheduleRead(c, at)
      <3>1. calls = 0 /\ calls' = 1 /\ MaxCalls = 1
        BY <1>0, <2>5 DEF Call
      <3>2. UNCHANGED email
        BY <2>5 DEF RescheduleRead, ledger
      <3>3. \A d \in Clients : d # c => client'[d].pc = "idle"
        BY <1>0, <2>5, <3>1 DEF RescheduleRead, CallInv
      <3> QED  BY <2>1, <2>2, <3>1, <3>2, <3>3 DEF CallInv
    <2> QED  BY <1>2, <2>3, <2>4, <2>5 DEF Request
  <1>3. ASSUME NEW c \in Clients, RescheduleStore(c) PROVE CallInv'
    <2>1. /\ client[c].pc = "rescheduling"
          /\ client' = [client EXCEPT ![c] = [pc |-> "idle", at |-> 0]]
          /\ UNCHANGED calls
      BY <1>3 DEF RescheduleStore, RescheduleApply
    <2>2. calls # 0
      BY <2>1 DEF CallInv
    <2>3. \A d \in Clients : client'[d].pc = "idle"
      BY <1>0, <2>1 DEF CallInv
    <2> QED  BY <2>1, <2>2, <2>3 DEF CallInv
  <1>4. ASSUME NEW c \in Clients, RescheduleWake(c) PROVE CallInv'
    <2>1. /\ wake[c].step # "none"
          /\ UNCHANGED <<client, calls>>
      BY <1>4 DEF RescheduleWake, vars
    <2>2. ~NoCorrection
      BY <2>1 DEF NoCorrection
    <2> QED  BY <2>1, <2>2 DEF CallInv
  <1>8. ASSUME NEW c \in Clients, RescheduleLost(c) PROVE CallInv'
    <2>1. /\ wake' = [wake EXCEPT ![c] = NoWake]
          /\ UNCHANGED <<email, now, client, item, due, jobs, fix, calls>>
      BY <1>8 DEF RescheduleLost, vars, ledger
    <2>2. NoCorrection => NoCorrection'
      BY <1>0, <2>1 DEF NoCorrection, NoWake
    <2> QED  BY <2>1, <2>2 DEF CallInv
  <1>5. CASE SuppressionChange
    <2>1. calls = 0 /\ calls' = 1 /\ MaxCalls = 1
      BY <1>0, <1>5 DEF SuppressionChange, Call
    <2>2. UNCHANGED client
      BY <1>5 DEF SuppressionChange, PutSuppression, DeleteSuppression
    <2> QED  BY <2>1, <2>2 DEF CallInv
  <1>6. CASE PassTime
    <2>1. /\ UNCHANGED <<email, client, item, due, jobs, fix, wake, calls>>
          /\ now' = now + 1
      BY <1>6 DEF PassTime, Tick, queue, ledger
    <2>2. email.scheduled_at <= now => email.scheduled_at <= now'
      BY <2>1
    <2> QED  BY <2>1, <2>2 DEF CallInv, NoCorrection
  <1>7. CASE UNCHANGED allVars
    BY <1>7 DEF allVars, vars, queue, ledger, CallInv, NoCorrection
  <1> QED  BY <1>1, <1>2, <1>3, <1>4, <1>5, <1>6, <1>7, <1>8

\* Intake sets the item's due time to the schedule.
LEMMA CallInit == ASSUME PipelineInit PROVE CallInv
  <1>1. /\ calls = 0
        /\ item = IF email.status = "suppressed" THEN "dispatched" ELSE "pending"
        /\ due = IF email.scheduled_at = 0 THEN now ELSE email.scheduled_at
        /\ jobs = [id \in JobIds |-> NoRow]
        /\ fix = [w \in Workers |-> 0]
        /\ wake = [c \in Clients |-> NoWake]
        /\ client = [c \in Clients |-> [pc |-> "idle", at |-> 0]]
    BY DEF PipelineInit, Init
  <1>2. /\ \A id \in JobIds : jobs[id].state = "absent"
        /\ "direct" \in JobIds
        /\ \A c \in Clients : wake[c].step = "none" /\ client[c].pc = "idle"
        /\ \A w \in Workers : fix[w] = 0
    BY <1>1 DEF NoRow, NoWake, JobIds
  <1>3. email.scheduled_at \in Nat /\ now \in Nat
    <2>1. TypeOK
      BY TypeInit DEF PipelineInit
    <2> QED  BY <2>1, ReadingsLemma
  <1>4. item # "dispatched" => item = "pending" /\ due >= email.scheduled_at
    BY <1>1, <1>3
  <1>5. MaxCalls \in Nat
    BY PortableSendAssumption
  <1> QED  BY <1>1, <1>2, <1>4, <1>5 DEF CallInv, NoCorrection

\* With one call an e-mail that is not final is never left to nobody, whatever
\* the outbox, the workers and losses do in between.
THEOREM OneCallUnsentIsDriven ==
    ( /\ ReceiveCounts = Nat \ {0}
      /\ MaxLost = 0 \/ 2 * SendLease + 1 < JobLease
      /\ MaxCalls <= 1 ) =>
      (PipelineSpec /\ [][NearCorrection]_allVars => []UnsentIsDriven)
  <1> SUFFICES ASSUME ReceiveCounts = Nat \ {0},
                      MaxLost = 0 \/ 2 * SendLease + 1 < JobLease,
                      MaxCalls <= 1
               PROVE  PipelineSpec /\ [][NearCorrection]_allVars => []UnsentIsDriven
    OBVIOUS
  <1>1. PipelineInit => DrivenInv /\ CallInv
    BY DrivenInit, CallInit
  <1>2. /\ PipelineInv /\ (DrivenInv /\ CallInv)
        /\ [PipelineNext]_allVars /\ [NearCorrection]_allVars
        => (DrivenInv /\ CallInv)'
    <2> SUFFICES ASSUME PipelineInv, DrivenInv, CallInv,
                        [PipelineNext]_allVars, [NearCorrection]_allVars
                 PROVE  DrivenInv' /\ CallInv'
      OBVIOUS
    <2>1. [FirstCorrection]_allVars
      BY CallIsFirst DEF PipelineInv
    <2>2. DrivenInv'
      BY <2>1, DrivenStep
    <2>3. CallInv'
      BY CallWorker, CallRest DEF PipelineNext, PipelineInv, DrivenInv
    <2> QED  BY <2>2, <2>3
  <1>3. PipelineInv /\ DrivenInv => UnsentIsDriven
    BY DrivenFollows DEF PipelineInv, DrivenInv
  <1> QED  BY <1>1, <1>2, <1>3, PipelineInvariant, PTL DEF PipelineSpec

(* Where no time lies beyond the queue's largest delay at all, as in the     *)
(* run, the second proviso holds by itself as well.                          *)

\* A request asks for a time on the clock.
TimesInv == \A c \in Clients : client[c].at <= MaxNow

\* The times that clients ask for come with RescheduleRead only.
LEMMA TimesStep ==
    ASSUME TypeOK, QueueTypeOK, ReceiveCounts = Nat \ {0}, TimesInv,
           [PipelineNext]_allVars
    PROVE  TimesInv'
  <1>0. client \in [Clients -> [pc : ClientPc, at : Nat]] /\ MaxNow \in Nat
    BY EmailDeliveryAssumption DEF TypeOK
  <1>1. [Next]_vars
    BY PipelineStep
  <1>2. ASSUME NEW c \in Clients, Api(c) PROVE TimesInv'
    <2>1. \/ client' = [client EXCEPT ![c].pc = "cancelling"]
          \/ client' = [client EXCEPT ![c].pc = "idle"]
          \/ \E at \in 0..MaxNow, pc \in {"rescheduling", "idle"} :
               client' = [client EXCEPT ![c] = [pc |-> pc, at |-> at]]
      BY <1>0, <1>2 DEF Api, CancelRead, CancelApply, RescheduleRead, RescheduleApply
    <2> QED  BY <1>0, <2>1 DEF TimesInv
  <1>3. CASE UNCHANGED client
    BY <1>3 DEF TimesInv
  <1>4. ASSUME NEW w \in Workers, ProcessSend(w) \/ Crash(w) PROVE UNCHANGED client
    BY <1>4 DEF ProcessSend, LoadEmail, FindSuppressed, SuppressEmail,
                ClaimEmailForSend, ReadLedger, BeginDeliveryAttempt, Submit,
                CompleteDeliveryAttempt, Finish, Crash
  <1> QED  BY <1>1, <1>2, <1>3, <1>4 DEF Next, vars, PutSuppression,
              DeleteSuppression, ApplyProviderEvent, Tick

\* A reschedule is within the queue's largest delay when the clock is.
THEOREM NearCorrectionHolds ==
    (ReceiveCounts = Nat \ {0} /\ MaxNow <= MaxDelay) =>
      (PipelineSpec => [][NearCorrection]_allVars)
  <1> SUFFICES ASSUME ReceiveCounts = Nat \ {0}, MaxNow <= MaxDelay
               PROVE  PipelineSpec => [][NearCorrection]_allVars
    OBVIOUS
  <1>1. PipelineInit => TimesInv
    BY EmailDeliveryAssumption DEF PipelineInit, Init, TimesInv
  <1>2. PipelineInv /\ TimesInv /\ [PipelineNext]_allVars => TimesInv'
    BY TimesStep DEF PipelineInv
  <1>3. PipelineInv /\ TimesInv /\ [PipelineNext]_allVars => [NearCorrection]_allVars
    <2> SUFFICES ASSUME PipelineInv, TimesInv, [PipelineNext]_allVars,
                        email'.scheduled_at # email.scheduled_at
                 PROVE  email'.scheduled_at <= now + MaxDelay
      BY DEF NearCorrection
    <2>1. PICK c \in Clients : RescheduleStore(c)
      BY ScheduleChange DEF PipelineInv
    <2>2. email'.scheduled_at = client[c].at
      BY <2>1 DEF RescheduleStore, RescheduleApply, PipelineInv, TypeOK, EmailRecord
    <2>3. /\ now \in Nat /\ MaxNow \in Nat /\ MaxDelay \in Nat
          /\ client[c].at \in Nat /\ client[c].at <= MaxNow
      BY EmailDeliveryAssumption, PortableSendAssumption, ReadingsLemma
      DEF PipelineInv, TimesInv
    <2> QED  BY <2>2, <2>3
  <1> QED  BY <1>1, <1>2, <1>3, PipelineInvariant, PTL DEF PipelineSpec
=============================================================================
