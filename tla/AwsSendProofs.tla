---------------------------- MODULE AwsSendProofs ----------------------------
(***************************************************************************)
(* The send path of an AWS deployment implements EmailDelivery, for every  *)
(* choice of the timeouts, delays and bounds, so that what                 *)
(* EmailDeliveryProofs proves holds of this path too.  And an e-mail that  *)
(* is not final is never left to nobody.                                   *)
(***************************************************************************)
EXTENDS AwsSend, EmailDeliveryProofs

Message == [state : {"absent", "live", "dead"}, at : Nat, n : Nat]

\* What is needed of the queue: its messages have receive counts, and a
\* worker holds one of them.
QueueTypeOK ==
    /\ msgs \in [Messages -> Message]
    /\ held \in [Workers -> Messages \cup {"none"}]
    /\ fix \in [Workers -> Nat]
    /\ wake \in [Clients -> [step : {"none", "hurry", "hurried", "schedule", "verify"},
                             at : Nat, from : Nat]]
    /\ limit \in 1..MaxReceives

PipelineInv == TypeOK /\ SubmissionInv /\ QueueTypeOK

\* A message that is sent is a message.
LEMMA SendMessageLemma ==
    ASSUME msgs \in [Messages -> Message], NEW at \in Nat, SendMessage(at)
    PROVE  msgs' \in [Messages -> Message]
  <1>1. PICK m \in Messages :
          msgs' = [msgs EXCEPT ![m] = [state |-> "live", at |-> at, n |-> 0]]
    BY DEF SendMessage
  <1>2. [state |-> "live", at |-> at, n |-> 0] \in Message
    BY DEF Message
  <1> QED  BY <1>1, <1>2

\* rescheduleDelivery adds a message at most.
LEMMA RescheduleDeliveryLemma ==
    ASSUME msgs \in [Messages -> Message], now \in Nat,
           NEW at \in Nat, NEW from \in Nat,
           rescheduleDelivery(at, from) \/ RescheduleDeliveryThrows(at, from)
    PROVE  msgs' \in [Messages -> Message]
  <1>1. now + secondsUntil(at, from) \in Nat
    BY DEF secondsUntil
  <1>2. \/ msgs' = msgs
        \/ SendMessage(now + secondsUntil(at, from))
    BY DEF rescheduleDelivery, RescheduleDeliveryThrows
  <1> HIDE DEF secondsUntil
  <1> QED  BY <1>1, <1>2, SendMessageLemma

\* What TypeOK says of the readings the queue uses.
LEMMA ReadingsLemma ==
    ASSUME TypeOK
    PROVE  /\ now \in Nat
           /\ email.scheduled_at \in Nat
           /\ \A c \in Clients : client[c].at \in Nat
  BY DEF TypeOK, EmailRecord

-----------------------------------------------------------------------------
(* Refinement.                                                              *)

\* Every step of the pipeline is a step of EmailDelivery, or leaves its
\* variables alone: a message is received at most MaxReceives times.
LEMMA PipelineStep ==
    ASSUME QueueTypeOK, 1..MaxReceives \subseteq ReceiveCounts,
           [PipelineNext]_allVars
    PROVE  [Next]_vars
  <1>1. CASE UNCHANGED allVars
    BY <1>1 DEF allVars
  <1>2. CASE PublishItem
    BY <1>2 DEF PublishItem
  <1>3. ASSUME NEW m \in Messages, Redrive(m) PROVE UNCHANGED vars
    BY <1>3 DEF Redrive
  <1>4. CASE FireSchedule
    BY <1>4 DEF FireSchedule
  <1>5. ASSUME NEW w \in Workers, NEW m \in Messages, ReceiveJob(w, m)
        PROVE  Next
    <2>1. msgs[m].n + 1 \in ReceiveCounts
      <3>1. msgs[m].n \in Nat /\ msgs[m].n < limit
        BY <1>5 DEF ReceiveJob, QueueTypeOK, Message
      <3>2. limit \in 1..MaxReceives /\ MaxReceives \in Nat
        BY AwsSendAssumption DEF QueueTypeOK
      <3>3. msgs[m].n + 1 \in 1..MaxReceives
        BY <3>1, <3>2
      <3> QED  BY <3>3
    <2>2. LoadEmail(w, msgs[m].n + 1)
      BY <1>5 DEF ReceiveJob
    <2> QED  BY <2>1, <2>2 DEF Next, ProcessSend
  <1>6. ASSUME NEW w \in Workers, Corrective(w) PROVE UNCHANGED vars
    BY <1>6 DEF Corrective
  <1>7. ASSUME NEW w \in Workers, RunJob(w) PROVE Next
    BY <1>7 DEF RunJob, Next, ProcessSend
  <1>8. ASSUME NEW w \in Workers, Settle(w) PROVE Next
    BY <1>8 DEF Settle, Next, ProcessSend
  <1>9. ASSUME NEW w \in Workers, LoseWorker(w) PROVE Next
    BY <1>9 DEF LoseWorker, Next
  <1>10. ASSUME NEW c \in Clients, Request(c) PROVE Next
    BY <1>10 DEF Request, Next, Api
  <1>11. ASSUME NEW c \in Clients, RescheduleStore(c) PROVE Next
    BY <1>11 DEF RescheduleStore, Next, Api
  <1>12. ASSUME NEW c \in Clients, RescheduleWake(c) \/ RescheduleLost(c)
         PROVE  UNCHANGED vars
    BY <1>12 DEF RescheduleWake, RescheduleLost
  <1>13. CASE SuppressionChange
    BY <1>13 DEF SuppressionChange, Next
  <1>14. CASE PassTime
    BY <1>14 DEF PassTime, Next
  <1> QED
    BY <1>1, <1>2, <1>3, <1>4, <1>5, <1>6, <1>7, <1>8, <1>9, <1>10, <1>11,
       <1>12, <1>13, <1>14 DEF PipelineNext

\* The queue starts with its types.
LEMMA QueueInit == ASSUME PipelineInit PROVE QueueTypeOK
  <1>1. NoMessage \in Message
    BY DEF NoMessage, Message
  <1>2. NoWake \in [step : {"none", "hurry", "hurried", "schedule", "verify"},
                    at : Nat, from : Nat]
    BY DEF NoWake
  <1> QED  BY <1>1, <1>2 DEF PipelineInit, QueueTypeOK

\* What the queue, the scheduler and the workers do keeps the types.
LEMMA QueueDelivery ==
    ASSUME TypeOK, QueueTypeOK,
           \/ PublishItem
           \/ \E m \in Messages : Redrive(m)
           \/ FireSchedule
           \/ \E w \in Workers :
                \/ \E m \in Messages : ReceiveJob(w, m)
                \/ Corrective(w)
                \/ RunJob(w)
                \/ Settle(w)
                \/ LoseWorker(w)
    PROVE  QueueTypeOK'
  <1> USE ReadingsLemma
  <1>0. NoMessage \in Message
    BY DEF NoMessage, Message
  <1>1. CASE PublishItem
    <2>1. msgs' \in [Messages -> Message]
      BY <1>1, SendMessageLemma DEF PublishItem, QueueTypeOK
    <2> QED  BY <1>1, <2>1 DEF PublishItem, QueueTypeOK
  <1>2. ASSUME NEW m \in Messages, Redrive(m) PROVE QueueTypeOK'
    <2>1. [NoMessage EXCEPT !.state = "dead"] \in Message
      BY DEF NoMessage, Message
    <2>2. msgs' \in [Messages -> Message]
      BY <1>2, <2>1 DEF Redrive, QueueTypeOK
    <2> QED  BY <1>2, <2>2 DEF Redrive, QueueTypeOK
  <1>3. CASE FireSchedule
    <2>1. msgs' \in [Messages -> Message]
      BY <1>3, SendMessageLemma DEF FireSchedule, QueueTypeOK
    <2> QED  BY <1>3, <2>1 DEF FireSchedule, QueueTypeOK
  <1>4. ASSUME NEW w \in Workers, NEW m \in Messages, ReceiveJob(w, m)
        PROVE  QueueTypeOK'
    <2> DEFINE m1 == [msgs[m] EXCEPT !.n = msgs[m].n + 1]
               m2 == [m1 EXCEPT !.at = now + Visibility]
    <2>1. msgs[m] \in Message /\ msgs[m].n + 1 \in Nat
      BY DEF QueueTypeOK, Message
    <2>2. now + Visibility \in Nat
      BY AwsSendAssumption
    <2>3. m2 \in Message
      <3>1. m1 \in Message
        BY <2>1 DEF Message
      <3> QED  BY <3>1, <2>2 DEF Message
    <2>4. msgs' = [msgs EXCEPT ![m] = m2]
      <3>1. msgs' = [msgs EXCEPT ![m].n = @ + 1, ![m].at = now + Visibility]
        BY <1>4 DEF ReceiveJob
      <3> QED  BY <3>1, <2>1 DEF QueueTypeOK, Message
    <2>5. msgs' \in [Messages -> Message]
      BY <2>3, <2>4 DEF QueueTypeOK
    <2>6. held' \in [Workers -> Messages \cup {"none"}]
      BY <1>4 DEF ReceiveJob, QueueTypeOK
    <2>7. fix' \in [Workers -> Nat]
      BY <1>4 DEF ReceiveJob, QueueTypeOK
    <2>8. wake' = wake /\ limit' = limit
      BY <1>4 DEF ReceiveJob
    <2> QED  BY <2>5, <2>6, <2>7, <2>8 DEF QueueTypeOK
  <1>5. ASSUME NEW w \in Workers, Corrective(w) PROVE QueueTypeOK'
    <2>1. fix[w] \in Nat /\ msgs \in [Messages -> Message]
      BY DEF QueueTypeOK
    <2>2. rescheduleDelivery(fix[w], now) \/ RescheduleDeliveryThrows(fix[w], now)
      BY <1>5 DEF Corrective
    <2>3. msgs' \in [Messages -> Message]
      BY <2>1, <2>2, RescheduleDeliveryLemma
    <2> QED  BY <1>5, <2>3 DEF Corrective, QueueTypeOK
  <1>6. ASSUME NEW w \in Workers, RunJob(w) PROVE QueueTypeOK'
    BY <1>6 DEF RunJob, queue, QueueTypeOK
  <1>7. ASSUME NEW w \in Workers, Settle(w) PROVE QueueTypeOK'
    <2>1. msgs' = msgs \/ msgs' = [msgs EXCEPT ![held[w]] = NoMessage]
      BY <1>7 DEF Settle
    <2>2. msgs' \in [Messages -> Message]
      BY <2>1, <1>0 DEF QueueTypeOK
    <2> QED  BY <1>7, <2>2 DEF Settle, QueueTypeOK
  <1>8. ASSUME NEW w \in Workers, LoseWorker(w) PROVE QueueTypeOK'
    BY <1>8 DEF LoseWorker, QueueTypeOK
  <1> QED  BY <1>1, <1>2, <1>3, <1>4, <1>5, <1>6, <1>7, <1>8

\* So do the requests of the clients, and time.
LEMMA QueueRest ==
    ASSUME TypeOK, QueueTypeOK,
           \/ \E c \in Clients : \/ Request(c)
                                 \/ RescheduleStore(c)
                                 \/ RescheduleWake(c)
                                 \/ RescheduleLost(c)
           \/ SuppressionChange
           \/ PassTime
           \/ UNCHANGED allVars
    PROVE  QueueTypeOK'
  <1> USE ReadingsLemma
  <1> DEFINE Wake == [step : {"none", "hurry", "hurried", "schedule", "verify"},
                      at : Nat, from : Nat]
  <1>0. NoWake \in Wake
    BY DEF NoWake
  <1>1. ASSUME NEW c \in Clients, Request(c) PROVE QueueTypeOK'
    BY <1>1 DEF Request, QueueTypeOK
  <1>2. ASSUME NEW c \in Clients, RescheduleStore(c) PROVE QueueTypeOK'
    <2>1. \A s \in {"hurry", "schedule"} :
            [step |-> s, at |-> client[c].at, from |-> now] \in Wake
      OBVIOUS
    <2>2. \/ wake' = wake
          \/ \E s \in {"hurry", "schedule"} :
               wake' = [wake EXCEPT ![c] = [step |-> s, at |-> client[c].at,
                                            from |-> now]]
      BY <1>2 DEF RescheduleStore
    <2>3. wake' \in [Clients -> Wake]
      BY <2>1, <2>2 DEF QueueTypeOK
    <2> QED  BY <1>2, <2>3 DEF RescheduleStore, QueueTypeOK
  <1>3. ASSUME NEW c \in Clients, RescheduleWake(c) PROVE QueueTypeOK'
    <2>1. wake[c] \in Wake /\ msgs \in [Messages -> Message]
      BY DEF QueueTypeOK
    <2>2. /\ wake[c].at \in Nat /\ wake[c].from \in Nat
          /\ [wake[c] EXCEPT !.step = "hurried"] \in Wake
          /\ [wake[c] EXCEPT !.step = "verify"] \in Wake
      BY <2>1
    <2>3. \/ msgs' = msgs
          \/ rescheduleDelivery(wake[c].at, wake[c].from)
          \/ rescheduleDelivery(email.scheduled_at, now)
      BY <1>3 DEF RescheduleWake, HurryOutbox
    <2>4. msgs' \in [Messages -> Message]
      BY <2>1, <2>2, <2>3, RescheduleDeliveryLemma
    <2>5. \/ wake' = [wake EXCEPT ![c].step = "hurried"]
          \/ wake' = [wake EXCEPT ![c].step = "verify"]
          \/ wake' = [wake EXCEPT ![c] = NoWake]
      BY <1>3 DEF RescheduleWake
    <2>6. wake' \in [Clients -> Wake]
      BY <1>0, <2>2, <2>5 DEF QueueTypeOK
    <2> QED  BY <1>3, <2>4, <2>6 DEF RescheduleWake, QueueTypeOK
  <1>4. ASSUME NEW c \in Clients, RescheduleLost(c) PROVE QueueTypeOK'
    <2>1. wake[c] \in Wake /\ msgs \in [Messages -> Message]
      BY DEF QueueTypeOK
    <2>2. \/ msgs' = msgs
          \/ RescheduleDeliveryThrows(wake[c].at, wake[c].from)
          \/ RescheduleDeliveryThrows(email.scheduled_at, now)
      BY <1>4 DEF RescheduleLost
    <2>3. msgs' \in [Messages -> Message]
      BY <2>1, <2>2 DEF RescheduleDeliveryThrows
    <2>4. wake' \in [Clients -> Wake]
      BY <1>0, <1>4 DEF RescheduleLost, QueueTypeOK
    <2> QED  BY <1>4, <2>3, <2>4 DEF RescheduleLost, QueueTypeOK
  <1>5. CASE SuppressionChange
    BY <1>5 DEF SuppressionChange, QueueTypeOK
  <1>6. CASE PassTime
    BY <1>6 DEF PassTime, queue, QueueTypeOK
  <1>7. CASE UNCHANGED allVars
    BY <1>7 DEF allVars, queue, QueueTypeOK
  <1> QED  BY <1>1, <1>2, <1>3, <1>4, <1>5, <1>6, <1>7

\* Every step keeps the types of the queue.
LEMMA QueueStep ==
    ASSUME TypeOK, QueueTypeOK, [PipelineNext]_allVars
    PROVE  QueueTypeOK'
  BY QueueDelivery, QueueRest DEF PipelineNext

-----------------------------------------------------------------------------
\* The records, the messages and the locals keep their types on the AWS path,
\* and the ledger, the attempts and the workers agree as in EmailDelivery.
THEOREM PipelineInvariant ==
    (1..MaxReceives \subseteq ReceiveCounts) => (PipelineSpec => []PipelineInv)
  <1> SUFFICES ASSUME 1..MaxReceives \subseteq ReceiveCounts
               PROVE  PipelineSpec => []PipelineInv
    OBVIOUS
  <1>1. PipelineInit => PipelineInv
    BY QueueInit, TypeInit, SubmissionInit DEF PipelineInit, PipelineInv
  <1>2. PipelineInv /\ [PipelineNext]_allVars => PipelineInv'
    <2> SUFFICES ASSUME PipelineInv, [PipelineNext]_allVars PROVE PipelineInv'
      OBVIOUS
    <2>1. [Next]_vars
      BY PipelineStep DEF PipelineInv
    <2>2. (TypeOK /\ SubmissionInv)'
      BY <2>1, StepLemma DEF PipelineInv
    <2> QED  BY <2>2, QueueStep DEF PipelineInv
  <1> QED  BY <1>1, <1>2, PTL DEF PipelineSpec

\* SQS, EventBridge Scheduler and the workers only ever do what EmailDelivery
\* allows its general at-least-once queue, when that may hand a job over as
\* often as the largest maxReceiveCount.
THEOREM ImplementsEmailDeliveryHolds ==
    (1..MaxReceives \subseteq ReceiveCounts) =>
      (PipelineSpec => ImplementsEmailDelivery)
  <1> SUFFICES ASSUME 1..MaxReceives \subseteq ReceiveCounts
               PROVE  PipelineSpec => ImplementsEmailDelivery
    OBVIOUS
  <1>1. PipelineInit => Init
    BY DEF PipelineInit
  <1>2. PipelineInv /\ [PipelineNext]_allVars => [Next]_vars
    BY PipelineStep DEF PipelineInv
  <1> QED
    BY <1>1, <1>2, PipelineInvariant, PTL
    DEF PipelineSpec, ImplementsEmailDelivery, Spec

\* So an AWS deployment never has two submissions of an e-mail in the air,
\* hands a message to the provider again only after a recorded transient
\* error, and shows the status its recipients have.
THEOREM AwsSubmissions ==
    (1..MaxReceives \subseteq ReceiveCounts) =>
      (PipelineSpec => []( /\ NoConcurrentSubmission
                           /\ DuplicatesAreRetries
                           /\ PublicStatusAgrees))
  <1> SUFFICES ASSUME 1..MaxReceives \subseteq ReceiveCounts
               PROVE  PipelineSpec => []( /\ NoConcurrentSubmission
                                          /\ DuplicatesAreRetries
                                          /\ PublicStatusAgrees)
    OBVIOUS
  <1> QED
    BY ImplementsEmailDeliveryHolds, NoConcurrentSubmissionHolds,
       DuplicatesAreRetriesHolds, PublicStatusAgreesHolds, PTL
    DEF ImplementsEmailDelivery

-----------------------------------------------------------------------------
(* An e-mail that is not final is never left to nobody.                     *)

\* It waits to be claimed.
Unsent == email.status \in Pending \/ (LeaseExpired /\ Unsubmitted)

CountersOK ==
    /\ due \in Nat
    /\ schedule \in Nat
    /\ got \in [Workers -> Nat]
    /\ calls \in Nat
    /\ failures \in Nat

\* A worker has its message to itself for as long as it can run, and only a
\* call that has ended has a corrective job to see to.
HeldInv ==
    /\ \A w \in Workers :
         /\ held[w] = "none" => worker[w].pc = "idle"
         /\ held[w] # "none" =>
              /\ worker[w].pc # "idle"
              /\ msgs[held[w]].state = "live"
              /\ msgs[held[w]].at = got[w] + Visibility
              /\ now <= got[w] + RunLimit
         /\ fix[w] > 0 => worker[w].pc \in {"returned", "threw"}
    /\ \A v, w \in Workers : held[v] = held[w] /\ held[w] # "none" => v = w

\* A request that goes on after its store update has the e-mail's schedule.
WakeInv ==
    \A c \in Clients : wake[c].step # "none" =>
        /\ wake[c].at = email.scheduled_at
        /\ wake[c].from <= now

\* A message that is not about to be deleted, nor leads to another wake-up.
Strict(m) ==
    \/ msgs[m].state = "dead"
    \/ /\ msgs[m].state = "live"
       /\ \A w \in Workers : held[w] = m => worker[w].pc # "returned"

\* A message that is not about to be deleted without another wake-up.
Alive(m) ==
    \/ msgs[m].state = "dead"
    \/ /\ msgs[m].state = "live"
       /\ \A w \in Workers : held[w] = m => worker[w].pc # "returned" \/ fix[w] > 0

\* Somebody has still to look at the e-mail: its schedule apart, and in all.
Looked == item # "dispatched" \/ \E m \in Messages : Alive(m)

Waiting == schedule > 0 \/ Looked

\* The message an e-mail was claimed under: its worker goes on to the
\* submission, or was lost, and then the message comes back after the lease.
Claimant(m) ==
    \/ msgs[m].state = "dead"
    \/ /\ msgs[m].state = "live"
       /\ msgs[m].at > email.lease
       /\ \A w \in Workers : held[w] = m => AboutToSubmit(w)

DriverInv ==
    /\ Unsent => Waiting
    /\ email.status = "sending" /\ Unsubmitted /\ ~LeaseExpired =>
         /\ email.lease > 0
         /\ \E m \in Messages : Claimant(m)

\* The wake-up that hurries the outbox on may take the e-mail's schedule away:
\* the e-mail does not depend on it.
HurryInv ==
    (\E c \in Clients : wake[c].step = "hurry") =>
        /\ Unsent => item # "dispatched" \/ \E m \in Messages : Strict(m)
        /\ \/ email.scheduled_at <= now
           \/ item = "pending" /\ due >= email.scheduled_at

\* A reschedule has not begun, or has not changed anything yet.
Fresh == calls = 0 \/ \E c \in Clients : client[c].pc = "rescheduling"

\* Until then there is no schedule but the outbox item, and no job ahead of it.
FreshInv ==
    /\ calls <= MaxCalls
    /\ calls = 0 => \A c \in Clients : client[c].pc = "idle"
    /\ Fresh =>
         /\ schedule = 0
         /\ \A w \in Workers : fix[w] = 0
         /\ \A c \in Clients : wake[c].step = "none"
         /\ \/ email.scheduled_at <= now
            \/ /\ \/ item = "pending" /\ due >= email.scheduled_at
                  \/ item = "dispatched"
               /\ \A m \in Messages : msgs[m].state = "absent"

\* A scheduler call that fails may take the schedule away too, when the time
\* is near; then some message or the item is left, and what a worker enqueues
\* is a message, because it has the same schedule.
FailInv ==
    /\ \A w \in Workers : fix[w] > 0 => fix[w] = email.scheduled_at
    /\ \A c \in Clients :
         /\ wake[c].step = "schedule"
         /\ Near(wake[c].at, wake[c].from)
         /\ Unsent
         => Looked

\* Only failures need the last two.
DrivenInv ==
    /\ CountersOK
    /\ HeldInv
    /\ WakeInv
    /\ DriverInv
    /\ HurryInv
    /\ MaxFailures > 0 => FreshInv /\ FailInv

\* What a worker may count on: its message is hidden from everybody else.
LEMMA HeldLemma ==
    ASSUME TypeOK, QueueTypeOK, CountersOK, HeldInv,
           Visibility > RunLimit + SendLease,
           NEW w \in Workers, held[w] # "none"
    PROVE  /\ held[w] \in Messages
           /\ worker[w].pc # "idle"
           /\ msgs[held[w]].state = "live"
           /\ msgs[held[w]].at > now + SendLease
           /\ ~Receivable(held[w])
           /\ \A v \in Workers : held[v] = held[w] => v = w
  <1>1. held[w] \in Messages
    BY DEF QueueTypeOK
  <1>2. /\ worker[w].pc # "idle"
        /\ msgs[held[w]].state = "live"
        /\ msgs[held[w]].at = got[w] + Visibility
        /\ now <= got[w] + RunLimit
        /\ \A v \in Workers : held[v] = held[w] => v = w
    BY DEF HeldInv
  <1>3. /\ got[w] \in Nat /\ now \in Nat
        /\ Visibility \in Nat /\ RunLimit \in Nat /\ SendLease \in Nat
    BY AwsSendAssumption, EmailDeliveryAssumption DEF CountersOK, TypeOK
  <1>4. msgs[held[w]].at > now + SendLease
    BY <1>2, <1>3
  <1>5. ~Receivable(held[w])
    BY <1>2, <1>3, <1>4 DEF Receivable
  <1> QED  BY <1>1, <1>2, <1>4, <1>5

\* Sending a message fills an empty place.
LEMMA SendRows ==
    ASSUME QueueTypeOK, NEW at \in Nat, SendMessage(at)
    PROVE  \E m \in Messages :
             /\ msgs[m].state = "absent"
             /\ msgs'[m].state = "live"
             /\ \A k \in Messages : k # m => msgs'[k] = msgs[k]
  <1>1. PICK m \in Messages :
          /\ msgs[m].state = "absent"
          /\ msgs' = [msgs EXCEPT ![m] = [state |-> "live", at |-> at, n |-> 0]]
    BY DEF SendMessage
  <1> QED  BY <1>1 DEF QueueTypeOK

\* rescheduleDelivery leaves a message, or a schedule for a time that is far.
LEMMA DeliveryRows ==
    ASSUME now \in Nat, NEW at \in Nat, NEW from \in Nat,
           rescheduleDelivery(at, from)
    PROVE  \/ /\ schedule' = 0
              /\ \E t \in Nat : SendMessage(t)
           \/ /\ ~Near(at, from)
              /\ schedule' = at
              /\ at > 0
              /\ UNCHANGED msgs
  <1>1. NearDelay \in Nat
    BY AwsSendAssumption
  <1>2. now + secondsUntil(at, from) \in Nat
    BY DEF secondsUntil
  <1>3. ~Near(at, from) => at > 0
    BY <1>1 DEF Near, secondsUntil
  <1>4. CASE Near(at, from)
    BY <1>2, <1>4 DEF rescheduleDelivery
  <1>5. CASE ~Near(at, from)
    BY <1>3, <1>5 DEF rescheduleDelivery
  <1> QED  BY <1>4, <1>5

\* A time that was near is near later on.
LEMMA NearLemma ==
    ASSUME NEW at \in Nat, NEW from \in Nat, NEW later \in Nat, from <= later,
           Near(at, from)
    PROVE  Near(at, later)
  <1>1. NearDelay \in Nat
    BY AwsSendAssumption
  <1> QED  BY <1>1 DEF Near, secondsUntil

\* The message a lease takes.
LEMMA ReceiveRows ==
    ASSUME QueueTypeOK, NEW w \in Workers, NEW m \in Messages, ReceiveJob(w, m)
    PROVE  /\ \A k \in Messages : k # m => msgs'[k] = msgs[k]
           /\ msgs[m].state = "live"
           /\ msgs'[m].state = "live"
           /\ msgs'[m].at = now + Visibility
           /\ Receivable(m)
           /\ held[w] = "none"
           /\ held' = [held EXCEPT ![w] = m]
           /\ got' = [got EXCEPT ![w] = now]
  <1>1. /\ Receivable(m)
        /\ held[w] = "none"
        /\ held' = [held EXCEPT ![w] = m]
        /\ got' = [got EXCEPT ![w] = now]
        /\ msgs' = [msgs EXCEPT ![m].n = @ + 1, ![m].at = now + Visibility]
    BY DEF ReceiveJob
  <1>2. msgs[m] \in Message
    BY DEF QueueTypeOK
  <1>3. /\ \A k \in Messages : k # m => msgs'[k] = msgs[k]
        /\ msgs'[m] = [[msgs[m] EXCEPT !.n = msgs[m].n + 1] EXCEPT !.at = now + Visibility]
    BY <1>1 DEF QueueTypeOK
  <1>4. msgs'[m].state = msgs[m].state /\ msgs'[m].at = now + Visibility
    BY <1>2, <1>3 DEF Message
  <1> QED  BY <1>1, <1>3, <1>4 DEF Receivable

\* A step of processSend is one of a worker that runs a job, and leaves the
\* queue alone.
LEMMA RunFacts ==
    ASSUME TypeOK, NEW w \in Workers, RunJob(w)
    PROVE  /\ SendStep(w)
           /\ worker[w].pc \notin {"idle", "returned", "threw"}
           /\ worker'[w].pc # "idle"
           /\ \A v \in Workers : v # w => worker'[v] = worker[v]
           /\ fix[w] = 0
           /\ UNCHANGED <<now, client>>
           /\ UNCHANGED queue
           /\ email'.scheduled_at = email.scheduled_at
  <1>1. SendStep(w) /\ fix[w] = 0 /\ UNCHANGED queue
    BY DEF RunJob, SendStep
  <1> QED  BY <1>1, SendStepFacts

\* The message of a call that has returned is deleted, unless it threw.
LEMMA SettleRows ==
    ASSUME TypeOK, QueueTypeOK, CountersOK, HeldInv, NEW w \in Workers, Settle(w),
           Visibility > RunLimit + SendLease
    PROVE  /\ held[w] # "none"
           /\ fix[w] = 0
           /\ \A m \in Messages : m # held[w] => msgs'[m] = msgs[m]
           /\ \/ worker[w].pc = "returned" /\ msgs'[held[w]].state = "absent"
              \/ worker[w].pc = "threw" /\ msgs' = msgs
           /\ held' = [held EXCEPT ![w] = "none"]
           /\ worker' = [worker EXCEPT ![w] = IdleLocals]
           /\ UNCHANGED <<email, attempts, now, client, item, due, schedule,
                          fix, wake, calls>>
  <1>1. /\ held[w] # "none"
        /\ fix[w] = 0
        /\ worker[w].pc \in {"returned", "threw"}
        /\ msgs' = IF worker[w].pc = "returned"
                     THEN [msgs EXCEPT ![held[w]] = NoMessage] ELSE msgs
        /\ held' = [held EXCEPT ![w] = "none"]
        /\ worker' = [worker EXCEPT ![w] = IdleLocals]
        /\ UNCHANGED <<email, attempts, now, client, item, due, schedule, fix,
                       wake, calls>>
    BY DEF Settle, Finish, Deletes, ledger
  <1>2. held[w] \in Messages
    BY <1>1, HeldLemma
  <1>3. NoMessage.state = "absent"
    BY DEF NoMessage
  <1> QED  BY <1>1, <1>2, <1>3 DEF QueueTypeOK

\* The readings and the counts of the queue stay numbers.
LEMMA CountersStep ==
    ASSUME TypeOK, QueueTypeOK, CountersOK, [PipelineNext]_allVars
    PROVE  CountersOK'
  <1> USE ReadingsLemma
  <1>0. /\ fix \in [Workers -> Nat]
        /\ \A c \in Clients : wake[c].at \in Nat /\ wake[c].from \in Nat
        /\ OutboxLease \in Nat
    BY AwsSendAssumption DEF QueueTypeOK
  <1>1. CASE PublishItem
    BY <1>0, <1>1 DEF PublishItem, CountersOK
  <1>2. ASSUME NEW m \in Messages, Redrive(m) PROVE CountersOK'
    BY <1>2 DEF Redrive, CountersOK
  <1>3. CASE FireSchedule
    BY <1>3 DEF FireSchedule, CountersOK
  <1>4. ASSUME NEW w \in Workers, NEW m \in Messages, ReceiveJob(w, m)
        PROVE  CountersOK'
    <2>1. got' = [got EXCEPT ![w] = now]
      BY <1>4, ReceiveRows
    <2>2. UNCHANGED <<due, schedule, calls, failures>>
      BY <1>4 DEF ReceiveJob
    <2> QED  BY <2>1, <2>2 DEF CountersOK
  <1>5. ASSUME NEW w \in Workers, Corrective(w) PROVE CountersOK'
    <2>1. schedule' \in {schedule, 0, fix[w]}
      BY <1>5 DEF Corrective, rescheduleDelivery, RescheduleDeliveryThrows
    <2>2. UNCHANGED <<due, got, calls, failures>>
      BY <1>5 DEF Corrective
    <2> QED  BY <1>0, <2>1, <2>2 DEF CountersOK
  <1>6. ASSUME NEW w \in Workers, RunJob(w) PROVE CountersOK'
    BY <1>6 DEF RunJob, queue, CountersOK
  <1>7. ASSUME NEW w \in Workers, Settle(w) \/ LoseWorker(w) PROVE CountersOK'
    <2>1. /\ got' = [got EXCEPT ![w] = 0]
          /\ UNCHANGED <<due, schedule, calls, failures>>
      BY <1>7 DEF Settle, LoseWorker
    <2> QED  BY <2>1 DEF CountersOK
  <1>8. ASSUME NEW c \in Clients, Request(c) PROVE CountersOK'
    <2>1. schedule' \in {schedule, 0} /\ UNCHANGED <<due, got, failures>>
      BY <1>8 DEF Request
    <2>2. calls' = calls \/ calls' = calls + 1
      BY <1>8 DEF Request, Call
    <2> QED  BY <2>1, <2>2 DEF CountersOK
  <1>9. ASSUME NEW c \in Clients, RescheduleStore(c) PROVE CountersOK'
    <2>1. /\ due' \in {due, client[c].at}
          /\ UNCHANGED <<schedule, got, calls, failures>>
      BY <1>9 DEF RescheduleStore
    <2> QED  BY <2>1 DEF CountersOK
  <1>10. ASSUME NEW c \in Clients, RescheduleWake(c) \/ RescheduleLost(c)
         PROVE  CountersOK'
    <2>1. schedule' \in {schedule, 0, wake[c].at, email.scheduled_at}
      BY <1>10 DEF RescheduleWake, RescheduleLost, rescheduleDelivery,
                   RescheduleDeliveryThrows, HurryOutbox
    <2>2. UNCHANGED <<due, got, calls>> /\ failures' \in {failures, failures + 1}
      BY <1>10 DEF RescheduleWake, RescheduleLost
    <2> QED  BY <1>0, <2>1, <2>2 DEF CountersOK
  <1>11. CASE SuppressionChange
    BY <1>11 DEF SuppressionChange, Call, CountersOK
  <1>12. CASE PassTime \/ UNCHANGED allVars
    BY <1>12 DEF PassTime, queue, allVars, CountersOK
  <1> QED  BY <1>1, <1>2, <1>3, <1>4, <1>5, <1>6, <1>7, <1>8, <1>9, <1>10, <1>11,
              <1>12 DEF PipelineNext

\* Sending a message takes none from the workers.
LEMMA HeldSent ==
    ASSUME TypeOK, QueueTypeOK, CountersOK, HeldInv,
           Visibility > RunLimit + SendLease,
           UNCHANGED <<now, worker, held, got>>,
           \A w \in Workers : fix'[w] > 0 => fix[w] > 0,
           \/ UNCHANGED msgs
           \/ \E at \in Nat : SendMessage(at)
    PROVE  HeldInv'
  <1>1. \A w \in Workers : held[w] # "none" => msgs'[held[w]] = msgs[held[w]]
    <2>1. CASE UNCHANGED msgs
      BY <2>1
    <2>2. ASSUME NEW at \in Nat, SendMessage(at)
          PROVE  \A w \in Workers : held[w] # "none" => msgs'[held[w]] = msgs[held[w]]
      BY <2>2, SendRows, HeldLemma
    <2> QED  BY <2>1, <2>2
  <1> QED  BY <1>1 DEF HeldInv

\* A worker's message stays with it, and time does not pass its time-out.
LEMMA HeldStep ==
    ASSUME TypeOK, QueueTypeOK, CountersOK, HeldInv,
           Visibility > RunLimit + SendLease,
           [PipelineNext]_allVars
    PROVE  HeldInv'
  <1> USE ReadingsLemma
  <1>0. /\ worker \in [Workers -> Locals]
        /\ held \in [Workers -> Messages \cup {"none"}]
        /\ got \in [Workers -> Nat]
        /\ fix \in [Workers -> Nat]
        /\ \A c \in Clients : wake[c].at \in Nat /\ wake[c].from \in Nat
        /\ "none" \notin Messages
        /\ RunLimit \in Nat /\ Visibility \in Nat /\ SendLease \in Nat
    BY AwsSendAssumption, EmailDeliveryAssumption
       DEF TypeOK, QueueTypeOK, CountersOK
  <1>1. CASE PublishItem
    BY <1>1, HeldSent DEF PublishItem, vars
  <1>2. ASSUME NEW m \in Messages, Redrive(m) PROVE HeldInv'
    <2>1. /\ \A k \in Messages : k # m => msgs'[k] = msgs[k]
          /\ UNCHANGED <<now, worker, held, got, fix>>
          /\ Receivable(m)
      BY <1>2 DEF Redrive, vars, QueueTypeOK
    <2>2. \A w \in Workers : held[w] # "none" => msgs'[held[w]] = msgs[held[w]]
      BY <2>1, HeldLemma
    <2> QED  BY <2>1, <2>2 DEF HeldInv
  <1>3. CASE FireSchedule
    BY <1>3, HeldSent DEF FireSchedule, vars
  <1>4. ASSUME NEW w \in Workers, NEW m \in Messages, ReceiveJob(w, m)
        PROVE  HeldInv'
    <2>1. /\ \A k \in Messages : k # m => msgs'[k] = msgs[k]
          /\ msgs'[m].state = "live"
          /\ msgs'[m].at = now + Visibility
          /\ Receivable(m)
          /\ held' = [held EXCEPT ![w] = m]
          /\ got' = [got EXCEPT ![w] = now]
      BY <1>4, ReceiveRows
    <2>2. \A v \in Workers : held[v] # m
      BY <1>0, <2>1, HeldLemma
    <2>3. /\ now' = now
          /\ fix' = [fix EXCEPT ![w] =
                       IF email.status \notin FINAL_STATUSES
                         /\ email.scheduled_at > now THEN email.scheduled_at ELSE 0]
          /\ LoadEmail(w, msgs[m].n + 1)
      BY <1>4 DEF ReceiveJob, LoadEmail
    <2>4. \E p, n : /\ p \in {"returned", "threw", "loaded"}
                    /\ worker' = [worker EXCEPT ![w] = At(p, n)]
                    /\ p = "loaded" => ~(email.scheduled_at > now)
      BY <2>3 DEF LoadEmail, Return, Throw
    <2>5. /\ worker'[w].pc \in {"returned", "threw", "loaded"}
          /\ worker'[w].pc = "loaded" => fix'[w] = 0
          /\ \A v \in Workers : v # w => worker'[v] = worker[v] /\ fix'[v] = fix[v]
      BY <1>0, <2>3, <2>4 DEF At
    <2>6. \A v \in Workers : v # w =>
            held'[v] = held[v] /\ got'[v] = got[v] /\ held[v] # m
      BY <1>0, <2>1, <2>2
    <2>7. held'[w] = m /\ got'[w] = now /\ now <= now + RunLimit
      BY <1>0, <2>1
    <2> QED  BY <1>0, <2>1, <2>3, <2>5, <2>6, <2>7 DEF HeldInv
  <1>5. ASSUME NEW w \in Workers, Corrective(w) PROVE HeldInv'
    <2>1. UNCHANGED msgs \/ (\E at \in Nat : SendMessage(at))
      BY <1>0, <1>5, DeliveryRows DEF Corrective, RescheduleDeliveryThrows
    <2>2. UNCHANGED <<now, worker, held, got>> /\ fix' = [fix EXCEPT ![w] = 0]
      BY <1>5 DEF Corrective, vars
    <2> QED  BY <1>0, <2>1, <2>2, HeldSent
  <1>6. ASSUME NEW w \in Workers, RunJob(w) PROVE HeldInv'
    <2>1. /\ worker[w].pc # "idle" /\ worker'[w].pc # "idle"
          /\ \A v \in Workers : v # w => worker'[v] = worker[v]
          /\ UNCHANGED <<now, held, got, msgs, fix>>
          /\ fix[w] = 0
      BY <1>6, RunFacts DEF queue
    <2> QED  BY <2>1 DEF HeldInv
  <1>7. ASSUME NEW w \in Workers, Settle(w) PROVE HeldInv'
    <2>1. /\ held[w] # "none"
          /\ fix[w] = 0
          /\ \A m \in Messages : m # held[w] => msgs'[m] = msgs[m]
          /\ held' = [held EXCEPT ![w] = "none"]
          /\ worker' = [worker EXCEPT ![w] = IdleLocals]
          /\ UNCHANGED <<now, fix>>
      BY <1>7, SettleRows
    <2>2. got' = [got EXCEPT ![w] = 0]
      BY <1>7 DEF Settle
    <2>3. \A v \in Workers : held[v] = held[w] => v = w
      BY <2>1, HeldLemma
    <2>4. worker'[w].pc = "idle" /\ held'[w] = "none" /\ ~(fix'[w] > 0)
      BY <1>0, <2>1 DEF IdleLocals, At
    <2>5. \A v \in Workers : v # w =>
            /\ worker'[v] = worker[v] /\ held'[v] = held[v] /\ got'[v] = got[v]
            /\ held[v] # "none" => msgs'[held[v]] = msgs[held[v]]
      BY <1>0, <2>1, <2>2, <2>3
    <2> QED  BY <2>1, <2>4, <2>5 DEF HeldInv
  <1>8. ASSUME NEW w \in Workers, LoseWorker(w) PROVE HeldInv'
    <2>1. /\ held' = [held EXCEPT ![w] = "none"]
          /\ worker' = [worker EXCEPT ![w] = IdleLocals]
          /\ got' = [got EXCEPT ![w] = 0]
          /\ fix' = [fix EXCEPT ![w] = 0]
          /\ UNCHANGED <<now, msgs>>
      BY <1>8 DEF LoseWorker, Crash
    <2>2. worker'[w].pc = "idle" /\ held'[w] = "none" /\ ~(fix'[w] > 0)
      BY <1>0, <2>1 DEF IdleLocals, At
    <2>3. \A v \in Workers : v # w => /\ worker'[v] = worker[v]
                                      /\ held'[v] = held[v]
                                      /\ got'[v] = got[v]
                                      /\ fix'[v] = fix[v]
      BY <1>0, <2>1
    <2> QED  BY <2>1, <2>2, <2>3 DEF HeldInv
  <1>9. ASSUME NEW c \in Clients, Request(c) \/ RescheduleStore(c) PROVE HeldInv'
    <2>1. UNCHANGED <<now, worker, held, got, fix, msgs>>
      BY <1>9 DEF Request, CancelRead, CancelApply, RescheduleRead,
                  RescheduleStore, RescheduleApply
    <2> QED  BY <2>1 DEF HeldInv
  <1>10. ASSUME NEW c \in Clients, RescheduleWake(c) \/ RescheduleLost(c)
         PROVE  HeldInv'
    <2>1. UNCHANGED <<now, worker, held, got, fix>>
      BY <1>10 DEF RescheduleWake, RescheduleLost, vars
    <2>2. UNCHANGED msgs \/ (\E at \in Nat : SendMessage(at))
      <3>1. \/ UNCHANGED msgs
            \/ rescheduleDelivery(wake[c].at, wake[c].from)
            \/ rescheduleDelivery(email.scheduled_at, now)
        BY <1>10 DEF RescheduleWake, RescheduleLost, HurryOutbox,
                     RescheduleDeliveryThrows
      <3> QED  BY <1>0, <3>1, DeliveryRows
    <2> QED  BY <2>1, <2>2, HeldSent
  <1>11. CASE SuppressionChange
    BY <1>11 DEF SuppressionChange, PutSuppression, DeleteSuppression, HeldInv
  <1>12. CASE PassTime
    <2>1. /\ UNCHANGED <<worker, held, got, fix, msgs>>
          /\ now' = now + 1
          /\ \A w \in Workers : held[w] # "none" => now < got[w] + RunLimit
      BY <1>12 DEF PassTime, Tick, queue
    <2>2. \A w \in Workers : held[w] # "none" => now' <= got[w] + RunLimit
      BY <1>0, <2>1
    <2> QED  BY <2>1, <2>2 DEF HeldInv
  <1>13. CASE UNCHANGED allVars
    BY <1>13 DEF allVars, vars, queue, HeldInv
  <1> QED  BY <1>1, <1>2, <1>3, <1>4, <1>5, <1>6, <1>7, <1>8, <1>9, <1>10, <1>11,
              <1>12, <1>13 DEF PipelineNext

\* A schedule is only ever changed by the store update of a reschedule.
LEMMA ScheduleChange ==
    ASSUME TypeOK, [PipelineNext]_allVars, email'.scheduled_at # email.scheduled_at
    PROVE  \E c \in Clients : RescheduleStore(c)
  <1>1. CASE PublishItem \/ FireSchedule \/ \E m \in Messages : Redrive(m)
    BY <1>1 DEF PublishItem, FireSchedule, Redrive, vars, ledger
  <1>2. ASSUME NEW w \in Workers, \E m \in Messages : ReceiveJob(w, m)
        PROVE  FALSE
    BY <1>2 DEF ReceiveJob, LoadEmail, ledger
  <1>3. ASSUME NEW w \in Workers, RunJob(w) PROVE FALSE
    BY <1>3, RunFacts
  <1>4. ASSUME NEW w \in Workers, Settle(w) PROVE FALSE
    BY <1>4 DEF Settle, Finish, ledger
  <1>5. ASSUME NEW w \in Workers, Corrective(w) \/ LoseWorker(w)
        PROVE  FALSE
    BY <1>5 DEF Corrective, LoseWorker, Crash, vars, ledger
  <1>6. ASSUME NEW c \in Clients, Request(c) PROVE FALSE
    BY <1>6, CancelOutcome DEF Request, CancelRead, RescheduleRead, ledger
  <1>7. ASSUME NEW c \in Clients, RescheduleWake(c) \/ RescheduleLost(c)
        PROVE  FALSE
    BY <1>7 DEF RescheduleWake, RescheduleLost, vars, ledger
  <1>8. CASE SuppressionChange
    BY <1>8 DEF SuppressionChange, PutSuppression, DeleteSuppression, ledger
  <1>9. CASE PassTime
    BY <1>9 DEF PassTime, Tick, ledger
  <1>10. CASE UNCHANGED allVars
    BY <1>10 DEF allVars, vars, ledger
  <1> QED  BY <1>1, <1>2, <1>3, <1>4, <1>5, <1>6, <1>7, <1>8, <1>9, <1>10
           DEF PipelineNext

\* The store update of a reschedule.
LEMMA StoreRows ==
    ASSUME TypeOK, QueueTypeOK, NEW c \in Clients, RescheduleStore(c)
    PROVE  /\ wake[c].step = "none"
           /\ client[c].pc = "rescheduling"
           /\ client' = [client EXCEPT ![c] = [pc |-> "idle", at |-> 0]]
           /\ UNCHANGED <<attempts, now, worker, item, msgs, schedule, held,
                          got, fix, calls, failures>>
           /\ \/ /\ email.status \in Pending
                 /\ email'.status = "scheduled"
                 /\ email'.scheduled_at = client[c].at
                 /\ \/ /\ item = "pending"
                       /\ due' = client[c].at
                       /\ wake'[c].step = "hurry"
                    \/ wake'[c].step = "schedule"
                 /\ wake'[c].at = client[c].at
                 /\ wake'[c].from = now
              \/ UNCHANGED <<email, due, wake>>
  <1>0. email \in EmailRecord /\ wake \in [Clients -> [step : {"none", "hurry",
                     "hurried", "schedule", "verify"}, at : Nat, from : Nat]]
    BY DEF TypeOK, QueueTypeOK
  <1>1. PICK withOutbox \in BOOLEAN :
          /\ withOutbox => item = "pending"
          /\ RescheduleApply(c, withOutbox)
          /\ email.status \in Pending =>
               /\ withOutbox => due' = client[c].at
               /\ wake' = [wake EXCEPT ![c] =
                            [step |-> IF withOutbox THEN "hurry" ELSE "schedule",
                             at |-> client[c].at, from |-> now]]
          /\ email.status \notin Pending => due' = due /\ wake' = wake
    BY DEF RescheduleStore
  <1>2. /\ wake[c].step = "none"
        /\ UNCHANGED <<attempts, now, worker, item, msgs, schedule, held, got,
                       fix, calls, failures>>
    BY DEF RescheduleStore, RescheduleApply, NoWake
  <1>3. /\ client[c].pc = "rescheduling"
        /\ client' = [client EXCEPT ![c] = [pc |-> "idle", at |-> 0]]
    BY <1>1 DEF RescheduleApply
  <1>4. CASE email.status \in Pending
    <2>1. email'.status = "scheduled" /\ email'.scheduled_at = client[c].at
      BY <1>0, <1>1, <1>4 DEF RescheduleApply, EmailRecord
    <2> QED  BY <1>0, <1>1, <1>2, <1>3, <1>4, <2>1
  <1>5. CASE email.status \notin Pending
    BY <1>1, <1>2, <1>3, <1>5 DEF RescheduleApply
  <1> QED  BY <1>4, <1>5

\* What is left of a request that goes on, or is lost.
LEMMA WakeRows ==
    ASSUME QueueTypeOK, NEW c \in Clients, RescheduleWake(c) \/ RescheduleLost(c)
    PROVE  /\ \A d \in Clients : d # c => wake'[d] = wake[d]
           /\ wake[c].step # "none"
           /\ \/ wake'[c].step = "none"
              \/ /\ wake'[c].step \in {"hurried", "verify"}
                 /\ wake'[c].at = wake[c].at
                 /\ wake'[c].from = wake[c].from
           /\ UNCHANGED <<email, attempts, now, worker, client, item, due, held,
                          got, fix, calls>>
  <1>1. /\ \/ wake' = [wake EXCEPT ![c] = NoWake]
           \/ wake' = [wake EXCEPT ![c].step = "hurried"]
           \/ wake' = [wake EXCEPT ![c].step = "verify"]
        /\ UNCHANGED <<email, attempts, now, worker, client, item, due, held,
                       got, fix, calls>>
    BY DEF RescheduleWake, RescheduleLost, vars, ledger
  <1>2. wake[c].step # "none"
    BY DEF RescheduleWake, RescheduleLost
  <1> QED  BY <1>1, <1>2 DEF QueueTypeOK, NoWake

\* With one client nobody changes the schedule behind a request's back.
LEMMA WakeStep ==
    ASSUME TypeOK, QueueTypeOK, WakeInv, \A c, d \in Clients : c = d,
           [PipelineNext]_allVars
    PROVE  WakeInv'
  <1> USE ReadingsLemma
  <1>1. ASSUME NEW c \in Clients, RescheduleStore(c) PROVE WakeInv'
    <2>1. now' = now
      BY <1>1, StoreRows
    <2>2. CASE UNCHANGED <<email, due, wake>>
      BY <2>1, <2>2 DEF WakeInv
    <2>3. CASE ~UNCHANGED <<email, due, wake>>
      <3>1. /\ wake'[c].at = email'.scheduled_at
            /\ wake'[c].from = now
        BY <1>1, <2>3, StoreRows
      <3>2. \A d \in Clients : d = c
        OBVIOUS
      <3> QED  BY <2>1, <3>1, <3>2 DEF WakeInv
    <2> QED  BY <2>2, <2>3
  <1>2. ASSUME NEW c \in Clients, RescheduleWake(c) \/ RescheduleLost(c)
        PROVE  WakeInv'
    BY <1>2, WakeRows DEF WakeInv
  <1>3. CASE PassTime
    <2>1. UNCHANGED <<email, wake>> /\ now' = now + 1
      BY <1>3 DEF PassTime, Tick, queue, ledger
    <2>2. \A c \in Clients : wake[c].from \in Nat
      BY DEF QueueTypeOK
    <2> QED  BY <2>1, <2>2 DEF WakeInv
  <1>4. ASSUME email'.scheduled_at = email.scheduled_at, UNCHANGED <<now, wake>>
        PROVE  WakeInv'
    BY <1>4 DEF WakeInv
  <1>5. CASE ~PassTime /\ ~(\E c \in Clients : \/ RescheduleStore(c)
                                               \/ RescheduleWake(c)
                                               \/ RescheduleLost(c))
    <2>1. email'.scheduled_at = email.scheduled_at
      BY <1>5, ScheduleChange
    <2>2. ASSUME NEW w \in Workers, \/ \E m \in Messages : ReceiveJob(w, m)
                                    \/ Corrective(w)
                                    \/ RunJob(w)
                                    \/ Settle(w)
                                    \/ LoseWorker(w)
          PROVE  UNCHANGED <<now, wake>>
      <3>1. CASE RunJob(w)
        BY <3>1, RunFacts DEF queue
      <3>2. CASE ~RunJob(w)
        BY <2>2, <3>2 DEF ReceiveJob, LoadEmail, Corrective, Settle, Finish,
                          LoseWorker, Crash, vars
      <3> QED  BY <3>1, <3>2
    <2>3. ASSUME NEW c \in Clients, Request(c) PROVE UNCHANGED <<now, wake>>
      BY <2>3 DEF Request, CancelRead, CancelApply, RescheduleRead
    <2>4. CASE PublishItem \/ FireSchedule \/ \E m \in Messages : Redrive(m)
      BY <1>4, <2>1, <2>4 DEF PublishItem, FireSchedule, Redrive, vars
    <2>5. CASE SuppressionChange
      BY <1>4, <2>1, <2>5 DEF SuppressionChange, PutSuppression, DeleteSuppression
    <2>6. CASE UNCHANGED allVars
      BY <1>4, <2>1, <2>6 DEF allVars, vars, queue
    <2> QED  BY <1>4, <1>5, <2>1, <2>2, <2>3, <2>4, <2>5, <2>6 DEF PipelineNext
  <1> QED  BY <1>1, <1>2, <1>3, <1>5

\* Sending a message disturbs no other.
LEMMA SentKeeps ==
    ASSUME TypeOK, QueueTypeOK, CountersOK, HeldInv,
           Visibility > RunLimit + SendLease,
           UNCHANGED <<worker, held>>,
           UNCHANGED msgs \/ (\E at \in Nat : SendMessage(at)),
           NEW m \in Messages
    PROVE  /\ Strict(m) => Strict(m)'
           /\ Alive(m) /\ (\A w \in Workers : held[w] = m => fix'[w] = fix[w]) =>
                Alive(m)'
           /\ Claimant(m) /\ UNCHANGED <<email, attempts>> => Claimant(m)'
  <1>1. msgs[m].state # "absent" => msgs'[m] = msgs[m]
    BY SendRows
  <1> QED  BY <1>1 DEF Strict, Alive, Claimant, AboutToSubmit

\* The message that is sent waits for a worker.
LEMMA SentIsStrict ==
    ASSUME TypeOK, QueueTypeOK, CountersOK, HeldInv,
           Visibility > RunLimit + SendLease,
           UNCHANGED <<worker, held>>,
           NEW at \in Nat, SendMessage(at)
    PROVE  \E m \in Messages : Strict(m)'
  <1>1. PICK m \in Messages : msgs[m].state = "absent" /\ msgs'[m].state = "live"
    BY SendRows
  <1>2. \A w \in Workers : held[w] # m
    <2>1. m # "none"
      BY AwsSendAssumption
    <2> QED  BY <1>1, <2>1, HeldLemma
  <1> QED  BY <1>1, <1>2 DEF Strict

\* A step that leaves the e-mail, its item and the clock alone, and loses none
\* of those who look after it.
LEMMA DriversFrame ==
    ASSUME DriverInv, HurryInv,
           UNCHANGED <<email, attempts, now, item, due, wake>>,
           Unsent /\ Waiting => Waiting',
           Unsent /\ (\E m \in Messages : Strict(m)) =>
             \/ item # "dispatched"
             \/ \E m \in Messages : Strict(m)'
             \/ \A c \in Clients : wake[c].step # "hurry",
           \A c \in Clients :
             /\ FailInv
             /\ wake[c].step = "schedule"
             /\ Near(wake[c].at, wake[c].from)
             /\ Unsent
             => Looked',
           FailInv => \A w \in Workers : fix'[w] > 0 => fix'[w] = email.scheduled_at,
           email.status = "sending" /\ ~LeaseExpired /\ email.lease > 0 =>
             \A m \in Messages : Claimant(m) => Claimant(m)'
    PROVE  DriverInv' /\ HurryInv' /\ (FailInv => FailInv')
  <1>1. /\ LeaseExpired' <=> LeaseExpired
        /\ Unsubmitted' <=> Unsubmitted
        /\ Unsent' <=> Unsent
    BY DEF LeaseExpired, Unsubmitted, Unsent
  <1>2. DriverInv'
    BY <1>1 DEF DriverInv
  <1>3. HurryInv'
    BY <1>1 DEF HurryInv
  <1>4. FailInv => FailInv'
    <2> SUFFICES ASSUME FailInv PROVE FailInv'
      OBVIOUS
    <2>1. \A w \in Workers : fix'[w] > 0 => fix'[w] = email'.scheduled_at
      OBVIOUS
    <2>2. \A c \in Clients :
            wake'[c].step = "schedule" /\ Near(wake'[c].at, wake'[c].from) /\ Unsent'
              => Looked'
      BY <1>1
    <2> QED  BY <2>1, <2>2 DEF FailInv
  <1> QED  BY <1>2, <1>3, <1>4

\* The general case of it: nobody is lost.
LEMMA DriversKept ==
    ASSUME DriverInv, HurryInv,
           UNCHANGED <<email, attempts, now, item, due, wake>>,
           FailInv => \A w \in Workers : fix'[w] > 0 => fix'[w] = email.scheduled_at,
           schedule' = schedule \/ schedule = 0 \/ \E m \in Messages : Strict(m)',
           \A m \in Messages : /\ Strict(m) => Strict(m)'
                               /\ Alive(m) => Alive(m)'
                               /\ Claimant(m) => Claimant(m)'
    PROVE  DriverInv' /\ HurryInv' /\ (FailInv => FailInv')
  <1>1. \A m \in Messages : Strict(m)' => Alive(m)'
    BY DEF Strict, Alive
  <1>2. Looked => Looked'
    BY DEF Looked
  <1>3. Waiting => Waiting'
    BY <1>1, <1>2 DEF Waiting, Looked
  <1>4. FailInv => \A c \in Clients :
                     /\ wake[c].step = "schedule"
                     /\ Near(wake[c].at, wake[c].from)
                     /\ Unsent
                     => Looked'
    BY <1>2 DEF FailInv
  <1> QED  BY <1>3, <1>4, DriversFrame

\* A step of processSend that has changed the e-mail: where it waits again its
\* message will come back.
LEMMA DriversSent ==
    ASSUME HurryInv, UNCHANGED <<now, item, due, wake, fix>>,
           email'.scheduled_at = email.scheduled_at,
           Unsent' => \E m \in Messages : Strict(m)',
           email'.status = "sending" /\ Unsubmitted' /\ ~LeaseExpired' =>
             /\ email'.lease > 0
             /\ \E m \in Messages : Claimant(m)'
    PROVE  DriverInv' /\ HurryInv' /\ (FailInv => FailInv')
  <1>1. \A m \in Messages : Strict(m)' => Alive(m)'
    BY DEF Strict, Alive
  <1>2. Unsent' => Looked'
    BY <1>1 DEF Looked
  <1>3. DriverInv'
    BY <1>2 DEF DriverInv, Waiting
  <1>4. HurryInv'
    BY DEF HurryInv
  <1>5. FailInv => FailInv'
    <2> SUFFICES ASSUME FailInv PROVE FailInv'
      OBVIOUS
    <2>1. \A w \in Workers : fix'[w] > 0 => fix'[w] = email'.scheduled_at
      BY DEF FailInv
    <2> QED  BY <1>2, <2>1 DEF FailInv
  <1> QED  BY <1>3, <1>4, <1>5

\* What the outbox and the queue do by themselves leaves a message at least.
LEMMA DriversQueue ==
    ASSUME TypeOK, QueueTypeOK, CountersOK, HeldInv, DriverInv, HurryInv,
           Visibility > RunLimit + SendLease,
           \/ PublishItem
           \/ \E m \in Messages : Redrive(m)
           \/ FireSchedule
    PROVE  DriverInv' /\ HurryInv' /\ (FailInv => FailInv')
  <1> USE ReadingsLemma
  <1>1. CASE PublishItem
    <2>1. /\ SendMessage(now)
          /\ due <= now
          /\ UNCHANGED <<email, attempts, now, worker, held, fix, wake, schedule>>
      BY <1>1 DEF PublishItem, vars, ledger
    <2>2. \A m \in Messages : Claimant(m) => Claimant(m)'
      BY <2>1, SentKeeps
    <2>3. PICK m \in Messages : Strict(m)'
      BY <2>1, SentIsStrict
    <2>4. Alive(m)'
      BY <2>3 DEF Strict, Alive
    <2>5. Looked' /\ Waiting'
      BY <2>4 DEF Looked, Waiting
    <2>6. /\ LeaseExpired' <=> LeaseExpired
          /\ Unsubmitted' <=> Unsubmitted
      BY <2>1 DEF LeaseExpired, Unsubmitted
    <2>7. DriverInv'
      BY <2>1, <2>2, <2>5, <2>6 DEF DriverInv
    <2>8. HurryInv'
      <3>1. (\E c \in Clients : wake[c].step = "hurry") => email.scheduled_at <= now
        BY <2>1 DEF HurryInv, CountersOK
      <3> QED  BY <2>1, <2>3, <3>1 DEF HurryInv
    <2>9. FailInv => FailInv'
      BY <2>1, <2>5 DEF FailInv
    <2> QED  BY <2>7, <2>8, <2>9
  <1>2. ASSUME NEW m \in Messages, Redrive(m)
        PROVE  DriverInv' /\ HurryInv' /\ (FailInv => FailInv')
    <2>1. /\ \A k \in Messages : k # m => msgs'[k] = msgs[k]
          /\ msgs'[m].state = "dead"
          /\ UNCHANGED <<email, attempts, now, worker, item, due, schedule, held,
                         fix, wake>>
      BY <1>2 DEF Redrive, vars, ledger, QueueTypeOK, NoMessage
    <2>2. \A k \in Messages : /\ Strict(k) => Strict(k)'
                              /\ Alive(k) => Alive(k)'
                              /\ Claimant(k) => Claimant(k)'
      BY <2>1 DEF Strict, Alive, Claimant, AboutToSubmit
    <2>3. FailInv => \A w \in Workers : fix'[w] > 0 => fix'[w] = email.scheduled_at
      BY <2>1 DEF FailInv
    <2> QED  BY <2>1, <2>2, <2>3, DriversKept
  <1>3. CASE FireSchedule
    <2>1. /\ SendMessage(now)
          /\ UNCHANGED <<email, attempts, now, worker, item, due, held, fix, wake>>
      BY <1>3 DEF FireSchedule, vars, ledger
    <2>2. \E m \in Messages : Strict(m)'
      BY <2>1, SentIsStrict
    <2>3. \A k \in Messages : /\ Strict(k) => Strict(k)'
                              /\ Alive(k) => Alive(k)'
                              /\ Claimant(k) => Claimant(k)'
      BY <2>1, SentKeeps
    <2>4. FailInv => \A w \in Workers : fix'[w] > 0 => fix'[w] = email.scheduled_at
      BY <2>1 DEF FailInv
    <2> QED  BY <2>1, <2>2, <2>3, <2>4, DriversKept
  <1> QED  BY <1>1, <1>2, <1>3

\* A worker that finds the e-mail ahead of its schedule has another wake-up to
\* see to, or leaves it to the outbox item.
LEMMA DriversReceive ==
    ASSUME TypeOK, QueueTypeOK, CountersOK, HeldInv, DriverInv, HurryInv,
           Visibility > RunLimit + SendLease,
           NEW w \in Workers, NEW m \in Messages, ReceiveJob(w, m)
    PROVE  DriverInv' /\ HurryInv' /\ (FailInv => FailInv')
  <1> USE ReadingsLemma
  <1>0. /\ worker \in [Workers -> Locals]
        /\ held \in [Workers -> Messages \cup {"none"}]
        /\ fix \in [Workers -> Nat]
        /\ email \in EmailRecord
        /\ "none" \notin Messages
        /\ \A k \in Messages : msgs[k].at \in Nat
    BY AwsSendAssumption DEF TypeOK, QueueTypeOK, Message
  <1>1. /\ \A k \in Messages : k # m => msgs'[k] = msgs[k]
        /\ msgs'[m].state = "live"
        /\ Receivable(m)
        /\ held[w] = "none"
        /\ held' = [held EXCEPT ![w] = m]
    BY ReceiveRows
  <1>2. \A v \in Workers : held[v] # m
    BY <1>0, <1>1, HeldLemma
  <1>3. /\ UNCHANGED <<email, attempts, now, item, due, wake, schedule>>
        /\ fix' = [fix EXCEPT ![w] =
                     IF email.status \notin FINAL_STATUSES
                       /\ email.scheduled_at > now THEN email.scheduled_at ELSE 0]
        /\ LoadEmail(w, msgs[m].n + 1)
    BY DEF ReceiveJob, LoadEmail, ledger
  <1>4. \A v \in Workers : v # w => worker'[v] = worker[v] /\ fix'[v] = fix[v]
    <2>1. \E p, n : worker' = [worker EXCEPT ![w] = At(p, n)]
      BY <1>3 DEF LoadEmail, Return, Throw
    <2> QED  BY <1>0, <1>3, <2>1
  <1>5. fix'[w] = IF email.status \notin FINAL_STATUSES /\ email.scheduled_at > now
                    THEN email.scheduled_at ELSE 0
    BY <1>0, <1>3
  <1>6. worker'[w].pc = "returned" /\ email.status \notin FINAL_STATUSES =>
          email.scheduled_at > now
    <2>1. ASSUME worker' = [worker EXCEPT ![w] = At("loaded", msgs[m].n + 1)]
          PROVE  worker'[w].pc # "returned"
      BY <1>0, <2>1 DEF At
    <2>2. ASSUME Throw(w) PROVE worker'[w].pc # "returned"
      BY <1>0, <2>2 DEF Throw, At
    <2> QED  BY <1>3, <2>1, <2>2 DEF LoadEmail
  <1>7. held'[w] = m /\ \A v \in Workers : v # w => held'[v] = held[v] /\ held[v] # m
    BY <1>0, <1>1, <1>2
  <1>8. ASSUME NEW k \in Messages, k # m
        PROVE  /\ Strict(k) => Strict(k)'
               /\ Alive(k) => Alive(k)'
               /\ Claimant(k) => Claimant(k)'
    BY <1>1, <1>3, <1>4, <1>7, <1>8 DEF Strict, Alive, Claimant, AboutToSubmit
  <1>9. Unsent => email.status \notin FINAL_STATUSES
    BY DEF Unsent, FINAL_STATUSES, Pending, LeaseExpired
  <1>10. Unsent => Alive(m)'
    <2>1. Unsent /\ worker'[w].pc = "returned" => fix'[w] > 0
      BY <1>0, <1>5, <1>6, <1>9
    <2> QED  BY <1>1, <1>7, <2>1 DEF Alive
  <1>11. Unsent => Looked'
    BY <1>10 DEF Looked
  <1>12. Unsent /\ (\E k \in Messages : Strict(k)) =>
           \/ item # "dispatched"
           \/ \E k \in Messages : Strict(k)'
           \/ \A c \in Clients : wake[c].step # "hurry"
    <2>1. SUFFICES ASSUME Unsent, item = "dispatched",
                          \E c \in Clients : wake[c].step = "hurry"
                   PROVE  Strict(m)'
      OBVIOUS
    <2>2. email.scheduled_at <= now
      BY <2>1 DEF HurryInv
    <2>3. worker'[w].pc # "returned"
      BY <1>6, <1>9, <2>1, <2>2
    <2> QED  BY <1>1, <1>7, <2>3 DEF Strict
  <1>13. FailInv => \A v \in Workers : fix'[v] > 0 => fix'[v] = email.scheduled_at
    BY <1>4, <1>5 DEF FailInv
  <1>14. email.status = "sending" /\ ~LeaseExpired /\ email.lease > 0 => ~Claimant(m)
    <2>1. msgs[m].state = "live" /\ msgs[m].at <= now
      BY <1>1 DEF Receivable
    <2> QED  BY <1>0, <2>1 DEF Claimant, LeaseExpired, EmailRecord
  <1>15. Unsent /\ Waiting => Waiting'
    BY <1>11 DEF Waiting
  <1> QED  BY <1>3, <1>8, <1>11, <1>12, <1>13, <1>14, <1>15, DriversFrame

\* A corrective job is a message or, for a time that is far, the schedule; one
\* that fails leaves the message it was to replace.
LEMMA DriversCorrective ==
    ASSUME TypeOK, QueueTypeOK, CountersOK, HeldInv, WakeInv, DriverInv, HurryInv,
           Visibility > RunLimit + SendLease,
           NEW w \in Workers, Corrective(w)
    PROVE  DriverInv' /\ HurryInv' /\ (FailInv => FailInv')
  <1> USE ReadingsLemma
  <1>0. /\ fix \in [Workers -> Nat]
        /\ \A c \in Clients : wake[c].from \in Nat
    BY DEF QueueTypeOK
  <1>1. /\ fix[w] > 0
        /\ fix' = [fix EXCEPT ![w] = 0]
        /\ UNCHANGED <<email, attempts, now, item, due, wake, worker, held>>
        /\ \/ worker[w].pc = "returned" /\ rescheduleDelivery(fix[w], now)
           \/ worker[w].pc = "threw" /\ UNCHANGED msgs
    BY DEF Corrective, RescheduleDeliveryThrows, vars, ledger
  <1>2. UNCHANGED msgs \/ (\E at \in Nat : SendMessage(at))
    BY <1>0, <1>1, DeliveryRows
  <1>3. \A m \in Messages : /\ Strict(m) => Strict(m)'
                            /\ Claimant(m) => Claimant(m)'
    BY <1>1, <1>2, SentKeeps
  <1>4. FailInv => \A v \in Workers : fix'[v] > 0 => fix'[v] = email.scheduled_at
    BY <1>0, <1>1 DEF FailInv
  <1>5. CASE \E at \in Nat : SendMessage(at)
    <2>1. \E m \in Messages : Strict(m)'
      BY <1>1, <1>5, SentIsStrict
    <2>2. Looked'
      BY <2>1 DEF Strict, Alive, Looked
    <2>3. Waiting'
      BY <2>2 DEF Waiting
    <2> QED  BY <1>1, <1>3, <1>4, <2>1, <2>2, <2>3, DriversFrame
  <1>6. CASE worker[w].pc = "returned" /\ ~\E at \in Nat : SendMessage(at)
    <2>1. ~Near(fix[w], now) /\ schedule' > 0
      BY <1>0, <1>1, <1>6, DeliveryRows
    <2>2. ASSUME NEW c \in Clients, FailInv, wake[c].step = "schedule",
                 Near(wake[c].at, wake[c].from)
          PROVE  FALSE
      <3>1. fix[w] = email.scheduled_at
        BY <1>1, <2>2 DEF FailInv
      <3>2. wake[c].at = email.scheduled_at /\ wake[c].from <= now
        BY <2>2 DEF WakeInv
      <3> QED  BY <1>0, <2>1, <2>2, <3>1, <3>2, NearLemma
    <2>3. Waiting'
      BY <2>1 DEF Waiting
    <2> QED  BY <1>1, <1>3, <1>4, <2>2, <2>3, DriversFrame
  <1>7. CASE worker[w].pc = "threw" /\ UNCHANGED msgs
    <2>1. held[w] # "none"
      BY <1>7 DEF HeldInv
    <2>2. /\ held[w] \in Messages
          /\ msgs[held[w]].state = "live"
          /\ \A v \in Workers : held[v] = held[w] => v = w
      BY <2>1, HeldLemma
    <2>3. PICK m \in Messages : m = held[w]
      BY <2>2
    <2>4. Alive(m)'
      BY <1>1, <1>7, <2>2, <2>3 DEF Alive
    <2>5. Looked' /\ Waiting'
      BY <2>4 DEF Looked, Waiting
    <2> QED  BY <1>1, <1>3, <1>4, <2>5, DriversFrame
  <1> QED  BY <1>1, <1>5, <1>6, <1>7

\* A message is deleted by a call that has returned with nothing left to do,
\* and comes back when its worker is lost.
LEMMA DriversSettle ==
    ASSUME TypeOK, QueueTypeOK, CountersOK, HeldInv, DriverInv, HurryInv,
           Visibility > RunLimit + SendLease,
           NEW w \in Workers, Settle(w) \/ LoseWorker(w)
    PROVE  DriverInv' /\ HurryInv' /\ (FailInv => FailInv')
  <1>0. /\ worker \in [Workers -> Locals]
        /\ held \in [Workers -> Messages \cup {"none"}]
        /\ fix \in [Workers -> Nat]
        /\ "none" \notin Messages
    BY AwsSendAssumption DEF TypeOK, QueueTypeOK
  <1>1. /\ held' = [held EXCEPT ![w] = "none"]
        /\ worker' = [worker EXCEPT ![w] = IdleLocals]
        /\ UNCHANGED <<email, attempts, now, item, due, schedule, wake>>
        /\ worker[w].pc # "idle"
        /\ \A v \in Workers : v # w => fix'[v] = fix[v]
        /\ fix'[w] = 0
    <2>1. CASE Settle(w)
      BY <2>1, SettleRows
    <2>2. CASE LoseWorker(w)
      BY <1>0, <2>2 DEF LoseWorker, Crash, ledger
    <2> QED  BY <2>1, <2>2
  <1>2. \/ worker[w].pc = "returned" /\ fix[w] = 0
        \/ UNCHANGED msgs
    BY SettleRows DEF LoseWorker
  <1>3. held[w] # "none"
    BY <1>1 DEF HeldInv
  <1>4. /\ held[w] \in Messages
        /\ msgs[held[w]].state = "live"
        /\ \A v \in Workers : held[v] = held[w] => v = w
        /\ \A m \in Messages : m # held[w] => msgs'[m] = msgs[m]
    BY <1>3, HeldLemma, SettleRows DEF LoseWorker
  <1>5. \A v \in Workers, m \in Messages : held'[v] = m =>
          v # w /\ held[v] = m /\ m # held[w] /\ worker'[v] = worker[v]
            /\ fix'[v] = fix[v]
    BY <1>0, <1>1, <1>4
  <1>6. ASSUME NEW m \in Messages
        PROVE  /\ Strict(m) => Strict(m)'
               /\ Alive(m) => Alive(m)'
               /\ Claimant(m) => Claimant(m)'
    <2>1. CASE m # held[w]
      BY <1>1, <1>4, <1>5, <2>1 DEF Strict, Alive, Claimant, AboutToSubmit
    <2>2. CASE m = held[w] /\ UNCHANGED msgs
      BY <1>1, <1>4, <1>5, <2>2 DEF Strict, Alive, Claimant, AboutToSubmit
    <2>3. CASE m = held[w] /\ worker[w].pc = "returned" /\ fix[w] = 0
      BY <1>4, <2>3 DEF Strict, Alive, Claimant, AboutToSubmit
    <2> QED  BY <1>2, <2>1, <2>2, <2>3
  <1>7. FailInv => \A v \in Workers : fix'[v] > 0 => fix'[v] = email.scheduled_at
    BY <1>1 DEF FailInv
  <1> QED  BY <1>1, <1>6, <1>7, DriversKept

\* The message an e-mail is claimed under outlives the send lease.
LEMMA DriversClaim ==
    ASSUME TypeOK, QueueTypeOK, CountersOK, HeldInv, DriverInv, HurryInv,
           Visibility > RunLimit + SendLease,
           NEW w \in Workers, RunJob(w), ClaimEmailForSend(w)
    PROVE  DriverInv' /\ HurryInv' /\ (FailInv => FailInv')
  <1>0. /\ worker \in [Workers -> Locals]
        /\ email \in EmailRecord
        /\ now \in Nat
        /\ SendLease \in Nat \ {0}
    BY EmailDeliveryAssumption DEF TypeOK
  <1>1. /\ UNCHANGED <<attempts, now, item, due, schedule, wake, fix, msgs, held>>
        /\ worker[w].pc = "clear"
        /\ email'.scheduled_at = email.scheduled_at
        /\ \A v \in Workers : v # w => worker'[v] = worker[v]
    BY RunFacts DEF queue, ClaimEmailForSend
  <1>2. held[w] # "none"
    BY <1>1 DEF HeldInv
  <1>3. /\ held[w] \in Messages
        /\ msgs[held[w]].state = "live"
        /\ msgs[held[w]].at > now + SendLease
        /\ \A v \in Workers : held[v] = held[w] => v = w
    BY <1>2, HeldLemma
  <1>4. CASE Claimable
    <2>1. PICK k : k = ClaimCount(worker[w].n)
      OBVIOUS
    <2>2. /\ email' = [email EXCEPT !.status = "sending", !.attempts = k,
                                    !.lease = now + SendLease]
          /\ worker' = [worker EXCEPT ![w].pc = "claimed", ![w].n = k]
      BY <1>4, <2>1 DEF ClaimEmailForSend
    <2>3. email'.status = "sending" /\ email'.lease = now + SendLease
      BY <1>0, <2>2 DEF EmailRecord
    <2>4. worker'[w].pc = "claimed"
      BY <1>0, <2>2 DEF Locals
    <2>5. ~Unsent' /\ email'.lease > 0
      BY <1>0, <1>1, <2>3 DEF Unsent, LeaseExpired, Pending
    <2>6. PICK m \in Messages : m = held[w]
      BY <1>3
    <2>7. Claimant(m)'
      BY <1>1, <1>3, <2>3, <2>4, <2>6 DEF Claimant, AboutToSubmit
    <2> QED  BY <1>1, <2>5, <2>7, DriversSent
  <1>5. CASE ~Claimable
    <2>1. UNCHANGED email /\ Return(w)
      BY <1>5 DEF ClaimEmailForSend
    <2>2. ~Unsent
      BY <1>5 DEF Claimable, Unsent
    <2>3. ASSUME NEW m \in Messages, Claimant(m) PROVE Claimant(m)'
      <3>1. msgs[m].state # "dead" => m # held[w]
        BY <1>1, <2>3 DEF Claimant, AboutToSubmit
      <3> QED  BY <1>1, <2>1, <2>3, <3>1 DEF Claimant, AboutToSubmit
    <2>4. FailInv => \A v \in Workers : fix'[v] > 0 => fix'[v] = email.scheduled_at
      BY <1>1 DEF FailInv
    <2> QED  BY <1>1, <2>1, <2>2, <2>3, <2>4, DriversFrame
  <1> QED  BY <1>4, <1>5

\* So does every other step of processSend keep somebody for the e-mail.
LEMMA DriversRun ==
    ASSUME TypeOK, SubmissionInv, QueueTypeOK, CountersOK, HeldInv, DriverInv,
           HurryInv, Visibility > RunLimit + SendLease,
           NEW w \in Workers, RunJob(w)
    PROVE  DriverInv' /\ HurryInv' /\ (FailInv => FailInv')
  <1>1. /\ SendStep(w)
        /\ worker[w].pc \notin {"idle", "returned", "threw"}
        /\ \A v \in Workers : v # w => worker'[v] = worker[v]
        /\ UNCHANGED <<now, item, due, schedule, wake, fix, msgs, held>>
        /\ email'.scheduled_at = email.scheduled_at
    BY RunFacts DEF queue
  <1>2. /\ held[w] # "none"
        /\ held[w] \in Messages
        /\ msgs[held[w]].state = "live"
        /\ \A v \in Workers : held[v] = held[w] => v = w
    BY <1>1, HeldLemma DEF HeldInv
  <1>3. CASE email'.status \in FINAL_STATUSES
    <2>1. ~Unsent' /\ email'.status # "sending"
      BY <1>3 DEF Unsent, LeaseExpired, Pending, FINAL_STATUSES
    <2> QED  BY <1>1, <2>1, DriversSent
  <1>4. CASE ClaimEmailForSend(w)
    BY <1>4, DriversClaim
  <1>5. CASE email'.status = "sending" /\ ~Unsubmitted'
    <2>1. ~Unsent'
      BY <1>5 DEF Unsent, Pending
    <2> QED  BY <1>1, <1>5, <2>1, DriversSent
  <1>6. CASE email'.status = "queued" /\ worker'[w].pc = "threw"
    <2>1. PICK m \in Messages : m = held[w]
      BY <1>2
    <2>2. Strict(m)'
      BY <1>1, <1>2, <1>6, <2>1 DEF Strict
    <2> QED  BY <1>1, <1>6, <2>2, DriversSent
  <1>7. ASSUME UNCHANGED <<email, attempts>>,
               worker'[w].pc # "returned",
               email.status = "sending" /\ Unsubmitted /\ AboutToSubmit(w) =>
                 worker'[w].pc = "ledgered" /\ worker'[w].seq = Len(attempts) + 1
        PROVE  DriverInv' /\ HurryInv' /\ (FailInv => FailInv')
    <2>1. \A m \in Messages : /\ Strict(m) => Strict(m)'
                              /\ Alive(m) => Alive(m)'
      BY <1>1, <1>7 DEF Strict, Alive
    <2>2. FailInv => \A v \in Workers : fix'[v] > 0 => fix'[v] = email.scheduled_at
      BY <1>1 DEF FailInv
    <2>3. CASE email.status = "sending" /\ Unsubmitted
      <3>1. \A v \in Workers : AboutToSubmit(v) => AboutToSubmit(v)'
        BY <1>1, <1>7, <2>3 DEF AboutToSubmit
      <3>2. \A m \in Messages : Claimant(m) => Claimant(m)'
        BY <1>1, <1>7, <3>1 DEF Claimant
      <3> QED  BY <1>1, <1>7, <2>1, <2>2, <3>2, DriversKept
    <2>4. CASE ~(email.status = "sending" /\ Unsubmitted)
      <3>1. CASE Unsent
        <4>1. email.status # "sending"
          BY <2>4, <3>1 DEF Unsent, Pending
        <4>2. Waiting => Waiting'
          BY <1>1, <2>1 DEF Waiting, Looked
        <4>3. Looked => Looked'
          BY <1>1, <2>1 DEF Looked
        <4> QED  BY <1>1, <1>7, <2>1, <2>2, <4>1, <4>2, <4>3, DriversFrame DEF FailInv
      <3>2. CASE ~Unsent
        <4>1. ~Unsent' /\ ~(email'.status = "sending" /\ Unsubmitted')
          BY <1>1, <1>7, <2>4, <3>2 DEF Unsent, Unsubmitted, LeaseExpired
        <4> QED  BY <1>1, <4>1, DriversSent
      <3> QED  BY <3>1, <3>2
    <2> QED  BY <2>3, <2>4
  <1> QED  BY <1>1, <1>3, <1>4, <1>5, <1>6, <1>7, SendStepOutcome

\* A request leaves the e-mail to a message or a schedule, and the schedule it
\* may take away is not what the e-mail depends on.
LEMMA DriversWake ==
    ASSUME TypeOK, QueueTypeOK, CountersOK, HeldInv, WakeInv, DriverInv, HurryInv,
           Visibility > RunLimit + SendLease, \A c, d \in Clients : c = d,
           MaxFailures > 0 => FailInv,
           NEW c \in Clients, RescheduleWake(c) \/ RescheduleLost(c)
    PROVE  DriverInv' /\ HurryInv' /\ (FailInv => FailInv')
  <1> USE ReadingsLemma
  <1>0. /\ \A d \in Clients : wake[d].at \in Nat /\ wake[d].from \in Nat
        /\ schedule \in Nat
    BY DEF QueueTypeOK, CountersOK
  <1>1. /\ \A d \in Clients : wake'[d].step \in {"none", "hurried", "verify"}
        /\ wake[c].step # "none"
        /\ UNCHANGED <<email, attempts, now, worker, item, due, held, fix>>
    <2>1. \A d \in Clients : d = c
      OBVIOUS
    <2> QED  BY <2>1, WakeRows
  <1>2. HurryInv' /\ (FailInv => FailInv')
    <2>1. HurryInv'
      BY <1>1 DEF HurryInv
    <2>2. FailInv => FailInv'
      BY <1>1 DEF FailInv
    <2> QED  BY <2>1, <2>2
  <1>3. ~Outdated(c)
    BY <1>1 DEF WakeInv, Outdated
  <1>4. UNCHANGED msgs \/ (\E at \in Nat : SendMessage(at))
    <2>1. UNCHANGED msgs \/ rescheduleDelivery(wake[c].at, wake[c].from)
      BY <1>3 DEF RescheduleWake, RescheduleLost, HurryOutbox,
                  RescheduleDeliveryThrows
    <2> QED  BY <1>0, <2>1, DeliveryRows
  <1>5. \A m \in Messages : /\ Strict(m) => Strict(m)'
                            /\ Alive(m) => Alive(m)'
                            /\ Claimant(m) => Claimant(m)'
    BY <1>1, <1>4, SentKeeps
  <1>6. \A m \in Messages : Strict(m) => Alive(m)
    BY DEF Strict, Alive
  <1>7. Looked => Looked'
    BY <1>1, <1>5 DEF Looked
  <1>8. Unsent /\ Waiting => Waiting'
    <2>1. SUFFICES ASSUME Unsent, Waiting PROVE Waiting'
      OBVIOUS
    <2>2. CASE UNCHANGED schedule
      BY <1>7, <2>1, <2>2 DEF Waiting
    <2>3. CASE wake[c].step = "hurry"
      <3>1. Looked
        BY <1>6, <2>1, <2>3 DEF HurryInv, Looked
      <3> QED  BY <1>7, <3>1 DEF Waiting
    <2>4. CASE rescheduleDelivery(wake[c].at, wake[c].from)
      <3>1. CASE schedule' > 0
        BY <3>1 DEF Waiting
      <3>2. ASSUME NEW at \in Nat, SendMessage(at) PROVE Waiting'
        <4>1. \E m \in Messages : Strict(m)'
          BY <1>1, <3>2, SentIsStrict
        <4> QED  BY <4>1 DEF Strict, Alive, Looked, Waiting
      <3> QED  BY <1>0, <2>4, <3>1, <3>2, DeliveryRows
    <2>5. CASE /\ RescheduleLost(c)
               /\ wake[c].step = "schedule"
               /\ Near(wake[c].at, wake[c].from)
      <3>1. MaxFailures > 0
        <4>1. failures < MaxFailures /\ failures \in Nat /\ MaxFailures \in Nat
          BY <2>5, AwsSendAssumption DEF RescheduleLost, CountersOK
        <4> QED  BY <4>1
      <3>2. Looked
        BY <2>1, <2>5, <3>1 DEF FailInv
      <3> QED  BY <1>7, <3>2 DEF Waiting
    <2>6. CASE RescheduleWake(c)
      BY <1>3, <2>2, <2>3, <2>4, <2>6 DEF RescheduleWake
    <2>7. CASE RescheduleLost(c)
      BY <1>3, <2>2, <2>5, <2>7 DEF RescheduleLost, RescheduleDeliveryThrows
    <2> QED  BY <2>6, <2>7
  <1>9. DriverInv'
    <2>1. /\ LeaseExpired' <=> LeaseExpired
          /\ Unsubmitted' <=> Unsubmitted
          /\ Unsent' <=> Unsent
      BY <1>1 DEF LeaseExpired, Unsubmitted, Unsent
    <2> QED  BY <1>1, <1>5, <1>8, <2>1 DEF DriverInv
  <1> QED  BY <1>2, <1>9

\* The store update of a reschedule leaves the e-mail to whoever was looking
\* after it: before the first one those do not include a schedule.
LEMMA DriversStore ==
    ASSUME TypeOK, QueueTypeOK, CountersOK, DriverInv, HurryInv,
           \A c, d \in Clients : c = d,
           MaxFailures > 0 => FreshInv /\ FailInv,
           NEW c \in Clients, RescheduleStore(c)
    PROVE  DriverInv' /\ HurryInv' /\ (MaxFailures > 0 => FailInv')
  <1>1. /\ wake[c].step = "none"
        /\ client[c].pc = "rescheduling"
        /\ UNCHANGED <<attempts, now, worker, item, msgs, schedule, held, fix>>
    BY StoreRows
  <1>2. CASE UNCHANGED <<email, due, wake>>
    <2>1. \A m \in Messages : /\ Strict(m) => Strict(m)'
                              /\ Alive(m) => Alive(m)'
                              /\ Claimant(m) => Claimant(m)'
      BY <1>1, <1>2 DEF Strict, Alive, Claimant, AboutToSubmit
    <2>2. FailInv => \A w \in Workers : fix'[w] > 0 => fix'[w] = email.scheduled_at
      BY <1>1 DEF FailInv
    <2> QED  BY <1>1, <1>2, <2>1, <2>2, DriversKept
  <1>3. CASE ~UNCHANGED <<email, due, wake>>
    <2>1. /\ email.status \in Pending
          /\ email'.status = "scheduled"
          /\ email'.scheduled_at = client[c].at
          /\ \/ item = "pending" /\ due' = client[c].at /\ wake'[c].step = "hurry"
             \/ wake'[c].step = "schedule"
      BY <1>1, <1>3, StoreRows
    <2>2. \A d \in Clients : d = c
      OBVIOUS
    <2>3. /\ Looked => Looked'
          /\ Waiting => Waiting'
      BY <1>1 DEF Looked, Waiting, Alive
    <2>4. Waiting
      BY <2>1 DEF DriverInv, Unsent
    <2>5. DriverInv'
      BY <2>1, <2>3, <2>4 DEF DriverInv
    <2>6. HurryInv'
      <3>1. SUFFICES ASSUME wake'[c].step = "hurry" PROVE HurryInv'
        BY <2>2 DEF HurryInv
      <3>2. item' = "pending" /\ due' = email'.scheduled_at
        BY <1>1, <2>1, <3>1
      <3>3. due' >= email'.scheduled_at
        BY <2>1, <3>2, ReadingsLemma
      <3> QED  BY <3>2, <3>3 DEF HurryInv
    <2>7. ASSUME MaxFailures > 0 PROVE FailInv'
      <3>1. schedule = 0 /\ \A w \in Workers : fix[w] = 0
        BY <1>1, <2>7 DEF FreshInv, Fresh
      <3>2. Looked'
        BY <2>3, <2>4, <3>1 DEF Waiting
      <3>3. \A w \in Workers : fix'[w] = 0
        BY <1>1, <3>1
      <3> QED  BY <3>2, <3>3 DEF FailInv
    <2> QED  BY <2>5, <2>6, <2>7
  <1> QED  BY <1>2, <1>3

\* A cancellation takes the schedule away with the e-mail; nothing else that is
\* read or changed beside the e-mail concerns its drivers.
LEMMA DriversRequest ==
    ASSUME TypeOK, QueueTypeOK, DriverInv, HurryInv,
           \/ \E c \in Clients : Request(c)
           \/ SuppressionChange
           \/ UNCHANGED allVars
    PROVE  DriverInv' /\ HurryInv' /\ (FailInv => FailInv')
  <1> DEFINE Kept == DriverInv' /\ HurryInv' /\ (FailInv => FailInv')
  <1>1. ASSUME UNCHANGED <<email, attempts, now, worker, item, due, msgs,
                           schedule, held, fix, wake>>
        PROVE  Kept
    <2>1. \A m \in Messages : /\ Strict(m) => Strict(m)'
                              /\ Alive(m) => Alive(m)'
                              /\ Claimant(m) => Claimant(m)'
      BY <1>1 DEF Strict, Alive, Claimant, AboutToSubmit
    <2>2. FailInv => \A w \in Workers : fix'[w] > 0 => fix'[w] = email.scheduled_at
      BY <1>1 DEF FailInv
    <2> QED  BY <1>1, <2>1, <2>2, DriversKept
  <1>2. ASSUME NEW c \in Clients, Request(c) PROVE Kept
    <2>1. UNCHANGED <<now, worker, item, due, msgs, held, fix, wake>>
      BY <1>2 DEF Request, CancelRead, CancelApply, RescheduleRead
    <2>2. ASSUME applyLocalDeliveryState("canceled") PROVE Kept
      <3>1. /\ CommitLedgerPlan(planLocalRecipientState(rcpt, "canceled"))
            /\ planLocalRecipientState(rcpt, "canceled")
                 \in [Recipients -> RecipientStatus]
            /\ ~SomeRecipient(planLocalRecipientState(rcpt, "canceled"),
                              {"queued", "sending"})
        BY <2>2, LocalPlanLemma DEF applyLocalDeliveryState, TypeOK
      <3>2. email'.status \in FINAL_STATUSES
        BY <3>1, FinalCommitLemma
      <3>3. email'.scheduled_at = email.scheduled_at
        BY <3>1, CommitSchedule
      <3>4. email'.status # "sending" /\ ~Unsent'
        BY <3>2 DEF FINAL_STATUSES, Unsent, LeaseExpired, Pending
      <3> QED  BY <2>1, <3>3, <3>4, DriversSent
    <2>3. ASSUME ~applyLocalDeliveryState("canceled") PROVE Kept
      <3>1. UNCHANGED <<email, attempts, schedule>>
        <4>1. CASE CancelApply(c)
          <5>1. ~CanChangeLocally(attempts, rcpt) /\ UNCHANGED ledger
            BY <2>3, <4>1 DEF CancelApply
          <5>2. schedule' = schedule
            BY <1>2, <4>1, <5>1 DEF Request, CancelApply, CancelRead, RescheduleRead
          <5> QED  BY <5>1, <5>2 DEF ledger
        <4>2. CASE ~CancelApply(c)
          BY <1>2, <4>2 DEF Request, CancelRead, RescheduleRead, ledger
        <4> QED  BY <4>1, <4>2
      <3> QED  BY <1>1, <2>1, <3>1
    <2> QED  BY <2>2, <2>3
  <1>3. ASSUME SuppressionChange PROVE Kept
    BY <1>1, <1>3 DEF SuppressionChange, PutSuppression, DeleteSuppression, ledger
  <1>4. ASSUME UNCHANGED allVars PROVE Kept
    BY <1>1, <1>4 DEF allVars, vars, queue, ledger
  <1> QED  BY <1>2, <1>3, <1>4

\* When the send lease runs out, the message of the claim is there.
LEMMA DriversTime ==
    ASSUME TypeOK, QueueTypeOK, DriverInv, HurryInv, PassTime
    PROVE  DriverInv' /\ HurryInv' /\ (FailInv => FailInv')
  <1> USE ReadingsLemma
  <1>1. /\ UNCHANGED <<email, attempts, worker, item, due, msgs, schedule, held,
                       fix, wake>>
        /\ now' = now + 1
    BY DEF PassTime, Tick, queue, ledger
  <1>2. \A m \in Messages : /\ Strict(m)' <=> Strict(m)
                            /\ Alive(m)' <=> Alive(m)
                            /\ Claimant(m)' <=> Claimant(m)
    BY <1>1 DEF Strict, Alive, Claimant, AboutToSubmit
  <1>3. \A m \in Messages : Claimant(m) => Strict(m) /\ Alive(m)
    BY DEF Strict, Alive, Claimant, AboutToSubmit
  <1>4. /\ Looked' <=> Looked
        /\ Waiting' <=> Waiting
        /\ Unsubmitted' <=> Unsubmitted
    BY <1>1, <1>2 DEF Looked, Waiting, Unsubmitted
  <1>5. LeaseExpired => LeaseExpired'
    BY <1>1 DEF LeaseExpired, TypeOK, EmailRecord
  <1>6. Unsent' => Unsent \/ \E m \in Messages : Claimant(m)
    <2>1. LeaseExpired' => email.status = "sending"
      BY <1>1 DEF LeaseExpired
    <2> QED  BY <1>1, <1>4, <2>1 DEF Unsent, DriverInv
  <1>7. (\E m \in Messages : Claimant(m)) => Looked
    BY <1>3 DEF Looked
  <1>8. DriverInv'
    <2>1. Unsent' => Waiting
      BY <1>6, <1>7 DEF DriverInv, Waiting
    <2>2. email.status = "sending" /\ Unsubmitted /\ ~LeaseExpired' =>
            email.lease > 0 /\ \E m \in Messages : Claimant(m)
      BY <1>5 DEF DriverInv
    <2> QED  BY <1>1, <1>2, <1>4, <2>1, <2>2 DEF DriverInv
  <1>9. HurryInv'
    <2> SUFFICES ASSUME \E c \in Clients : wake[c].step = "hurry" PROVE HurryInv'
      BY <1>1 DEF HurryInv
    <2>1. Unsent' => item' # "dispatched" \/ \E m \in Messages : Strict(m)'
      BY <1>1, <1>2, <1>3, <1>6 DEF HurryInv
    <2>2. \/ email'.scheduled_at <= now'
          \/ item' = "pending" /\ due' >= email'.scheduled_at
      BY <1>1 DEF HurryInv
    <2> QED  BY <2>1, <2>2 DEF HurryInv
  <1>10. FailInv => FailInv'
    <2> SUFFICES ASSUME FailInv PROVE FailInv'
      OBVIOUS
    <2>1. \A c \in Clients :
            wake[c].step = "schedule" /\ Near(wake[c].at, wake[c].from) /\ Unsent'
              => Looked
      BY <1>6, <1>7 DEF FailInv
    <2> QED  BY <1>1, <1>4, <2>1 DEF FailInv, Near, secondsUntil
  <1> QED  BY <1>8, <1>9, <1>10

\* Before a first reschedule the queue and the workers act on nothing but the
\* outbox item, when it is due.
LEMMA FreshQueue ==
    ASSUME TypeOK, QueueTypeOK, CountersOK, HeldInv, FreshInv,
           \/ PublishItem
           \/ \E m \in Messages : Redrive(m)
           \/ FireSchedule
           \/ \E w \in Workers :
                \/ \E m \in Messages : ReceiveJob(w, m)
                \/ Corrective(w)
                \/ RunJob(w)
                \/ Settle(w)
                \/ LoseWorker(w)
    PROVE  FreshInv'
  <1> USE ReadingsLemma
  <1>0. fix \in [Workers -> Nat] /\ due \in Nat
    BY DEF QueueTypeOK, CountersOK
  <1>1. UNCHANGED <<calls, wake, client, now>> /\ email'.scheduled_at = email.scheduled_at
    <2>1. ASSUME NEW w \in Workers, RunJob(w)
          PROVE  /\ UNCHANGED <<calls, wake, client, now>>
                 /\ email'.scheduled_at = email.scheduled_at
      BY <2>1, RunFacts DEF queue
    <2>2. ASSUME NEW w \in Workers, \/ \E m \in Messages : ReceiveJob(w, m)
                                    \/ Corrective(w)
                                    \/ Settle(w)
                                    \/ LoseWorker(w)
          PROVE  /\ UNCHANGED <<calls, wake, client, now>>
                 /\ email'.scheduled_at = email.scheduled_at
      BY <2>2 DEF ReceiveJob, LoadEmail, Corrective, Settle, Finish, LoseWorker,
                  Crash, vars, ledger
    <2>3. CASE PublishItem \/ FireSchedule \/ \E m \in Messages : Redrive(m)
      BY <2>3 DEF PublishItem, FireSchedule, Redrive, vars, ledger
    <2> QED  BY <2>1, <2>2, <2>3
  <1> DEFINE Apart == /\ \/ item = "pending" /\ due >= email.scheduled_at
                         \/ item = "dispatched"
                      /\ \A m \in Messages : msgs[m].state = "absent"
  <1>2. SUFFICES ASSUME schedule = 0,
                        \A w \in Workers : fix[w] = 0,
                        email.scheduled_at <= now \/ Apart
                 PROVE  /\ schedule' = 0
                        /\ \A w \in Workers : fix'[w] = 0
                        /\ email.scheduled_at <= now \/ Apart'
    BY <1>1 DEF FreshInv, Fresh
  <1>3. CASE PublishItem
    <2>1. item # "dispatched" /\ due <= now /\ UNCHANGED <<schedule, fix>>
      BY <1>3 DEF PublishItem
    <2>2. email.scheduled_at <= now
      BY <1>0, <1>2, <2>1
    <2> QED  BY <1>2, <2>1, <2>2
  <1>4. ASSUME NEW m \in Messages, Redrive(m)
        PROVE  UNCHANGED <<schedule, fix>> /\ email.scheduled_at <= now
    BY <1>2, <1>4 DEF Redrive, Receivable
  <1>5. CASE FireSchedule
    BY <1>2, <1>5 DEF FireSchedule
  <1>6. ASSUME NEW w \in Workers, NEW m \in Messages, ReceiveJob(w, m)
        PROVE  /\ schedule' = 0
               /\ \A v \in Workers : fix'[v] = 0
               /\ email.scheduled_at <= now
    <2>1. email.scheduled_at <= now
      BY <1>2, <1>6 DEF ReceiveJob, Receivable
    <2>2. ~(email.status \notin FINAL_STATUSES /\ email.scheduled_at > now)
      BY <2>1
    <2>3. /\ fix' = [fix EXCEPT ![w] =
                       IF email.status \notin FINAL_STATUSES
                         /\ email.scheduled_at > now THEN email.scheduled_at ELSE 0]
          /\ UNCHANGED schedule
      BY <1>6 DEF ReceiveJob
    <2>4. fix' = [fix EXCEPT ![w] = 0]
      BY <2>2, <2>3
    <2> QED  BY <1>0, <1>2, <2>1, <2>3, <2>4
  <1>7. ASSUME NEW w \in Workers, Corrective(w) PROVE FALSE
    BY <1>2, <1>7 DEF Corrective
  <1>8. ASSUME NEW w \in Workers, RunJob(w)
        PROVE  UNCHANGED <<schedule, fix, item, due, msgs>>
    BY <1>8 DEF RunJob, queue
  <1>9. ASSUME NEW w \in Workers, Settle(w)
        PROVE  UNCHANGED <<schedule, fix>> /\ email.scheduled_at <= now
    <2>1. held[w] # "none" /\ UNCHANGED <<schedule, fix>>
      BY <1>9 DEF Settle
    <2>2. held[w] \in Messages /\ msgs[held[w]].state = "live"
      BY <2>1 DEF HeldInv, QueueTypeOK
    <2> QED  BY <1>2, <2>1, <2>2
  <1>10. ASSUME NEW w \in Workers, LoseWorker(w)
         PROVE  /\ UNCHANGED <<schedule, item, due, msgs>>
                /\ \A v \in Workers : fix'[v] = 0
    BY <1>0, <1>2, <1>10 DEF LoseWorker
  <1> QED  BY <1>1, <1>2, <1>3, <1>4, <1>5, <1>6, <1>7, <1>8, <1>9, <1>10

\* The one call there is is either the reschedule or none, and after its store
\* update nothing is left of it that FreshInv speaks of.
LEMMA FreshRest ==
    ASSUME TypeOK, QueueTypeOK, CountersOK, FreshInv, MaxCalls <= 1,
           \A c, d \in Clients : c = d,
           \/ \E c \in Clients : \/ Request(c)
                                 \/ RescheduleStore(c)
                                 \/ RescheduleWake(c)
                                 \/ RescheduleLost(c)
           \/ SuppressionChange
           \/ PassTime
           \/ UNCHANGED allVars
    PROVE  FreshInv'
  <1> USE ReadingsLemma
  <1>0. /\ MaxCalls \in Nat
        /\ calls \in Nat
        /\ client \in [Clients -> [pc : ClientPc, at : Nat]]
    BY AwsSendAssumption DEF CountersOK, TypeOK
  <1>1. ASSUME NEW c \in Clients, Request(c) PROVE FreshInv'
    <2>1. UNCHANGED <<now, item, due, msgs, fix, wake>>
      BY <1>1 DEF Request, CancelRead, CancelApply, RescheduleRead
    <2>2. CASE Call /\ CancelRead(c)
      <3>1. calls = 0 /\ calls' = 1 /\ MaxCalls = 1
        BY <1>0, <2>2 DEF Call
      <3>2. client' = [client EXCEPT ![c].pc = "cancelling"]
        BY <2>2 DEF CancelRead
      <3>3. \A d \in Clients : d # c => client'[d].pc = "idle"
        BY <1>0, <3>1, <3>2 DEF FreshInv
      <3>4. client'[c].pc = "cancelling"
        BY <1>0, <3>2
      <3> QED  BY <3>1, <3>3, <3>4 DEF FreshInv, Fresh
    <2>3. CASE CancelApply(c) /\ UNCHANGED calls /\ schedule' \in {schedule, 0}
      <3>1. /\ client' = [client EXCEPT ![c].pc = "idle"]
            /\ client[c].pc = "cancelling"
        BY <2>3 DEF CancelApply
      <3>2. /\ calls # 0
            /\ \A d \in Clients : client'[d].pc # "idle" => client'[d].pc = client[d].pc
        BY <1>0, <3>1 DEF FreshInv
      <3>3. email'.scheduled_at = email.scheduled_at
        BY <2>3, CancelOutcome
      <3>4. Fresh' => Fresh
        BY <2>3, <3>2 DEF Fresh
      <3> QED  BY <2>1, <2>3, <3>2, <3>3, <3>4 DEF FreshInv
    <2>4. CASE Call /\ UNCHANGED schedule /\ \E at \in 1..MaxNow : RescheduleRead(c, at)
      <3>1. calls = 0 /\ calls' = 1 /\ MaxCalls = 1
        BY <1>0, <2>4 DEF Call
      <3>2. UNCHANGED email
        BY <2>4 DEF RescheduleRead, ledger
      <3> QED  BY <2>1, <2>4, <3>1, <3>2 DEF FreshInv, Fresh
    <2> QED  BY <1>1, <2>2, <2>3, <2>4 DEF Request
  <1>2. ASSUME NEW c \in Clients, RescheduleStore(c) PROVE FreshInv'
    <2>1. /\ client[c].pc = "rescheduling"
          /\ client' = [client EXCEPT ![c] = [pc |-> "idle", at |-> 0]]
          /\ UNCHANGED calls
      BY <1>2, StoreRows
    <2>2. calls # 0
      BY <2>1 DEF FreshInv
    <2>3. \A d \in Clients : d # c => client'[d].pc = client[d].pc
      BY <1>0, <2>1
    <2>4. client'[c].pc = "idle"
      BY <1>0, <2>1
    <2>5. \A d \in Clients : d = c
      OBVIOUS
    <2> QED  BY <2>1, <2>2, <2>4, <2>5 DEF FreshInv, Fresh
  <1>3. ASSUME NEW c \in Clients, RescheduleWake(c) \/ RescheduleLost(c)
        PROVE  FreshInv'
    <2>1. wake[c].step # "none" /\ UNCHANGED <<client, calls>>
      BY <1>3, WakeRows
    <2> QED  BY <2>1 DEF FreshInv, Fresh
  <1>4. CASE SuppressionChange
    <2>1. calls = 0 /\ calls' = 1 /\ MaxCalls = 1
      BY <1>0, <1>4 DEF SuppressionChange, Call
    <2>2. UNCHANGED client
      BY <1>4 DEF SuppressionChange, PutSuppression, DeleteSuppression
    <2> QED  BY <2>1, <2>2 DEF FreshInv, Fresh
  <1>5. CASE PassTime
    <2>1. /\ UNCHANGED <<email, client, item, due, msgs, schedule, fix, wake, calls>>
          /\ now' = now + 1
      BY <1>5 DEF PassTime, Tick, queue, ledger
    <2>2. email.scheduled_at <= now => email.scheduled_at <= now'
      BY <2>1
    <2> QED  BY <2>1, <2>2 DEF FreshInv, Fresh
  <1>6. CASE UNCHANGED allVars
    BY <1>6 DEF allVars, vars, queue, ledger, FreshInv, Fresh
  <1> QED  BY <1>1, <1>2, <1>3, <1>4, <1>5, <1>6

-----------------------------------------------------------------------------
\* A committed e-mail has its outbox item, due at its time, or is final.
LEMMA DrivenInit == ASSUME PipelineInit PROVE DrivenInv
  <1>1. PICK s \in {"queued", "scheduled", "suppressed"},
             t \in {0} \cup (now + 1)..MaxNow :
          email = [status |-> s, scheduled_at |-> t, attempts |-> 0, lease |-> 0]
    BY DEF PipelineInit, Init
  <1>2. /\ now = 1
        /\ t \in Nat
        /\ email.scheduled_at = t
        /\ email.status = s
    BY <1>1, EmailDeliveryAssumption DEF PipelineInit, Init
  <1>3. /\ item = IF s = "suppressed" THEN "dispatched" ELSE "pending"
        /\ due = IF t = 0 THEN now ELSE t
        /\ msgs = [m \in Messages |-> NoMessage]
        /\ schedule = 0
        /\ held = [w \in Workers |-> "none"]
        /\ got = [w \in Workers |-> 0]
        /\ fix = [w \in Workers |-> 0]
        /\ wake = [c \in Clients |-> NoWake]
        /\ calls = 0
        /\ failures = 0
        /\ worker = [w \in Workers |-> IdleLocals]
        /\ client = [c \in Clients |-> [pc |-> "idle", at |-> 0]]
    BY <1>2 DEF PipelineInit, Init
  <1>4. CountersOK
    BY <1>2, <1>3 DEF CountersOK
  <1>5. HeldInv
    BY <1>3 DEF HeldInv, IdleLocals, At
  <1>6. /\ \A c \in Clients : wake[c].step = "none" /\ client[c].pc = "idle"
        /\ \A m \in Messages : msgs[m].state = "absent"
    BY <1>3 DEF NoWake, NoMessage
  <1>7. WakeInv /\ HurryInv
    BY <1>6 DEF WakeInv, HurryInv
  <1>8. DriverInv
    <2>1. email.status # "sending" /\ ~LeaseExpired
      BY <1>2 DEF LeaseExpired
    <2>2. email.status \in Pending => item = "pending"
      BY <1>2, <1>3 DEF Pending
    <2> QED  BY <2>1, <2>2 DEF DriverInv, Unsent, Waiting, Looked
  <1>9. FreshInv /\ FailInv
    <2>1. item \in {"pending", "dispatched"} /\ due >= email.scheduled_at
      BY <1>2, <1>3
    <2>2. MaxCalls \in Nat
      BY AwsSendAssumption
    <2> QED  BY <1>3, <1>6, <2>1, <2>2 DEF FreshInv, FailInv
  <1> QED  BY <1>4, <1>5, <1>7, <1>8, <1>9 DEF DrivenInv

\* Every step keeps those who look after the e-mail.
LEMMA DriversStep ==
    ASSUME PipelineInv, DrivenInv,
           Visibility > RunLimit + SendLease,
           \A c, d \in Clients : c = d,
           [PipelineNext]_allVars
    PROVE  DriverInv' /\ HurryInv' /\ (MaxFailures > 0 => FailInv')
  <1> USE DEF PipelineInv, DrivenInv
  <1>1. CASE \/ PublishItem
             \/ \E m \in Messages : Redrive(m)
             \/ FireSchedule
    BY <1>1, DriversQueue
  <1>2. ASSUME NEW w \in Workers, NEW m \in Messages, ReceiveJob(w, m)
        PROVE  DriverInv' /\ HurryInv' /\ (FailInv => FailInv')
    BY <1>2, DriversReceive
  <1>3. ASSUME NEW w \in Workers, Corrective(w)
        PROVE  DriverInv' /\ HurryInv' /\ (MaxFailures > 0 => FailInv')
    BY <1>3, DriversCorrective
  <1>4. ASSUME NEW w \in Workers, RunJob(w)
        PROVE  DriverInv' /\ HurryInv' /\ (FailInv => FailInv')
    BY <1>4, DriversRun
  <1>5. ASSUME NEW w \in Workers, Settle(w) \/ LoseWorker(w)
        PROVE  DriverInv' /\ HurryInv' /\ (FailInv => FailInv')
    BY <1>5, DriversSettle
  <1>6. ASSUME NEW c \in Clients, RescheduleStore(c)
        PROVE  DriverInv' /\ HurryInv' /\ (MaxFailures > 0 => FailInv')
    BY <1>6, DriversStore
  <1>7. ASSUME NEW c \in Clients, RescheduleWake(c) \/ RescheduleLost(c)
        PROVE  DriverInv' /\ HurryInv' /\ (FailInv => FailInv')
    BY <1>7, DriversWake
  <1>8. CASE \/ \E c \in Clients : Request(c)
             \/ SuppressionChange
             \/ UNCHANGED allVars
    BY <1>8, DriversRequest
  <1>9. CASE PassTime
    BY <1>9, DriversTime
  <1> QED  BY <1>1, <1>2, <1>3, <1>4, <1>5, <1>6, <1>7, <1>8, <1>9
           DEF PipelineNext

\* All the parts are kept together.
LEMMA DrivenStep ==
    ASSUME PipelineInv, DrivenInv,
           Visibility > RunLimit + SendLease,
           \A c, d \in Clients : c = d,
           MaxFailures = 0 \/ MaxCalls <= 1,
           [PipelineNext]_allVars
    PROVE  DrivenInv'
  <1> USE DEF PipelineInv, DrivenInv
  <1>1. CountersOK'
    BY CountersStep
  <1>2. HeldInv'
    BY HeldStep
  <1>3. WakeInv'
    BY WakeStep
  <1>4. DriverInv' /\ HurryInv' /\ (MaxFailures > 0 => FailInv')
    BY DriversStep
  <1>5. MaxFailures > 0 => FreshInv'
    <2> SUFFICES ASSUME FreshInv, MaxCalls <= 1 PROVE FreshInv'
      OBVIOUS
    <2> QED  BY FreshQueue, FreshRest DEF PipelineNext
  <1> QED  BY <1>1, <1>2, <1>3, <1>4, <1>5

\* Whoever has still to look at a waiting e-mail is one of its drivers, and so
\* is the message an e-mail being sent was claimed under.
LEMMA DrivenFollows == ASSUME DriverInv PROVE UnsentIsDriven
  <1>1. Waiting => Driven
    BY DEF Waiting, Looked, Alive, Driven
  <1>2. \A m \in Messages : Claimant(m) => Driven
    BY DEF Claimant, Driven
  <1>3. ~Unsubmitted => Driven
    BY DEF Unsubmitted, Driven
  <1> QED  BY <1>1, <1>2, <1>3 DEF UnsentIsDriven, SendingIsDriven,
                                   ScheduledIsDriven, DriverInv, Unsent

\* An e-mail that is not final is never left to nobody, however many workers,
\* receives, expired leases and lost invocations there are: its outbox item,
\* its schedule, one of its messages or a request in flight still leads to it.
\* The visibility timeout must outlive the worker function and the send lease
\* together; requests must not overlap; and where calls of the scheduler may
\* fail the e-mail is rescheduled once at most: the call for a second schedule
\* may fail after it has deleted the first.
THEOREM UnsentIsDrivenHolds ==
    ( /\ 1..MaxReceives \subseteq ReceiveCounts
      /\ Visibility > RunLimit + SendLease
      /\ \A c, d \in Clients : c = d
      /\ MaxFailures = 0 \/ MaxCalls <= 1 ) =>
      (PipelineSpec => []UnsentIsDriven)
  <1> SUFFICES ASSUME 1..MaxReceives \subseteq ReceiveCounts,
                      Visibility > RunLimit + SendLease,
                      \A c, d \in Clients : c = d,
                      MaxFailures = 0 \/ MaxCalls <= 1
               PROVE  PipelineSpec => []UnsentIsDriven
    OBVIOUS
  <1>1. PipelineInit => DrivenInv
    BY DrivenInit
  <1>2. PipelineInv /\ DrivenInv /\ [PipelineNext]_allVars => DrivenInv'
    BY DrivenStep
  <1>3. DrivenInv => UnsentIsDriven
    BY DrivenFollows DEF DrivenInv
  <1> QED  BY <1>1, <1>2, <1>3, PipelineInvariant, PTL DEF PipelineSpec
=============================================================================
