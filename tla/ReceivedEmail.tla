---------------------------- MODULE ReceivedEmail ----------------------------
(* Inbound e-mail on AWS: Lambda hands an event of SES to                   *)
(* handleInboundEvent (src/aws/inbound.ts), ReceivedEmailService.ingest     *)
(* parses the message under a claim, stores its parts and its record, and   *)
(* queues the announcement, which publishWebhook makes.                     *)
(*                                                                          *)
(* External: S3, the queue, and Lambda, which invokes a function again      *)
(* after an error or a timeout, later each time, and at most Attempts       *)
(* times; an event may be handed over twice.                                *)
EXTENDS Naturals, FiniteSets

CONSTANTS Events,         \* deliveries of the event of one message
          Parts,          \* attachments of the message
          LeaseTime,      \* PROCESSING_LEASE_SECONDS
          FunctionTime,   \* Timeout of the function
          RetryAfter,     \* attempt -> least wait before the next one
          MaxReceiveFaults,
          Nobody

\* A redelivery that finds the lease of a lost invocation is followed by one
\* that comes after it: the two waits are longer than the lease.
ASSUME ReceivingAssumption ==
    /\ Events # {}
    /\ LeaseTime \in Nat /\ RetryAfter \in [1..2 -> Nat]
    /\ LeaseTime < RetryAfter[1] + RetryAfter[2]

Attempts == 3

VARIABLES inboundClaim, \* RECEIVED_CLAIM: time left of the lease, 0 for none, and
                        \* the invocation that took it and may still release it
          objects,      \* objects of the message in the bucket, beside the raw one
          received,     \* RECEIVED: the record
          announcement, \* the publish_received_email job: "none", "queued", "published"
          ingestion,    \* event -> the invocation that handles it
          reading,      \* the last answer of GET /emails/receiving/:id
          receiveFaults

rcVars == <<inboundClaim, objects, received, announcement, ingestion, reading, receiveFaults>>

NoReceived == [stored |-> FALSE, queuedAt |-> FALSE]
\* clock: the wait that is left, or the time the function has run.
IdleIngestion == [pc |-> "waiting", attempt |-> 1, clock |-> 0, left |-> {},
                  releasing |-> FALSE]
NoLease == [left |-> 0, by |-> Nobody]

RcInit ==
    /\ inboundClaim = NoLease
    /\ objects = {}
    /\ received = NoReceived
    /\ announcement = "none"
    /\ ingestion = [e \in Events |-> IdleIngestion]
    /\ reading = "none"
    /\ receiveFaults = 0

At(e, pc) == ingestion[e].pc = pc
GoTo(e, pc) == ingestion' = [ingestion EXCEPT ![e].pc = pc]
Running(e) == ingestion[e].pc \notin {"waiting", "acknowledged", "givenUp"}
Finished(e) == ingestion[e].pc \in {"acknowledged", "givenUp"}

\* An invocation; an event whose source or payload is refused never gets here.
Invoked(e) ==
    /\ At(e, "waiting") /\ ingestion[e].clock = 0
    /\ GoTo(e, "get")
    /\ UNCHANGED <<inboundClaim, objects, received, announcement, reading, receiveFaults>>

\* The first read: a message that was received before is only announced.
GetReceived(e) ==
    /\ At(e, "get")
    /\ GoTo(e, IF received.stored THEN "ensure" ELSE "claim")
    /\ UNCHANGED <<inboundClaim, objects, received, announcement, reading, receiveFaults>>

\* Mutant: the lease is longer than the redeliveries last.
LeaseLength_Doubled == 2 * LeaseTime

\* A lease still counts at its last second: it is free only after it.
LeaseLength == LeaseTime + 1

claimReceivedEmail(e) ==
    /\ At(e, "claim")
    /\ IF inboundClaim.left = 0
         THEN inboundClaim' = [left |-> LeaseLength, by |-> e] /\ GoTo(e, "read")
         ELSE GoTo(e, "recheck") /\ UNCHANGED inboundClaim
    /\ UNCHANGED <<objects, received, announcement, reading, receiveFaults>>

\* The invocation fails: Lambda waits and tries again, or gives up.
Failed(i) ==
    IF i.attempt = Attempts THEN [IdleIngestion EXCEPT !.pc = "givenUp"]
    ELSE [IdleIngestion EXCEPT !.attempt = i.attempt + 1, !.clock = RetryAfter[i.attempt]]

\* The message is being processed elsewhere, or just was.
Recheck(e) ==
    /\ At(e, "recheck")
    /\ IF received.stored THEN GoTo(e, "ensure")
       ELSE ingestion' = [ingestion EXCEPT ![e] = Failed(@)]
    /\ UNCHANGED <<inboundClaim, objects, received, announcement, reading, receiveFaults>>

\* readRaw, the bounds on size and attachments, and the parsing.
ReadRaw(e) ==
    /\ At(e, "read")
    /\ ingestion' = [ingestion EXCEPT ![e].pc = "attachments", ![e].left = Parts]
    /\ UNCHANGED <<inboundClaim, objects, received, announcement, reading, receiveFaults>>

\* An attachment under its stable key, then the next.
WriteAttachment(e, a) ==
    /\ At(e, "attachments") /\ a \in ingestion[e].left
    /\ objects' = objects \cup {a}
    /\ ingestion' = [ingestion EXCEPT ![e].left = @ \ {a}]
    /\ UNCHANGED <<inboundClaim, received, announcement, reading, receiveFaults>>

WriteContent(e) ==
    /\ At(e, "attachments") /\ ingestion[e].left = {}
    /\ objects' = objects \cup {"content"}
    /\ GoTo(e, "create")
    /\ UNCHANGED <<inboundClaim, received, announcement, reading, receiveFaults>>

\* The record, unless another invocation was faster: then its record is read.
\* ensureWebhookQueued is returned without await, so the finally block gives
\* the claim back while the announcement is still being queued.
createReceivedEmail(e) ==
    /\ At(e, "create")
    /\ received' = [received EXCEPT !.stored = TRUE]
    /\ ingestion' = [ingestion EXCEPT ![e].pc = "ensure", ![e].releasing = TRUE]
    /\ UNCHANGED <<inboundClaim, objects, announcement, reading, receiveFaults>>

\* ensureWebhookQueued: the job first, then the mark that it was queued.
EnqueueAnnouncement(e) ==
    /\ At(e, "ensure")
    /\ IF received.queuedAt
         THEN GoTo(e, "answer") /\ UNCHANGED announcement
         ELSE announcement' = "queued" /\ GoTo(e, "mark")
    /\ UNCHANGED <<inboundClaim, objects, received, reading, receiveFaults>>

MarkQueued(e) ==
    /\ At(e, "mark")
    /\ received' = [received EXCEPT !.queuedAt = TRUE]
    /\ GoTo(e, "answer")
    /\ UNCHANGED <<inboundClaim, objects, announcement, reading, receiveFaults>>

\* releaseReceivedEmailClaim: only the lease this invocation took; its errors
\* are swallowed.  A lease nobody releases runs out.
Released(e) == IF inboundClaim.by = e THEN NoLease ELSE inboundClaim
Abandoned(e) == IF inboundClaim.by = e THEN [inboundClaim EXCEPT !.by = Nobody] ELSE inboundClaim

ReleaseClaim(e, done) ==
    /\ ingestion[e].releasing /\ Running(e)
    /\ \/ done /\ UNCHANGED receiveFaults
       \/ ~done /\ receiveFaults < MaxReceiveFaults /\ receiveFaults' = receiveFaults + 1
    /\ inboundClaim' = IF done THEN Released(e) ELSE Abandoned(e)
    /\ ingestion' = [ingestion EXCEPT ![e].releasing = FALSE]
    /\ UNCHANGED <<objects, received, announcement, reading>>

Acknowledge(e) ==
    /\ At(e, "answer") /\ ~ingestion[e].releasing
    /\ ingestion' = [ingestion EXCEPT ![e] = [IdleIngestion EXCEPT !.pc = "acknowledged"]]
    /\ UNCHANGED <<inboundClaim, objects, received, announcement, reading, receiveFaults>>

\* A call throws: the claim, if this invocation holds one, is given back.
CallThrows(e) ==
    /\ receiveFaults < MaxReceiveFaults
    /\ ingestion[e].pc \in {"get", "claim", "recheck", "read", "attachments", "create", "ensure", "mark"}
    /\ receiveFaults' = receiveFaults + 1
    /\ inboundClaim' = Released(e)
    /\ ingestion' = [ingestion EXCEPT ![e] = Failed(@)]
    /\ UNCHANGED <<objects, received, announcement, reading>>

\* The function is lost, or its time is over: nothing is given back.
FunctionLost(e) ==
    /\ Running(e) /\ receiveFaults < MaxReceiveFaults
    /\ receiveFaults' = receiveFaults + 1
    /\ inboundClaim' = Abandoned(e)
    /\ ingestion' = [ingestion EXCEPT ![e] = Failed(@)]
    /\ UNCHANGED <<objects, received, announcement, reading>>

\* A function that runs is stopped at its timeout.
SecondPasses ==
    /\ \A e \in Events : Running(e) => ingestion[e].clock < FunctionTime
    /\ inboundClaim' = IF inboundClaim.left <= 1 THEN NoLease ELSE [inboundClaim EXCEPT !.left = @ - 1]
    /\ ingestion' = [e \in Events |->
          IF Running(e) THEN [ingestion[e] EXCEPT !.clock = @ + 1]
          ELSE [ingestion[e] EXCEPT !.clock = IF @ = 0 THEN 0 ELSE @ - 1]]
    /\ UNCHANGED <<objects, received, announcement, reading, receiveFaults>>

----------------------------------------------------------------------------
\* processJob: publishWebhook reads the record and hands it to the webhooks.
PublishReceived ==
    /\ announcement = "queued" /\ received.stored
    /\ announcement' = "published"
    /\ UNCHANGED <<inboundClaim, objects, received, ingestion, reading, receiveFaults>>

\* ReceivedEmailService.get, with the attachments its HTML refers to inlined,
\* and getAttachment.
GetEmail(referenced) ==
    /\ received.stored
    /\ reading' = IF {"content"} \cup referenced \subseteq objects THEN "whole" ELSE "error"
    /\ UNCHANGED <<inboundClaim, objects, received, announcement, ingestion, receiveFaults>>

RcNext ==
    \/ \E e \in Events :
          \/ Invoked(e) \/ GetReceived(e) \/ claimReceivedEmail(e) \/ Recheck(e)
          \/ ReadRaw(e) \/ WriteContent(e) \/ createReceivedEmail(e)
          \/ EnqueueAnnouncement(e) \/ MarkQueued(e) \/ Acknowledge(e)
          \/ CallThrows(e) \/ FunctionLost(e)
          \/ \E a \in Parts : WriteAttachment(e, a)
          \/ \E done \in BOOLEAN : ReleaseClaim(e, done)
    \/ SecondPasses \/ PublishReceived
    \/ \E referenced \in SUBSET Parts : GetEmail(referenced)

RcSpec == RcInit /\ [][RcNext]_rcVars

----------------------------------------------------------------------------
\* An event that was acknowledged left a record that can be read whole and an
\* announcement in the queue; and the lease, the function's timeout and
\* Lambda's waits fit together: one fault never uses up all the attempts at a
\* message, so that an event is given up only after two.
ReceivedIsAnnounced ==
    /\ \A e \in Events : At(e, "acknowledged") =>
          received.stored /\ announcement # "none"
    /\ (receiveFaults <= 1 /\ \A e \in Events : Finished(e)) => announcement # "none"
    /\ reading # "error"
=============================================================================
