---------------------------- MODULE ProviderEvents ----------------------------
(* The transports and the ingress of delivery reports, for one e-mail with  *)
(* one recipient: how an answer of SES, Cloudflare, Azure or SendGrid ends  *)
(* an attempt, and how their reports, which arrive in batches, late, early, *)
(* or again, reach the ledger and the suppression list.                     *)
(*                                                                          *)
(* A store call may fail; a batch that is not acknowledged comes back, as   *)
(* often as the provider tries (MaxTries).                                  *)
EXTENDS Naturals, Sequences, FiniteSets

CONSTANTS Providers,      \* which of ses, cloudflare, acs, sendgrid
          Reports,        \* the provider's reports
          MaxSubmissions, \* attempts of the e-mail
          MaxTries, MaxStoreFaults

VARIABLES prov,        \* the provider of the deployment
          submission,  \* attempt -> how it ended, for us
          taken,       \* attempts the provider has accepted
          report,      \* report -> its state
          recorded,    \* reports in the ledger
          suppression, \* the recipient's entry in the suppression list
          lifted,      \* has an operator removed such an entry
          contended,   \* reports whose commit gave up after concurrent updates
          intake,      \* the handler: what is left of its batch, and its step
          storeFaults

evVars == <<prov, submission, taken, report, recorded, suppression, lifted,
            contended, intake, storeFaults>>

----------------------------------------------------------------------------
(* What the providers can say, and what each adapter makes of it.           *)

\* The answers to a request to send, by their HTTP status; 0 is an answer
\* that got lost.
Answers == {202, 301, 408, 422, 429, 503, 0}

\* The errors of Cloudflare's binding are codes, here by the status they mean:
\* 400 for what it finds invalid.
classifyCloudflareEmailError(code) ==
    IF code = 400 THEN [category |-> "invalid_data", status |-> 422]
    ELSE IF code = 422 THEN [category |-> "provider_rejected", status |-> 422]
    ELSE IF code = 429 THEN [category |-> "provider_throttled", status |-> 429]
    ELSE IF code = 503 THEN [category |-> "provider_unavailable", status |-> 503]
    ELSE [category |-> "provider_error", status |-> 503]

classifyAcsEmailError(code) ==
    IF code = 429 THEN [category |-> "provider_throttled", status |-> 429]
    ELSE IF code = 408 \/ code >= 500 THEN [category |-> "provider_unavailable", status |-> 503]
    ELSE IF code >= 400 THEN [category |-> "provider_rejected", status |-> 422]
    ELSE [category |-> "provider_error", status |-> 503]

\* SendGrid: a lost answer is fetch's own error, without a status.
classifyStatus(code) ==
    IF code = 0 THEN [category |-> "network_error", status |-> 0]
    ELSE IF code = 429 THEN [category |-> "provider_throttled", status |-> 429]
    ELSE IF code = 408 \/ code >= 500 THEN [category |-> "provider_unavailable", status |-> 503]
    ELSE IF code >= 400 THEN [category |-> "provider_rejected", status |-> 422]
    ELSE [category |-> "provider_error", status |-> 503]

\* The SDK's errors of SES are no AppError; 408 is a rejection here.
providerCategory(code) ==
    [category |-> IF code = 429 THEN "provider_throttled"
                  ELSE IF code >= 500 THEN "provider_unavailable"
                  ELSE IF code >= 400 THEN "provider_rejected"
                  ELSE "provider_error",
     status |-> 0]

shouldRetryOperationalError(error) ==
    IF error.status # 0 THEN error.status \in {408, 425, 429} \/ error.status >= 500
    ELSE error.category \notin {"invalid_data", "provider_rejected"}

SendError(code) ==
    [ses |-> providerCategory(code), cloudflare |-> classifyCloudflareEmailError(code),
     acs |-> classifyAcsEmailError(code), sendgrid |-> classifyStatus(code)][prov]

\* The limits on an e-mail, in units of 100 kB where they count bytes: its
\* attachments decoded, the rest of it, and the whole in base64.
Base64(decoded) == 4 * ((decoded + 2) \div 3)
estimateCloudflareMimeBytes(m) == m.body + Base64(m.decoded)
estimateAcsSerializedRequestBytes(m) == m.body + Base64(m.decoded)
buildSendGridMailRequest(m) == m.body + Base64(m.decoded)

assertCloudflareEmailPreflight(m) ==
    /\ m.recipients \in 1..50 /\ m.attachments <= 20 /\ m.decoded <= 38 /\ m.reply_to <= 1
    /\ m.inlineHasId /\ estimateCloudflareMimeBytes(m) <= 52

assertAcsEmailRecordPreflight(m) ==
    /\ m.recipients \in 1..50 /\ m.attachments <= 20 /\ m.inlineHasId /\ m.decoded <= 75
    /\ estimateAcsSerializedRequestBytes(m) <= 100

assertSendGridEmailRecordPreflight(m) ==
    /\ m.recipients \in 1..1000 /\ m.attachments <= 20 /\ ~m.reservedHeader /\ m.decoded <= 200
    /\ buildSendGridMailRequest(m) < 300

\* SES is not asked before.
PreflightPasses(m) ==
    [ses |-> TRUE, cloudflare |-> assertCloudflareEmailPreflight(m),
     acs |-> assertAcsEmailRecordPreflight(m), sendgrid |-> assertSendGridEmailRecordPreflight(m)][prov]

\* E-mails at and beyond the limits.
PlainMail == [recipients |-> 1, attachments |-> 0, decoded |-> 0, body |-> 1, reply_to |-> 0,
              inlineHasId |-> TRUE, reservedHeader |-> FALSE]
Mails == {PlainMail,
          [PlainMail EXCEPT !.recipients = 51], [PlainMail EXCEPT !.recipients = 1001],
          [PlainMail EXCEPT !.attachments = 1, !.decoded = 39],
          [PlainMail EXCEPT !.attachments = 1, !.decoded = 76],
          [PlainMail EXCEPT !.attachments = 21], [PlainMail EXCEPT !.body = 300],
          [PlainMail EXCEPT !.reply_to = 2],
          [PlainMail EXCEPT !.attachments = 1, !.inlineHasId = FALSE],
          [PlainMail EXCEPT !.reservedHeader = TRUE]}

\* The reports of each provider, as the type of the ledger's event; "none" is
\* a report that the adapter passes over.
EVENT_MAP ==
    [delivered |-> "delivered", bounce |-> "bounced", softBounce |-> "bounced",
     complaint |-> "complained", subscription |-> "none"]
CLOUDFLARE_EVENTS ==
    [delivered |-> "delivered", bounce |-> "bounced", complaint |-> "complained", failed |-> "failed"]
DELIVERY_NORMALIZATION ==
    [delivered |-> "delivered", bounce |-> "bounced", suppressed |-> "failed", opened |-> "opened"]
SENDGRID_EVENTS ==
    [delivered |-> "delivered", bounce |-> "bounced", complaint |-> "complained", unsubscribe |-> "none"]

Normalised ==
    [ses |-> EVENT_MAP, cloudflare |-> CLOUDFLARE_EVENTS,
     acs |-> DELIVERY_NORMALIZATION, sendgrid |-> SENDGRID_EVENTS][prov]

\* Besides its reports a provider may send what no schema accepts, and Azure
\* the handshake of a subscription.
Kinds == DOMAIN Normalised \cup {"invalid"} \cup (IF prov = "acs" THEN {"handshake"} ELSE {})

Resting == [batch |-> <<>>, done |-> {}, steps |-> <<>>]

EvInit ==
    /\ prov \in Providers
    /\ submission = [n \in 1..MaxSubmissions |-> "none"]
    /\ taken = {}
    /\ report = [r \in Reports |-> [state |-> "none", kind |-> "delivered", of |-> 0, tries |-> 0]]
    /\ recorded = {} /\ suppression = "none" /\ lifted = FALSE /\ contended = {}
    /\ intake = Resting /\ storeFaults = 0

----------------------------------------------------------------------------
(* Transports.                                                              *)

\* The steps of the send worker around the transport.
BeginAttempt(n) ==
    /\ submission[n] = "none" /\ (n > 1 => submission[n - 1] = "retry")
    /\ submission' = [submission EXCEPT ![n] = "submitting"]
    /\ UNCHANGED <<prov, taken, report, recorded, suppression, lifted, contended, intake, storeFaults>>

\* An e-mail beyond the provider's limits does not reach it.  A later attempt
\* is one of an e-mail that passed.
Preflight(n, m) ==
    /\ submission[n] = "submitting" /\ (n > 1 => PreflightPasses(m))
    /\ submission' = [submission EXCEPT ![n] = IF PreflightPasses(m) THEN "sending" ELSE "failed"]
    /\ UNCHANGED <<prov, taken, report, recorded, suppression, lifted, contended, intake, storeFaults>>

\* transport.send: a lost answer leaves the e-mail with the provider.
TransportSend(n, code) ==
    /\ submission[n] = "sending" /\ n \notin taken
    /\ taken' = IF code \in {202, 0} THEN taken \cup {n} ELSE taken
    /\ submission' = [submission EXCEPT ![n] =
         IF code = 202 THEN "answered"
         ELSE IF shouldRetryOperationalError(SendError(code)) THEN "retry" ELSE "failed"]
    /\ UNCHANGED <<prov, report, recorded, suppression, lifted, contended, intake, storeFaults>>

\* Azure's poller ends with a status other than Succeeded.
AcsSendEndsBadly(n) ==
    /\ prov = "acs" /\ submission[n] = "sending"
    /\ submission' = [submission EXCEPT ![n] =
         IF shouldRetryOperationalError(classifyAcsEmailError(0)) THEN "retry" ELSE "failed"]
    /\ UNCHANGED <<prov, taken, report, recorded, suppression, lifted, contended, intake, storeFaults>>

\* completeDeliveryAttempt stores the provider's id, some time after the answer.
CompleteAttempt(n) ==
    /\ submission[n] = "answered"
    /\ submission' = [submission EXCEPT ![n] = "accepted"]
    /\ UNCHANGED <<prov, taken, report, recorded, suppression, lifted, contended, intake, storeFaults>>

----------------------------------------------------------------------------
(* Reports.                                                                 *)

\* The provider reports on a message it has taken.
ReportIsMade(r, kind, n) ==
    /\ report[r].state = "none" /\ n \in taken
    /\ report' = [report EXCEPT ![r] = [state |-> "waiting", kind |-> kind, of |-> n, tries |-> 0]]
    /\ UNCHANGED <<prov, submission, taken, recorded, suppression, lifted, contended, intake, storeFaults>>

KindOf(r) == report[r].kind

\* The calls that a report leads to, in order.  SES: the list before the
\* ledger, for permanent bounces only.
processSesEvent(kind) ==
    IF EVENT_MAP[kind] = "none" THEN <<>>
    ELSE IF kind \in {"bounce", "complaint"} THEN <<"suppress", "apply">> ELSE <<"apply">>

processCloudflareEmailSendingEvent(kind) ==
    IF CLOUDFLARE_EVENTS[kind] \in {"bounced", "complained"} THEN <<"apply", "suppress">> ELSE <<"apply">>

processAcsEmailDeliveryEvent(kind) ==
    IF kind \in {"bounce", "suppressed"} THEN <<"apply", "suppress">> ELSE <<"apply">>

\* Opens and clicks: the ledger alone.
processAcsEmailEngagementEvent == <<"apply">>

processSendGridEmailEvent(kind) ==
    IF SENDGRID_EVENTS[kind] = "none" THEN <<>>
    ELSE IF SENDGRID_EVENTS[kind] \in {"bounced", "complained"} THEN <<"apply", "suppress">>
    ELSE <<"apply">>

StepsOf(kind) ==
    IF prov = "ses" THEN processSesEvent(kind)
    ELSE IF prov = "cloudflare" THEN processCloudflareEmailSendingEvent(kind)
    ELSE IF prov = "sendgrid" THEN processSendGridEmailEvent(kind)
    ELSE IF kind = "handshake" THEN <<>>
    ELSE IF kind = "opened" THEN processAcsEmailEngagementEvent
    ELSE processAcsEmailDeliveryEvent(kind)

Suppresses(r) == \E i \in DOMAIN StepsOf(KindOf(r)) : StepsOf(KindOf(r))[i] = "suppress"

\* Batches that are refused as a whole: by the secret or signature, the
\* schema, or a handshake that does not come alone.
AcsBatchRefused(kinds, size) == "invalid" \in kinds \/ ("handshake" \in kinds /\ size # 1)
SendGridBatchRefused(kinds) == "invalid" \in kinds
BatchRefused(kinds, size) ==
    IF prov = "acs" THEN AcsBatchRefused(kinds, size)
    ELSE IF prov = "sendgrid" THEN SendGridBatchRefused(kinds) ELSE FALSE

\* The first report of a batch is next.
Started(batch, done) ==
    IF batch = <<>> THEN Resting
    ELSE [batch |-> batch, done |-> done, steps |-> <<"check">>]

\* SES reports come one by one, the others in batches.  A report may come
\* again after it was acknowledged.
Deliver(batch) ==
    /\ intake = Resting
    /\ prov = "ses" => Len(batch) = 1
    /\ \A i \in DOMAIN batch : /\ report[batch[i]].state \in {"waiting", "acked"}
                               /\ report[batch[i]].tries < MaxTries
    /\ report' = [r \in Reports |-> IF \E i \in DOMAIN batch : batch[i] = r
                                    THEN [report[r] EXCEPT !.tries = @ + 1] ELSE report[r]]
    /\ intake' = IF BatchRefused({KindOf(batch[i]) : i \in DOMAIN batch}, Len(batch)) THEN Resting
                 ELSE Started(batch, {})
    /\ UNCHANGED <<prov, submission, taken, recorded, suppression, lifted, contended, storeFaults>>

Current == Head(intake.batch)
Acked(rs) == [r \in Reports |-> IF r \in rs THEN [report[r] EXCEPT !.state = "acked"] ELSE report[r]]

\* The end of a report: the next of the batch, or the acknowledgement of all
\* of it.  Cloudflare's consumer acknowledges each message.
Handled(r) ==
    LET rest == Tail(intake.batch)
        done == intake.done \cup {r}
    IN  /\ report' = IF prov = "cloudflare" THEN Acked({r})
                     ELSE IF rest = <<>> THEN Acked(done) ELSE report
        /\ intake' = Started(rest, done)

\* What is left to do for a report.
GoesOn(r, steps) ==
    IF steps = <<>> THEN Handled(r)
    ELSE intake' = [intake EXCEPT !.steps = steps] /\ UNCHANGED report

\* The errors of a report that Cloudflare's consumer sees.
EventError(error) ==
    [invalid |-> [category |-> "validation_error", status |-> 422],
     conflict |-> [category |-> "conflict", status |-> 409],
     uncorrelated |-> [category |-> "provider_unavailable", status |-> 503],
     store |-> [category |-> "application_error", status |-> 0]][error]

\* It goes on with the next message, and acknowledges those not to be retried.
consumeCloudflareEmailEventBatch(r, error) ==
    IF shouldRetryOperationalError(EventError(error))
    THEN /\ intake' = Started(Tail(intake.batch), intake.done)
         /\ UNCHANGED report
    ELSE Handled(r)

\* Elsewhere an error ends the batch without an acknowledgement.
handleSesEvent == intake' = Resting /\ UNCHANGED report

Fails(r, error) ==
    IF prov = "cloudflare" THEN consumeCloudflareEmailEventBatch(r, error) ELSE handleSesEvent

CheckReport ==
    /\ intake.steps = <<"check">>
    /\ IF KindOf(Current) = "invalid" THEN Fails(Current, "invalid")
       ELSE GoesOn(Current, StepsOf(KindOf(Current)))
    /\ UNCHANGED <<prov, submission, taken, recorded, suppression, lifted, contended, storeFaults>>

\* The accepted attempt with the report's message id, which Cloudflare and
\* Azure also look the message up by; SendGrid's is the same for every attempt.
findMessageIdByProviderMessageId(r) == submission[report[r].of] = "accepted"
sendGridProviderMessageId == \E n \in DOMAIN submission : submission[n] = "accepted"
Correlated(r) ==
    IF prov = "sendgrid" THEN sendGridProviderMessageId ELSE findMessageIdByProviderMessageId(r)

\* Mutant: a report that was applied before ends there.
AfterApply_OnlyOnce(r) == GoesOn(r, IF r \in recorded THEN <<>> ELSE Tail(intake.steps))

\* A report whose event is in the ledger already is applied again without
\* effect, and its suppression follows all the same.
AfterApply(r) == GoesOn(r, Tail(intake.steps))

\* applyProviderEvent: a report that comes before the attempt is recorded is
\* refused, and comes again.
ApplyReport ==
    /\ intake.steps # <<>> /\ Head(intake.steps) = "apply"
    /\ IF Correlated(Current) THEN recorded' = recorded \cup {Current} /\ AfterApply(Current)
       ELSE Fails(Current, "uncorrelated") /\ UNCHANGED recorded
    /\ UNCHANGED <<prov, submission, taken, suppression, lifted, contended, storeFaults>>

\* appendProviderEvent gives up after concurrent updates, with a conflict.
ApplyConflicts ==
    /\ intake.steps # <<>> /\ Head(intake.steps) = "apply" /\ storeFaults < MaxStoreFaults
    /\ Correlated(Current) /\ Current \notin recorded
    /\ contended' = contended \cup {Current}
    /\ storeFaults' = storeFaults + 1
    /\ Fails(Current, "conflict")
    /\ UNCHANGED <<prov, submission, taken, recorded, suppression, lifted>>

StoreFails ==
    /\ intake.steps # <<>> /\ Head(intake.steps) \in {"apply", "suppress"}
    /\ storeFaults < MaxStoreFaults
    /\ storeFaults' = storeFaults + 1
    /\ Fails(Current, "store")
    /\ UNCHANGED <<prov, submission, taken, recorded, suppression, lifted, contended>>

\* suppressionService.put overwrites the reason.
PutSuppression ==
    /\ intake.steps # <<>> /\ Head(intake.steps) = "suppress"
    /\ suppression' = IF KindOf(Current) = "complaint" THEN "complaint" ELSE "bounce"
    /\ GoesOn(Current, Tail(intake.steps))
    /\ UNCHANGED <<prov, submission, taken, recorded, lifted, contended, storeFaults>>

RemoveSuppression ==
    /\ suppression # "none"
    /\ suppression' = "none" /\ lifted' = TRUE
    /\ UNCHANGED <<prov, submission, taken, report, recorded, contended, intake, storeFaults>>

EvNext ==
    \/ \E n \in 1..MaxSubmissions :
         \/ BeginAttempt(n)
         \/ \E m \in Mails : Preflight(n, m)
         \/ \E code \in Answers \cup (IF prov = "cloudflare" THEN {400} ELSE {}) : TransportSend(n, code)
         \/ AcsSendEndsBadly(n)
         \/ CompleteAttempt(n)
         \/ \E r \in Reports, kind \in Kinds : ReportIsMade(r, kind, n)
    \/ \E r \in Reports : Deliver(<<r>>)
    \/ \E r, s \in Reports : r # s /\ Deliver(<<r, s>>)
    \/ CheckReport
    \/ ApplyReport
    \/ ApplyConflicts
    \/ StoreFails
    \/ PutSuppression
    \/ RemoveSuppression

EvSpec == EvInit /\ [][EvNext]_evVars

----------------------------------------------------------------------------
Recordable(kind) == kind \notin {"invalid", "handshake"} /\ StepsOf(kind) # <<>>

(* A report that HayaSend acknowledged, and so will not see again, is in the  *)
(* ledger, and a bounce or complaint has put its recipient on the suppression *)
(* list, even when the report came before its attempt was recorded, in a      *)
(* batch with reports that fail, or again after its first handling was cut    *)
(* short between the ledger and the list.  Cloudflare's consumer              *)
(* acknowledges a report whose commit lost against concurrent updates; those  *)
(* are excepted.                                                              *)
AcknowledgedIsRecorded ==
    \A r \in Reports :
      report[r].state = "acked" /\ Recordable(KindOf(r)) =>
        \/ r \in recorded /\ (Suppresses(r) => suppression # "none" \/ lifted)
        \/ prov = "cloudflare" /\ r \in contended
=============================================================================
