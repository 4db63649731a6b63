-------------------------- MODULE RecipientLedger --------------------------
(***************************************************************************)
(* The pure transition planner of src/src/core/recipient-ledger.ts: how a  *)
(* recipient's status answers a provider event, how the message aggregate  *)
(* and the public e-mail status are derived from the recipients, and when  *)
(* a local (cancel or suppress) change is admitted.                        *)
(*                                                                         *)
(* A ledger's recipients are a function from Recipients (opaque rcpt_ ids) *)
(* to statuses.  Timestamps, digests and provider references do not decide *)
(* any transition and are left out.                                        *)
(***************************************************************************)
EXTENDS Integers

CONSTANT Recipients

ASSUME RecipientsAssumption == Recipients # {}

RecipientStatus ==
    {"queued", "sending", "accepted", "delivery_delayed", "delivered",
     "opened", "clicked", "bounced", "complained", "rejected", "failed",
     "suppressed", "canceled"}

MessageStatus ==
    {"queued", "scheduled", "sending", "accepted", "partially_delivered",
     "delivered", "delivery_delayed", "bounced", "complained", "failed",
     "canceled", "suppressed"}

\* EmailStatus: the Resend-shaped status a client reads.
EmailStatus ==
    {"queued", "scheduled", "sending", "sent", "delivered",
     "delivery_delayed", "opened", "clicked", "bounced", "complained",
     "failed", "canceled", "suppressed"}

ProviderEventType ==
    {"accepted", "delivered", "delayed", "bounced", "complained",
     "rejected", "opened", "clicked", "failed"}

DELIVERY_POSITIVE == {"delivered", "opened", "clicked"}

DELIVERY_NEGATIVE == {"bounced", "rejected", "failed"}

\* The total order of the engagement ladder; a status off the ladder has no
\* rank and is never left by an engagement event.
ENGAGEMENT_LADDER == {"queued", "sending", "accepted", "delivery_delayed"}
                       \cup DELIVERY_POSITIVE

ENGAGEMENT_RANK ==
    [s \in ENGAGEMENT_LADDER |->
        CASE s = "queued"           -> 0
          [] s = "sending"          -> 1
          [] s = "accepted"         -> 2
          [] s = "delivery_delayed" -> 3
          [] s = "delivered"        -> 4
          [] s = "opened"           -> 5
          [] s = "clicked"          -> 6]

EVENT_TARGET ==
    [e \in ProviderEventType |->
        IF e = "delayed" THEN "delivery_delayed" ELSE e]

\* Mutant: the last event wins, unless the recipient is suppressed.
transitionRecipientStatus_LastWins(current, eventType) ==
    IF current = "suppressed" THEN current ELSE EVENT_TARGET[eventType]

\* The early returns in the order of the code: each decides only what the
\* ones before it left open.
transitionRecipientStatus(current, eventType) ==
    LET target == EVENT_TARGET[eventType]
        unlessDelivered ==
            IF current \in DELIVERY_POSITIVE THEN current ELSE target
    IN  IF current = "suppressed" THEN current
        ELSE IF eventType = "complained" THEN "complained"
        ELSE IF current \in {"complained", "canceled"} THEN current
        ELSE IF eventType = "bounced" THEN "bounced"
        ELSE IF current = "bounced" THEN current
        ELSE IF eventType = "rejected" THEN unlessDelivered
        ELSE IF current = "rejected" THEN current
        ELSE IF eventType = "failed" THEN unlessDelivered
        ELSE IF current = "failed" THEN current
        ELSE IF ENGAGEMENT_RANK[target] > ENGAGEMENT_RANK[current] THEN target
        ELSE current

SomeRecipient(rs, S) == \E r \in Recipients : rs[r] \in S

EveryRecipient(rs, S) == \A r \in Recipients : rs[r] \in S

deriveDeliveryMessageStatus(rs) ==
    IF SomeRecipient(rs, {"suppressed"}) THEN "suppressed"
    ELSE IF SomeRecipient(rs, {"complained"}) THEN "complained"
    ELSE IF SomeRecipient(rs, DELIVERY_POSITIVE)
           THEN IF EveryRecipient(rs, DELIVERY_POSITIVE)
                  THEN "delivered" ELSE "partially_delivered"
    ELSE IF SomeRecipient(rs, {"bounced"}) THEN "bounced"
    ELSE IF SomeRecipient(rs, DELIVERY_NEGATIVE) THEN "failed"
    ELSE IF EveryRecipient(rs, {"canceled"}) THEN "canceled"
    ELSE IF SomeRecipient(rs, {"delivery_delayed"}) THEN "delivery_delayed"
    ELSE IF SomeRecipient(rs, {"accepted"}) THEN "accepted"
    ELSE IF SomeRecipient(rs, {"sending"}) THEN "sending"
    ELSE "queued"

derivePublicEmailStatus(aggregate, rs) ==
    IF aggregate = "accepted" THEN "sent"
    ELSE IF aggregate = "partially_delivered"
           THEN IF SomeRecipient(rs, {"bounced"}) THEN "bounced"
                ELSE IF SomeRecipient(rs, {"rejected", "failed"}) THEN "failed"
                ELSE "delivered"
    ELSE IF aggregate = "delivered"
           THEN IF SomeRecipient(rs, {"clicked"}) THEN "clicked"
                ELSE IF SomeRecipient(rs, {"opened"}) THEN "opened"
                ELSE "delivered"
    ELSE aggregate

\* updateEmailForRecipients: the public status every ledger plan writes.
updateEmailForRecipients(rs) ==
    derivePublicEmailStatus(deriveDeliveryMessageStatus(rs), rs)

-----------------------------------------------------------------------------
(* Attempts of one message, in sequence order.  planAttemptStart admits     *)
(* only sequence Len + 1, so the position in the sequence is the code's      *)
(* `sequence`; `by` stands for the attempt id, which only its creator knows. *)

AttemptStatus ==
    {"submitting", "accepted", "retryable_failed", "permanent_failed"}

\* Mutant: only a local change keeps an attempt from starting.
CanStartAttempt_UnlessStopped(rs) ==
    ~SomeRecipient(rs, {"canceled", "suppressed"})

\* planAttemptStart: another submission may begin only from queued
\* recipients.
CanStartAttempt(rs) == EveryRecipient(rs, {"queued"})

\* planAttemptCompletion: the attempt is still active and still owns every
\* recipient.
CanCompleteAttempt(attempt, seq, rs, latest) ==
    /\ attempt.status = "submitting"
    /\ \A r \in Recipients : rs[r] = "sending" /\ latest[r] = seq

\* The recipient status a completed attempt writes.  `rejects` is the
\* diagnostic category provider_rejected or invalid_data.
completedRecipientStatus(attemptStatus, rejects) ==
    IF attemptStatus = "accepted" THEN "accepted"
    ELSE IF attemptStatus = "retryable_failed" THEN "queued"
    ELSE IF rejects THEN "rejected"
    ELSE "failed"

\* Mutant: a local change is admitted at any time.
CanChangeLocally_Always(attempts, rs) == TRUE

\* planLocalRecipientState: admitted outside a provider submission only, and
\* sticky for complained and suppressed recipients.
CanChangeLocally(attempts, rs) ==
    /\ \A i \in DOMAIN attempts : attempts[i].status # "submitting"
    /\ ~SomeRecipient(rs, {"sending"})

planLocalRecipientState(rs, status) ==
    [r \in Recipients |->
        IF rs[r] \in {"complained", "suppressed"} THEN rs[r] ELSE status]

\* planProviderEvent's recipient part.
planProviderEvent(rs, eventType, targets) ==
    [r \in Recipients |->
        IF r \in targets THEN transitionRecipientStatus(rs[r], eventType)
                         ELSE rs[r]]
=============================================================================
