---------------------------- MODULE AtomicLedger ----------------------------
(***************************************************************************)
(* What a delivery store promises the services: the operations of          *)
(* DeliveryLedgerStore (src/src/ports/delivery-ledger-store.ts), with the  *)
(* claim and the reschedule of an e-mail, each take effect at once, on the *)
(* records as they are, or not at all.  EmailDelivery relies on it;        *)
(* LedgerStore asks which stores keep it.                                  *)
(*                                                                         *)
(* The records of one message are the fields of `led`: the public status   *)
(* of the e-mail, the message aggregate, the status and latest attempt of  *)
(* every recipient and the statuses of the attempts in sequence order.     *)
(***************************************************************************)
EXTENDS RecipientLedger, Sequences

CONSTANTS EventIds, EventTypes

ASSUME AtomicLedgerAssumption == EventTypes \subseteq ProviderEventType

VARIABLES led, events

-----------------------------------------------------------------------------
(* The planners, on the records L that an operation has read.               *)

\* The aggregates that follow from the recipients.
WithRecipients(L, rs) ==
    [L EXCEPT !.rcpt = rs,
              !.message = deriveDeliveryMessageStatus(rs),
              !.status = updateEmailForRecipients(rs)]

CanBegin(L, seq) == seq = Len(L.attempts) + 1 /\ CanStartAttempt(L.rcpt)

Begun(L, seq) ==
    LET rs == [r \in Recipients |-> "sending"]
    IN  [L EXCEPT !.rcpt = rs,
                  !.message = deriveDeliveryMessageStatus(rs),
                  !.status = "sending",
                  !.latest = [r \in Recipients |-> seq],
                  !.attempts = Append(@, "submitting")]

CanComplete(L, seq) ==
    /\ seq \in DOMAIN L.attempts
    /\ CanCompleteAttempt([status |-> L.attempts[seq]], seq, L.rcpt, L.latest)

Completed(L, seq, status, rejects) ==
    LET rs == [r \in Recipients |-> completedRecipientStatus(status, rejects)]
    IN  [WithRecipients(L, rs) EXCEPT !.attempts[seq] = status]

CanCorrelate(L, seq) == seq \in DOMAIN L.attempts /\ L.attempts[seq] = "accepted"

Correlated(L, type, targets) ==
    WithRecipients(L, planProviderEvent(L.rcpt, type, targets))

CanStop(L) ==
    /\ \A i \in DOMAIN L.attempts : L.attempts[i] # "submitting"
    /\ ~SomeRecipient(L.rcpt, {"sending"})

Stopped(L, status) == WithRecipients(L, planLocalRecipientState(L.rcpt, status))

-----------------------------------------------------------------------------
(* The operations.                                                          *)

Init ==
    /\ \E s \in {"queued", "scheduled", "suppressed"} :
         led = [status   |-> s,
                message  |-> s,
                rcpt     |-> [r \in Recipients |->
                                IF s = "suppressed" THEN s ELSE "queued"],
                latest   |-> [r \in Recipients |-> 0],
                attempts |-> <<>>]
    /\ events = {}

\* The lease clock is left out: a lease may have expired at any time.
ClaimEmailForSend ==
    /\ led.status \in {"queued", "scheduled", "sending"}
    /\ led' = [led EXCEPT !.status = "sending"]
    /\ UNCHANGED events

RescheduleEmail ==
    /\ led.status \in {"queued", "scheduled"}
    /\ \E m \in {led.message, "scheduled"} :
         led' = [led EXCEPT !.status = "scheduled", !.message = m]
    /\ UNCHANGED events

BeginDeliveryAttempt(seq) ==
    /\ CanBegin(led, seq)
    /\ led' = Begun(led, seq)
    /\ UNCHANGED events

CompleteDeliveryAttempt(seq, status, rejects) ==
    /\ CanComplete(led, seq)
    /\ led' = Completed(led, seq, status, rejects)
    /\ UNCHANGED events

AppendProviderEvent(id, seq, type, targets) ==
    /\ id \notin events
    /\ CanCorrelate(led, seq)
    /\ led' = Correlated(led, type, targets)
    /\ events' = events \cup {id}

ApplyLocalDeliveryState(status) ==
    /\ CanStop(led)
    /\ led' = Stopped(led, status)
    /\ UNCHANGED events

Completion == {"accepted", "retryable_failed", "permanent_failed"}

Next ==
    \/ ClaimEmailForSend
    \/ RescheduleEmail
    \/ BeginDeliveryAttempt(Len(led.attempts) + 1)
    \/ \E seq \in DOMAIN led.attempts, status \in Completion, rejects \in BOOLEAN :
         CompleteDeliveryAttempt(seq, status, rejects)
    \/ \E id \in EventIds, seq \in DOMAIN led.attempts, type \in EventTypes,
          targets \in SUBSET Recipients :
         AppendProviderEvent(id, seq, type, targets)
    \/ \E status \in {"canceled", "suppressed"} : ApplyLocalDeliveryState(status)

Spec == Init /\ [][Next]_<<led, events>>
=============================================================================
