------------------------ MODULE EmailDeliveryProofs ------------------------
(***************************************************************************)
(* Proofs about EmailDelivery, for any set of recipients, workers, clients *)
(* and events, any lease length and any bound on the clock.                *)
(***************************************************************************)
EXTENDS EmailDelivery, FiniteSetTheorems, TLAPS

-----------------------------------------------------------------------------
(* The planner.                                                             *)

\* A provider event moves a recipient to a recipient status, and never back
\* to one of the two statuses from which it could be submitted again.
LEMMA TransitionLemma ==
    ASSUME NEW current \in RecipientStatus, NEW e \in ProviderEventType
    PROVE  /\ transitionRecipientStatus(current, e) \in RecipientStatus
           /\ current \notin {"queued", "sending"} =>
                transitionRecipientStatus(current, e) \notin {"queued", "sending"}
  <1> DEFINE t == EVENT_TARGET[e]
  <1>1. t \in RecipientStatus \ {"queued", "sending"}
    BY DEF EVENT_TARGET, ProviderEventType, RecipientStatus
  <1>2. transitionRecipientStatus(current, e) \in {current, t, "complained", "bounced"}
    BY DEF transitionRecipientStatus
  <1> QED
    BY <1>1, <1>2 DEF RecipientStatus

\* The aggregate and the public status are derived within their types; an
\* all-queued message reads queued, and one with no recipient left to submit
\* reads as final.
LEMMA DerivedStatusLemma ==
    ASSUME NEW rs \in [Recipients -> RecipientStatus]
    PROVE  /\ deriveDeliveryMessageStatus(rs) \in MessageStatus
           /\ updateEmailForRecipients(rs) \in EmailStatus
           /\ EveryRecipient(rs, {"queued"}) =>
                updateEmailForRecipients(rs) = "queued"
           /\ ~SomeRecipient(rs, {"queued", "sending"}) =>
                updateEmailForRecipients(rs) \in FINAL_STATUSES
  <1> DEFINE m == deriveDeliveryMessageStatus(rs)
  <1>1. m \in MessageStatus \ {"scheduled"}
    BY DEF deriveDeliveryMessageStatus, MessageStatus
  <1>2. updateEmailForRecipients(rs) \in EmailStatus
    BY <1>1 DEF updateEmailForRecipients, derivePublicEmailStatus,
                MessageStatus, EmailStatus
  <1>3. ASSUME EveryRecipient(rs, {"queued"})
        PROVE  updateEmailForRecipients(rs) = "queued"
    <2>1. m = "queued"
      BY <1>3, RecipientsAssumption
         DEF deriveDeliveryMessageStatus, EveryRecipient, SomeRecipient,
             DELIVERY_POSITIVE, DELIVERY_NEGATIVE
    <2> QED  BY <2>1 DEF updateEmailForRecipients, derivePublicEmailStatus
  <1>4. ASSUME ~SomeRecipient(rs, {"queued", "sending"})
        PROVE  updateEmailForRecipients(rs) \in FINAL_STATUSES
    <2>1. m \notin {"sending", "scheduled"}
      BY <1>1, <1>4 DEF deriveDeliveryMessageStatus, SomeRecipient
    <2>2. m # "queued"
      <3> SUFFICES ASSUME m = "queued" PROVE FALSE
        OBVIOUS
      <3>1. PICK r \in Recipients : TRUE
        BY RecipientsAssumption
      <3>2. /\ ~SomeRecipient(rs, {"suppressed"})
            /\ ~SomeRecipient(rs, {"complained"})
            /\ ~SomeRecipient(rs, DELIVERY_POSITIVE)
            /\ ~SomeRecipient(rs, {"bounced"})
            /\ ~SomeRecipient(rs, DELIVERY_NEGATIVE)
            /\ ~EveryRecipient(rs, {"canceled"})
            /\ ~SomeRecipient(rs, {"delivery_delayed"})
            /\ ~SomeRecipient(rs, {"accepted"})
        BY DEF deriveDeliveryMessageStatus
      <3>3. \A q \in Recipients : rs[q] = "canceled"
        BY <3>2, <1>4 DEF SomeRecipient, RecipientStatus, DELIVERY_POSITIVE,
                          DELIVERY_NEGATIVE
      <3> QED  BY <3>2, <3>3 DEF EveryRecipient
    <2> QED
      BY <1>1, <2>1, <2>2 DEF updateEmailForRecipients, derivePublicEmailStatus,
                              MessageStatus, EmailStatus, FINAL_STATUSES
  <1> QED  BY <1>1, <1>2, <1>3, <1>4

\* A local change leaves no recipient that could be submitted.
LEMMA LocalPlanLemma ==
    ASSUME NEW rs \in [Recipients -> RecipientStatus],
           NEW status \in {"canceled", "suppressed"}
    PROVE  /\ planLocalRecipientState(rs, status) \in [Recipients -> RecipientStatus]
           /\ ~SomeRecipient(planLocalRecipientState(rs, status),
                             {"queued", "sending"})
  BY DEF planLocalRecipientState, SomeRecipient, RecipientStatus

\* Nor does a provider event put one back.
LEMMA EventPlanLemma ==
    ASSUME NEW rs \in [Recipients -> RecipientStatus],
           NEW e \in ProviderEventType, NEW targets \in SUBSET Recipients
    PROVE  /\ planProviderEvent(rs, e, targets) \in [Recipients -> RecipientStatus]
           /\ ~SomeRecipient(rs, {"queued", "sending"}) =>
                ~SomeRecipient(planProviderEvent(rs, e, targets),
                               {"queued", "sending"})
  BY TransitionLemma DEF planProviderEvent, SomeRecipient

-----------------------------------------------------------------------------
(* Type correctness.                                                        *)

(* Updates of the records; the provers take them one at a time.             *)

\* The locals a worker has at any program point are locals.
LEMMA LocalsLemma ==
    /\ IdleLocals \in Locals
    /\ \A pc \in WorkerPc, n \in Nat : At(pc, n) \in Locals
  BY DEF IdleLocals, At, Locals, WorkerPc

\* Assigning one local of a processSend call gives locals again.
LEMMA LocalsUpdateLemma ==
    ASSUME NEW l \in Locals, NEW pc \in WorkerPc
    PROVE  /\ [l EXCEPT !.pc = pc] \in Locals
           /\ \A k \in Nat : [l EXCEPT !.pc = pc, !.seq = k] \in Locals
           /\ \A k \in Nat : [l EXCEPT !.pc = pc, !.n = k] \in Locals
           /\ \A o \in Outcome : [l EXCEPT !.pc = pc, !.outcome = o] \in Locals
  <1>1. [l EXCEPT !.pc = pc] \in Locals
    BY DEF Locals
  <1>2. ASSUME NEW k \in Nat PROVE [l EXCEPT !.pc = pc, !.seq = k] \in Locals
    BY DEF Locals
  <1>3. ASSUME NEW k \in Nat PROVE [l EXCEPT !.pc = pc, !.n = k] \in Locals
    BY DEF Locals
  <1>4. ASSUME NEW o \in Outcome
        PROVE  [l EXCEPT !.pc = pc, !.outcome = o] \in Locals
    BY DEF Locals
  <1> QED  BY <1>1, <1>2, <1>3, <1>4

\* What the store writes to an e-mail record leaves it one.
LEMMA EmailUpdateLemma ==
    ASSUME NEW e \in EmailRecord, NEW s \in EmailStatus
    PROVE  /\ [e EXCEPT !.status = s] \in EmailRecord
           /\ \A m \in Nat : [e EXCEPT !.status = s, !.lease = m] \in EmailRecord
           /\ \A m \in Nat : [e EXCEPT !.status = s, !.scheduled_at = m] \in EmailRecord
           /\ \A k, m \in Nat :
                [e EXCEPT !.status = s, !.attempts = k, !.lease = m] \in EmailRecord
  <1>1. [e EXCEPT !.status = s] \in EmailRecord
    BY DEF EmailRecord
  <1>2. ASSUME NEW m \in Nat
        PROVE  [e EXCEPT !.status = s, !.lease = m] \in EmailRecord
    BY DEF EmailRecord
  <1>3. ASSUME NEW m \in Nat
        PROVE  [e EXCEPT !.status = s, !.scheduled_at = m] \in EmailRecord
    BY DEF EmailRecord
  <1>4. ASSUME NEW k \in Nat, NEW m \in Nat
        PROVE  [e EXCEPT !.status = s, !.attempts = k, !.lease = m] \in EmailRecord
    BY DEF EmailRecord
  <1> QED  BY <1>1, <1>2, <1>3, <1>4

\* Completing attempt i changes its status and nothing else.
LEMMA AttemptUpdateLemma ==
    ASSUME NEW a \in Seq(Attempt), NEW s \in AttemptStatus, NEW i \in 1..Len(a)
    PROVE  LET b == [a EXCEPT ![i].status = s]
           IN  /\ b \in Seq(Attempt)
               /\ Len(b) = Len(a)
               /\ b[i].status = s
               /\ \A j \in 1..Len(a) : /\ b[j].claim = a[j].claim
                                       /\ j # i => b[j] = a[j]
  <1> DEFINE b == [a EXCEPT ![i].status = s]
             x == [a[i] EXCEPT !.status = s]
  <1>1. b = [a EXCEPT ![i] = x]
    OBVIOUS
  <1>2. x \in Attempt /\ x.status = s /\ x.claim = a[i].claim
    <2>1. a[i] \in Attempt
      OBVIOUS
    <2> QED  BY <2>1 DEF Attempt
  <1> HIDE DEF b, x
  <1>3. b \in Seq(Attempt) /\ Len(b) = Len(a)
    BY <1>1, <1>2
  <1>4. b[i] = x /\ \A j \in 1..Len(a) : j # i => b[j] = a[j]
    BY <1>1
  <1>5. b[i].status = s /\ \A j \in 1..Len(a) : b[j].claim = a[j].claim
    BY <1>2, <1>4
  <1> QED  BY <1>3, <1>4, <1>5 DEF b

\* The end of processSend keeps the locals of every worker.
LEMMA ReturnLemma ==
    ASSUME worker \in [Workers -> Locals], NEW w \in Workers,
           Return(w) \/ Throw(w)
    PROVE  worker' \in [Workers -> Locals]
  <1>1. At("returned", 0) \in Locals /\ At("threw", 0) \in Locals
    BY LocalsLemma DEF WorkerPc
  <1> QED  BY <1>1 DEF Return, Throw

\* commitLedgerPlan writes records of their types.
LEMMA CommitTypeLemma ==
    ASSUME TypeOK, NEW rs \in [Recipients -> RecipientStatus],
           CommitLedgerPlan(rs)
    PROVE  /\ email' \in EmailRecord
           /\ message' \in MessageStatus
           /\ rcpt' \in [Recipients -> RecipientStatus]
  <1>1. /\ deriveDeliveryMessageStatus(rs) \in MessageStatus
        /\ updateEmailForRecipients(rs) \in EmailStatus
    BY DerivedStatusLemma
  <1> QED  BY <1>1, EmailUpdateLemma DEF CommitLedgerPlan, TypeOK

\* A committed e-mail has the types.
LEMMA TypeInit == Init => TypeOK
  <1> SUFFICES ASSUME Init PROVE TypeOK
    OBVIOUS
  <1>1. PICK s \in {"queued", "scheduled", "suppressed"},
             t \in {0} \cup (now + 1)..MaxNow :
          /\ email = [status |-> s, scheduled_at |-> t, attempts |-> 0,
                      lease |-> 0]
          /\ message = s
          /\ rcpt = [r \in Recipients |->
                       IF s = "suppressed" THEN "suppressed" ELSE "queued"]
    BY DEF Init
  <1>2. now = 1 /\ t \in Nat
    BY EmailDeliveryAssumption DEF Init
  <1>3. /\ email \in EmailRecord
        /\ message \in MessageStatus
        /\ rcpt \in [Recipients -> RecipientStatus]
    BY <1>1, <1>2 DEF EmailRecord, EmailStatus, MessageStatus, RecipientStatus
  <1>4. worker \in [Workers -> Locals]
    BY LocalsLemma DEF Init
  <1>5. client \in [Clients -> [pc : ClientPc, at : Nat]]
    BY DEF Init, ClientPc
  <1>6. attempts \in Seq(Attempt) /\ latest \in [Recipients -> Nat]
    BY DEF Init
  <1> QED
    BY <1>2, <1>3, <1>4, <1>5, <1>6 DEF Init, TypeOK

\* The steps of processSend keep the types.
LEMMA TypeProcessSend ==
    ASSUME TypeOK, WorkersInv, NEW w \in Workers, ProcessSend(w)
    PROVE  TypeOK'
  <1> USE EmailDeliveryAssumption
  <1>1. CASE \E n \in ReceiveCounts : LoadEmail(w, n)
    <2>1. PICK n \in ReceiveCounts : LoadEmail(w, n)
      BY <1>1
    <2>2. worker' \in [Workers -> Locals]
      <3>1. At("loaded", n) \in Locals
        BY LocalsLemma DEF WorkerPc
      <3> QED  BY <2>1, <3>1, ReturnLemma DEF LoadEmail, TypeOK
    <2> QED  BY <2>1, <2>2 DEF LoadEmail, TypeOK, ledger
  <1>2. CASE FindSuppressed(w)
    <2>1. worker' \in [Workers -> Locals]
      BY <1>2, LocalsUpdateLemma DEF FindSuppressed, Goto, TypeOK, WorkerPc
    <2> QED  BY <1>2, <2>1 DEF FindSuppressed, TypeOK, ledger
  <1>3. CASE SuppressEmail(w)
    <2>1. worker' \in [Workers -> Locals]
      BY <1>3, ReturnLemma DEF SuppressEmail, TypeOK
    <2>2. CASE applyLocalDeliveryState("suppressed")
      BY <1>3, <2>1, <2>2, LocalPlanLemma, CommitTypeLemma
         DEF SuppressEmail, applyLocalDeliveryState, TypeOK
    <2>3. CASE UNCHANGED ledger
      BY <1>3, <2>1, <2>3 DEF SuppressEmail, TypeOK, ledger
    <2> QED  BY <1>3, <2>2, <2>3 DEF SuppressEmail
  <1>4. CASE ClaimEmailForSend(w)
    <2> DEFINE k == ClaimCount(worker[w].n)
    <2>1. k \in Nat
      <3>1. worker[w].n \in Nat /\ email.attempts \in Nat
        BY DEF TypeOK, Locals, EmailRecord
      <3> QED  BY <3>1 DEF ClaimCount
    <2>2. CASE Claimable
      <3>1. worker' = [worker EXCEPT ![w] =
                         [worker[w] EXCEPT !.pc = "claimed", !.n = k]]
        BY <1>4, <2>2 DEF ClaimEmailForSend
      <3>2. worker' \in [Workers -> Locals]
        BY <2>1, <3>1, LocalsUpdateLemma DEF TypeOK, WorkerPc
      <3>3. now + SendLease \in Nat
        BY DEF TypeOK
      <3>4. email' \in EmailRecord
        <4>1. email' = [email EXCEPT !.status = "sending", !.attempts = k,
                                     !.lease = now + SendLease]
          BY <1>4, <2>2 DEF ClaimEmailForSend
        <4>2. "sending" \in EmailStatus /\ email \in EmailRecord
          BY DEF EmailStatus, TypeOK
        <4> HIDE DEF k
        <4> QED  BY <2>1, <3>3, <4>1, <4>2, EmailUpdateLemma
      <3> QED  BY <1>4, <3>2, <3>4 DEF ClaimEmailForSend, TypeOK
    <2>3. CASE ~Claimable
      <3>1. worker' \in [Workers -> Locals]
        BY <1>4, <2>3, ReturnLemma DEF ClaimEmailForSend, TypeOK
      <3> QED  BY <1>4, <2>3, <3>1 DEF ClaimEmailForSend, TypeOK
    <2> QED  BY <2>2, <2>3
  <1>5. CASE ReadLedger(w)
    <2>1. worker' = [worker EXCEPT ![w] =
                       [worker[w] EXCEPT !.pc = "ledgered",
                                         !.seq = Len(attempts) + 1]]
      BY <1>5 DEF ReadLedger
    <2>2. Len(attempts) + 1 \in Nat
      BY DEF TypeOK
    <2>3. worker' \in [Workers -> Locals]
      BY <2>1, <2>2, LocalsUpdateLemma DEF TypeOK, WorkerPc
    <2> QED  BY <1>5, <2>3 DEF ReadLedger, TypeOK, ledger
  <1>6. CASE BeginDeliveryAttempt(w)
    <2>1. CASE CanBegin(worker[w].seq)
      <3>1. worker' \in [Workers -> Locals]
        <4>1. worker' = [worker EXCEPT ![w] = [worker[w] EXCEPT !.pc = "submitting"]]
          BY <1>6, <2>1 DEF BeginDeliveryAttempt, Goto
        <4> QED  BY <4>1, LocalsUpdateLemma DEF TypeOK, WorkerPc
      <3>2. rcpt' \in [Recipients -> RecipientStatus]
        BY <1>6, <2>1 DEF BeginDeliveryAttempt, RecipientStatus
      <3>3. message' \in MessageStatus
        BY <1>6, <2>1, <3>2, DerivedStatusLemma DEF BeginDeliveryAttempt
      <3>4. email' \in EmailRecord
        BY <1>6, <2>1, EmailUpdateLemma
           DEF BeginDeliveryAttempt, TypeOK, EmailStatus
      <3>5. worker[w].n \in Nat /\ worker[w].seq \in Nat
        BY DEF TypeOK, Locals
      <3>6. attempts' \in Seq(Attempt)
        <4>1. [status |-> "submitting", claim |-> worker[w].n] \in Attempt
          BY <3>5 DEF Attempt, AttemptStatus
        <4>2. attempts' = Append(attempts, [status |-> "submitting",
                                            claim |-> worker[w].n])
          BY <1>6, <2>1 DEF BeginDeliveryAttempt
        <4> QED  BY <4>1, <4>2 DEF TypeOK
      <3>7. latest' \in [Recipients -> Nat]
        BY <1>6, <2>1, <3>5 DEF BeginDeliveryAttempt
      <3> QED
        BY <1>6, <3>1, <3>2, <3>3, <3>4, <3>6, <3>7
           DEF BeginDeliveryAttempt, TypeOK
    <2>2. CASE ~CanBegin(worker[w].seq)
      <3>1. worker' \in [Workers -> Locals]
        BY <1>6, <2>2, ReturnLemma DEF BeginDeliveryAttempt, TypeOK
      <3> QED  BY <1>6, <2>2, <3>1 DEF BeginDeliveryAttempt, TypeOK, ledger
    <2> QED  BY <2>1, <2>2
  <1>7. CASE \E outcome \in Outcome : Submit(w, outcome)
    <2>1. PICK outcome \in Outcome : Submit(w, outcome)
      BY <1>7
    <2>2. worker' = [worker EXCEPT ![w] =
                       [worker[w] EXCEPT !.pc = "answered", !.outcome = outcome]]
      BY <2>1 DEF Submit
    <2>3. worker' \in [Workers -> Locals]
      BY <2>2, LocalsUpdateLemma DEF TypeOK, WorkerPc
    <2>4. accepted' \subseteq Nat
      <3>1. worker[w].seq \in Nat
        BY DEF TypeOK, Locals
      <3> QED  BY <2>1, <3>1 DEF Submit, TypeOK
    <2> QED  BY <2>1, <2>3, <2>4 DEF Submit, TypeOK, ledger
  <1>8. CASE CompleteDeliveryAttempt(w)
    <2> DEFINE seq    == worker[w].seq
               status == CompletionStatus(worker[w].n, worker[w].outcome)
               rs     == [r \in Recipients |->
                            completedRecipientStatus(status,
                                worker[w].outcome = "rejected")]
               can    == CanCompleteAttempt(attempts[seq], seq, rcpt, latest)
    <2>1. worker' \in [Workers -> Locals]
      BY <1>8, ReturnLemma DEF CompleteDeliveryAttempt, TypeOK
    <2>2. status \in AttemptStatus
      BY DEF CompletionStatus, AttemptStatus
    <2>3. rs \in [Recipients -> RecipientStatus]
      BY DEF completedRecipientStatus, RecipientStatus
    <2>4. CASE can
      <3>1. attempts' = [attempts EXCEPT ![seq].status = status]
        BY <1>8, <2>4 DEF CompleteDeliveryAttempt
      <3>2. CommitLedgerPlan(rs) /\ latest' = latest
        BY <1>8, <2>4 DEF CompleteDeliveryAttempt
      <3>3. attempts' \in Seq(Attempt)
        <4>1. seq \in 1..Len(attempts)
          BY <1>8 DEF CompleteDeliveryAttempt, WorkersInv, Submitting, TypeOK
        <4> QED  BY <2>2, <3>1, <4>1, AttemptUpdateLemma DEF TypeOK
      <3> HIDE DEF rs
      <3>4. /\ email' \in EmailRecord
            /\ message' \in MessageStatus
            /\ rcpt' \in [Recipients -> RecipientStatus]
        BY <3>2, <2>3, CommitTypeLemma
      <3> QED  BY <1>8, <2>1, <3>2, <3>3, <3>4 DEF CompleteDeliveryAttempt, TypeOK
    <2>5. CASE ~can
      BY <1>8, <2>1, <2>5 DEF CompleteDeliveryAttempt, TypeOK, ledger
    <2> QED  BY <2>4, <2>5
  <1>9. CASE Finish(w)
    BY <1>9, LocalsLemma DEF Finish, TypeOK, ledger
  <1> QED
    BY <1>1, <1>2, <1>3, <1>4, <1>5, <1>6, <1>7, <1>8, <1>9 DEF ProcessSend

\* So do the other steps.
LEMMA TypeRest ==
    ASSUME TypeOK,
           \/ \E w \in Workers : Crash(w)
           \/ \E c \in Clients : Api(c)
           \/ \E r \in Recipients : PutSuppression(r) \/ DeleteSuppression(r)
           \/ \E id \in EventIds, type \in ProviderEventType,
                 targets \in SUBSET Recipients :
                   ApplyProviderEvent(id, type, targets)
           \/ Tick
    PROVE  TypeOK'
  <1>1. ASSUME NEW w \in Workers, Crash(w) PROVE TypeOK'
    BY <1>1, LocalsLemma DEF Crash, TypeOK, ledger
  <1>2. ASSUME NEW c \in Clients, CancelRead(c) PROVE TypeOK'
    BY <1>2 DEF CancelRead, TypeOK, ClientPc, ledger
  <1>3. ASSUME NEW c \in Clients, CancelApply(c) PROVE TypeOK'
    <2>1. client' \in [Clients -> [pc : ClientPc, at : Nat]]
      BY <1>3 DEF CancelApply, TypeOK, ClientPc
    <2>2. CASE applyLocalDeliveryState("canceled")
      BY <1>3, <2>1, <2>2, LocalPlanLemma, CommitTypeLemma
         DEF CancelApply, applyLocalDeliveryState, TypeOK
    <2>3. CASE UNCHANGED ledger
      BY <1>3, <2>1, <2>3 DEF CancelApply, TypeOK, ledger
    <2> QED  BY <1>3, <2>2, <2>3 DEF CancelApply
  <1>4. ASSUME NEW c \in Clients, NEW at \in 1..MaxNow, RescheduleRead(c, at)
        PROVE  TypeOK'
    <2>1. at \in Nat
      BY EmailDeliveryAssumption
    <2> QED  BY <1>4, <2>1 DEF RescheduleRead, TypeOK, ClientPc, ledger
  <1>5. ASSUME NEW c \in Clients, NEW b \in BOOLEAN, RescheduleApply(c, b)
        PROVE  TypeOK'
    <2>1. client' \in [Clients -> [pc : ClientPc, at : Nat]]
      BY <1>5 DEF RescheduleApply, TypeOK, ClientPc
    <2>2. client[c].at \in Nat /\ "scheduled" \in EmailStatus
      BY DEF TypeOK, EmailStatus
    <2>3. email' \in EmailRecord
      <3>1. [email EXCEPT !.status = "scheduled", !.scheduled_at = client[c].at]
              \in EmailRecord
        BY <2>2, EmailUpdateLemma DEF TypeOK
      <3> QED  BY <1>5, <3>1 DEF RescheduleApply, TypeOK
    <2>4. message' \in MessageStatus
      BY <1>5 DEF RescheduleApply, TypeOK, MessageStatus
    <2> QED  BY <1>5, <2>1, <2>3, <2>4 DEF RescheduleApply, TypeOK
  <1>6. ASSUME NEW r \in Recipients, PutSuppression(r) \/ DeleteSuppression(r)
        PROVE  TypeOK'
    BY <1>6 DEF PutSuppression, DeleteSuppression, TypeOK, ledger
  <1>7. ASSUME NEW id \in EventIds, NEW type \in ProviderEventType,
               NEW targets \in SUBSET Recipients,
               ApplyProviderEvent(id, type, targets)
        PROVE  TypeOK'
    <2>1. planProviderEvent(rcpt, type, targets) \in [Recipients -> RecipientStatus]
      BY EventPlanLemma DEF TypeOK
    <2> QED
      BY <1>7, <2>1, CommitTypeLemma DEF ApplyProviderEvent, TypeOK
  <1>8. ASSUME Tick PROVE TypeOK'
    BY <1>8 DEF Tick, TypeOK, ledger
  <1> QED
    BY <1>1, <1>2, <1>3, <1>4, <1>5, <1>6, <1>7, <1>8 DEF Api

-----------------------------------------------------------------------------
(* The submission invariant.                                                *)

\* A committed e-mail has no attempts, and its recipients agree with it.
LEMMA SubmissionInit == Init => SubmissionInv
  <1> SUFFICES ASSUME Init PROVE SubmissionInv
    OBVIOUS
  <1>1. PICK s \in {"queued", "scheduled", "suppressed"},
             t \in {0} \cup (now + 1)..MaxNow :
          /\ email = [status |-> s, scheduled_at |-> t, attempts |-> 0,
                      lease |-> 0]
          /\ message = s
          /\ rcpt = [r \in Recipients |->
                       IF s = "suppressed" THEN "suppressed" ELSE "queued"]
    BY DEF Init
  <1>2. PublicStatusAgrees
    <2>1. CASE s = "suppressed"
      <3>1. SomeRecipient(rcpt, {"suppressed"})
        BY <1>1, <2>1, RecipientsAssumption DEF SomeRecipient
      <3>2. deriveDeliveryMessageStatus(rcpt) = "suppressed"
        BY <3>1 DEF deriveDeliveryMessageStatus
      <3>3. updateEmailForRecipients(rcpt) = "suppressed"
        BY <3>2 DEF updateEmailForRecipients, derivePublicEmailStatus
      <3> QED
        BY <1>1, <2>1, <3>2, <3>3 DEF PublicStatusAgrees, Pending, SomeRecipient
    <2>2. CASE s # "suppressed"
      BY <1>1, <2>2
         DEF PublicStatusAgrees, Pending, FINAL_STATUSES, EveryRecipient
    <2> QED  BY <2>1, <2>2
  <1>3. AttemptsInv
    BY <1>1 DEF Init, AttemptsInv, SomeRecipient, EveryRecipient
  <1>4. WorkersInv
    BY DEF Init, WorkersInv, NoConcurrentSubmission, Submitting, IdleLocals, At
  <1> QED  BY <1>2, <1>3, <1>4 DEF SubmissionInv

\* A step that leaves the ledger alone keeps the invariant as long as no
\* worker enters a submission or forgets which one it is in.
LEMMA FrameLemma ==
    ASSUME SubmissionInv, UNCHANGED <<ledger, accepted>>,
           \A v \in Workers : Submitting(v)' =>
             /\ Submitting(v)
             /\ worker'[v].seq = worker[v].seq
             /\ worker'[v].n = worker[v].n
             /\ worker'[v].pc = "answered" => worker'[v].outcome \in Outcome,
           \A v \in Workers : worker'[v].pc = "answered" => Submitting(v)'
    PROVE  SubmissionInv'
  <1>1. PublicStatusAgrees'
    BY DEF SubmissionInv, PublicStatusAgrees, ledger
  <1>2. AttemptsInv'
    BY DEF SubmissionInv, AttemptsInv, ledger
  <1>3. WorkersInv'
    BY DEF SubmissionInv, WorkersInv, NoConcurrentSubmission, ledger
  <1> QED  BY <1>1, <1>2, <1>3 DEF SubmissionInv

\* A plan that leaves no recipient to submit, committed while no attempt is
\* open, keeps the invariant.
LEMMA SettledLemma ==
    ASSUME TypeOK, SubmissionInv, NEW rs \in [Recipients -> RecipientStatus],
           ~SomeRecipient(rs, {"queued", "sending"}),
           CommitLedgerPlan(rs),
           UNCHANGED <<latest, attempts, accepted>>,
           \A i \in DOMAIN attempts : attempts[i].status # "submitting",
           \A v \in Workers : Submitting(v)' => Submitting(v)
    PROVE  SubmissionInv'
  <1>1. ASSUME NEW v \in Workers, Submitting(v) PROVE FALSE
    <2>1. /\ worker[v].seq = Len(attempts)
          /\ worker[v].seq > 0
          /\ attempts[worker[v].seq].status = "submitting"
      BY <1>1 DEF SubmissionInv, WorkersInv
    <2>2. Len(attempts) \in Nat /\ DOMAIN attempts = 1..Len(attempts)
      BY DEF TypeOK
    <2> QED  BY <2>1, <2>2
  <1>2. updateEmailForRecipients(rs) \in FINAL_STATUSES
    BY DerivedStatusLemma
  <1>3. /\ email'.status = updateEmailForRecipients(rs)
        /\ message' = deriveDeliveryMessageStatus(rs)
        /\ rcpt' = rs
    BY DEF CommitLedgerPlan, TypeOK, EmailRecord
  <1>4. PublicStatusAgrees'
    BY <1>2, <1>3 DEF PublicStatusAgrees, Pending, FINAL_STATUSES
  <1>5. AttemptsInv'
    BY <1>3 DEF SubmissionInv, AttemptsInv, SomeRecipient, EveryRecipient, TypeOK
  <1>6. WorkersInv'
    BY <1>1 DEF SubmissionInv, WorkersInv, NoConcurrentSubmission, Submitting
  <1> QED  BY <1>4, <1>5, <1>6 DEF SubmissionInv

\* A cancellation or a suppression keeps the invariant.
LEMMA LocalStepLemma ==
    ASSUME TypeOK, SubmissionInv, NEW status \in {"canceled", "suppressed"},
           applyLocalDeliveryState(status), UNCHANGED accepted,
           \A v \in Workers : Submitting(v)' => Submitting(v)
    PROVE  SubmissionInv'
  <1>1. /\ planLocalRecipientState(rcpt, status) \in [Recipients -> RecipientStatus]
        /\ ~SomeRecipient(planLocalRecipientState(rcpt, status), {"queued", "sending"})
    BY LocalPlanLemma DEF TypeOK
  <1>2. \A i \in DOMAIN attempts : attempts[i].status # "submitting"
    BY DEF applyLocalDeliveryState, CanChangeLocally
  <1> QED  BY <1>1, <1>2, SettledLemma DEF applyLocalDeliveryState

\* The steps of processSend keep the submission invariant.
LEMMA SubmissionProcessSend ==
    ASSUME TypeOK, SubmissionInv, NEW w \in Workers, ProcessSend(w)
    PROVE  SubmissionInv'
  <1> USE DEF Submitting
  <1>t. /\ worker \in [Workers -> Locals]
        /\ worker[w] \in Locals
        /\ Len(attempts) \in Nat
        /\ DOMAIN attempts = 1..Len(attempts)
    BY DEF TypeOK
  <1>r. ASSUME Return(w) \/ Throw(w)
        PROVE  \A v \in Workers : /\ worker'[v].pc \in {"submitting", "answered"} =>
                                       worker'[v] = worker[v]
                                  /\ v # w => worker'[v] = worker[v]
    BY <1>r, <1>t DEF Return, Throw, At
  <1>1. CASE \E n \in ReceiveCounts : LoadEmail(w, n)
    <2>1. PICK n \in ReceiveCounts : LoadEmail(w, n)
      BY <1>1
    <2>2. \A v \in Workers : worker'[v].pc \in {"submitting", "answered"} =>
                               worker'[v] = worker[v]
      BY <2>1, <1>r, <1>t DEF LoadEmail, At
    <2> QED  BY <2>1, <2>2, FrameLemma DEF LoadEmail, SubmissionInv, WorkersInv
  <1>2. CASE FindSuppressed(w)
    <2>1. \A v \in Workers : worker'[v].pc \in {"submitting", "answered"} =>
                               worker'[v] = worker[v]
      BY <1>2, <1>t DEF FindSuppressed, Goto, Locals
    <2> QED  BY <1>2, <2>1, FrameLemma DEF FindSuppressed, SubmissionInv, WorkersInv
  <1>3. CASE SuppressEmail(w)
    <2>1. \A v \in Workers : worker'[v].pc \in {"submitting", "answered"} =>
                               worker'[v] = worker[v]
      BY <1>3, <1>r DEF SuppressEmail
    <2>2. CASE applyLocalDeliveryState("suppressed")
      BY <1>3, <2>1, <2>2, LocalStepLemma DEF SuppressEmail
    <2>3. CASE UNCHANGED ledger
      BY <1>3, <2>1, <2>3, FrameLemma DEF SuppressEmail, SubmissionInv, WorkersInv
    <2> QED  BY <1>3, <2>2, <2>3 DEF SuppressEmail
  <1>4. CASE ClaimEmailForSend(w)
    <2>1. CASE Claimable
      <3>1. email'.status = "sending"
        BY <1>4, <2>1 DEF ClaimEmailForSend, TypeOK, EmailRecord
      <3>2. \A v \in Workers : worker'[v].pc \in {"submitting", "answered"} =>
                                 worker'[v] = worker[v]
        BY <1>4, <2>1, <1>t DEF ClaimEmailForSend, Locals
      <3>3. email.status \in Pending \/ email.status = "sending"
        BY <2>1 DEF Claimable, LeaseExpired
      <3>4. PublicStatusAgrees'
        BY <1>4, <3>1, <3>3
           DEF ClaimEmailForSend, SubmissionInv, PublicStatusAgrees, Pending,
               FINAL_STATUSES
      <3>5. AttemptsInv'
        BY <1>4 DEF ClaimEmailForSend, SubmissionInv, AttemptsInv
      <3>6. WorkersInv'
        BY <1>4, <3>2 DEF ClaimEmailForSend, SubmissionInv, WorkersInv,
                          NoConcurrentSubmission
      <3> QED  BY <3>4, <3>5, <3>6 DEF SubmissionInv
    <2>2. CASE ~Claimable
      BY <1>4, <2>2, <1>r, FrameLemma
         DEF ClaimEmailForSend, ledger, SubmissionInv, WorkersInv
    <2> QED  BY <2>1, <2>2
  <1>5. CASE ReadLedger(w)
    <2>1. \A v \in Workers : worker'[v].pc \in {"submitting", "answered"} =>
                               worker'[v] = worker[v]
      BY <1>5, <1>t DEF ReadLedger, Locals
    <2> QED  BY <1>5, <2>1, FrameLemma DEF ReadLedger, SubmissionInv, WorkersInv
  <1>6. CASE BeginDeliveryAttempt(w)
    <2> DEFINE k == Len(attempts)
    <2>1. CASE CanBegin(worker[w].seq)
      <3>1. /\ attempts' = Append(attempts, [status |-> "submitting",
                                             claim |-> worker[w].n])
            /\ rcpt' = [r \in Recipients |-> "sending"]
            /\ latest' = [r \in Recipients |-> worker[w].seq]
            /\ email' = [email EXCEPT !.status = "sending"]
            /\ worker' = [worker EXCEPT ![w] = [worker[w] EXCEPT !.pc = "submitting"]]
            /\ accepted' = accepted
        BY <1>6, <2>1 DEF BeginDeliveryAttempt, Goto
      <3>2. worker[w].seq = k + 1 /\ EveryRecipient(rcpt, {"queued"})
        BY <2>1 DEF CanBegin, CanStartAttempt
      <3>3. /\ Len(attempts') = k + 1
            /\ attempts'[k + 1].status = "submitting"
            /\ attempts'[k + 1].claim = worker[w].n
            /\ \A i \in 1..k : attempts'[i] = attempts[i]
        BY <3>1, <1>t DEF TypeOK
      <3>4. \A i \in 1..k : attempts[i].status = "retryable_failed"
        <4>1. SomeRecipient(rcpt, {"queued"})
          BY <3>2, RecipientsAssumption DEF SomeRecipient, EveryRecipient
        <4> QED  BY <4>1, <1>t DEF SubmissionInv, AttemptsInv
      <3>5. \A v \in Workers : ~Submitting(v)
        BY <3>4, <1>t DEF SubmissionInv, WorkersInv
      <3>6. PublicStatusAgrees'
        <4>1. email'.status = "sending"
          BY <3>1 DEF TypeOK, EmailRecord
        <4> QED  BY <3>1, <4>1 DEF PublicStatusAgrees, Pending, FINAL_STATUSES,
                                   EveryRecipient
      <3>7. AttemptsInv'
        <4>1. \A i \in 1..(k + 1) : i < k + 1 => attempts'[i].status = "retryable_failed"
          BY <3>3, <3>4, <1>t
        <4>2. EveryRecipient(rcpt', {"sending"}) /\ ~SomeRecipient(rcpt', {"queued"})
          BY <3>1 DEF EveryRecipient, SomeRecipient
        <4>3. \A r \in Recipients : latest'[r] = k + 1
          BY <3>1, <3>2
        <4> QED  BY <3>3, <4>1, <4>2, <4>3, <1>t DEF AttemptsInv
      <3>8. WorkersInv'
        <4>1. /\ worker'[w].pc = "submitting"
              /\ worker'[w].seq = k + 1
              /\ worker'[w].n = worker[w].n
              /\ \A v \in Workers : v # w => worker'[v] = worker[v]
          BY <3>1, <3>2, <1>t DEF Locals
        <4>2. accepted' \subseteq 1..(k + 1)
          BY <3>1, <1>t DEF SubmissionInv, WorkersInv
        <4> QED  BY <3>3, <3>5, <4>1, <4>2, <1>t DEF WorkersInv, NoConcurrentSubmission
      <3> QED  BY <3>6, <3>7, <3>8 DEF SubmissionInv
    <2>2. CASE ~CanBegin(worker[w].seq)
      BY <1>6, <2>2, <1>r, FrameLemma
         DEF BeginDeliveryAttempt, SubmissionInv, WorkersInv
    <2> QED  BY <2>1, <2>2
  <1>7. CASE \E outcome \in Outcome : Submit(w, outcome)
    <2>1. PICK outcome \in Outcome : Submit(w, outcome)
      BY <1>7
    <2>2. /\ worker'[w].pc = "answered"
          /\ worker'[w].seq = worker[w].seq
          /\ worker'[w].n = worker[w].n
          /\ worker'[w].outcome = outcome
          /\ \A v \in Workers : v # w => worker'[v] = worker[v]
      BY <2>1, <1>t DEF Submit, Locals
    <2>3. worker[w].seq = Len(attempts) /\ worker[w].seq > 0
      BY <2>1 DEF Submit, SubmissionInv, WorkersInv
    <2>4. accepted' \subseteq 1..Len(attempts)
      BY <2>1, <2>3, <1>t DEF Submit, SubmissionInv, WorkersInv
    <2>5. PublicStatusAgrees' /\ AttemptsInv'
      BY <2>1 DEF Submit, ledger, SubmissionInv, PublicStatusAgrees, AttemptsInv
    <2>6. WorkersInv'
      <3>1. attempts' = attempts /\ worker[w].pc = "submitting"
        BY <2>1 DEF Submit, ledger
      <3>2. \A v \in Workers : Submitting(v)' => Submitting(v)
        BY <2>2, <3>1
      <3>3. \A v \in Workers : worker'[v].seq = worker[v].seq /\ worker'[v].n = worker[v].n
        BY <2>2
      <3>4. \A v \in Workers :
              worker'[v].pc = "answered" => worker'[v].outcome \in Outcome
        BY <2>2 DEF SubmissionInv, WorkersInv
      <3> QED  BY <2>4, <3>1, <3>2, <3>3, <3>4
                  DEF SubmissionInv, WorkersInv, NoConcurrentSubmission
    <2> QED  BY <2>5, <2>6 DEF SubmissionInv
  <1>8. CASE CompleteDeliveryAttempt(w)
    <2> DEFINE k      == Len(attempts)
               status == CompletionStatus(worker[w].n, worker[w].outcome)
               rs     == [r \in Recipients |->
                            completedRecipientStatus(status,
                                worker[w].outcome = "rejected")]
    <2>1. /\ worker[w].seq = k
          /\ k > 0
          /\ attempts[k].status = "submitting"
          /\ \A v \in Workers : Submitting(v) => v = w
      BY <1>8 DEF CompleteDeliveryAttempt, SubmissionInv, WorkersInv,
                  NoConcurrentSubmission
    <2>2. /\ worker'[w].pc \notin {"submitting", "answered"}
          /\ \A v \in Workers : v # w => worker'[v] = worker[v]
      BY <1>8, <1>t DEF CompleteDeliveryAttempt, Return, Throw, At
    <2>3. CASE CanCompleteAttempt(attempts[worker[w].seq], worker[w].seq, rcpt, latest)
      <3>1. /\ attempts' = [attempts EXCEPT ![k].status = status]
            /\ CommitLedgerPlan(rs)
            /\ latest' = latest
            /\ accepted' = accepted
        BY <1>8, <2>1, <2>3 DEF CompleteDeliveryAttempt
      <3>2. status \in {"accepted", "permanent_failed", "retryable_failed"}
        BY DEF CompletionStatus
      <3>3. /\ Len(attempts') = k
            /\ attempts'[k].status = status
            /\ \A i \in 1..k : i # k => attempts'[i] = attempts[i]
        BY <2>1, <3>1, <3>2, <1>t, AttemptUpdateLemma DEF TypeOK, AttemptStatus
      <3>4. rs \in [Recipients -> RecipientStatus]
        BY DEF completedRecipientStatus, RecipientStatus
      <3>5. /\ email'.status = updateEmailForRecipients(rs)
            /\ message' = deriveDeliveryMessageStatus(rs)
            /\ rcpt' = rs
        BY <3>1 DEF CommitLedgerPlan, TypeOK, EmailRecord
      <3>6. \/ /\ status = "retryable_failed"
               /\ EveryRecipient(rs, {"queued"})
               /\ ~SomeRecipient(rs, {"sending"})
            \/ /\ status # "retryable_failed"
               /\ ~SomeRecipient(rs, {"queued", "sending"})
        BY <3>2 DEF completedRecipientStatus, EveryRecipient, SomeRecipient
      <3> HIDE DEF rs, status
      <3>7. PublicStatusAgrees'
        <4>1. CASE EveryRecipient(rs, {"queued"})
          <5>1. email'.status = "queued"
            BY <3>4, <3>5, <4>1, DerivedStatusLemma
          <5> QED  BY <3>5, <4>1, <5>1
                      DEF PublicStatusAgrees, Pending, FINAL_STATUSES
        <4>2. CASE ~SomeRecipient(rs, {"queued", "sending"})
          <5>1. email'.status \in FINAL_STATUSES
            BY <3>4, <3>5, <4>2, DerivedStatusLemma
          <5> QED  BY <3>5, <4>2, <5>1
                      DEF PublicStatusAgrees, Pending, FINAL_STATUSES
        <4> QED  BY <3>6, <4>1, <4>2
      <3>8. AttemptsInv'
        <4>1. \A i \in 1..k : i < k => attempts'[i].status = "retryable_failed"
          BY <3>3, <1>t DEF SubmissionInv, AttemptsInv
        <4>2. \A r \in Recipients : latest'[r] = k
          BY <3>1 DEF SubmissionInv, AttemptsInv
        <4>3. status # "submitting"
          BY <3>2
        <4>4. /\ SomeRecipient(rcpt', {"queued"}) =>
                   EveryRecipient(rcpt', {"queued"}) /\ status = "retryable_failed"
              /\ ~SomeRecipient(rcpt', {"sending"})
          BY <3>5, <3>6 DEF SomeRecipient
        <4> QED  BY <3>3, <4>1, <4>2, <4>3, <4>4 DEF AttemptsInv
      <3>9. WorkersInv'
        BY <2>1, <2>2, <3>1, <3>3 DEF SubmissionInv, WorkersInv,
                                      NoConcurrentSubmission
      <3> QED  BY <3>7, <3>8, <3>9 DEF SubmissionInv
    <2>4. CASE ~CanCompleteAttempt(attempts[worker[w].seq], worker[w].seq, rcpt, latest)
      BY <1>8, <2>2, <2>4, FrameLemma
         DEF CompleteDeliveryAttempt, SubmissionInv, WorkersInv
    <2> QED  BY <2>3, <2>4
  <1>9. CASE Finish(w)
    <2>1. \A v \in Workers : worker'[v].pc \in {"submitting", "answered"} =>
                               worker'[v] = worker[v]
      BY <1>9, <1>t DEF Finish, IdleLocals, At
    <2> QED  BY <1>9, <2>1, FrameLemma DEF Finish, SubmissionInv, WorkersInv
  <1> QED
    BY <1>1, <1>2, <1>3, <1>4, <1>5, <1>6, <1>7, <1>8, <1>9 DEF ProcessSend

\* So do the other steps.
LEMMA SubmissionRest ==
    ASSUME TypeOK, SubmissionInv,
           \/ \E w \in Workers : Crash(w)
           \/ \E c \in Clients : Api(c)
           \/ \E r \in Recipients : PutSuppression(r) \/ DeleteSuppression(r)
           \/ \E id \in EventIds, type \in ProviderEventType,
                 targets \in SUBSET Recipients :
                   ApplyProviderEvent(id, type, targets)
           \/ Tick
    PROVE  SubmissionInv'
  <1>w. ASSUME UNCHANGED <<ledger, worker, accepted>> PROVE SubmissionInv'
    BY <1>w, FrameLemma DEF SubmissionInv, WorkersInv, Submitting
  <1>1. ASSUME NEW w \in Workers, Crash(w) PROVE SubmissionInv'
    <2>1. \A v \in Workers : worker'[v].pc \in {"submitting", "answered"} =>
                               worker'[v] = worker[v]
      BY <1>1 DEF Crash, IdleLocals, At, TypeOK
    <2> QED
      BY <1>1, <2>1, FrameLemma DEF Crash, SubmissionInv, WorkersInv, Submitting
  <1>2. ASSUME NEW c \in Clients, CancelRead(c) PROVE SubmissionInv'
    BY <1>2, <1>w DEF CancelRead
  <1>3. ASSUME NEW c \in Clients, CancelApply(c) PROVE SubmissionInv'
    <2>1. CASE applyLocalDeliveryState("canceled")
      BY <1>3, <2>1, LocalStepLemma DEF CancelApply, Submitting
    <2>2. CASE UNCHANGED ledger
      BY <1>3, <2>2, <1>w DEF CancelApply
    <2> QED  BY <1>3, <2>1, <2>2 DEF CancelApply
  <1>4. ASSUME NEW c \in Clients, NEW at \in 1..MaxNow, RescheduleRead(c, at)
        PROVE  SubmissionInv'
    BY <1>4, <1>w DEF RescheduleRead
  <1>5. ASSUME NEW c \in Clients, NEW b \in BOOLEAN, RescheduleApply(c, b)
        PROVE  SubmissionInv'
    <2>1. CASE email.status \in Pending
      <3>1. email'.status = "scheduled"
        BY <1>5, <2>1 DEF RescheduleApply, TypeOK, EmailRecord
      <3>2. PublicStatusAgrees'
        BY <1>5, <2>1, <3>1 DEF RescheduleApply, SubmissionInv,
                                PublicStatusAgrees, Pending, FINAL_STATUSES
      <3>3. AttemptsInv'
        BY <1>5 DEF RescheduleApply, SubmissionInv, AttemptsInv
      <3>4. WorkersInv'
        BY <1>5 DEF RescheduleApply, SubmissionInv, WorkersInv,
                    NoConcurrentSubmission, Submitting
      <3> QED  BY <3>2, <3>3, <3>4 DEF SubmissionInv
    <2>2. CASE email.status \notin Pending
      BY <1>5, <2>2, <1>w DEF RescheduleApply, ledger
    <2> QED  BY <2>1, <2>2
  <1>6. ASSUME NEW r \in Recipients, PutSuppression(r) \/ DeleteSuppression(r)
        PROVE  SubmissionInv'
    BY <1>6, <1>w DEF PutSuppression, DeleteSuppression
  <1>7. ASSUME NEW id \in EventIds, NEW type \in ProviderEventType,
               NEW targets \in SUBSET Recipients,
               ApplyProviderEvent(id, type, targets)
        PROVE  SubmissionInv'
    <2> DEFINE k  == Len(attempts)
               rs == planProviderEvent(rcpt, type, targets)
    <2>1. PICK i \in DOMAIN attempts : attempts[i].status = "accepted"
      BY <1>7 DEF ApplyProviderEvent
    <2>2. k \in Nat /\ DOMAIN attempts = 1..k
      BY DEF TypeOK
    <2>3. i = k
      BY <2>1, <2>2 DEF SubmissionInv, AttemptsInv
    <2>4. ~SomeRecipient(rcpt, {"queued", "sending"})
      <3>1. ~SomeRecipient(rcpt, {"queued"}) /\ ~SomeRecipient(rcpt, {"sending"})
        BY <2>1, <2>2, <2>3 DEF SubmissionInv, AttemptsInv
      <3> QED  BY <3>1 DEF SomeRecipient
    <2>5. rs \in [Recipients -> RecipientStatus]
          /\ ~SomeRecipient(rs, {"queued", "sending"})
      BY <2>4, EventPlanLemma DEF TypeOK
    <2>6. \A j \in DOMAIN attempts : attempts[j].status # "submitting"
      BY <2>1, <2>2, <2>3 DEF SubmissionInv, AttemptsInv
    <2>7. /\ CommitLedgerPlan(rs)
          /\ UNCHANGED <<latest, attempts, accepted, worker>>
      BY <1>7 DEF ApplyProviderEvent
    <2> HIDE DEF rs
    <2> QED  BY <2>5, <2>6, <2>7, SettledLemma DEF Submitting
  <1>8. ASSUME Tick PROVE SubmissionInv'
    BY <1>8, <1>w DEF Tick
  <1> QED
    BY <1>1, <1>2, <1>3, <1>4, <1>5, <1>6, <1>7, <1>8 DEF Api

-----------------------------------------------------------------------------
(* What a step may never do.                                                *)

\* A final e-mail has no recipient left to submit, no open attempt and no
\* worker inside a submission.
LEMMA FinalLemma ==
    ASSUME TypeOK, SubmissionInv, email.status \in FINAL_STATUSES
    PROVE  /\ ~SomeRecipient(rcpt, {"queued", "sending"})
           /\ ~EveryRecipient(rcpt, {"queued"})
           /\ \A w \in Workers : ~Submitting(w)
  <1>1. ~SomeRecipient(rcpt, {"queued", "sending"})
    BY DEF SubmissionInv, PublicStatusAgrees
  <1>2. ~EveryRecipient(rcpt, {"queued"}) /\ ~EveryRecipient(rcpt, {"sending"})
    BY <1>1, RecipientsAssumption DEF SomeRecipient, EveryRecipient
  <1>3. ASSUME NEW w \in Workers, Submitting(w) PROVE FALSE
    <2>1. Len(attempts) > 0 /\ attempts[Len(attempts)].status = "submitting"
      BY <1>3 DEF SubmissionInv, WorkersInv
    <2> QED  BY <1>2, <2>1 DEF SubmissionInv, AttemptsInv
  <1> QED  BY <1>1, <1>2, <1>3

\* Committing a plan that leaves no recipient to submit leaves the e-mail
\* final.
LEMMA FinalCommitLemma ==
    ASSUME TypeOK, NEW rs \in [Recipients -> RecipientStatus],
           ~SomeRecipient(rs, {"queued", "sending"}), CommitLedgerPlan(rs)
    PROVE  email'.status \in FINAL_STATUSES
  <1>1. updateEmailForRecipients(rs) \in FINAL_STATUSES
    BY DerivedStatusLemma
  <1> QED  BY <1>1 DEF CommitLedgerPlan, TypeOK, EmailRecord

\* No step reopens a final e-mail, begins an attempt of it or submits it.
LEMMA FinalStep ==
    ASSUME TypeOK, SubmissionInv, [Next]_vars, email.status \in FINAL_STATUSES
    PROVE  /\ email'.status \in FINAL_STATUSES
           /\ attempts' = attempts
           /\ accepted' = accepted
  <1> DEFINE Kept == /\ email'.status \in FINAL_STATUSES
                     /\ attempts' = attempts
                     /\ accepted' = accepted
  <1>f. /\ ~EveryRecipient(rcpt, {"queued"})
        /\ \A w \in Workers : ~Submitting(w)
    BY FinalLemma
  <1>u. ASSUME UNCHANGED <<ledger, accepted>> PROVE Kept
    BY <1>u DEF ledger
  <1>l. ASSUME NEW status \in {"canceled", "suppressed"},
               applyLocalDeliveryState(status), UNCHANGED accepted
        PROVE  Kept
    BY <1>l, LocalPlanLemma, FinalCommitLemma DEF applyLocalDeliveryState, TypeOK
  <1>1. ASSUME NEW w \in Workers, ProcessSend(w) \/ Crash(w) PROVE Kept
    <2>1. CASE \E n \in ReceiveCounts : LoadEmail(w, n)
      BY <2>1, <1>u DEF LoadEmail
    <2>2. CASE FindSuppressed(w) \/ ReadLedger(w) \/ Finish(w) \/ Crash(w)
      BY <2>2, <1>u DEF FindSuppressed, ReadLedger, Finish, Crash
    <2>3. CASE SuppressEmail(w)
      BY <2>3, <1>u, <1>l DEF SuppressEmail
    <2>4. CASE ClaimEmailForSend(w)
      <3>1. ~Claimable
        BY DEF Claimable, LeaseExpired, Pending, FINAL_STATUSES
      <3> QED  BY <2>4, <3>1 DEF ClaimEmailForSend
    <2>5. CASE BeginDeliveryAttempt(w)
      <3>1. ~CanBegin(worker[w].seq)
        BY <1>f DEF CanBegin, CanStartAttempt
      <3> QED  BY <2>5, <3>1, <1>u DEF BeginDeliveryAttempt
    <2>6. CASE (\E outcome \in Outcome : Submit(w, outcome)) \/ CompleteDeliveryAttempt(w)
      BY <2>6, <1>f DEF Submit, CompleteDeliveryAttempt, Submitting
    <2> QED  BY <1>1, <2>1, <2>2, <2>3, <2>4, <2>5, <2>6 DEF ProcessSend
  <1>2. ASSUME NEW c \in Clients, Api(c) PROVE Kept
    <2>1. CASE CancelRead(c) \/ \E at \in 1..MaxNow : RescheduleRead(c, at)
      BY <2>1, <1>u DEF CancelRead, RescheduleRead
    <2>2. CASE CancelApply(c)
      BY <2>2, <1>u, <1>l DEF CancelApply
    <2>3. CASE \E b \in BOOLEAN : RescheduleApply(c, b)
      BY <2>3 DEF RescheduleApply, Pending, FINAL_STATUSES
    <2> QED  BY <1>2, <2>1, <2>2, <2>3 DEF Api
  <1>3. ASSUME NEW r \in Recipients, PutSuppression(r) \/ DeleteSuppression(r)
        PROVE  Kept
    BY <1>3, <1>u DEF PutSuppression, DeleteSuppression
  <1>4. ASSUME NEW id \in EventIds, NEW type \in ProviderEventType,
               NEW targets \in SUBSET Recipients,
               ApplyProviderEvent(id, type, targets)
        PROVE  Kept
    <2> DEFINE rs == planProviderEvent(rcpt, type, targets)
    <2>1. rs \in [Recipients -> RecipientStatus]
          /\ ~SomeRecipient(rs, {"queued", "sending"})
      BY FinalLemma, EventPlanLemma DEF TypeOK
    <2>2. /\ CommitLedgerPlan(rs)
          /\ UNCHANGED <<attempts, accepted>>
      BY <1>4 DEF ApplyProviderEvent
    <2> HIDE DEF rs
    <2> QED  BY <2>1, <2>2, FinalCommitLemma
  <1>5. CASE Tick \/ UNCHANGED vars
    BY <1>5, <1>u DEF Tick, vars
  <1> QED  BY <1>1, <1>2, <1>3, <1>4, <1>5 DEF Next

\* No provider event moves a recipient off a complaint or a suppression.
LEMMA StickyTransitionLemma ==
    ASSUME NEW current \in {"complained", "suppressed"},
           NEW e \in ProviderEventType
    PROVE  transitionRecipientStatus(current, e) = current
  BY DEF transitionRecipientStatus

\* Nor does any other step.
LEMMA StickyStep ==
    ASSUME TypeOK, SubmissionInv, [Next]_vars, NEW r \in Recipients,
           rcpt[r] \in {"complained", "suppressed"}
    PROVE  rcpt'[r] = rcpt[r]
  <1>q. ~EveryRecipient(rcpt, {"queued"}) /\ ~EveryRecipient(rcpt, {"sending"})
    BY DEF EveryRecipient
  <1>u. ASSUME UNCHANGED ledger PROVE rcpt'[r] = rcpt[r]
    BY <1>u DEF ledger
  <1>l. ASSUME NEW status, applyLocalDeliveryState(status)
        PROVE  rcpt'[r] = rcpt[r]
    BY <1>l DEF applyLocalDeliveryState, CommitLedgerPlan, planLocalRecipientState
  <1>1. ASSUME NEW w \in Workers, ProcessSend(w) \/ Crash(w)
        PROVE  rcpt'[r] = rcpt[r]
    <2>1. CASE \/ \E n \in ReceiveCounts : LoadEmail(w, n)
               \/ \E outcome \in Outcome : Submit(w, outcome)
      BY <2>1, <1>u DEF LoadEmail, Submit
    <2>2. CASE FindSuppressed(w) \/ ReadLedger(w) \/ Finish(w) \/ Crash(w)
      BY <2>2, <1>u DEF FindSuppressed, ReadLedger, Finish, Crash
    <2>3. CASE SuppressEmail(w)
      BY <2>3, <1>u, <1>l DEF SuppressEmail
    <2>4. CASE ClaimEmailForSend(w)
      BY <2>4 DEF ClaimEmailForSend
    <2>5. CASE BeginDeliveryAttempt(w)
      <3>1. ~CanBegin(worker[w].seq)
        BY <1>q DEF CanBegin, CanStartAttempt
      <3> QED  BY <2>5, <3>1, <1>u DEF BeginDeliveryAttempt
    <2>6. CASE CompleteDeliveryAttempt(w)
      <3>1. ~CanCompleteAttempt(attempts[worker[w].seq], worker[w].seq, rcpt, latest)
        BY DEF CanCompleteAttempt
      <3> QED  BY <2>6, <3>1, <1>u DEF CompleteDeliveryAttempt
    <2> QED  BY <1>1, <2>1, <2>2, <2>3, <2>4, <2>5, <2>6 DEF ProcessSend
  <1>2. ASSUME NEW c \in Clients, Api(c) PROVE rcpt'[r] = rcpt[r]
    <2>1. CASE CancelRead(c) \/ \E at \in 1..MaxNow : RescheduleRead(c, at)
      BY <2>1, <1>u DEF CancelRead, RescheduleRead
    <2>2. CASE CancelApply(c)
      BY <2>2, <1>u, <1>l DEF CancelApply
    <2>3. CASE \E b \in BOOLEAN : RescheduleApply(c, b)
      BY <2>3 DEF RescheduleApply
    <2> QED  BY <1>2, <2>1, <2>2, <2>3 DEF Api
  <1>3. ASSUME NEW q \in Recipients, PutSuppression(q) \/ DeleteSuppression(q)
        PROVE  rcpt'[r] = rcpt[r]
    BY <1>3, <1>u DEF PutSuppression, DeleteSuppression
  <1>4. ASSUME NEW id \in EventIds, NEW type \in ProviderEventType,
               NEW targets \in SUBSET Recipients,
               ApplyProviderEvent(id, type, targets)
        PROVE  rcpt'[r] = rcpt[r]
    <2>1. rcpt' = planProviderEvent(rcpt, type, targets)
      BY <1>4 DEF ApplyProviderEvent, CommitLedgerPlan
    <2> QED  BY <2>1, StickyTransitionLemma DEF planProviderEvent
  <1>5. CASE Tick \/ UNCHANGED vars
    BY <1>5, <1>u DEF Tick, vars
  <1> QED  BY <1>1, <1>2, <1>3, <1>4, <1>5 DEF Next

-----------------------------------------------------------------------------
(* The number of attempts, where every claim is counted.                    *)

\* A step that leaves the counts and the attempts alone keeps the claims
\* apart, as long as no worker enters a claim or forgets its count.
LEMMA ClaimsFrameLemma ==
    ASSUME ClaimsInv, attempts' = attempts, email'.attempts = email.attempts,
           \A v \in Workers :
             /\ Claimed(v)' => Claimed(v) /\ worker'[v].n = worker[v].n
             /\ worker'[v].pc \in {"claimed", "ledgered"} =>
                  worker[v].pc \in {"claimed", "ledgered"}
    PROVE  ClaimsInv'
  <1>1. \A v \in Workers : worker'[v].pc \in {"claimed", "ledgered"} => Claimed(v)'
    BY DEF Claimed
  <1> QED  BY <1>1 DEF ClaimsInv

\* The steps of processSend keep the claims apart.
LEMMA ClaimsProcessSend ==
    ASSUME TypeOK, SubmissionInv, ClaimsInv, ClaimRule = "increment",
           NEW w \in Workers, ProcessSend(w)
    PROVE  ClaimsInv'
  <1> DEFINE k == Len(attempts)
  <1>t. /\ worker \in [Workers -> Locals]
        /\ worker[w] \in Locals
        /\ worker[w].n \in Nat
        /\ email.attempts \in Nat
        /\ k \in Nat
        /\ DOMAIN attempts = 1..k
    BY DEF TypeOK, Locals, EmailRecord
  <1>f. ASSUME attempts' = attempts, email'.attempts = email.attempts,
               worker'[w].pc \notin {"claimed", "ledgered", "submitting", "answered"},
               \A v \in Workers : v # w => worker'[v] = worker[v]
        PROVE  ClaimsInv'
    BY <1>f, ClaimsFrameLemma DEF Claimed, Submitting
  <1>r. ASSUME Return(w) \/ Throw(w)
        PROVE  /\ worker'[w].pc \notin {"claimed", "ledgered", "submitting", "answered"}
               /\ \A v \in Workers : v # w => worker'[v] = worker[v]
    BY <1>r, <1>t DEF Return, Throw, At
  <1>1. CASE \E n \in ReceiveCounts : LoadEmail(w, n)
    <2>1. PICK n \in ReceiveCounts : LoadEmail(w, n)
      BY <1>1
    <2>2. /\ worker'[w].pc \notin {"claimed", "ledgered", "submitting", "answered"}
          /\ \A v \in Workers : v # w => worker'[v] = worker[v]
      BY <2>1, <1>r, <1>t DEF LoadEmail, At
    <2> QED  BY <2>1, <2>2, <1>f DEF LoadEmail, ledger
  <1>2. CASE FindSuppressed(w)
    <2>1. /\ worker'[w].pc \notin {"claimed", "ledgered", "submitting", "answered"}
          /\ \A v \in Workers : v # w => worker'[v] = worker[v]
      BY <1>2, <1>t DEF FindSuppressed, Goto, Locals
    <2> QED  BY <1>2, <2>1, <1>f DEF FindSuppressed, ledger
  <1>3. CASE SuppressEmail(w)
    <2>1. attempts' = attempts /\ email'.attempts = email.attempts
      BY <1>3 DEF SuppressEmail, applyLocalDeliveryState, CommitLedgerPlan,
                  ledger, TypeOK, EmailRecord
    <2> QED  BY <1>3, <2>1, <1>r, <1>f DEF SuppressEmail
  <1>4. CASE ClaimEmailForSend(w)
    <2> DEFINE c == ClaimCount(worker[w].n)
    <2>1. CASE Claimable
      <3>1. c \in Nat /\ c > email.attempts
        BY <1>t DEF ClaimCount
      <3>2. /\ email'.attempts = c
            /\ attempts' = attempts
        BY <1>4, <2>1 DEF ClaimEmailForSend, TypeOK, EmailRecord
      <3>3. /\ worker'[w].pc = "claimed"
            /\ worker'[w].n = c
            /\ \A v \in Workers : v # w => worker'[v] = worker[v]
        BY <1>4, <2>1, <1>t DEF ClaimEmailForSend, Locals
      <3> HIDE DEF c
      <3>4. \A v \in Workers : v # w =>
              /\ Claimed(v)' <=> Claimed(v)
              /\ worker'[v].n = worker[v].n
        BY <3>3 DEF Claimed, Submitting
      <3>5. Claimed(w)'
        BY <3>3 DEF Claimed
      <3>6. \A v \in Workers : Claimed(v)' => worker'[v].n \in 1..email'.attempts
        BY <3>1, <3>2, <3>3, <3>4, <1>t DEF ClaimsInv
      <3>7. \A u, v \in Workers :
              Claimed(u)' /\ Claimed(v)' /\ worker'[u].n = worker'[v].n => u = v
        <4>1. \A v \in Workers : v # w /\ Claimed(v)' => worker'[v].n < c
          BY <3>1, <3>4, <1>t DEF ClaimsInv
        <4> QED  BY <3>1, <3>3, <3>4, <4>1 DEF ClaimsInv
      <3>8. \A i \in 1..k : attempts[i].claim \in 1..email'.attempts
                            /\ attempts[i].claim < c
        BY <3>1, <3>2, <1>t DEF ClaimsInv
      <3>9. \A v \in Workers : worker'[v].pc \in {"claimed", "ledgered"} =>
              \A i \in 1..k : attempts[i].claim # worker'[v].n
        BY <3>1, <3>3, <3>8, <1>t DEF ClaimsInv
      <3> QED  BY <3>2, <3>6, <3>7, <3>8, <3>9 DEF ClaimsInv
    <2>2. CASE ~Claimable
      BY <1>4, <2>2, <1>r, <1>f DEF ClaimEmailForSend
    <2> QED  BY <2>1, <2>2
  <1>5. CASE ReadLedger(w)
    <2>1. /\ worker'[w].pc = "ledgered"
          /\ worker'[w].n = worker[w].n
          /\ \A v \in Workers : v # w => worker'[v] = worker[v]
      BY <1>5, <1>t DEF ReadLedger, Locals
    <2> QED  BY <1>5, <2>1, ClaimsFrameLemma
                DEF ReadLedger, ledger, Claimed, Submitting
  <1>6. CASE BeginDeliveryAttempt(w)
    <2>1. CASE CanBegin(worker[w].seq)
      <3>1. /\ attempts' = Append(attempts, [status |-> "submitting",
                                             claim |-> worker[w].n])
            /\ email' = [email EXCEPT !.status = "sending"]
            /\ worker' = [worker EXCEPT ![w] = [worker[w] EXCEPT !.pc = "submitting"]]
        BY <1>6, <2>1 DEF BeginDeliveryAttempt, Goto
      <3>2. email'.attempts = email.attempts
        BY <3>1 DEF TypeOK, EmailRecord
      <3>3. /\ Len(attempts') = k + 1
            /\ attempts'[k + 1].status = "submitting"
            /\ attempts'[k + 1].claim = worker[w].n
            /\ \A i \in 1..k : attempts'[i] = attempts[i]
        BY <3>1, <1>t DEF TypeOK
      <3>4. /\ worker'[w].pc = "submitting"
            /\ worker'[w].n = worker[w].n
            /\ \A v \in Workers : v # w => worker'[v] = worker[v]
        BY <3>1, <1>t DEF Locals
      <3>5. /\ Claimed(w)
            /\ worker[w].pc = "ledgered"
            /\ \A v \in Workers : /\ Claimed(v)' <=> Claimed(v)
                                  /\ worker'[v].n = worker[v].n
        BY <1>6, <3>4 DEF BeginDeliveryAttempt, Claimed, Submitting
      <3>6. \A i \in 1..(k + 1) : i = k + 1 \/ i \in 1..k
        BY <1>t
      <3>7. \A i \in 1..(k + 1) : attempts'[i].claim \in 1..email'.attempts
        BY <3>2, <3>3, <3>5, <3>6 DEF ClaimsInv
      <3>8. \A i, j \in 1..(k + 1) : attempts'[i].claim = attempts'[j].claim => i = j
        <4>1. \A i \in 1..k : attempts[i].claim # worker[w].n
          BY <3>5 DEF ClaimsInv
        <4> QED  BY <3>3, <3>6, <4>1 DEF ClaimsInv
      <3>9. \A i \in 1..(k + 1) :
              attempts'[i].status = "retryable_failed" => attempts'[i].claim < MaxSends
        BY <3>3, <3>6 DEF ClaimsInv
      <3>10. ASSUME NEW v \in Workers, worker'[v].pc \in {"claimed", "ledgered"},
                    NEW i \in 1..(k + 1)
             PROVE  attempts'[i].claim # worker'[v].n
        <4>1. v # w /\ worker[v].pc \in {"claimed", "ledgered"} /\ Claimed(v)
          BY <3>4, <3>10 DEF Claimed
        <4>2. worker[v].n # worker[w].n
          BY <3>5, <4>1 DEF ClaimsInv
        <4> QED  BY <3>3, <3>5, <3>6, <4>1, <4>2 DEF ClaimsInv
      <3> QED
        BY <3>2, <3>3, <3>5, <3>7, <3>8, <3>9, <3>10 DEF ClaimsInv
    <2>2. CASE ~CanBegin(worker[w].seq)
      BY <1>6, <2>2, <1>r, <1>f DEF BeginDeliveryAttempt, ledger
    <2> QED  BY <2>1, <2>2
  <1>7. CASE \E outcome \in Outcome : Submit(w, outcome)
    <2>1. PICK outcome \in Outcome : Submit(w, outcome)
      BY <1>7
    <2>2. /\ worker[w].pc = "submitting"
          /\ worker'[w].pc = "answered"
          /\ worker'[w].n = worker[w].n
          /\ \A v \in Workers : v # w => worker'[v] = worker[v]
      BY <2>1, <1>t DEF Submit, Locals
    <2> QED  BY <2>1, <2>2, ClaimsFrameLemma DEF Submit, ledger, Claimed, Submitting
  <1>8. CASE CompleteDeliveryAttempt(w)
    <2> DEFINE status == CompletionStatus(worker[w].n, worker[w].outcome)
    <2>1. /\ worker[w].seq = k
          /\ k > 0
          /\ attempts[k].claim = worker[w].n
      BY <1>8 DEF CompleteDeliveryAttempt, SubmissionInv, WorkersInv, Submitting
    <2>2. /\ worker'[w].pc \notin {"claimed", "ledgered", "submitting", "answered"}
          /\ \A v \in Workers : v # w => worker'[v] = worker[v]
      BY <1>8, <1>r DEF CompleteDeliveryAttempt
    <2>3. CASE CanCompleteAttempt(attempts[worker[w].seq], worker[w].seq, rcpt, latest)
      <3>1. attempts' = [attempts EXCEPT ![k].status = status]
        BY <1>8, <2>1, <2>3 DEF CompleteDeliveryAttempt
      <3>2. email'.attempts = email.attempts
        BY <1>8, <2>3 DEF CompleteDeliveryAttempt, CommitLedgerPlan, TypeOK, EmailRecord
      <3>3. /\ status \in AttemptStatus
            /\ status = "retryable_failed" => worker[w].n < MaxSends
        BY <1>t, EmailDeliveryAssumption
           DEF CompletionStatus, FinalAttempt, AttemptStatus
      <3> HIDE DEF status
      <3>4. /\ Len(attempts') = k
            /\ attempts'[k].status = status
            /\ \A i \in 1..k : attempts'[i].claim = attempts[i].claim
            /\ \A i \in 1..k : i # k => attempts'[i] = attempts[i]
        BY <2>1, <3>1, <3>3, <1>t, AttemptUpdateLemma DEF TypeOK
      <3>5. \A v \in Workers :
              /\ Claimed(v)' => Claimed(v) /\ worker'[v].n = worker[v].n
              /\ worker'[v].pc \in {"claimed", "ledgered"} =>
                   worker[v].pc \in {"claimed", "ledgered"} /\ Claimed(v)'
        BY <2>2 DEF Claimed, Submitting
      <3>6. \A i \in 1..k :
              attempts'[i].status = "retryable_failed" => attempts'[i].claim < MaxSends
        BY <2>1, <3>3, <3>4 DEF ClaimsInv
      <3>7. \A i, j \in 1..k : attempts'[i].claim = attempts'[j].claim => i = j
        BY <3>4 DEF ClaimsInv
      <3>8. \A v \in Workers : worker'[v].pc \in {"claimed", "ledgered"} =>
              \A i \in 1..k : attempts'[i].claim # worker'[v].n
        BY <3>4, <3>5 DEF ClaimsInv
      <3> QED  BY <3>2, <3>4, <3>5, <3>6, <3>7, <3>8 DEF ClaimsInv
    <2>4. CASE ~CanCompleteAttempt(attempts[worker[w].seq], worker[w].seq, rcpt, latest)
      BY <1>8, <2>2, <2>4, <1>f DEF CompleteDeliveryAttempt, ledger
    <2> QED  BY <2>3, <2>4
  <1>9. CASE Finish(w)
    <2>1. /\ worker'[w].pc \notin {"claimed", "ledgered", "submitting", "answered"}
          /\ \A v \in Workers : v # w => worker'[v] = worker[v]
      BY <1>9, <1>t DEF Finish, IdleLocals, At
    <2> QED  BY <1>9, <2>1, <1>f DEF Finish, ledger
  <1> QED
    BY <1>1, <1>2, <1>3, <1>4, <1>5, <1>6, <1>7, <1>8, <1>9 DEF ProcessSend

\* So do the other steps: none of them claims or begins an attempt.
LEMMA ClaimsStep ==
    ASSUME TypeOK, SubmissionInv, ClaimsInv, ClaimRule = "increment", [Next]_vars
    PROVE  ClaimsInv'
  <1>w. ASSUME attempts' = attempts, email'.attempts = email.attempts,
               worker' = worker
        PROVE  ClaimsInv'
    BY <1>w, ClaimsFrameLemma DEF Claimed, Submitting
  <1>l. ASSUME NEW rs, CommitLedgerPlan(rs)
        PROVE  email'.attempts = email.attempts
    BY <1>l DEF CommitLedgerPlan, TypeOK, EmailRecord
  <1>1. ASSUME NEW w \in Workers, Crash(w) PROVE ClaimsInv'
    <2>1. \A v \in Workers : Claimed(v)' => worker'[v] = worker[v]
      BY <1>1 DEF Crash, IdleLocals, At, TypeOK, Claimed, Submitting
    <2>2. \A v \in Workers : worker'[v].pc \in {"claimed", "ledgered"} => Claimed(v)'
      BY DEF Claimed
    <2>3. \A v \in Workers : Claimed(v)' => Claimed(v)
      BY <2>1 DEF Claimed, Submitting
    <2> QED  BY <1>1, <2>1, <2>2, <2>3, ClaimsFrameLemma DEF Crash, ledger
  <1>2. ASSUME NEW c \in Clients, Api(c) PROVE ClaimsInv'
    <2>1. CASE CancelRead(c) \/ \E at \in 1..MaxNow : RescheduleRead(c, at)
      BY <2>1, <1>w DEF CancelRead, RescheduleRead, ledger
    <2>2. CASE CancelApply(c)
      BY <2>2, <1>w, <1>l DEF CancelApply, applyLocalDeliveryState, ledger
    <2>3. CASE \E b \in BOOLEAN : RescheduleApply(c, b)
      BY <2>3, <1>w DEF RescheduleApply, TypeOK, EmailRecord
    <2> QED  BY <1>2, <2>1, <2>2, <2>3 DEF Api
  <1>3. ASSUME NEW r \in Recipients, PutSuppression(r) \/ DeleteSuppression(r)
        PROVE  ClaimsInv'
    BY <1>3, <1>w DEF PutSuppression, DeleteSuppression, ledger
  <1>4. ASSUME NEW id \in EventIds, NEW type \in ProviderEventType,
               NEW targets \in SUBSET Recipients,
               ApplyProviderEvent(id, type, targets)
        PROVE  ClaimsInv'
    BY <1>4, <1>w, <1>l DEF ApplyProviderEvent
  <1>5. CASE Tick \/ UNCHANGED vars
    BY <1>5, <1>w DEF Tick, vars, ledger
  <1> QED
    BY <1>1, <1>2, <1>3, <1>4, <1>5, ClaimsProcessSend DEF Next

\* The attempts before the last were claimed with different counts below
\* MaxSends, so that there are fewer than MaxSends of them.
LEMMA CountLemma ==
    ASSUME TypeOK, SubmissionInv, ClaimsInv
    PROVE  AttemptBound
  <1> DEFINE S == 1..MaxSends
             T == 1..(MaxSends - 1)
             f == [i \in S |-> attempts[i].claim]
  <1> SUFFICES ASSUME Len(attempts) > MaxSends PROVE FALSE
    BY EmailDeliveryAssumption DEF AttemptBound, TypeOK
  <1>1. MaxSends \in Nat \ {0} /\ Len(attempts) \in Nat
    BY EmailDeliveryAssumption DEF TypeOK
  <1>2. /\ IsFiniteSet(S) /\ Cardinality(S) = MaxSends
        /\ IsFiniteSet(T) /\ Cardinality(T) = MaxSends - 1
    <2>1. MaxSends \in Int /\ MaxSends - 1 \in Int /\ 1 <= MaxSends /\ 1 \in Int
      BY <1>1
    <2>2. IsFiniteSet(S) /\ Cardinality(S) = IF 1 > MaxSends THEN 0 ELSE MaxSends - 1 + 1
      BY <2>1, FS_Interval
    <2>3. IsFiniteSet(T) /\ Cardinality(T) =
            IF 1 > MaxSends - 1 THEN 0 ELSE MaxSends - 1 - 1 + 1
      BY <2>1, FS_Interval
    <2> HIDE DEF S, T
    <2> QED  BY <2>1, <2>2, <2>3
  <1>3. ASSUME NEW i \in S PROVE attempts[i].claim \in T
    <2>1. i \in 1..Len(attempts) /\ i < Len(attempts)
      BY <1>1
    <2>2. attempts[i].status = "retryable_failed"
      BY <2>1 DEF SubmissionInv, AttemptsInv
    <2>3. attempts[i].claim \in 1..email.attempts /\ attempts[i].claim < MaxSends
      BY <2>1, <2>2 DEF ClaimsInv
    <2>4. email.attempts \in Nat
      BY DEF TypeOK, EmailRecord
    <2> QED  BY <1>1, <2>3, <2>4
  <1>4. f \in [S -> T]
    BY <1>3
  <1>5. Cardinality(T) < Cardinality(S)
    BY <1>1, <1>2
  <1>6. PICK i, j \in S : i # j /\ f[i] = f[j]
    <2> HIDE DEF S, T, f
    <2> QED  BY <1>2, <1>4, <1>5, FS_PigeonHole
  <1>7. i \in 1..Len(attempts) /\ j \in 1..Len(attempts)
    BY <1>1
  <1> QED  BY <1>6, <1>7 DEF ClaimsInv

-----------------------------------------------------------------------------
(* The atomic ledger underneath.                                            *)

\* The planner of AtomicLedger is the planner of this module.
LEMMA PlannerLemma ==
    /\ \A rs, S : Ledger!SomeRecipient(rs, S) = SomeRecipient(rs, S)
    /\ \A rs, S : Ledger!EveryRecipient(rs, S) = EveryRecipient(rs, S)
    /\ \A rs : Ledger!deriveDeliveryMessageStatus(rs) = deriveDeliveryMessageStatus(rs)
    /\ \A rs : Ledger!updateEmailForRecipients(rs) = updateEmailForRecipients(rs)
    /\ \A rs, e, T : Ledger!planProviderEvent(rs, e, T) = planProviderEvent(rs, e, T)
    /\ \A rs, s : Ledger!planLocalRecipientState(rs, s) = planLocalRecipientState(rs, s)
    /\ \A s, b : Ledger!completedRecipientStatus(s, b) = completedRecipientStatus(s, b)
  <1>1. /\ \A rs, S : Ledger!SomeRecipient(rs, S) = SomeRecipient(rs, S)
        /\ \A rs, S : Ledger!EveryRecipient(rs, S) = EveryRecipient(rs, S)
    BY DEF Ledger!SomeRecipient, SomeRecipient, Ledger!EveryRecipient, EveryRecipient
  <1>2. ASSUME NEW rs
        PROVE  Ledger!deriveDeliveryMessageStatus(rs) = deriveDeliveryMessageStatus(rs)
    BY DEF Ledger!deriveDeliveryMessageStatus, deriveDeliveryMessageStatus,
           Ledger!SomeRecipient, SomeRecipient, Ledger!EveryRecipient, EveryRecipient,
           Ledger!DELIVERY_POSITIVE, DELIVERY_POSITIVE, Ledger!DELIVERY_NEGATIVE,
           DELIVERY_NEGATIVE
  <1>3. ASSUME NEW rs
        PROVE  Ledger!updateEmailForRecipients(rs) = updateEmailForRecipients(rs)
    BY <1>2 DEF Ledger!updateEmailForRecipients, updateEmailForRecipients,
                Ledger!derivePublicEmailStatus, derivePublicEmailStatus,
                Ledger!SomeRecipient, SomeRecipient
  <1>4. ASSUME NEW c, NEW e
        PROVE  Ledger!transitionRecipientStatus(c, e) = transitionRecipientStatus(c, e)
    <2>1. Ledger!ENGAGEMENT_RANK = ENGAGEMENT_RANK
      BY Zenon DEF Ledger!ENGAGEMENT_RANK, ENGAGEMENT_RANK, Ledger!ENGAGEMENT_LADDER,
           ENGAGEMENT_LADDER, Ledger!DELIVERY_POSITIVE, DELIVERY_POSITIVE
    <2>2. Ledger!EVENT_TARGET = EVENT_TARGET
      BY DEF Ledger!EVENT_TARGET, EVENT_TARGET, Ledger!ProviderEventType,
             ProviderEventType
    <2> QED  BY <2>1, <2>2 DEF Ledger!transitionRecipientStatus,
                transitionRecipientStatus, Ledger!DELIVERY_POSITIVE, DELIVERY_POSITIVE
  <1>5. ASSUME NEW rs, NEW e, NEW T
        PROVE  Ledger!planProviderEvent(rs, e, T) = planProviderEvent(rs, e, T)
    BY <1>4 DEF Ledger!planProviderEvent, planProviderEvent
  <1>6. ASSUME NEW rs, NEW s
        PROVE  Ledger!planLocalRecipientState(rs, s) = planLocalRecipientState(rs, s)
    BY DEF Ledger!planLocalRecipientState, planLocalRecipientState
  <1>7. ASSUME NEW s, NEW b
        PROVE  Ledger!completedRecipientStatus(s, b) = completedRecipientStatus(s, b)
    BY DEF Ledger!completedRecipientStatus, completedRecipientStatus
  <1> QED  BY <1>1, <1>2, <1>3, <1>5, <1>6, <1>7

\* The statuses of the attempts, in sequence order.
LEMMA StatusesLemma ==
    ASSUME TypeOK
    PROVE  /\ LedgerRecords.attempts \in Seq(AttemptStatus)
           /\ Len(LedgerRecords.attempts) = Len(attempts)
           /\ DOMAIN LedgerRecords.attempts = 1..Len(attempts)
           /\ \A i \in 1..Len(attempts) :
                LedgerRecords.attempts[i] = attempts[i].status
  <1>1. /\ attempts \in Seq(Attempt)
        /\ DOMAIN attempts = 1..Len(attempts)
        /\ Len(attempts) \in Nat
    BY DEF TypeOK
  <1>2. LedgerRecords.attempts = [i \in 1..Len(attempts) |-> attempts[i].status]
    BY <1>1 DEF LedgerRecords
  <1>3. \A i \in 1..Len(attempts) : attempts[i].status \in AttemptStatus
    <2>1. \A i \in 1..Len(attempts) : attempts[i] \in Attempt
      BY <1>1
    <2> QED  BY <2>1 DEF Attempt
  <1> QED  BY <1>1, <1>2, <1>3

\* Updates of the records of the e-mail; the provers take them field by
\* field.
LEMMA RecordsLemma ==
    LedgerRecords = [status   |-> email.status,
                     message  |-> message,
                     rcpt     |-> rcpt,
                     latest   |-> latest,
                     attempts |-> LedgerRecords.attempts]
  BY DEF LedgerRecords

\* The statuses of the record after an update of its public status.
LEMMA SetStatusLemma ==
    ASSUME NEW t
    PROVE  [LedgerRecords EXCEPT !.status = t] =
             [status |-> t, message |-> message, rcpt |-> rcpt,
              latest |-> latest, attempts |-> LedgerRecords.attempts]
  BY RecordsLemma

\* And after one of its public status and of the aggregate.
LEMMA SetStatusMessageLemma ==
    ASSUME NEW t, NEW n
    PROVE  [LedgerRecords EXCEPT !.status = t, !.message = n] =
             [status |-> t, message |-> n, rcpt |-> rcpt,
              latest |-> latest, attempts |-> LedgerRecords.attempts]
  <1> DEFINE R1 == [LedgerRecords EXCEPT !.status = t]
             R2 == [R1 EXCEPT !.message = n]
  <1>0. [LedgerRecords EXCEPT !.status = t, !.message = n] = R2
    OBVIOUS
  <1> HIDE DEF R1, R2
  <1>1. R1 = [status |-> t, message |-> message, rcpt |-> rcpt,
             latest |-> latest, attempts |-> LedgerRecords.attempts]
    BY RecordsLemma DEF R1
  <1>2. R2 = [status |-> t, message |-> n, rcpt |-> rcpt,
             latest |-> latest, attempts |-> LedgerRecords.attempts]
    BY <1>1 DEF R2
  <1> QED  BY <1>0, <1>2

\* A ledger plan, with the statuses of the attempts it leaves.
LEMMA CommitRecordsLemma ==
    ASSUME TypeOK, NEW rs, CommitLedgerPlan(rs), latest' = latest
    PROVE  LedgerRecords' =
             [Ledger!WithRecipients(LedgerRecords, rs)
                EXCEPT !.attempts = LedgerRecords.attempts']
  <1> DEFINE m == deriveDeliveryMessageStatus(rs)
             s == updateEmailForRecipients(rs)
             a == LedgerRecords.attempts'
  <1>1. email'.status = s /\ message' = m /\ rcpt' = rs
    BY DEF CommitLedgerPlan, TypeOK, EmailRecord
  <1>2. Ledger!WithRecipients(LedgerRecords, rs) =
          [LedgerRecords EXCEPT !.rcpt = rs, !.message = m, !.status = s]
    BY PlannerLemma DEF Ledger!WithRecipients
  <1>3. LedgerRecords' = [status |-> s, message |-> m, rcpt |-> rs,
                          latest |-> latest, attempts |-> a]
    BY <1>1 DEF LedgerRecords
  <1> HIDE DEF m, s, a
  <1>4. [LedgerRecords EXCEPT !.rcpt = rs, !.message = m, !.status = s] =
          [status |-> s, message |-> m, rcpt |-> rs,
           latest |-> latest, attempts |-> LedgerRecords.attempts]
    <2> DEFINE R1 == [LedgerRecords EXCEPT !.rcpt = rs]
               R2 == [R1 EXCEPT !.message = m]
               R3 == [R2 EXCEPT !.status = s]
    <2>0. [LedgerRecords EXCEPT !.rcpt = rs, !.message = m, !.status = s] = R3
      OBVIOUS
    <2> HIDE DEF R1, R2, R3
    <2>1. R1 = [status |-> email.status, message |-> message, rcpt |-> rs,
                latest |-> latest, attempts |-> LedgerRecords.attempts]
      BY RecordsLemma DEF R1
    <2>2. R2 = [status |-> email.status, message |-> m, rcpt |-> rs,
                latest |-> latest, attempts |-> LedgerRecords.attempts]
      BY <2>1 DEF R2
    <2>3. R3 = [status |-> s, message |-> m, rcpt |-> rs,
                latest |-> latest, attempts |-> LedgerRecords.attempts]
      BY <2>2 DEF R3
    <2> QED  BY <2>0, <2>3
  <1>5. [[status |-> s, message |-> m, rcpt |-> rs, latest |-> latest,
          attempts |-> LedgerRecords.attempts] EXCEPT !.attempts = a] =
          [status |-> s, message |-> m, rcpt |-> rs, latest |-> latest,
           attempts |-> a]
    OBVIOUS
  <1> QED  BY <1>2, <1>3, <1>4, <1>5 DEF a

\* A plan that leaves the attempts alone is one step of the ledger's planner.
LEMMA CommitStatusesLemma ==
    ASSUME TypeOK, NEW rs, CommitLedgerPlan(rs), UNCHANGED <<latest, attempts>>
    PROVE  LedgerRecords' = Ledger!WithRecipients(LedgerRecords, rs)
  <1> DEFINE W == Ledger!WithRecipients(LedgerRecords, rs)
  <1>1. LedgerRecords.attempts' = LedgerRecords.attempts
    BY DEF LedgerRecords
  <1>2. [W EXCEPT !.attempts = LedgerRecords.attempts] = W
    <2>1. W = [LedgerRecords EXCEPT
                 !.rcpt = rs,
                 !.message = Ledger!deriveDeliveryMessageStatus(rs),
                 !.status = Ledger!updateEmailForRecipients(rs)]
      BY DEF Ledger!WithRecipients
    <2>2. W = [status |-> Ledger!updateEmailForRecipients(rs),
               message |-> Ledger!deriveDeliveryMessageStatus(rs),
               rcpt |-> rs, latest |-> latest,
               attempts |-> LedgerRecords.attempts]
      BY <2>1 DEF LedgerRecords
    <2> HIDE DEF W
    <2> QED  BY <2>2
  <1> HIDE DEF W
  <1> QED  BY <1>1, <1>2, CommitRecordsLemma DEF W

\* applyLocalDeliveryState is the operation of the ledger.
LEMMA LocalLedgerLemma ==
    ASSUME TypeOK, NEW status \in {"canceled", "suppressed"},
           applyLocalDeliveryState(status), events' = events
    PROVE  Ledger!Next
  <1>1. LedgerRecords' = Ledger!Stopped(LedgerRecords, status)
    BY CommitStatusesLemma, PlannerLemma
       DEF applyLocalDeliveryState, Ledger!Stopped, LedgerRecords
  <1>2. Ledger!CanStop(LedgerRecords)
    <2>1. \A i \in DOMAIN LedgerRecords.attempts :
            LedgerRecords.attempts[i] # "submitting"
      <3>1. \A i \in DOMAIN attempts : attempts[i].status # "submitting"
        BY DEF applyLocalDeliveryState, CanChangeLocally
      <3>2. DOMAIN attempts = 1..Len(attempts)
        BY DEF TypeOK
      <3> QED  BY <3>1, <3>2, StatusesLemma
    <2>2. ~SomeRecipient(LedgerRecords.rcpt, {"sending"})
      BY DEF applyLocalDeliveryState, CanChangeLocally, LedgerRecords
    <2> QED  BY <2>1, <2>2, PlannerLemma DEF Ledger!CanStop
  <1> QED  BY <1>1, <1>2 DEF Ledger!ApplyLocalDeliveryState, Ledger!Next

\* Beginning an attempt is one operation of the ledger.
LEMMA BeginLedgerLemma ==
    ASSUME TypeOK, NEW w \in Workers, BeginDeliveryAttempt(w),
           CanBegin(worker[w].seq)
    PROVE  Ledger!Next
  <1> DEFINE k  == Len(attempts)
             rs == [r \in Recipients |-> "sending"]
             L  == LedgerRecords
  <1>1. /\ worker[w].seq = k + 1
        /\ EveryRecipient(rcpt, {"queued"})
        /\ attempts' = Append(attempts, [status |-> "submitting",
                                         claim |-> worker[w].n])
        /\ rcpt' = rs
        /\ latest' = [r \in Recipients |-> k + 1]
        /\ message' = deriveDeliveryMessageStatus(rs)
        /\ email'.status = "sending"
        /\ events' = events
    BY DEF BeginDeliveryAttempt, CanBegin, CanStartAttempt, TypeOK, EmailRecord
  <1>2. k \in Nat /\ attempts \in Seq(Attempt)
    BY DEF TypeOK
  <1>3. L'.attempts = Append(L.attempts, "submitting")
    <2>1. /\ DOMAIN attempts' = 1..(k + 1)
          /\ attempts'[k + 1].status = "submitting"
          /\ \A i \in 1..k : attempts'[i] = attempts[i]
      BY <1>1, <1>2
    <2>2. L'.attempts = [i \in 1..(k + 1) |-> attempts'[i].status]
      BY <2>1 DEF LedgerRecords
    <2>3. \A i \in 1..(k + 1) :
            attempts'[i].status = IF i = k + 1 THEN "submitting" ELSE L.attempts[i]
      BY <1>2, <2>1, StatusesLemma
    <2>4. L'.attempts = [i \in 1..(k + 1) |->
                           IF i = k + 1 THEN "submitting" ELSE L.attempts[i]]
      BY <2>2, <2>3
    <2>5. Append(L.attempts, "submitting") =
            [i \in 1..(k + 1) |-> IF i = k + 1 THEN "submitting" ELSE L.attempts[i]]
      <3>1. L.attempts \in Seq(AttemptStatus) /\ Len(L.attempts) = k
        BY StatusesLemma
      <3> HIDE DEF L
      <3> QED  BY <1>2, <3>1
    <2> QED  BY <2>4, <2>5
  <1>4. L' = Ledger!Begun(L, k + 1)
    <2> DEFINE m == deriveDeliveryMessageStatus(rs)
               a == Append(L.attempts, "submitting")
               t == [r \in Recipients |-> k + 1]
    <2>1. L' = [status |-> "sending", message |-> m, rcpt |-> rs,
                latest |-> t, attempts |-> a]
      BY <1>1, <1>3 DEF LedgerRecords
    <2>2. Ledger!Begun(L, k + 1) =
            [L EXCEPT !.rcpt = rs, !.message = m, !.status = "sending",
                      !.latest = t, !.attempts = a]
      BY PlannerLemma DEF Ledger!Begun
    <2> HIDE DEF m, a, t, rs
    <2>3. [L EXCEPT !.rcpt = rs, !.message = m, !.status = "sending",
                    !.latest = t, !.attempts = a] =
            [status |-> "sending", message |-> m, rcpt |-> rs,
             latest |-> t, attempts |-> a]
      <3> DEFINE R1 == [LedgerRecords EXCEPT !.rcpt = rs]
                 R2 == [R1 EXCEPT !.message = m]
                 R3 == [R2 EXCEPT !.status = "sending"]
                 R4 == [R3 EXCEPT !.latest = t]
                 R5 == [R4 EXCEPT !.attempts = a]
      <3>0. [L EXCEPT !.rcpt = rs, !.message = m, !.status = "sending",
                      !.latest = t, !.attempts = a] = R5
        OBVIOUS
      <3> HIDE DEF R1, R2, R3, R4, R5
      <3>1. R1 = [status |-> email.status, message |-> message, rcpt |-> rs,
                  latest |-> latest, attempts |-> LedgerRecords.attempts]
        BY RecordsLemma DEF R1
      <3>2. R2 = [status |-> email.status, message |-> m, rcpt |-> rs,
                  latest |-> latest, attempts |-> LedgerRecords.attempts]
        BY <3>1 DEF R2
      <3>3. R3 = [status |-> "sending", message |-> m, rcpt |-> rs,
                  latest |-> latest, attempts |-> LedgerRecords.attempts]
        BY <3>2 DEF R3
      <3>4. R4 = [status |-> "sending", message |-> m, rcpt |-> rs,
                  latest |-> t, attempts |-> LedgerRecords.attempts]
        BY <3>3 DEF R4
      <3>5. R5 = [status |-> "sending", message |-> m, rcpt |-> rs,
                  latest |-> t, attempts |-> a]
        BY <3>4 DEF R5
      <3> QED  BY <3>0, <3>5
    <2> QED  BY <2>1, <2>2, <2>3
  <1>5. Ledger!CanBegin(L, k + 1)
    BY <1>1, StatusesLemma, PlannerLemma
       DEF Ledger!CanBegin, Ledger!CanStartAttempt, LedgerRecords
  <1>6. Len(L.attempts) = k
    BY StatusesLemma
  <1> QED
    BY <1>1, <1>4, <1>5, <1>6 DEF Ledger!BeginDeliveryAttempt, Ledger!Next

\* So is completing it.
LEMMA CompleteLedgerLemma ==
    ASSUME TypeOK, SubmissionInv, NEW w \in Workers, CompleteDeliveryAttempt(w),
           CanCompleteAttempt(attempts[worker[w].seq], worker[w].seq, rcpt, latest)
    PROVE  Ledger!Next
  <1> DEFINE seq    == worker[w].seq
             status == CompletionStatus(worker[w].n, worker[w].outcome)
             b      == worker[w].outcome = "rejected"
             rs     == [r \in Recipients |-> completedRecipientStatus(status, b)]
             L      == LedgerRecords
             W      == Ledger!WithRecipients(L, rs)
  <1>1. /\ attempts' = [attempts EXCEPT ![seq].status = status]
        /\ CommitLedgerPlan(rs)
        /\ latest' = latest
        /\ events' = events
    BY DEF CompleteDeliveryAttempt
  <1>2. seq \in 1..Len(attempts) /\ Len(attempts) \in Nat
    BY DEF CompleteDeliveryAttempt, SubmissionInv, WorkersInv, Submitting, TypeOK
  <1>3. status \in Ledger!Completion /\ status \in AttemptStatus
    BY DEF CompletionStatus, Ledger!Completion, AttemptStatus
  <1>4. L'.attempts = [L.attempts EXCEPT ![seq] = status]
    <2> HIDE DEF status
    <2>1. /\ DOMAIN attempts' = 1..Len(attempts)
          /\ attempts'[seq].status = status
          /\ \A i \in 1..Len(attempts) : i # seq => attempts'[i] = attempts[i]
      <3> HIDE DEF seq
      <3> QED  BY <1>1, <1>2, <1>3, AttemptUpdateLemma DEF TypeOK
    <2>2. L'.attempts = [i \in 1..Len(attempts) |-> attempts'[i].status]
      BY <2>1 DEF LedgerRecords
    <2>3. \A i \in 1..Len(attempts) :
            attempts'[i].status = IF i = seq THEN status ELSE L.attempts[i]
      BY <1>2, <2>1, StatusesLemma
    <2>4. L'.attempts = [i \in 1..Len(attempts) |->
                           IF i = seq THEN status ELSE L.attempts[i]]
      BY <2>2, <2>3
    <2>5. DOMAIN L.attempts = 1..Len(attempts) /\ L.attempts \in Seq(AttemptStatus)
      BY StatusesLemma
    <2> HIDE DEF L
    <2> QED  BY <2>4, <2>5
  <1>5. L' = Ledger!Completed(L, seq, status, b)
    <2>1. L' = [W EXCEPT !.attempts = L'.attempts]
      <3> HIDE DEF rs
      <3> QED  BY <1>1, CommitRecordsLemma
    <2>2. Ledger!Completed(L, seq, status, b) = [W EXCEPT !.attempts[seq] = status]
      <3>1. rs = [r \in Recipients |-> Ledger!completedRecipientStatus(status, b)]
        BY PlannerLemma
      <3> HIDE DEF rs
      <3> QED  BY <3>1 DEF Ledger!Completed
    <2>3. W.attempts = L.attempts
      BY DEF Ledger!WithRecipients, LedgerRecords
    <2>4. [W EXCEPT !.attempts[seq] = status] =
            [W EXCEPT !.attempts = [L.attempts EXCEPT ![seq] = status]]
      <3> HIDE DEF W, L, seq, status
      <3> QED  BY <2>3
    <2> HIDE DEF W, L, seq, status, rs, b
    <2> QED  BY <1>4, <2>1, <2>2, <2>4
  <1>6. Ledger!CanComplete(L, seq)
    <2>1. L.attempts[seq] = "submitting" /\ seq \in DOMAIN L.attempts
      BY <1>2, StatusesLemma DEF CanCompleteAttempt
    <2>2. \A r \in Recipients : L.rcpt[r] = "sending" /\ L.latest[r] = seq
      BY DEF CanCompleteAttempt, LedgerRecords
    <2> HIDE DEF L, seq
    <2> QED  BY <2>1, <2>2 DEF Ledger!CanComplete, Ledger!CanCompleteAttempt
  <1>7. seq \in DOMAIN L.attempts
    BY <1>2, StatusesLemma
  <1>8. b \in BOOLEAN
    OBVIOUS
  <1>9. Ledger!CompleteDeliveryAttempt(seq, status, b)
    <2> HIDE DEF L, seq, status, b
    <2> QED  BY <1>1, <1>5, <1>6 DEF Ledger!CompleteDeliveryAttempt, L
  <1> HIDE DEF seq, status, b
  <1> QED  BY <1>3, <1>7, <1>8, <1>9 DEF Ledger!Next

\* Every step is one operation of the ledger, or leaves it alone.
LEMMA LedgerStep ==
    ASSUME TypeOK, SubmissionInv, [Next]_vars
    PROVE  [Ledger!Next]_<<LedgerRecords, events>>
  <1> DEFINE Good == Ledger!Next \/ UNCHANGED <<LedgerRecords, events>>
  <1>u. ASSUME UNCHANGED <<ledger, events>> PROVE Good
    BY <1>u DEF ledger, LedgerRecords
  <1>1. ASSUME NEW w \in Workers, ProcessSend(w) \/ Crash(w) PROVE Good
    <2>1. CASE \/ \E n \in ReceiveCounts : LoadEmail(w, n)
               \/ \E outcome \in Outcome : Submit(w, outcome)
      BY <2>1, <1>u DEF LoadEmail, Submit
    <2>2. CASE FindSuppressed(w) \/ ReadLedger(w) \/ Finish(w) \/ Crash(w)
      BY <2>2, <1>u DEF FindSuppressed, ReadLedger, Finish, Crash
    <2>3. CASE SuppressEmail(w)
      BY <2>3, <1>u, LocalLedgerLemma DEF SuppressEmail
    <2>4. CASE ClaimEmailForSend(w)
      <3>1. CASE Claimable
        <4>1. email.status \in {"queued", "scheduled", "sending"}
          BY <3>1 DEF Claimable, LeaseExpired, Pending
        <4>2. /\ email'.status = "sending"
              /\ UNCHANGED <<message, rcpt, latest, attempts, events>>
          BY <2>4, <3>1 DEF ClaimEmailForSend, TypeOK, EmailRecord
        <4>3. LedgerRecords' = [LedgerRecords EXCEPT !.status = "sending"]
          <5>1. LedgerRecords.attempts' = LedgerRecords.attempts
            BY <4>2 DEF LedgerRecords
          <5>2. LedgerRecords' =
                  [status |-> "sending", message |-> message, rcpt |-> rcpt,
                   latest |-> latest, attempts |-> LedgerRecords.attempts]
            BY <4>2, <5>1 DEF LedgerRecords
          <5> QED  BY <5>2, SetStatusLemma
        <4>4. LedgerRecords.status = email.status
          BY DEF LedgerRecords
        <4> QED
          BY <4>1, <4>2, <4>3, <4>4 DEF Ledger!ClaimEmailForSend, Ledger!Next
      <3>2. CASE ~Claimable
        BY <2>4, <3>2, <1>u DEF ClaimEmailForSend, ledger
      <3> QED  BY <3>1, <3>2
    <2>5. CASE BeginDeliveryAttempt(w)
      BY <2>5, <1>u, BeginLedgerLemma DEF BeginDeliveryAttempt
    <2>6. CASE CompleteDeliveryAttempt(w)
      BY <2>6, <1>u, CompleteLedgerLemma DEF CompleteDeliveryAttempt
    <2> QED  BY <1>1, <2>1, <2>2, <2>3, <2>4, <2>5, <2>6 DEF ProcessSend
  <1>2. ASSUME NEW c \in Clients, Api(c) PROVE Good
    <2>1. CASE CancelRead(c) \/ \E at \in 1..MaxNow : RescheduleRead(c, at)
      BY <2>1, <1>u DEF CancelRead, RescheduleRead
    <2>2. CASE CancelApply(c)
      BY <2>2, <1>u, LocalLedgerLemma DEF CancelApply
    <2>3. ASSUME NEW b \in BOOLEAN, RescheduleApply(c, b) PROVE Good
      <3>1. CASE email.status \in Pending
        <4>1. /\ email'.status = "scheduled"
              /\ message' \in {message, "scheduled"}
              /\ UNCHANGED <<rcpt, latest, attempts, events>>
          BY <2>3, <3>1 DEF RescheduleApply, TypeOK, EmailRecord
        <4>2. LedgerRecords' =
                [LedgerRecords EXCEPT !.status = "scheduled", !.message = message']
          <5>1. LedgerRecords.attempts' = LedgerRecords.attempts
            BY <4>1 DEF LedgerRecords
          <5>2. LedgerRecords' =
                  [status |-> "scheduled", message |-> message', rcpt |-> rcpt,
                   latest |-> latest, attempts |-> LedgerRecords.attempts]
            BY <4>1, <5>1 DEF LedgerRecords
          <5> QED  BY <5>2, SetStatusMessageLemma
        <4>3. /\ LedgerRecords.status \in {"queued", "scheduled"}
              /\ LedgerRecords.message = message
          BY <3>1 DEF LedgerRecords, Pending
        <4> QED  BY <4>1, <4>2, <4>3 DEF Ledger!RescheduleEmail, Ledger!Next
      <3>2. CASE email.status \notin Pending
        BY <2>3, <3>2, <1>u DEF RescheduleApply, ledger
      <3> QED  BY <3>1, <3>2
    <2> QED  BY <1>2, <2>1, <2>2, <2>3 DEF Api
  <1>3. ASSUME NEW r \in Recipients, PutSuppression(r) \/ DeleteSuppression(r)
        PROVE  Good
    BY <1>3, <1>u DEF PutSuppression, DeleteSuppression
  <1>4. ASSUME NEW id \in EventIds, NEW type \in ProviderEventType,
               NEW targets \in SUBSET Recipients,
               ApplyProviderEvent(id, type, targets)
        PROVE  Good
    <2>1. PICK i \in DOMAIN attempts : attempts[i].status = "accepted"
      BY <1>4 DEF ApplyProviderEvent
    <2>2. /\ i \in DOMAIN LedgerRecords.attempts
          /\ LedgerRecords.attempts[i] = "accepted"
      <3>1. DOMAIN attempts = 1..Len(attempts)
        BY DEF TypeOK
      <3> QED  BY <2>1, <3>1, StatusesLemma
    <2>3. LedgerRecords' =
            Ledger!WithRecipients(LedgerRecords,
                                  planProviderEvent(rcpt, type, targets))
      BY <1>4, CommitStatusesLemma DEF ApplyProviderEvent
    <2>4. LedgerRecords.rcpt = rcpt
      BY DEF LedgerRecords
    <2>5. LedgerRecords' = Ledger!Correlated(LedgerRecords, type, targets)
      BY <2>3, <2>4, PlannerLemma DEF Ledger!Correlated
    <2>6. id \notin events /\ events' = events \cup {id}
      BY <1>4 DEF ApplyProviderEvent
    <2> QED
      BY <2>2, <2>5, <2>6
         DEF Ledger!AppendProviderEvent, Ledger!CanCorrelate, Ledger!Next
  <1>5. CASE Tick \/ UNCHANGED vars
    BY <1>5, <1>u DEF Tick, vars
  <1> QED  BY <1>1, <1>2, <1>3, <1>4, <1>5 DEF Next

-----------------------------------------------------------------------------
(* What the send paths need to know of a step of processSend.               *)

\* No attempt is open.
Unsubmitted == \A i \in DOMAIN attempts : attempts[i].status # "submitting"

\* A step of processSend between its first and its last.
SendStep(w) ==
    \/ FindSuppressed(w)
    \/ SuppressEmail(w)
    \/ ClaimEmailForSend(w)
    \/ ReadLedger(w)
    \/ BeginDeliveryAttempt(w)
    \/ \E outcome \in Outcome : Submit(w, outcome)
    \/ CompleteDeliveryAttempt(w)

\* Its worker has claimed the e-mail and goes on to the submission.
AboutToSubmit(w) ==
    \/ worker[w].pc = "claimed"
    \/ worker[w].pc = "ledgered" /\ worker[w].seq = Len(attempts) + 1

\* Committing a plan leaves the schedule alone.
LEMMA CommitSchedule ==
    ASSUME TypeOK, NEW rs, CommitLedgerPlan(rs)
    PROVE  email'.scheduled_at = email.scheduled_at
  BY DEF CommitLedgerPlan, TypeOK, EmailRecord

\* It is one of a worker that runs a job, and leaves the clock and the schedule
\* alone.
LEMMA SendStepFacts ==
    ASSUME TypeOK, NEW w \in Workers, SendStep(w)
    PROVE  /\ worker[w].pc \notin {"idle", "returned", "threw"}
           /\ worker'[w].pc # "idle"
           /\ \A v \in Workers : v # w => worker'[v] = worker[v]
           /\ UNCHANGED <<now, client>>
           /\ email'.scheduled_at = email.scheduled_at
  <1>0. worker \in [Workers -> Locals] /\ email \in EmailRecord
    BY DEF TypeOK
  <1> DEFINE Facts == /\ worker[w].pc \notin {"idle", "returned", "threw"}
                      /\ worker'[w].pc # "idle"
                      /\ \A v \in Workers : v # w => worker'[v] = worker[v]
                      /\ UNCHANGED <<now, client>>
                      /\ email'.scheduled_at = email.scheduled_at
  <1>2. ASSUME FindSuppressed(w) PROVE Facts
    BY <1>0, <1>2 DEF FindSuppressed, Goto, ledger, Locals
  <1>3. ASSUME SuppressEmail(w) PROVE Facts
    <2>1. \/ CommitLedgerPlan(planLocalRecipientState(rcpt, "suppressed"))
          \/ UNCHANGED email
      BY <1>3 DEF SuppressEmail, applyLocalDeliveryState, ledger
    <2>2. email'.scheduled_at = email.scheduled_at
      BY <2>1, CommitSchedule
    <2> QED  BY <1>0, <1>3, <2>2 DEF SuppressEmail, Return, Throw, At
  <1>4. ASSUME ClaimEmailForSend(w) PROVE Facts
    <2>1. email'.scheduled_at = email.scheduled_at
      BY <1>0, <1>4 DEF ClaimEmailForSend, EmailRecord
    <2>2. \/ \E k \in Nat : worker' = [worker EXCEPT ![w].pc = "claimed", ![w].n = k]
          \/ Return(w)
      <3>1. ClaimCount(worker[w].n) \in Nat
        BY <1>0 DEF ClaimCount, EmailRecord, Locals
      <3> QED  BY <1>4, <3>1 DEF ClaimEmailForSend
    <2>3. ASSUME Return(w) PROVE Facts
      BY <1>0, <1>4, <2>1, <2>3 DEF ClaimEmailForSend, Return, At
    <2>4. ASSUME NEW k \in Nat,
                 worker' = [worker EXCEPT ![w].pc = "claimed", ![w].n = k]
          PROVE  Facts
      BY <1>0, <1>4, <2>1, <2>4 DEF ClaimEmailForSend, Locals
    <2> QED  BY <2>2, <2>3, <2>4
  <1>5. ASSUME ReadLedger(w) PROVE Facts
    BY <1>0, <1>5 DEF ReadLedger, ledger, Locals
  <1>6. ASSUME BeginDeliveryAttempt(w) PROVE Facts
    <2>1. email'.scheduled_at = email.scheduled_at
      BY <1>0, <1>6 DEF BeginDeliveryAttempt, ledger, EmailRecord
    <2> QED  BY <1>0, <1>6, <2>1 DEF BeginDeliveryAttempt, Goto, Throw, At, Locals
  <1>7. ASSUME NEW outcome \in Outcome, Submit(w, outcome) PROVE Facts
    BY <1>0, <1>7 DEF Submit, ledger, Locals
  <1>8. ASSUME CompleteDeliveryAttempt(w) PROVE Facts
    <2>1. email'.scheduled_at = email.scheduled_at
      <3>1. \/ \E rs : CommitLedgerPlan(rs)
            \/ UNCHANGED email
        BY <1>8 DEF CompleteDeliveryAttempt, ledger
      <3> QED  BY <3>1, CommitSchedule
    <2>2. Return(w) \/ Throw(w)
      BY <1>8 DEF CompleteDeliveryAttempt
    <2>3. worker[w].pc = "answered" /\ UNCHANGED <<now, client>>
      BY <1>8 DEF CompleteDeliveryAttempt
    <2> QED  BY <1>0, <2>1, <2>2, <2>3 DEF Return, Throw, At
  <1> HIDE DEF Facts
  <1>9. Facts
    BY <1>2, <1>3, <1>4, <1>5, <1>6, <1>7, <1>8 DEF SendStep
  <1> QED  BY <1>9 DEF Facts

\* The outcomes of an attempt put its recipients back into the queue or end.
LEMMA OutcomeLemma ==
    ASSUME TypeOK, NEW status \in {"accepted", "retryable_failed", "permanent_failed"},
           NEW rejects \in BOOLEAN,
           CommitLedgerPlan([r \in Recipients |->
                               completedRecipientStatus(status, rejects)])
    PROVE  /\ status = "retryable_failed" => email'.status = "queued"
           /\ status # "retryable_failed" => email'.status \in FINAL_STATUSES
  <1> DEFINE s == completedRecipientStatus(status, rejects)
             rs == [r \in Recipients |-> s]
  <1>1. /\ status = "retryable_failed" => s = "queued"
        /\ status # "retryable_failed" => s \in {"accepted", "rejected", "failed"}
    BY DEF completedRecipientStatus
  <1>2. rs \in [Recipients -> RecipientStatus]
    BY <1>1 DEF RecipientStatus
  <1>3. email'.status = updateEmailForRecipients(rs)
    BY DEF CommitLedgerPlan, TypeOK, EmailRecord
  <1>4. ASSUME status = "retryable_failed" PROVE email'.status = "queued"
    <2>1. EveryRecipient(rs, {"queued"})
      BY <1>1, <1>4 DEF EveryRecipient
    <2> HIDE DEF rs
    <2> QED  BY <1>2, <1>3, <2>1, DerivedStatusLemma
  <1>5. ASSUME status # "retryable_failed" PROVE email'.status \in FINAL_STATUSES
    <2>1. ~SomeRecipient(rs, {"queued", "sending"})
      BY <1>1, <1>5 DEF SomeRecipient
    <2> HIDE DEF rs
    <2> QED  BY <1>2, <1>3, <2>1, DerivedStatusLemma
  <1> QED  BY <1>4, <1>5

\* It ends the e-mail's way, claims it, submits it, gives it back to a queue
\* that will deliver the job again, or changes nothing and does not return; a
\* worker with a submission of its own goes on to it.
LEMMA SendStepOutcome ==
    ASSUME TypeOK, SubmissionInv, NEW w \in Workers, SendStep(w)
    PROVE  \/ email'.status \in FINAL_STATUSES
           \/ ClaimEmailForSend(w)
           \/ email'.status = "sending" /\ ~Unsubmitted'
           \/ email'.status = "queued" /\ worker'[w].pc = "threw"
           \/ /\ UNCHANGED <<email, attempts>>
              /\ worker'[w].pc # "returned"
              /\ email.status = "sending" /\ Unsubmitted /\ AboutToSubmit(w) =>
                   worker'[w].pc = "ledgered" /\ worker'[w].seq = Len(attempts) + 1
  <1>0. /\ worker \in [Workers -> Locals]
        /\ worker[w] \in Locals
        /\ attempts \in Seq(Attempt)
        /\ DOMAIN attempts = 1..Len(attempts)
        /\ Len(attempts) \in Nat
        /\ rcpt \in [Recipients -> RecipientStatus]
    BY DEF TypeOK
  <1> DEFINE GoesOn == /\ UNCHANGED <<email, attempts>>
                       /\ worker'[w].pc # "returned"
                       /\ email.status = "sending" /\ Unsubmitted /\ AboutToSubmit(w) =>
                            /\ worker'[w].pc = "ledgered"
                            /\ worker'[w].seq = Len(attempts) + 1
             Result == \/ email'.status \in FINAL_STATUSES
                       \/ email'.status = "sending" /\ ~Unsubmitted'
                       \/ email'.status = "queued" /\ worker'[w].pc = "threw"
                       \/ GoesOn
  <1>3. ASSUME FindSuppressed(w) PROVE Result
    <2>1. /\ UNCHANGED <<email, attempts>>
          /\ worker[w].pc = "loaded"
          /\ \/ worker' = [worker EXCEPT ![w].pc = "suppressing"]
             \/ worker' = [worker EXCEPT ![w].pc = "clear"]
      BY <1>3 DEF FindSuppressed, Goto, ledger
    <2>2. worker'[w].pc # "returned"
      BY <1>0, <2>1 DEF Locals
    <2> QED  BY <2>1, <2>2 DEF AboutToSubmit
  <1>4. ASSUME SuppressEmail(w) PROVE Result
    <2>1. CASE applyLocalDeliveryState("suppressed")
      <3>1. /\ CommitLedgerPlan(planLocalRecipientState(rcpt, "suppressed"))
            /\ planLocalRecipientState(rcpt, "suppressed")
                 \in [Recipients -> RecipientStatus]
            /\ ~SomeRecipient(planLocalRecipientState(rcpt, "suppressed"),
                              {"queued", "sending"})
        BY <1>0, <2>1, LocalPlanLemma DEF applyLocalDeliveryState
      <3> QED  BY <3>1, FinalCommitLemma
    <2>2. CASE ~applyLocalDeliveryState("suppressed")
      <3>1. UNCHANGED <<email, attempts>> /\ Throw(w) /\ worker[w].pc = "suppressing"
        BY <1>4, <2>2 DEF SuppressEmail, ledger
      <3>2. worker'[w].pc # "returned"
        BY <1>0, <3>1 DEF Throw, At
      <3> QED  BY <3>1, <3>2 DEF AboutToSubmit
    <2> QED  BY <2>1, <2>2
  <1>6. ASSUME ReadLedger(w) PROVE Result
    <2>1. /\ UNCHANGED <<email, attempts>>
          /\ worker' = [worker EXCEPT ![w].pc = "ledgered",
                                      ![w].seq = Len(attempts) + 1]
      BY <1>6 DEF ReadLedger, ledger
    <2>2. worker'[w].pc = "ledgered" /\ worker'[w].seq = Len(attempts) + 1
      BY <1>0, <2>1 DEF Locals
    <2> QED  BY <2>1, <2>2 DEF AboutToSubmit
  <1>7. ASSUME BeginDeliveryAttempt(w) PROVE Result
    <2>1. CASE CanBegin(worker[w].seq)
      <3>1. PICK a : /\ a.status = "submitting"
                     /\ attempts' = Append(attempts, a)
                     /\ email' = [email EXCEPT !.status = "sending"]
        BY <1>7, <2>1 DEF BeginDeliveryAttempt
      <3>2. email'.status = "sending"
        BY <3>1 DEF TypeOK, EmailRecord
      <3>3. ~Unsubmitted'
        <4>1. attempts'[Len(attempts) + 1] = a /\ Len(attempts) + 1 \in DOMAIN attempts'
          BY <1>0, <3>1
        <4> QED  BY <3>1, <4>1 DEF Unsubmitted
      <3> QED  BY <3>2, <3>3
    <2>2. CASE ~CanBegin(worker[w].seq)
      <3>1. UNCHANGED <<email, attempts>> /\ Throw(w) /\ worker[w].pc = "ledgered"
        BY <1>7, <2>2 DEF BeginDeliveryAttempt, ledger
      <3>2. worker'[w].pc # "returned"
        BY <1>0, <3>1 DEF Throw, At
      <3>3. ~(email.status = "sending" /\ Unsubmitted
                /\ worker[w].seq = Len(attempts) + 1)
        <4>1. SUFFICES ASSUME email.status = "sending", Unsubmitted
                       PROVE  CanStartAttempt(rcpt)
          BY <2>2 DEF CanBegin
        <4>2. ~EveryRecipient(rcpt, {"sending"})
          <5>1. SomeRecipient(rcpt, {"sending"}) =>
                  /\ Len(attempts) > 0
                  /\ attempts[Len(attempts)].status = "submitting"
            BY DEF SubmissionInv, AttemptsInv
          <5>2. ~SomeRecipient(rcpt, {"sending"})
            BY <1>0, <4>1, <5>1 DEF Unsubmitted
          <5> QED  BY <5>2, RecipientsAssumption DEF SomeRecipient, EveryRecipient
        <4> QED  BY <4>1, <4>2 DEF SubmissionInv, PublicStatusAgrees, CanStartAttempt
      <3> QED  BY <3>1, <3>2, <3>3 DEF AboutToSubmit
    <2> QED  BY <2>1, <2>2
  <1>8. ASSUME NEW outcome \in Outcome, Submit(w, outcome) PROVE Result
    <2>1. /\ UNCHANGED <<email, attempts>>
          /\ worker[w].pc = "submitting"
          /\ worker' = [worker EXCEPT ![w].pc = "answered", ![w].outcome = outcome]
      BY <1>8 DEF Submit, ledger
    <2>2. worker'[w].pc # "returned"
      BY <1>0, <2>1 DEF Locals
    <2> QED  BY <2>1, <2>2 DEF AboutToSubmit
  <1>9. ASSUME CompleteDeliveryAttempt(w) PROVE Result
    <2> DEFINE seq == worker[w].seq
               status == CompletionStatus(worker[w].n, worker[w].outcome)
    <2>0. worker[w].pc = "answered"
      BY <1>9 DEF CompleteDeliveryAttempt
    <2>1. CASE CanCompleteAttempt(attempts[seq], seq, rcpt, latest)
      <3>1. PICK rejects \in BOOLEAN : rejects = (worker[w].outcome = "rejected")
        OBVIOUS
      <3>2. CommitLedgerPlan([r \in Recipients |->
                                completedRecipientStatus(status, rejects)])
        BY <1>9, <2>1, <3>1 DEF CompleteDeliveryAttempt
      <3>3. status \in {"accepted", "retryable_failed", "permanent_failed"}
        BY DEF CompletionStatus
      <3>4. CASE status # "retryable_failed"
        BY <3>2, <3>3, <3>4, OutcomeLemma
      <3>5. CASE status = "retryable_failed"
        <4>1. email'.status = "queued"
          BY <3>2, <3>3, <3>5, OutcomeLemma
        <4>2. Throw(w)
          BY <1>9, <2>1, <3>5 DEF CompleteDeliveryAttempt
        <4>3. worker'[w].pc = "threw"
          BY <1>0, <4>2 DEF Throw, At
        <4> QED  BY <4>1, <4>3
      <3> QED  BY <3>4, <3>5
    <2>2. CASE ~CanCompleteAttempt(attempts[seq], seq, rcpt, latest)
      <3>1. UNCHANGED <<email, attempts>> /\ Throw(w)
        BY <1>9, <2>2 DEF CompleteDeliveryAttempt, ledger
      <3>2. worker'[w].pc # "returned"
        BY <1>0, <3>1 DEF Throw, At
      <3> QED  BY <2>0, <3>1, <3>2 DEF AboutToSubmit
    <2> QED  BY <2>1, <2>2
  <1> HIDE DEF Result
  <1>10. Result \/ ClaimEmailForSend(w)
    BY <1>3, <1>4, <1>6, <1>7, <1>8, <1>9 DEF SendStep
  <1> QED  BY <1>10 DEF Result

\* A cancellation ends the e-mail's way or changes nothing.
LEMMA CancelOutcome ==
    ASSUME TypeOK, NEW c \in Clients, CancelApply(c)
    PROVE  /\ email'.scheduled_at = email.scheduled_at
           /\ email'.status \in FINAL_STATUSES \/ UNCHANGED ledger
  <1>1. CASE applyLocalDeliveryState("canceled")
    <2>1. /\ CommitLedgerPlan(planLocalRecipientState(rcpt, "canceled"))
          /\ planLocalRecipientState(rcpt, "canceled")
               \in [Recipients -> RecipientStatus]
          /\ ~SomeRecipient(planLocalRecipientState(rcpt, "canceled"),
                            {"queued", "sending"})
      BY <1>1, LocalPlanLemma DEF applyLocalDeliveryState, TypeOK
    <2> QED  BY <2>1, FinalCommitLemma, CommitSchedule
  <1>2. CASE UNCHANGED ledger
    BY <1>2 DEF ledger
  <1> QED  BY <1>1, <1>2 DEF CancelApply

-----------------------------------------------------------------------------
(* The theorems.                                                            *)

\* A stuttering step keeps the types and the invariant.
LEMMA StutterLemma ==
    ASSUME TypeOK, SubmissionInv, UNCHANGED vars
    PROVE  TypeOK' /\ SubmissionInv'
  <1>1. TypeOK'
    BY DEF vars, ledger, TypeOK
  <1>2. SubmissionInv'
    BY DEF vars, ledger, SubmissionInv, PublicStatusAgrees, AttemptsInv,
           WorkersInv, NoConcurrentSubmission, Submitting
  <1> QED  BY <1>1, <1>2

\* Every step keeps the types and the invariant.
LEMMA StepLemma ==
    ASSUME TypeOK, SubmissionInv, [Next]_vars
    PROVE  TypeOK' /\ SubmissionInv'
  <1>1. ASSUME NEW w \in Workers, ProcessSend(w) PROVE TypeOK' /\ SubmissionInv'
    BY <1>1, TypeProcessSend, SubmissionProcessSend DEF SubmissionInv
  <1>2. CASE UNCHANGED vars
    BY <1>2, StutterLemma
  <1> QED
    BY <1>1, <1>2, TypeRest, SubmissionRest DEF Next

\* The types and the submission invariant hold throughout, for any number of
\* workers, clients, recipients and events.
THEOREM SubmissionInvariant == Spec => [](TypeOK /\ SubmissionInv)
  <1>1. Init => TypeOK /\ SubmissionInv
    BY TypeInit, SubmissionInit
  <1>2. TypeOK /\ SubmissionInv /\ [Next]_vars => (TypeOK /\ SubmissionInv)'
    BY StepLemma
  <1> QED  BY <1>1, <1>2, PTL DEF Spec

\* The records keep their types.
THEOREM TypeCorrectness == Spec => []TypeOK
  BY SubmissionInvariant, PTL

\* At most one worker is ever inside a provider submission of the message.
THEOREM NoConcurrentSubmissionHolds == Spec => []NoConcurrentSubmission
  <1>1. SubmissionInv => NoConcurrentSubmission
    BY DEF SubmissionInv, WorkersInv
  <1> QED  BY <1>1, SubmissionInvariant, PTL

\* The public status and the aggregate follow the recipients.
THEOREM PublicStatusAgreesHolds == Spec => []PublicStatusAgrees
  <1>1. SubmissionInv => PublicStatusAgrees
    BY DEF SubmissionInv
  <1> QED  BY <1>1, SubmissionInvariant, PTL

\* The provider takes the message a second time only after a recorded
\* retryable failure.
THEOREM DuplicatesAreRetriesHolds == Spec => []DuplicatesAreRetries
  <1>1. TypeOK /\ SubmissionInv => DuplicatesAreRetries
    <2> SUFFICES ASSUME TypeOK, SubmissionInv, NEW i \in accepted,
                        NEW j \in accepted, i < j
                 PROVE  attempts[i].status = "retryable_failed"
      BY DEF DuplicatesAreRetries
    <2>1. i \in 1..Len(attempts) /\ j \in 1..Len(attempts) /\ Len(attempts) \in Nat
      BY DEF SubmissionInv, WorkersInv, TypeOK
    <2>2. i < Len(attempts)
      BY <2>1
    <2> QED  BY <2>1, <2>2 DEF SubmissionInv, AttemptsInv
  <1> QED  BY <1>1, SubmissionInvariant, PTL

\* A final e-mail is never reopened, attempted again or submitted. Which final
\* status it has may change: events refine it, and a cancel that read the status
\* before may still write canceled.
THEOREM FinalIsFinalHolds == Spec => FinalIsFinal
  <1>1. TypeOK /\ SubmissionInv /\ [Next]_vars =>
          [email.status \in FINAL_STATUSES =>
             /\ email'.status \in FINAL_STATUSES
             /\ attempts' = attempts
             /\ accepted' = accepted]_vars
    BY FinalStep
  <1> QED  BY <1>1, SubmissionInvariant, PTL DEF Spec, FinalIsFinal

\* A complaint or a suppression of a recipient is never overwritten.
THEOREM ComplaintsAreStickyHolds == Spec => ComplaintsAreSticky
  <1>1. TypeOK /\ SubmissionInv /\ [Next]_vars =>
          [\A r \in Recipients :
             rcpt[r] \in {"complained", "suppressed"} => rcpt'[r] = rcpt[r]]_vars
    BY StickyStep
  <1> QED  BY <1>1, SubmissionInvariant, PTL DEF Spec, ComplaintsAreSticky

\* The inductive invariant with the counts of the claims.
THEOREM DeliveryInvariant == Spec => [](TypeOK /\ DeliveryInv)
  <1>1. Init => TypeOK /\ DeliveryInv
    <2>1. ASSUME Init PROVE ClaimsInv
      BY <2>1 DEF Init, ClaimsInv, Claimed, Submitting, IdleLocals, At
    <2> QED  BY <2>1, TypeInit, SubmissionInit DEF DeliveryInv
  <1>2. TypeOK /\ DeliveryInv /\ [Next]_vars => (TypeOK /\ DeliveryInv)'
    BY StepLemma, ClaimsStep DEF DeliveryInv
  <1> QED  BY <1>1, <1>2, PTL DEF Spec

\* Where a claim counts one more than the last, as in memory and in
\* PostgreSQL, there are never more than MaxSends attempts, whatever receive
\* counts the jobs carry.  DynamoDB stores the receive count instead
\* ("receive_count"); of it the theorem says nothing.
THEOREM AttemptBoundHolds == (ClaimRule = "increment") => (Spec => []AttemptBound)
  <1> SUFFICES ASSUME ClaimRule = "increment" PROVE Spec => []AttemptBound
    OBVIOUS
  <1>1. TypeOK /\ DeliveryInv => AttemptBound
    BY CountLemma DEF DeliveryInv
  <1> QED  BY <1>1, DeliveryInvariant, PTL

\* EmailDelivery changes the records of the e-mail through the operations of
\* AtomicLedger only, each taking effect at once: the steps of processSend,
\* of the API and of the event handler are operations of the ledger or leave
\* it alone.
THEOREM UsesAtomicLedgerHolds == Spec => UsesAtomicLedger
  <1>1. Init => Ledger!Init
    <2> SUFFICES ASSUME Init PROVE Ledger!Init
      OBVIOUS
    <2>1. PICK s \in {"queued", "scheduled", "suppressed"} :
            /\ email.status = s
            /\ message = s
            /\ rcpt = [r \in Recipients |->
                         IF s = "suppressed" THEN "suppressed" ELSE "queued"]
      BY DEF Init
    <2>2. /\ latest = [r \in Recipients |-> 0]
          /\ attempts = <<>>
          /\ events = {}
      BY DEF Init
    <2>3. [i \in DOMAIN attempts |-> attempts[i].status] = <<>>
      BY <2>2
    <2>4. LedgerRecords =
            [status   |-> s,
             message  |-> s,
             rcpt     |-> [r \in Recipients |->
                             IF s = "suppressed" THEN s ELSE "queued"],
             latest   |-> [r \in Recipients |-> 0],
             attempts |-> <<>>]
      BY <2>1, <2>2, <2>3 DEF LedgerRecords
    <2> QED  BY <2>2, <2>4 DEF Ledger!Init
  <1>2. TypeOK /\ SubmissionInv /\ [Next]_vars =>
          [Ledger!Next]_<<LedgerRecords, events>>
    BY LedgerStep
  <1> QED
    BY <1>1, <1>2, SubmissionInvariant, PTL DEF Spec, UsesAtomicLedger, Ledger!Spec
=============================================================================
