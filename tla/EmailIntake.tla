---------------------------- MODULE EmailIntake ----------------------------
(* Accepting an e-mail under an Idempotency-Key: create of                 *)
(* src/src/services/email-service.ts and commitDelivery of the four        *)
(* delivery stores.  The request captures the clock once, in create, and   *)
(* every comparison with the 24-hour expiry of a claim uses that reading,  *)
(* except DynamoDB's own time-to-live.                                     *)
(*                                                                         *)
(* An e-mail bears the name of the call that committed it.  The record,    *)
(* message, recipients, outbox item and claim are one transaction in every *)
(* store; Outbox and EmailDelivery take over from there.                   *)
EXTENDS Naturals

CONSTANTS
    Calls,          \* requests, retries included
    Keys, Hashes,   \* Idempotency-Key, digest of the request
    Backends,       \* subset of {"memory", "postgres", "d1", "dynamo"}
    Window,         \* life of a claim (24 h)
    CallLimit,      \* a request is over by then
    MaxNow,         \* bound: clock
    MaxLost,        \* bound: requests cut short
    NoClaim

ASSUME WindowAssumption ==
    /\ Window \in Nat /\ CallLimit \in Nat /\ MaxNow \in Nat /\ MaxLost \in Nat
    /\ CallLimit < Window
    /\ NoClaim \notin [email : Calls, hash : Hashes, expires : Nat]

VARIABLES
    backend,    \* the store of this deployment
    now,
    claim,      \* idempotency claim per key
    email,      \* accepted e-mails: [key, hash, at, committed], by call
    call,       \* [pc, key, hash, at, cleared] per call
    answer,     \* [kind, email, ended] per call
    owed,       \* the claim a call met when it began
    lost

vars == <<backend, now, claim, email, call, answer, owed, lost>>

Active(c) == call[c].pc \notin {"idle", "done"}

Accepted == DOMAIN email

\* The claim of a key that has not expired at a given reading of the clock.
LiveAt(k, at) == claim[k] # NoClaim /\ claim[k].expires > at

Init ==
    /\ backend \in Backends
    /\ now = 0
    /\ claim = [k \in Keys |-> NoClaim]
    /\ email = [c \in {} |-> {}]
    /\ call = [c \in Calls |-> [pc |-> "idle"]]
    /\ answer = [c \in Calls |-> [kind |-> "none"]]
    /\ owed = [c \in Calls |-> NoClaim]
    /\ lost = 0

\* create and prepareEmail, up to commitDelivery.  memory and DynamoDB go
\* straight to the write, the SQL stores look for a replay first.
Start(c, k, h) ==
    /\ call[c].pc = "idle"
    /\ call' = [call EXCEPT ![c] =
         [pc |-> IF backend \in {"postgres", "d1"} THEN "look" ELSE "write",
          key |-> k, hash |-> h, at |-> now, cleared |-> NoClaim]]
    /\ owed' = [owed EXCEPT ![c] = IF LiveAt(k, now) THEN claim[k] ELSE NoClaim]
    /\ UNCHANGED <<backend, now, claim, email, answer, lost>>

End(c, kind, e) ==
    /\ call' = [call EXCEPT ![c].pc = "done"]
    /\ answer' = [answer EXCEPT ![c] = [kind |-> kind, email |-> e, ended |-> now]]

Goto(c, pc) ==
    /\ call' = [call EXCEPT ![c].pc = pc]
    /\ UNCHANGED answer

\* A claim that stands: replay its e-mail for the same request, refuse another.
ReplayOf(c) ==
    LET found == claim[call[c].key]
    IN  IF found.hash = call[c].hash
          THEN End(c, "replayed", found.email)
          ELSE End(c, "conflict", c)

\* replayForIdempotency before the transaction.
LookForReplay(c) ==
    /\ call[c].pc = "look"
    /\ IF LiveAt(call[c].key, call[c].at)
         THEN ReplayOf(c)
         ELSE Goto(c, IF backend = "postgres" THEN "clear" ELSE "write")
    /\ UNCHANGED <<backend, now, claim, email, owed, lost>>

\* Mutant: any claim of the key is deleted.
Cleared_Any(c) == claim[call[c].key]

\* The expired claim that the transaction deletes.
Cleared(c) ==
    IF LiveAt(call[c].key, call[c].at) THEN NoClaim ELSE claim[call[c].key]

ClearExpired(c) ==
    /\ call[c].pc = "clear"
    /\ call' = [call EXCEPT ![c].pc = "write", ![c].cleared = Cleared(c)]
    /\ UNCHANGED <<backend, now, claim, email, answer, owed, lost>>

\* Nothing stands in the way of the claim that the transaction writes.
Free(c) ==
    LET found == claim[call[c].key]
    IN  \/ found = NoClaim
        \/ backend = "memory" /\ ~LiveAt(call[c].key, call[c].at)
        \/ backend = "postgres" /\ found = call[c].cleared

Granted(c) ==
    [email |-> c, hash |-> call[c].hash, expires |-> call[c].at + Window]

\* The transaction of commitDelivery.
CommitDelivery(c) ==
    LET k == call[c].key
    IN  /\ call[c].pc = "write"
        /\ Free(c)
        /\ claim' = [claim EXCEPT ![k] = Granted(c)]
        /\ email' = [e \in Accepted \cup {c} |->
             IF e = c THEN [key |-> k, hash |-> call[c].hash,
                            at |-> call[c].at, committed |-> now]
                      ELSE email[e]]
        /\ Goto(c, "announce")
        /\ UNCHANGED <<backend, now, owed, lost>>

\* The claim of another request is in the way.  The memory store has looked
\* at it in the same step; the others look it up after the failed write.
CommitRefused(c) ==
    /\ call[c].pc = "write"
    /\ ~Free(c)
    /\ IF backend = "memory" THEN ReplayOf(c) ELSE Goto(c, "relook")
    /\ UNCHANGED <<backend, now, claim, email, owed, lost>>

\* The look after a failed write.  The SQL stores ignore an expired claim and
\* report the identity as taken; DynamoDB replays whatever claim is there, and
\* rethrows when the claim is gone by now.
LookAgain(c) ==
    /\ call[c].pc = "relook"
    /\ \/ /\ \/ LiveAt(call[c].key, call[c].at)
             \/ backend = "dynamo" /\ claim[call[c].key] # NoClaim
          /\ ReplayOf(c)
       \/ /\ backend # "dynamo" /\ ~LiveAt(call[c].key, call[c].at)
          /\ End(c, "conflict", c)
       \/ /\ backend = "dynamo" /\ claim[call[c].key] = NoClaim
          /\ End(c, "error", c)
    /\ UNCHANGED <<backend, now, claim, email, owed, lost>>

\* After the commit the call that made it publishes email.scheduled or
\* email.suppressed, if the e-mail is one of these (WebhookDelivery); publish
\* may throw.
Announce(c) ==
    /\ call[c].pc = "announce"
    /\ \E kind \in {"created", "error"} : End(c, kind, c)
    /\ UNCHANGED <<backend, now, claim, email, owed, lost>>

\* The process is lost; the client sees an error and may call again.
Lose(c) ==
    /\ Active(c)
    /\ lost < MaxLost
    /\ lost' = lost + 1
    /\ End(c, "error", c)
    /\ UNCHANGED <<backend, now, claim, email, owed>>

\* Mutant: the attribute is set to the time of the commit.
Outlived_AtOnce(k) == claim[k] # NoClaim

\* DynamoDB removes a claim some time after its time-to-live.
Outlived(k) == claim[k] # NoClaim /\ claim[k].expires <= now

TimeToLive(k) ==
    /\ backend = "dynamo"
    /\ Outlived(k)
    /\ claim' = [claim EXCEPT ![k] = NoClaim]
    /\ UNCHANGED <<backend, now, email, call, answer, owed, lost>>

Tick ==
    /\ now < MaxNow
    /\ \A c \in Calls : Active(c) => now - call[c].at < CallLimit
    /\ now' = now + 1
    /\ UNCHANGED <<backend, claim, email, call, answer, owed, lost>>

Next ==
    \/ \E c \in Calls :
         \/ \E k \in Keys, h \in Hashes : Start(c, k, h)
         \/ LookForReplay(c) \/ ClearExpired(c)
         \/ CommitDelivery(c) \/ CommitRefused(c) \/ LookAgain(c)
         \/ Announce(c) \/ Lose(c)
    \/ \E k \in Keys : TimeToLive(k)
    \/ Tick

Spec == Init /\ [][Next]_vars

-----------------------------------------------------------------------------
\* Two e-mails are accepted under one key only when the second is committed
\* after the claim of the first has expired, however calls interleave.
OneEmailPerWindow ==
    \A e, f \in Accepted :
        /\ e # f
        /\ email[e].key = email[f].key
        /\ email[e].committed <= email[f].committed
        => email[f].committed >= email[e].at + Window

\* The e-mail a call returns is one that was accepted for its own key and
\* its own request.
AnswerMatchesRequest ==
    \A c \in Calls : answer[c].kind \in {"created", "replayed"} =>
        /\ answer[c].email \in Accepted
        /\ email[answer[c].email].key = call[c].key
        /\ email[answer[c].email].hash = call[c].hash

\* A call that begins under a live claim and ends before its expiry returns
\* the claimed e-mail if it repeats the request and is refused if it does not.
ClaimIsHonoured ==
    \A c \in Calls :
        /\ answer[c].kind \notin {"none", "error"}
        /\ owed[c] # NoClaim
        /\ answer[c].ended < owed[c].expires
        => IF call[c].hash = owed[c].hash
             THEN answer[c].kind = "replayed" /\ answer[c].email = owed[c].email
             ELSE answer[c].kind = "conflict"

\* What a caller gets is its own: no answer of another key or request, and
\* under a live claim the claimed e-mail or a refusal
\* (services/email-service.ts, resolveIdempotency).
AnswersAreOwed == AnswerMatchesRequest /\ ClaimIsHonoured
=============================================================================
