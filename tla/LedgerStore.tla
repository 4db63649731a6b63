---------------------------- MODULE LedgerStore ----------------------------
(***************************************************************************)
(* The delivery stores without row locks: an operation of the DynamoDB     *)
(* store (src/src/adapters/dynamo-store.ts) or of the D1 store             *)
(* (src/src/adapters/cloudflare/d1-delivery-store.ts) reads the records of *)
(* a message in several requests, plans on what it read, commits under     *)
(* conditions and, when they do not hold, starts again.                    *)
(*                                                                         *)
(* DynamoDB reads the partition in pages, in key order (attempts, message, *)
(* e-mail, recipients; two pages are enough for the largest one the API    *)
(* admits), and the transaction compares the e-mail, the message, every    *)
(* recipient and the attempt it touches with what was read.  D1 reads the  *)
(* e-mail, the message and the revision in one statement, the recipients   *)
(* in a second and the attempts in a third, all under way at once, and the *)
(* batch compares the revision.                                            *)
(*                                                                         *)
(* Records are compared without their timestamps, so that two versions of  *)
(* a record are mistaken for one another more often than in the code.      *)
(* Completions here never reject recipients: that changes which final      *)
(* status a plan writes, and no step.                                      *)
(***************************************************************************)
EXTENDS AtomicLedger

CONSTANTS
    Callers,      \* concurrent calls of the store
    Backend,      \* "dynamo" or "d1"
    MaxAttempts   \* bound on the attempts of a message

ASSUME LedgerStoreAssumption ==
    /\ Backend \in {"dynamo", "d1"}
    /\ MaxAttempts \in Nat \ {0}

VARIABLES
    revision,   \* delivery_ledger_versions.revision (D1)
    op,         \* the operation of a call, NoOp when it has returned
    view,       \* the records a call has read
    rev,        \* the revision it has read
    unread      \* what getStoredDeliveryState has still to read

call == <<op, view, rev, unread>>

storeVars == <<led, events, revision, call>>

NoOp == [kind |-> "none"]

NoView == [status |-> "none", message |-> "none", rcpt |-> <<>>,
           latest |-> <<>>, attempts |-> <<>>]

Fields == {"attempts", "message", "status", "rcpt", "latest"}

\* What a page of DynamoDB can hold, in the order of the sort keys.
Pages ==
    {{"attempts"}, {"attempts", "message"}, {"attempts", "message", "status"},
     Fields}

\* The statements of D1.
Statements == {{"status", "message"}, {"rcpt", "latest"}, {"attempts"}}

StoreInit ==
    /\ Init
    /\ revision = 0
    /\ op = [c \in Callers |-> NoOp]
    /\ view = [c \in Callers |-> NoView]
    /\ rev = [c \in Callers |-> 0]
    /\ unread = [c \in Callers |-> {}]

Operations ==
    [kind : {"begin"}, seq : 1..MaxAttempts]
      \cup [kind : {"complete"}, seq : 1..MaxAttempts, status : Completion]
      \cup [kind : {"event"}, id : EventIds, seq : 1..MaxAttempts,
            type : EventTypes, targets : SUBSET Recipients]
      \cup [kind : {"local"}, status : {"canceled", "suppressed"}]

Replay(o) == o.kind = "event" /\ o.id \in events

\* A caller has seen the attempt it names: it began it, or found it by the
\* message id the provider gave it; a new one comes after those it has seen.
Named(o) ==
    \/ o.kind = "begin" /\ o.seq <= Len(led.attempts) + 1
    \/ o.kind = "complete" /\ o.seq \in DOMAIN led.attempts
    \/ o.kind = "event" /\ CanCorrelate(led, o.seq)
    \/ o.kind = "local"

-----------------------------------------------------------------------------
Start(c, o) ==
    /\ op[c] = NoOp
    /\ Named(o)
    /\ ~Replay(o)
    /\ op' = [op EXCEPT ![c] = o]
    /\ unread' = [unread EXCEPT ![c] = Fields]
    /\ UNCHANGED <<led, events, revision, view, rev>>

Requests(c) ==
    IF Backend = "d1" THEN {t \in Statements : t \subseteq unread[c]}
    ELSE IF unread[c] = Fields THEN Pages
    ELSE {unread[c]} \ {{}}

Read(c, s) ==
    /\ op[c] # NoOp
    /\ unread' = [unread EXCEPT ![c] = @ \ s]
    /\ view' = [view EXCEPT ![c] =
                  [f \in DOMAIN led |-> IF f \in s THEN led[f] ELSE @[f]]]
    /\ rev' = IF "status" \in s THEN [rev EXCEPT ![c] = revision] ELSE rev
    /\ UNCHANGED <<led, events, revision, op>>

Ready(c) == op[c] # NoOp /\ unread[c] = {}

\* What the planner makes of a call's view.
Admitted(c) ==
    LET o == op[c]
    IN  \/ o.kind = "begin" /\ CanBegin(view[c], o.seq)
        \/ o.kind = "complete" /\ CanComplete(view[c], o.seq)
        \/ o.kind = "event" /\ CanCorrelate(view[c], o.seq)
        \/ o.kind = "local" /\ CanStop(view[c])

Planned(c) ==
    LET o == op[c]
    IN  IF o.kind = "begin" THEN Begun(view[c], o.seq)
        ELSE IF o.kind = "complete" THEN Completed(view[c], o.seq, o.status, FALSE)
        ELSE IF o.kind = "event" THEN Correlated(view[c], o.type, o.targets)
        ELSE Stopped(view[c], o.status)

\* Mutant: an attempt is put over the one of its sequence number.
AdditionHolds_Overwrites(c) ==
    LET o == op[c]
    IN  /\ o.kind = "event" => o.id \notin events
        /\ o.kind \in {"complete", "event"} /\ Backend = "dynamo" =>
             led.attempts[o.seq] = view[c].attempts[o.seq]

\* The attempt and the event of the operation itself: put if absent, update
\* if unchanged.
AdditionHolds(c) ==
    LET o == op[c]
    IN  /\ o.kind = "begin" => o.seq \notin DOMAIN led.attempts
        /\ o.kind = "event" => o.id \notin events
        /\ o.kind \in {"complete", "event"} /\ Backend = "dynamo" =>
             led.attempts[o.seq] = view[c].attempts[o.seq]

GuardHolds(c) ==
    IF Backend = "dynamo"
      THEN \A f \in {"status", "message", "rcpt", "latest"} : led[f] = view[c][f]
      ELSE revision = rev[c]

Done(c) ==
    /\ op' = [op EXCEPT ![c] = NoOp]
    /\ view' = [view EXCEPT ![c] = NoView]
    /\ rev' = [rev EXCEPT ![c] = 0]
    /\ UNCHANGED unread

\* The planner throws, or the store finds the operation done already.
Refuse(c) ==
    /\ Ready(c)
    /\ ~Admitted(c)
    /\ Done(c)
    /\ UNCHANGED <<led, events, revision>>

\* The transaction goes through: the records of the plan replace the stored
\* ones, except the attempts the operation did not touch.
Commit(c) ==
    /\ Ready(c)
    /\ Admitted(c)
    /\ GuardHolds(c)
    /\ AdditionHolds(c)
    /\ LET o == op[c]
       IN  /\ led' = [Planned(c) EXCEPT !.attempts =
                        IF o.kind = "begin" THEN Append(led.attempts, "submitting")
                        ELSE IF o.kind = "complete"
                               THEN [led.attempts EXCEPT ![o.seq] = o.status]
                        ELSE led.attempts]
           /\ events' = IF o.kind = "event" THEN events \cup {o.id} ELSE events
    /\ revision' = IF Backend = "d1" THEN revision + 1 ELSE revision
    /\ Done(c)

\* The transaction is refused: the event turns out to be a replay, the loop
\* reads again, or it has used up DELIVERY_LEDGER_RETRIES and throws.
Conflict(c) ==
    /\ Ready(c)
    /\ Admitted(c)
    /\ ~(GuardHolds(c) /\ AdditionHolds(c))
    /\ \/ /\ ~Replay(op[c])
          /\ unread' = [unread EXCEPT ![c] = Fields]
          /\ view' = [view EXCEPT ![c] = NoView]
          /\ rev' = [rev EXCEPT ![c] = 0]
          /\ UNCHANGED op
       \/ Done(c)
    /\ UNCHANGED <<led, events, revision>>

\* One conditional write each; neither moves the revision of D1.
ClaimOrReschedule ==
    /\ ClaimEmailForSend \/ RescheduleEmail
    /\ UNCHANGED <<revision, call>>

StoreNext ==
    \/ \E c \in Callers :
         \/ \E o \in Operations : Start(c, o)
         \/ \E s \in Requests(c) : Read(c, s)
         \/ Refuse(c)
         \/ Commit(c)
         \/ Conflict(c)
    \/ ClaimOrReschedule

StoreSpec == StoreInit /\ [][StoreNext]_storeVars

-----------------------------------------------------------------------------
\* Every committed operation is one that AtomicLedger could have taken at
\* that moment: no torn read, stale plan or lost update, although a ledger is
\* read in pages and the attempts are not compared as a whole.
ImplementsAtomicLedger == Spec
=============================================================================
