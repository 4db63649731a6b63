-------------------------- MODULE WebhookDelivery --------------------------
(* Webhook endpoints and their deliveries (src/src/services/              *)
(* webhook-service.ts).  A publication pages through the endpoints, newest *)
(* first, and starts enqueueDelivery for each one that wants the event:    *)
(* create the delivery record, then enqueue its job.  Runners take jobs    *)
(* from an at-least-once queue and run deliver.  There is no outbox here:  *)
(* record and job are two writes.                                          *)
(*                                                                         *)
(* A call makes at most one delivery per endpoint, so <<call, endpoint>>   *)
(* is the delivery's identifier.  Payload, signature and URL checks are    *)
(* left out: they choose no step.                                          *)
EXTENDS Naturals, Sequences, FiniteSets, FiniteSetsExt

CONSTANTS
    Newest,         \* endpoints are numbered 1..Newest in order of creation
    Publications,   \* calls of publishData
    Replays,        \* calls of replay
    Runners,        \* concurrent runs of deliver
    PageSize,       \* listWebhooks limit (100)
    MaxReceives,    \* receives before the queue isolates a job
    MaxChanges,     \* bound: endpoints changed or created without being listed,
                    \* and records expired
    MaxRecords,     \* bound: deliveries created by calls
    MaxRuns,        \* bound: runs of deliver
    MaxFaults       \* bound: what may go wrong, see Faults

ASSUME BoundsAssumption ==
    /\ Newest \in Nat \ {0} /\ PageSize \in Nat \ {0}
    /\ MaxReceives \in Nat \ {0}
    /\ MaxChanges \in Nat /\ MaxRecords \in Nat
    /\ MaxRuns \in Nat /\ MaxFaults \in Nat

Webhooks == 1..Newest

Calls == Publications \cup Replays

Ids == Calls \X Webhooks

VARIABLES
    webhook,    \* per endpoint, the states it was written in, from the one a
                \* listing shows to the one of its record
    delivery,   \* [status, attempts] per delivery record
    job,        \* [state, receives] per job of the queue
    call,       \* [pc, cursor] per call
    branch,     \* program point of enqueueDelivery per delivery
    runner,     \* [pc, id, attempt, attempts, answer] per run
    answered,   \* deliveries the endpoint answered with a 2xx
    unwanted,   \* deliveries a run found without an enabled endpoint
    sent,       \* requests made per delivery
    cut,        \* deliveries a run of which was lost
    steady,     \* endpoints that wanted the event, and were listed as they
                \* are, when the call began and have not changed since
    changes, runs, overlaps, lost

store == <<webhook, delivery>>
history == <<answered, unwanted, sent, cut>>
bounds == <<changes, runs, overlaps, lost>>
vars == <<store, job, call, branch, runner, history, steady, bounds>>

Live == {"pending", "delivering", "succeeded", "failed", "cancelled"}

\* An endpoint that is enabled is subscribed to the event type at hand or not;
\* of one that is disabled that makes no difference.
Enabled == {"subscribed", "unsubscribed"}

Record(w) == webhook[w][Len(webhook[w])]

Exists(w) == Record(w) \in Enabled \cup {"disabled"}

\* publishData's filter, applied to what the listing shows.
Wanted(w) == Head(webhook[w]) = "subscribed"

\* A write of the record.  The listing shows it at once (memory, PostgreSQL,
\* D1), or later: DynamoDB lists from an index that follows the table.
Write(w, status, late) ==
    webhook' = [webhook EXCEPT ![w] = IF late THEN Append(@, status) ELSE <<status>>]

\* Calls and runs cut short, receives of a job that is still being run, store
\* and queue calls that threw, and endpoints whose listing lags at present.
Faults ==
    overlaps + lost + Cardinality({d \in Ids : branch[d] \in {"mark", "threw"}})
        + Cardinality({w \in Webhooks : Len(webhook[w]) > 1})

\* A runner between two jobs.
Idle == [pc |-> "idle", id |-> <<>>, attempt |-> 0,
         attempts |-> 0, answer |-> "none"]

Busy(x) == runner[x].pc # "idle"

\* updateWebhookDelivery: an absent or expired record is left alone.
Updated(d, status, attempts) ==
    IF delivery[d].status \in Live
      THEN [delivery EXCEPT ![d] = [status |-> status, attempts |-> attempts]]
      ELSE delivery

\* createWebhookDelivery: refused while the identifier is taken, be it by an
\* expired record that has not been removed yet.
Created(d) ==
    IF delivery[d].status = "absent"
      THEN [delivery EXCEPT ![d] = [status |-> "pending", attempts |-> 0]]
      ELSE delivery

Init ==
    /\ webhook = [w \in Webhooks |-> <<"absent">>]
    /\ delivery = [d \in Ids |-> [status |-> "absent", attempts |-> 0]]
    /\ job = [d \in Ids |-> [state |-> "none", receives |-> 0]]
    /\ call = [c \in Calls |-> [pc |-> "idle", cursor |-> 0]]
    /\ branch = [d \in Ids |-> "none"]
    /\ runner = [x \in Runners |-> Idle]
    /\ answered = {} /\ unwanted = {} /\ cut = {}
    /\ sent = [d \in Ids |-> 0]
    /\ steady = [c \in Calls |-> {}]
    /\ changes = 0 /\ runs = 0 /\ overlaps = 0 /\ lost = 0

-----------------------------------------------------------------------------
(* Endpoints.                                                               *)

\* create, for the event type at hand; update may drop it from the list.
CreateWebhook(w, late) ==
    /\ Record(w) = "absent"
    /\ \A v \in Webhooks : v < w => Record(v) # "absent"
    /\ Write(w, "subscribed", late)
    /\ late => changes < MaxChanges /\ Faults < MaxFaults
    /\ changes' = IF late THEN changes + 1 ELSE changes
    /\ UNCHANGED <<delivery, job, call, branch, runner, history, steady,
                   runs, overlaps, lost>>

\* An endpoint that changed no longer counts as steady for any call.
Change(w, status, late) ==
    /\ Exists(w)
    /\ Write(w, status, late)
    /\ changes < MaxChanges
    /\ late => Faults < MaxFaults
    /\ changes' = changes + 1
    /\ steady' = [c \in Calls |-> steady[c] \ {w}]
    /\ UNCHANGED <<delivery, job, call, branch, runner, history, runs, overlaps, lost>>

\* update: the store merges the given fields into the current record.  A write
\* of what the record says already is left out.
UpdateWebhook(w, status, late) ==
    /\ status # Record(w)
    /\ Change(w, status, late)

DeleteWebhook(w, late) == Change(w, "deleted", late)

\* The index takes the next write of an endpoint.
Reindex(w) ==
    /\ Len(webhook[w]) > 1
    /\ webhook' = [webhook EXCEPT ![w] = Tail(@)]
    /\ UNCHANGED <<delivery, job, call, branch, runner, history, steady, bounds>>

-----------------------------------------------------------------------------
(* publishData and replay.                                                  *)

\* The endpoint wants the event, and the listing has caught up with that.
Steady(w) == webhook[w] = <<"subscribed">>

Publish(c) ==
    /\ call[c].pc = "idle"
    /\ call' = [call EXCEPT ![c] = [pc |-> "list", cursor |-> Newest + 1]]
    /\ steady' = [steady EXCEPT ![c] = {w \in Webhooks : Steady(w)}]
    /\ UNCHANGED <<store, job, branch, runner, history, bounds>>

Listed(w) == Head(webhook[w]) \in Enabled \cup {"disabled"}

\* The page after a cursor: of the endpoints a listing shows, the newest
\* PageSize older than it.
Older(cursor) == {w \in Webhooks : w < cursor /\ Listed(w)}

Page(cursor) ==
    {w \in Older(cursor) :
        Cardinality({v \in Older(cursor) : v > w}) < PageSize}

\* Mutant: a cursor that is taken for the next endpoint, not the last one.
NextCursor_Skips(cursor) ==
    IF Page(cursor) = Older(cursor) THEN 0 ELSE Min(Page(cursor)) - 1

\* next_cursor: the last endpoint of a page that is not the last one.
NextCursor(cursor) ==
    IF Page(cursor) = Older(cursor) THEN 0 ELSE Min(Page(cursor))

\* listWebhooks refuses a cursor whose endpoint is gone, by the record and not
\* the index, and publishData throws; otherwise Promise.all starts the page's
\* deliveries, for the endpoints that are listed as wanting the event.  A page
\* of 100 takes DynamoDB a second query, which only tells whether there are
\* more: the two are one step here.
ListWebhooks(c) ==
    LET cursor == call[c].cursor
    IN  /\ call[c].pc = "list"
        /\ \/ /\ cursor \in Webhooks /\ ~Exists(cursor)
              /\ call' = [call EXCEPT ![c].pc = "threw"]
              /\ UNCHANGED branch
           \/ /\ cursor \in Webhooks => Exists(cursor)
              /\ branch' = [d \in Ids |->
                    IF d[1] = c /\ d[2] \in Page(cursor) /\ Wanted(d[2])
                      THEN "create" ELSE branch[d]]
              /\ call' = [call EXCEPT ![c] =
                    [pc |-> "branches", cursor |-> NextCursor(cursor)]]
        /\ UNCHANGED <<store, job, runner, history, steady, bounds>>

\* replay: the endpoint is enabled and the source is one of its deliveries.
Replay(c, source) ==
    LET w == source[2]
    IN  /\ call[c].pc = "idle"
        /\ Record(w) \in Enabled
        /\ delivery[source].status \in Live
        /\ branch' = [branch EXCEPT ![<<c, w>>] = "create"]
        /\ call' = [call EXCEPT ![c] = [pc |-> "branches", cursor |-> 0]]
        /\ UNCHANGED <<store, job, runner, history, steady, bounds>>

\* All deliveries of the page are enqueued: the next page, or the end.
PageDone(c) ==
    /\ call[c].pc = "branches"
    /\ \A w \in Webhooks : branch[<<c, w>>] \in {"none", "ok"}
    /\ call' = [call EXCEPT ![c].pc =
                  IF call[c].cursor = 0 THEN "done" ELSE "list"]
    /\ UNCHANGED <<store, job, branch, runner, history, steady, bounds>>

\* One branch throws: Promise.all rejects, the other branches run on.
Throw(d) ==
    /\ branch' = [branch EXCEPT ![d] = "threw"]
    /\ call' = [call EXCEPT ![d[1]].pc = "threw"]

CreateRecord(d) ==
    /\ branch[d] = "create"
    /\ Cardinality({e \in Ids : branch[e] \notin {"none", "create"}}) < MaxRecords
    /\ \/ /\ delivery' = Created(d)
          /\ branch' = [branch EXCEPT ![d] = "enqueue"]
          /\ UNCHANGED call
       \/ /\ Faults < MaxFaults
          /\ Throw(d)
          /\ UNCHANGED delivery
    /\ UNCHANGED <<webhook, job, runner, history, steady, bounds>>

\* enqueue may throw although the queue took the job.
EnqueueJob(d) ==
    /\ branch[d] = "enqueue"
    /\ \/ branch' = [branch EXCEPT ![d] = "ok"]
       \/ Faults < MaxFaults /\ branch' = [branch EXCEPT ![d] = "mark"]
    /\ \/ job' = [job EXCEPT ![d].state = "queued"]
       \/ branch'[d] = "mark" /\ UNCHANGED job
    /\ UNCHANGED <<store, call, runner, history, steady, bounds>>

\* Mutant: the error is passed on and the record left as it is.
MarkFailed_Silent(d) ==
    /\ branch[d] = "mark"
    /\ Throw(d)
    /\ UNCHANGED <<store, job, runner, history, steady, bounds>>

MarkFailed(d) ==
    /\ branch[d] = "mark"
    /\ delivery' = Updated(d, "failed", delivery[d].attempts)
    /\ Throw(d)
    /\ UNCHANGED <<webhook, job, runner, history, steady, bounds>>

Unfinished(d) == branch[d] \in {"create", "enqueue", "mark"}

\* The process is lost in a call, with every branch of it: a record may stay
\* without a job.
LoseCall(c) ==
    /\ \/ call[c].pc \in {"list", "branches"}
       \/ \E w \in Webhooks : Unfinished(<<c, w>>)
    /\ Faults < MaxFaults
    /\ lost' = lost + 1
    /\ call' = [call EXCEPT ![c].pc = "lost"]
    /\ branch' = [d \in Ids |-> IF d[1] = c /\ Unfinished(d)
                                  THEN "lost" ELSE branch[d]]
    /\ UNCHANGED <<store, job, runner, history, steady, changes, runs, overlaps>>

-----------------------------------------------------------------------------
(* deliver, run by a worker for a job of the queue.                         *)

Held(d) == \E x \in Runners : Busy(x) /\ runner[x].id = d

\* The queue hands out a job, or hands it out again while a slow run still
\* has it; attempt is its receive count.
Receive(x, d) ==
    /\ ~Busy(x)
    /\ job[d].state = "queued"
    /\ job[d].receives < MaxReceives
    /\ runs < MaxRuns
    /\ runs' = runs + 1
    /\ Held(d) => Faults < MaxFaults
    /\ overlaps' = IF Held(d) THEN overlaps + 1 ELSE overlaps
    /\ job' = [job EXCEPT ![d].receives = @ + 1]
    /\ runner' = [runner EXCEPT ![x] =
                    [pc |-> "load", id |-> d, attempt |-> job[d].receives + 1,
                     attempts |-> 0, answer |-> "none"]]
    /\ UNCHANGED <<store, call, branch, history, steady, changes, lost>>

\* The redrive policy, or max_attempts of the portable queue.
DeadLetter(d) ==
    /\ job[d].state = "queued"
    /\ job[d].receives = MaxReceives
    /\ ~Held(d)
    /\ job' = [job EXCEPT ![d].state = "dead"]
    /\ UNCHANGED <<store, call, branch, runner, history, steady, bounds>>

Step(x, from, to) ==
    /\ runner[x].pc = from
    /\ runner' = [runner EXCEPT ![x].pc = to]

Load(x) ==
    LET d == runner[x].id
    IN  /\ runner[x].pc = "load"
        /\ \/ /\ delivery[d].status \in Live
              /\ runner' = [runner EXCEPT ![x].pc = "endpoint",
                                          ![x].attempts = delivery[d].attempts]
           \/ /\ delivery[d].status \notin Live
              /\ runner' = [runner EXCEPT ![x].pc = "create"]
        /\ UNCHANGED <<store, job, call, branch, history, steady, bounds>>

\* The record is gone or expired: a fresh one stands in for it, stored or not.
Recreate(x) ==
    /\ Step(x, "create", "endpoint")
    /\ delivery' = Created(runner[x].id)
    /\ UNCHANGED <<webhook, job, call, branch, history, steady, bounds>>

ReadEndpoint(x) ==
    /\ \/ /\ Step(x, "endpoint", "begin")
          /\ Record(runner[x].id[2]) \in Enabled
          /\ UNCHANGED unwanted
       \/ /\ Step(x, "endpoint", "cancel")
          /\ Record(runner[x].id[2]) \notin Enabled
          /\ unwanted' = unwanted \cup {runner[x].id}
    /\ UNCHANGED <<store, job, call, branch, answered, sent, cut, steady, bounds>>

CancelDelivery(x) ==
    /\ Step(x, "cancel", "return")
    /\ delivery' = Updated(runner[x].id, "cancelled",
                           delivery[runner[x].id].attempts)
    /\ UNCHANGED <<webhook, job, call, branch, history, steady, bounds>>

\* Mutant: the recorded count is not incremented.
AttemptNumber_NoIncrement(attempt, attempts) == Max({1, attempts})

AttemptNumber(attempt, attempts) == Max({attempt, attempts + 1})

BeginAttempt(x) ==
    LET n == AttemptNumber(runner[x].attempt, runner[x].attempts)
    IN  /\ runner[x].pc = "begin"
        /\ runner' = [runner EXCEPT ![x].pc = "request", ![x].attempts = n]
        /\ delivery' = Updated(runner[x].id, "delivering", n)
        /\ UNCHANGED <<webhook, job, call, branch, history, steady, bounds>>

\* httpFetch: a 2xx, or another status or no answer within ten seconds.
Request(x, answer) ==
    LET d == runner[x].id
    IN  /\ runner[x].pc = "request"
        /\ runner' = [runner EXCEPT ![x].pc = "record", ![x].answer = answer]
        /\ sent' = [sent EXCEPT ![d] = @ + 1]
        /\ answered' = IF answer = "ok" THEN answered \cup {d} ELSE answered
        /\ UNCHANGED <<store, job, call, branch, unwanted, cut, steady, bounds>>

\* Mutant: a failed request is swallowed.
Returns_Always(answer) == TRUE

\* Whether deliver returns, so that the job is acknowledged, or throws.
Returns(answer) == answer = "ok"

Recorded(answer) == IF answer = "ok" THEN "succeeded" ELSE "failed"

RecordAnswer(x) ==
    LET d == runner[x].id
    IN  /\ runner[x].pc = "record"
        /\ delivery' = Updated(d, Recorded(runner[x].answer), runner[x].attempts)
        /\ runner' = [runner EXCEPT ![x] =
                        IF Returns(@.answer) THEN [@ EXCEPT !.pc = "return"]
                                             ELSE Idle]
        /\ UNCHANGED <<webhook, job, call, branch, history, steady, bounds>>

Acknowledge(x) ==
    /\ runner[x].pc = "return"
    /\ runner' = [runner EXCEPT ![x] = Idle]
    /\ job' = [job EXCEPT ![runner[x].id].state = "acked"]
    /\ UNCHANGED <<store, call, branch, history, steady, bounds>>

\* The run ends without a return: its process is lost or a store call throws.
LoseRun(x) ==
    /\ Busy(x)
    /\ Faults < MaxFaults
    /\ lost' = lost + 1
    /\ runner' = [runner EXCEPT ![x] = Idle]
    /\ cut' = cut \cup {runner[x].id}
    /\ UNCHANGED <<store, job, call, branch, answered, unwanted, sent, steady,
                   changes, runs, overlaps>>

\* Retention is at least a day, a call or a run takes seconds.
Expire(d) ==
    /\ delivery[d].status \in Live
    /\ ~Held(d) /\ ~Unfinished(d)
    /\ changes < MaxChanges
    /\ changes' = changes + 1
    /\ delivery' = [delivery EXCEPT ![d] = [status |-> "expired", attempts |-> 0]]
    /\ UNCHANGED <<webhook, job, call, branch, runner, history, steady,
                   runs, overlaps, lost>>

\* The time-to-live of DynamoDB removes an expired record some time later.
Purge(d) ==
    /\ delivery[d].status = "expired"
    /\ delivery' = [delivery EXCEPT ![d].status = "absent"]
    /\ UNCHANGED <<webhook, job, call, branch, runner, history, steady, bounds>>

-----------------------------------------------------------------------------
Deliver(x) ==
    \/ \E d \in Ids : Receive(x, d)
    \/ Load(x) \/ Recreate(x) \/ ReadEndpoint(x) \/ CancelDelivery(x)
    \/ BeginAttempt(x)
    \/ \E answer \in {"ok", "failed"} : Request(x, answer)
    \/ RecordAnswer(x) \/ Acknowledge(x) \/ LoseRun(x)

Next ==
    \/ \E w \in Webhooks :
         \/ \E late \in BOOLEAN :
              \/ CreateWebhook(w, late)
              \/ DeleteWebhook(w, late)
              \/ \E status \in Enabled \cup {"disabled"} :
                   UpdateWebhook(w, status, late)
         \/ Reindex(w)
    \/ \E c \in Publications : Publish(c) \/ ListWebhooks(c)
    \/ \E c \in Replays, d \in Ids : Replay(c, d)
    \/ \E c \in Calls : PageDone(c) \/ LoseCall(c)
    \/ \E d \in Ids :
         \/ CreateRecord(d) \/ EnqueueJob(d) \/ MarkFailed(d)
         \/ DeadLetter(d) \/ Expire(d) \/ Purge(d)
    \/ \E x \in Runners : Deliver(x)

Spec == Init /\ [][Next]_vars

-----------------------------------------------------------------------------
\* A publication that ends normally has enqueued the event for every endpoint
\* that was enabled and subscribed from its start on and whose last change the
\* listing showed by then, whatever endpoints were created, changed or deleted
\* between two pages and however late the listing shows them.
PublicationReachesAll ==
    \A c \in Calls : call[c].pc = "done" =>
        \A w \in steady[c] : job[<<c, w>>].state # "none"

\* A job leaves the queue for good only after its endpoint answered with a
\* 2xx or was found missing or disabled: lost, duplicated and overlapping runs
\* acknowledge nothing else.
AcknowledgedWasHandled ==
    \A d \in Ids : job[d].state = "acked" => d \in answered \cup unwanted

\* "succeeded" in the delivery history means that the endpoint answered,
\* also after overlapping runs wrote the record in any order.
SucceededWasAnswered ==
    \A d \in Ids : delivery[d].status = "succeeded" => d \in answered

\* Nothing is settled without an answer: neither the job nor the record.
SettledWasAnswered == AcknowledgedWasHandled /\ SucceededWasAnswered

\* The delivery's call was lost between the record and its job.
Stranded(d) == branch[d] = "lost" /\ job[d].state = "none"

\* The delivery's job has left the queue, and one of its runs was lost.
CutShort(d) == d \in cut /\ job[d].state \in {"acked", "dead"}

\* A delivery shown as pending or delivering has somebody at work on it or a
\* job that will be run, whatever enqueue threw and whichever processes were
\* lost: only the delivery whose own call was lost before its job was enqueued,
\* and the one whose own run was lost and whose job is over, may stay so.
UnfinishedIsDriven ==
    \A d \in Ids : delivery[d].status \in {"pending", "delivering"} =>
        \/ Unfinished(d) \/ Held(d) \/ job[d].state = "queued"
        \/ Stranded(d) \/ CutShort(d)

\* The attempt count of the history covers the requests made, across lost
\* runs and expired records, unless two runs of the job overlapped.
AttemptsCoverRequests ==
    overlaps = 0 =>
        \A d \in Ids :
            delivery[d].status \in {"delivering", "succeeded", "failed"} =>
                delivery[d].attempts >= sent[d]

=============================================================================
