------------------------------- MODULE Outbox -------------------------------
(***************************************************************************)
(* The transactional outbox and its reconciler: leaseDueOutbox,            *)
(* acknowledgeOutbox, recordOutboxFailure and getOutboxMetrics of the      *)
(* delivery stores (src/src/adapters/memory-store.ts,                      *)
(* src/src/adapters/postgres/postgres-delivery-store.ts and                *)
(* src/src/adapters/dynamo-store.ts), and OutboxReconciler.sweep           *)
(* (src/src/services/outbox-reconciler.ts).                                *)
(*                                                                         *)
(* The SQL and in-memory stores ask the items themselves.  DynamoDB asks   *)
(* an index: a partition of due items sorted by due_at and one of leased   *)
(* items sorted by lease_expires_at, both kept by hand in every update,    *)
(* and a counter of undispatched items kept beside them.                   *)
(*                                                                         *)
(* Timestamps are kept as the time that is left until them: wait[i] until  *)
(* due_at, ttl[i] until lease_expires_at, left[d] until the leases taken   *)
(* by sweep d run out.  Tick lets time pass, without a bound.              *)
(*                                                                         *)
(* Several sweeps run at once, and those of one process share an owner: in *)
(* the portable worker every reconcile_outbox job and the periodic         *)
(* dispatchOutbox use the same OutboxReconciler.                           *)
(***************************************************************************)
EXTENDS Integers, FiniteSets

CONSTANTS
    Items,       \* outbox items, one per committed message
    Sweeps,      \* concurrent calls of OutboxReconciler.sweep
    Owners,      \* lease owners, one per process
    Layouts,     \* the ways the sweeps may be spread over processes
    NoOwner,     \* an absent lease_owner
    Lease,       \* lease_seconds
    Batch,       \* batch_size
    MaxWait,     \* bound on how far ahead an item is scheduled
    MaxFaults    \* bound on lost or stalled sweeps and failed publications

ASSUME OutboxAssumption ==
    /\ IsFiniteSet(Items)
    /\ Layouts \subseteq [Sweeps -> Owners]
    /\ NoOwner \notin Owners
    /\ Lease \in Nat \ {0}
    /\ Batch \in Nat \ {0}
    /\ MaxWait \in Nat
    /\ MaxFaults \in Nat

VARIABLES
    ownerOf,     \* the owner a sweep leases for
    wait,        \* time until due_at
    owner,       \* lease_owner
    ttl,         \* time until lease_expires_at
    dispatched,  \* items with a dispatched_at
    index,       \* DynamoDB: GSI1PK and the time left until GSI1SK
    undispatched,\* DynamoDB: the counter of OUTBOX_METRICS
    published,   \* items whose job the queue has accepted
    pc,          \* program point of a sweep
    todo,        \* leased items a sweep has still to publish
    cur,         \* the item a sweep is publishing
    left,        \* time until the leases of a sweep run out
    faults       \* lost or stalled sweeps and failed publications so far

vars == <<ownerOf, wait, owner, ttl, dispatched, index, undispatched, published,
          pc, todo, cur, left, faults>>

\* The items a sweep believes it has leased.
Holds(d) == todo[d] \cup IF pc[d] \in {"accepted", "refused"} THEN {cur[d]} ELSE {}

Unindexed == <<"none", 0>>

\* commitDelivery: the item of a new message is due now or at its schedule,
\* and already dispatched if the message was suppressed.
ObInit ==
    /\ ownerOf \in Layouts
    /\ wait \in [Items -> 0..MaxWait]
    /\ owner = [i \in Items |-> NoOwner]
    /\ ttl = [i \in Items |-> 0]
    /\ dispatched \in SUBSET Items
    /\ \A i \in dispatched : wait[i] = 0
    /\ index = [i \in Items |-> IF i \in dispatched THEN Unindexed ELSE <<"due", wait[i]>>]
    /\ undispatched = Cardinality(Items \ dispatched)
    /\ published = dispatched
    /\ pc = [d \in Sweeps |-> "idle"]
    /\ todo = [d \in Sweeps |-> {}]
    /\ cur \in [Sweeps -> Items]
    /\ left = [d \in Sweeps |-> 0]
    /\ faults = 0

-----------------------------------------------------------------------------
\* Mutant: a live lease does not keep other sweeps away.
Leasable_IgnoresLease == {i \in Items \ dispatched : wait[i] = 0}

\* Mutant: an expired lease is not reclaimed.
Leasable_NeverReclaims ==
    {i \in Items \ dispatched : wait[i] = 0 /\ owner[i] = NoOwner}

Leasable == {i \in Items \ dispatched : wait[i] = 0 /\ ttl[i] = 0}

\* leaseDueOutbox: at most Batch items that are due and whose lease, if any,
\* has expired.
LeaseDueOutbox(d) ==
    /\ pc[d] = "idle"
    /\ \E S \in SUBSET Leasable :
         /\ S # {}
         /\ \/ Cardinality(S) = Batch
            \/ S = Leasable /\ Cardinality(S) <= Batch
         /\ owner' = [i \in Items |-> IF i \in S THEN ownerOf[d] ELSE owner[i]]
         /\ ttl' = [i \in Items |-> IF i \in S THEN Lease ELSE ttl[i]]
         /\ index' = [i \in Items |-> IF i \in S THEN <<"leased", Lease>> ELSE index[i]]
         /\ todo' = [todo EXCEPT ![d] = S]
    /\ left' = [left EXCEPT ![d] = Lease]
    /\ pc' = [pc EXCEPT ![d] = "sweeping"]
    /\ UNCHANGED <<ownerOf, wait, dispatched, undispatched, published, cur, faults>>

\* queue.enqueue of the item's deterministic job.
PublishAccepted(d, i) ==
    /\ pc[d] = "sweeping"
    /\ i \in todo[d]
    /\ published' = published \cup {i}
    /\ todo' = [todo EXCEPT ![d] = @ \ {i}]
    /\ cur' = [cur EXCEPT ![d] = i]
    /\ pc' = [pc EXCEPT ![d] = "accepted"]
    /\ UNCHANGED <<ownerOf, wait, owner, ttl, dispatched, index, undispatched, left, faults>>

\* enqueue throws.  An error after the queue took the job (a lost answer)
\* looks the same.
PublishRefused(d, i) ==
    /\ pc[d] = "sweeping"
    /\ i \in todo[d]
    /\ faults < MaxFaults
    /\ faults' = faults + 1
    /\ published' \in {published, published \cup {i}}
    /\ todo' = [todo EXCEPT ![d] = @ \ {i}]
    /\ cur' = [cur EXCEPT ![d] = i]
    /\ pc' = [pc EXCEPT ![d] = "refused"]
    /\ UNCHANGED <<ownerOf, wait, owner, ttl, dispatched, index, undispatched, left>>

\* The WHERE clause of acknowledgeOutbox and recordOutboxFailure: the owner
\* is compared, the expiry of its lease is not.
Owned(d) == cur[d] \notin dispatched /\ owner[cur[d]] = ownerOf[d]

ReleaseLease(d) ==
    /\ owner' = [owner EXCEPT ![cur[d]] = NoOwner]
    /\ ttl' = [ttl EXCEPT ![cur[d]] = 0]

\* Back to the loop over the leased items, which ends when none is left.
NextItem(d) ==
    pc' = [pc EXCEPT ![d] = IF todo[d] = {} THEN "idle" ELSE "sweeping"]

AcknowledgeOutbox(d) ==
    /\ pc[d] = "accepted"
    /\ \/ /\ Owned(d)
          /\ dispatched' = dispatched \cup {cur[d]}
          /\ undispatched' = undispatched - 1
          /\ index' = [index EXCEPT ![cur[d]] = Unindexed]
          /\ ReleaseLease(d)
       \/ /\ ~Owned(d)
          /\ UNCHANGED <<dispatched, owner, ttl, index, undispatched>>
    /\ NextItem(d)
    /\ UNCHANGED <<ownerOf, wait, published, todo, cur, left, faults>>

\* Mutant: a failed item is taken off the backlog.
RecordOutboxFailure_Dispatches(d) ==
    /\ pc[d] = "refused"
    /\ dispatched' = dispatched \cup {cur[d]}
    /\ ReleaseLease(d)
    /\ NextItem(d)
    /\ UNCHANGED <<ownerOf, wait, index, undispatched, published, todo, cur, left, faults>>

\* Mutant: a failed item stays in the index partition of the leased items.
Reindexed_NotAtAll(d) == index

\* recordOutboxFailure sorts the item by the present time, which is not
\* before its due_at.
Reindexed(d) == [index EXCEPT ![cur[d]] = <<"due", 0>>]

RecordOutboxFailure(d) ==
    /\ pc[d] = "refused"
    /\ \/ Owned(d) /\ ReleaseLease(d) /\ index' = Reindexed(d)
       \/ ~Owned(d) /\ UNCHANGED <<owner, ttl, index>>
    /\ NextItem(d)
    /\ UNCHANGED <<ownerOf, wait, dispatched, undispatched, published, todo, cur, left, faults>>

\* The process is lost, or a store call throws out of sweep: what it had
\* leased waits for the lease to expire.
Lose(d) ==
    /\ pc[d] # "idle"
    /\ faults < MaxFaults
    /\ faults' = faults + 1
    /\ pc' = [pc EXCEPT ![d] = "idle"]
    /\ todo' = [todo EXCEPT ![d] = {}]
    /\ UNCHANGED <<ownerOf, wait, owner, ttl, dispatched, index, undispatched, published,
                   cur, left>>

Reschedulable(i) == i \notin dispatched /\ owner[i] = NoOwner

\* rescheduleEmailAndOutbox moves the due time of an item that is neither
\* dispatched nor leased, be the lease expired or not.
Reschedule(i, t) ==
    /\ Reschedulable(i)
    /\ wait' = [wait EXCEPT ![i] = t]
    /\ index' = [index EXCEPT ![i] = <<"due", t>>]
    /\ UNCHANGED <<ownerOf, owner, ttl, dispatched, undispatched, published, pc, todo, cur,
                   left, faults>>

Down(n) == IF n = 0 THEN 0 ELSE n - 1

\* A sweep that is still running when its leases expire.
Overrun == \E d \in Sweeps : pc[d] # "idle" /\ left[d] = 1

\* A sweep takes less than its lease (one enqueue per item, against 60 s)
\* unless it is stalled, which counts as a fault.
Tick ==
    /\ Overrun => faults < MaxFaults
    /\ faults' = IF Overrun THEN faults + 1 ELSE faults
    /\ wait' = [i \in Items |-> Down(wait[i])]
    /\ ttl' = [i \in Items |-> Down(ttl[i])]
    /\ index' = [i \in Items |-> <<index[i][1], Down(index[i][2])>>]
    /\ left' = [d \in Sweeps |-> Down(left[d])]
    /\ UNCHANGED <<ownerOf, owner, dispatched, undispatched, published, pc, todo, cur>>

-----------------------------------------------------------------------------
\* getOutboxMetrics in memory: what each item counts as.
CountsAs(i) ==
    IF i \in dispatched THEN "dispatched"
    ELSE IF wait[i] > 0 THEN "later"
    ELSE IF ttl[i] > 0 THEN "leased"
    ELSE IF owner[i] # NoOwner THEN "stuck" ELSE "due"

MemoryMetrics ==
    LET count(kinds) == Cardinality({i \in Items : CountsAs(i) \in kinds})
    IN [due |-> count({"due", "stuck"}), leased |-> count({"leased"}),
        stuck_leases |-> count({"stuck"}),
        undispatched |-> count({"later", "leased", "due", "stuck"})]

\* The counts of one SELECT with its FILTERs (PostgreSQL; D1 sums the same
\* conditions).
SqlMetrics ==
    LET count(Filter(_)) == Cardinality({i \in Items \ dispatched : Filter(i)})
        Due(i) == wait[i] = 0 /\ ttl[i] = 0
        Leased(i) == wait[i] = 0 /\ ttl[i] > 0
        Stuck(i) == wait[i] = 0 /\ owner[i] # NoOwner /\ ttl[i] = 0
        Any(i) == TRUE
    IN [due |-> count(Due), leased |-> count(Leased), stuck_leases |-> count(Stuck),
        undispatched |-> count(Any)]

\* The two index queries of DynamoDB, filtered by the items' own times; the
\* backlog is the counter.
Partition(p) == {i \in Items : index[i][1] = p}

IndexMetrics ==
    LET due == {i \in Partition("due") : wait[i] = 0}
        stuck == {i \in Partition("leased") : ttl[i] = 0}
    IN [due |-> Cardinality(due) + Cardinality(stuck),
        leased |-> Cardinality(Partition("leased") \ stuck),
        stuck_leases |-> Cardinality(stuck), undispatched |-> undispatched]

\* What leaseDueOutbox of DynamoDB finds to lease: both partitions up to the
\* present time.
Candidates == {i \in Partition("due") \cup Partition("leased") : index[i][2] = 0}

-----------------------------------------------------------------------------
Sweep(d) ==
    \/ LeaseDueOutbox(d)
    \/ \E i \in Items : PublishAccepted(d, i)
    \/ AcknowledgeOutbox(d)
    \/ RecordOutboxFailure(d)

ObNext ==
    \/ \E d \in Sweeps : Sweep(d) \/ Lose(d)
    \/ \E d \in Sweeps, i \in Items : PublishRefused(d, i)
    \/ \E i \in Items, t \in 1..MaxWait : Reschedule(i, t)
    \/ Tick

\* Sweeps recur (every second in the portable worker, every minute on AWS),
\* a sweep that is not lost goes on, and time passes.  Rescheduling, faults
\* and losses are never forced.
Fairness ==
    /\ WF_vars(Tick)
    /\ \A d \in Sweeps : WF_vars(Sweep(d))

ObSpec == ObInit /\ [][ObNext]_vars /\ Fairness

-----------------------------------------------------------------------------
\* No item leaves the backlog unless the queue has its job: whoever
\* acknowledges it, with whatever lease.
DispatchedWasPublished == dispatched \subseteq published

\* The hand-kept index of DynamoDB never loses an item and never offers one
\* that is not to be had: through failures, reschedules and expired leases
\* its two queries find exactly the items the other stores would lease, and
\* the metrics every store reports to the alarms are the same.
BacklogIsIndexed ==
    /\ Candidates = Leasable
    /\ MemoryMetrics = SqlMetrics
    /\ MemoryMetrics = IndexMetrics

\* "A conditional outbox lease coordinates publishers"
\* (docs/architecture.md): two sweeps never both hold an item under leases
\* that have not run out, provided each leases for an owner of its own.
LiveLeaseIsExclusive ==
    (\A c, d \in Sweeps : ownerOf[c] = ownerOf[d] => c = d) =>
    \A c, d \in Sweeps :
        c # d /\ left[c] > 0 /\ left[d] > 0 => Holds(c) \cap Holds(d) = {}

\* Every due item is dispatched in the end, or moved to a later time: no
\* lost process or failed publication strands it.
DueIsDispatched ==
    \A i \in Items :
        (wait[i] = 0 /\ i \notin dispatched) ~> (i \in dispatched \/ wait[i] > 0)
=============================================================================
