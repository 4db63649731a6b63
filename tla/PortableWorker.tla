--------------------------- MODULE PortableWorker ---------------------------
(***************************************************************************)
(* The durable PostgreSQL job queue                                        *)
(* (src/src/adapters/postgres/postgres-job-queue.ts) and the portable      *)
(* worker that drains it (src/src/portable/worker.ts).                     *)
(*                                                                         *)
(* A process loops over ticks.  A tick leases a batch of jobs, runs one    *)
(* handle for each and awaits them all; every handle keeps its lease alive *)
(* with a heartbeat.  A handle that rejects (recordFailure itself threw)   *)
(* ends the tick at once, while its siblings run on, unawaited.            *)
(*                                                                         *)
(* Timestamps are kept as the time left until them, as in Outbox: wait[j]  *)
(* until available_at, ttl[j] until lease_expires_at, left[h] until the    *)
(* expiry that handle h last saw granted.  Every queue operation is one    *)
(* SQL statement, hence one step.  What a job does is left open: it ends   *)
(* in success, a retryable error or a permanent one.                       *)
(***************************************************************************)
EXTENDS Integers, FiniteSets

CONSTANTS
    Jobs,         \* deterministic job identities
    Processes,    \* worker processes; a restart is a process of its own,
                  \* for it picks a fresh owner id
    Handles,      \* calls of PortableWorker.handle
    ProcessOf,    \* the process a handle runs in
    NoOwner,      \* an absent lease_owner
    NoJob,        \* the job of a handle that has none
    Lease,        \* lease_seconds
    Concurrency,  \* the limit of a lease
    RetryDelay,   \* retry_delay_seconds
    MaxWait,      \* bound on the delay of an enqueue
    MaxAttempts,  \* max_attempts
    MaxLost,      \* bound on the processes that crash or stop
    MaxMishaps    \* bound on leases that expire under a running handle and
                  \* queue operations that throw, taken together

ASSUME PortableWorkerAssumption ==
    /\ IsFiniteSet(Jobs) /\ IsFiniteSet(Handles)
    /\ ProcessOf \in [Handles -> Processes]
    /\ NoOwner \notin Processes
    /\ NoJob \notin Jobs
    /\ Lease \in Nat \ {0}
    /\ Concurrency \in Nat \ {0}
    /\ RetryDelay \in Nat
    /\ MaxWait \in Nat /\ RetryDelay <= MaxWait
    /\ MaxAttempts \in Nat \ {0}
    /\ MaxLost \in Nat
    /\ MaxMishaps \in Nat

VARIABLES
    row,        \* absent, live, completed (completed_at) or failed (failed_at)
    wait,       \* time until available_at
    owner,      \* lease_owner
    ttl,        \* time until lease_expires_at
    attempts,   \* attempts
    alive,      \* processes whose loop is running
    awaited,    \* handles the current tick of a process awaits
    pc,         \* program point of a handle
    job,        \* the job of a handle
    beating,    \* handles whose heartbeat is still running
    left,       \* time until the lease last granted to a handle expires
    stalls,     \* leases that expired under a running handle so far
    errors      \* queue operations that threw so far

table == <<row, wait, owner, ttl, attempts>>

handle == <<pc, job, beating, left>>

vars == <<table, alive, awaited, handle, stalls, errors>>

\* How processJob can end is all a handle needs to know of its job.
JobOutcome == {"succeeded", "erred", "refused"}

Busy(h) == pc[h] # "idle"

Live == {j \in Jobs : row[j] = "live"}

Init ==
    /\ row = [j \in Jobs |-> "absent"]
    /\ wait = [j \in Jobs |-> 0]
    /\ owner = [j \in Jobs |-> NoOwner]
    /\ ttl = [j \in Jobs |-> 0]
    /\ attempts = [j \in Jobs |-> 0]
    /\ alive = Processes
    /\ awaited = [p \in Processes |-> {}]
    /\ pc = [h \in Handles |-> "idle"]
    /\ job = [h \in Handles |-> NoJob]
    /\ beating = {}
    /\ left = [h \in Handles |-> 0]
    /\ stalls = 0
    /\ errors = 0

-----------------------------------------------------------------------------
(* The queue.                                                               *)

\* enqueue: a new row, or an earlier wake-up for the live row of the same
\* identity.  A completed or failed row is left alone, and the call returns
\* as if it had published.
Enqueue(j, delay) ==
    /\ \/ /\ row[j] = "absent"
          /\ row' = [row EXCEPT ![j] = "live"]
          /\ wait' = [wait EXCEPT ![j] = delay]
       \/ /\ row[j] = "live"
          /\ delay < wait[j]
          /\ wait' = [wait EXCEPT ![j] = delay]
          /\ UNCHANGED row
    /\ UNCHANGED <<owner, ttl, attempts, alive, awaited, handle, stalls, errors>>

\* Mutant: a live lease does not keep other processes away.
Leasable_IgnoresLease == {j \in Live : wait[j] = 0}

\* Mutant: an expired lease is not reclaimed.
Leasable_NeverReclaims == {j \in Live : wait[j] = 0 /\ owner[j] = NoOwner}

Leasable == {j \in Live : wait[j] = 0 /\ ttl[j] = 0}

\* Handles of a process that have no job; which of them takes which does not
\* matter.
Free(p) == {h \in Handles : ProcessOf[h] = p /\ ~Busy(h)}

\* lease, at the end of a tick's housekeeping: up to Concurrency leasable
\* rows, fewer when SKIP LOCKED passes over some, each given to a handle.
\* The number of attempts of a row is not looked at.
LeaseJobs(p, S) ==
    /\ p \in alive
    /\ awaited[p] = {}
    /\ S \subseteq Leasable
    /\ S # {} /\ Cardinality(S) <= Concurrency
    /\ Cardinality(S) <= Cardinality(Free(p))
    /\ LET H == CHOOSE G \in SUBSET Free(p) : Cardinality(G) = Cardinality(S)
           took == CHOOSE f \in [H -> S] : \A j \in S : \E h \in H : f[h] = j
       IN
         /\ job' = [h \in Handles |-> IF h \in H THEN took[h] ELSE job[h]]
         /\ pc' = [h \in Handles |-> IF h \in H THEN "running" ELSE pc[h]]
         /\ left' = [h \in Handles |-> IF h \in H THEN Lease ELSE left[h]]
         /\ beating' = beating \cup H
         /\ awaited' = [awaited EXCEPT ![p] = H]
    /\ owner' = [j \in Jobs |-> IF j \in S THEN p ELSE owner[j]]
    /\ ttl' = [j \in Jobs |-> IF j \in S THEN Lease ELSE ttl[j]]
    /\ attempts' = [j \in Jobs |-> attempts[j] + IF j \in S THEN 1 ELSE 0]
    /\ UNCHANGED <<row, wait, alive, stalls, errors>>

\* recoverFailed: an operator gives a failed row another set of attempts.
RecoverFailed(j) ==
    /\ row[j] = "failed"
    /\ row' = [row EXCEPT ![j] = "live"]
    /\ wait' = [wait EXCEPT ![j] = 0]
    /\ attempts' = [attempts EXCEPT ![j] = 0]
    /\ UNCHANGED <<owner, ttl, alive, awaited, handle, stalls,
                   errors>>

\* pruneFinished: settled rows are deleted after a retention of days, which
\* no handle of theirs outlives.
PruneFinished(j) ==
    /\ row[j] \in {"completed", "failed"}
    /\ \A h \in Handles : Busy(h) => job[h] # j
    /\ row' = [row EXCEPT ![j] = "absent"]
    /\ wait' = [wait EXCEPT ![j] = 0]
    /\ attempts' = [attempts EXCEPT ![j] = 0]
    /\ UNCHANGED <<owner, ttl, alive, awaited, handle, stalls,
                   errors>>

-----------------------------------------------------------------------------
(* A handle.                                                                *)

\* processJob ends.
Process(h, outcome) ==
    /\ pc[h] = "running"
    /\ pc' = [pc EXCEPT ![h] = outcome]
    /\ UNCHANGED <<table, alive, awaited, job, beating, left, stalls, errors>>

\* The WHERE clause of acknowledge, recordFailure and extendLease: the owner
\* is compared, the expiry of its lease is not.
Owned(h) == job[h] \in Live /\ owner[job[h]] = ProcessOf[h]

Unlease(j) ==
    /\ owner' = [owner EXCEPT ![j] = NoOwner]
    /\ ttl' = [ttl EXCEPT ![j] = 0]

\* The handle resolves, and its heartbeat is stopped.
Resolve(h) ==
    /\ pc' = [pc EXCEPT ![h] = "idle"]
    /\ beating' = beating \ {h}
    /\ left' = [left EXCEPT ![h] = 0]
    /\ awaited' = [awaited EXCEPT ![ProcessOf[h]] = @ \ {h}]
    /\ job' = [job EXCEPT ![h] = NoJob]

\* The UPDATE of acknowledge.
CompleteRow(h) ==
    IF Owned(h)
      THEN /\ row' = [row EXCEPT ![job[h]] = "completed"]
           /\ Unlease(job[h])
           /\ UNCHANGED <<wait, attempts>>
      ELSE UNCHANGED table

Acknowledge(h) ==
    /\ pc[h] = "succeeded"
    /\ ProcessOf[h] \in alive
    /\ CompleteRow(h)
    /\ Resolve(h)
    /\ UNCHANGED <<alive, stalls, errors>>

\* acknowledge throws, whether or not its UPDATE went through, and the
\* handle goes on to recordFailure.
AcknowledgeThrows(h) ==
    /\ pc[h] = "succeeded"
    /\ stalls + errors < MaxMishaps
    /\ errors' = errors + 1
    /\ CompleteRow(h) \/ UNCHANGED table
    /\ pc' = [pc EXCEPT ![h] = "erred"]
    /\ UNCHANGED <<alive, awaited, job, beating, left, stalls>>

\* terminal || attempts >= max_attempts
Exhausted(h) == pc[h] = "refused" \/ attempts[job[h]] >= MaxAttempts

\* The UPDATE of recordFailure.
FailRow(h) ==
    IF Owned(h)
      THEN /\ IF Exhausted(h)
                THEN row' = [row EXCEPT ![job[h]] = "failed"] /\ UNCHANGED wait
                ELSE wait' = [wait EXCEPT ![job[h]] = RetryDelay] /\ UNCHANGED row
           /\ Unlease(job[h])
           /\ UNCHANGED attempts
      ELSE UNCHANGED table

RecordFailure(h) ==
    /\ pc[h] \in {"erred", "refused"}
    /\ ProcessOf[h] \in alive
    /\ FailRow(h)
    /\ Resolve(h)
    /\ UNCHANGED <<alive, stalls, errors>>

\* recordFailure throws: the handle rejects, Promise.all rejects, and the
\* loop goes on to its next tick while the other handles are still running.
RecordFailureThrows(h) ==
    /\ pc[h] \in {"erred", "refused"}
    /\ stalls + errors < MaxMishaps
    /\ errors' = errors + 1
    /\ FailRow(h) \/ UNCHANGED table
    /\ pc' = [pc EXCEPT ![h] = "idle"]
    /\ beating' = beating \ {h}
    /\ left' = [left EXCEPT ![h] = 0]
    /\ awaited' = IF h \in awaited[ProcessOf[h]]
                    THEN [awaited EXCEPT ![ProcessOf[h]] = {}]
                    ELSE awaited
    /\ job' = [job EXCEPT ![h] = NoJob]
    /\ UNCHANGED <<alive, stalls>>

\* extendLease on a timer of half the lease.  A heartbeat that finds the
\* lease gone stops; one that throws tries again later.
Heartbeat(h) ==
    /\ h \in beating
    /\ ProcessOf[h] \in alive
    /\ \/ /\ Owned(h)
          /\ ttl' = [ttl EXCEPT ![job[h]] = Lease]
          /\ left' = [left EXCEPT ![h] = Lease]
          /\ UNCHANGED beating
       \/ /\ ~Owned(h)
          /\ beating' = beating \ {h}
          /\ UNCHANGED <<ttl, left>>
    /\ UNCHANGED <<row, wait, owner, attempts, alive, awaited, pc, job, stalls, errors>>

-----------------------------------------------------------------------------
(* A process.                                                               *)

Lost == Cardinality(Processes \ alive)

\* The end of run, between two ticks: releaseOwnedLeases, then the pool is
\* closed.  It does not wait for the handles of a tick that was rejected.
Stop(p) ==
    /\ p \in alive
    /\ awaited[p] = {}
    /\ Lost < MaxLost
    /\ alive' = alive \ {p}
    /\ LET held == {j \in Live : owner[j] = p}
       IN  /\ owner' = [j \in Jobs |-> IF j \in held THEN NoOwner ELSE owner[j]]
           /\ ttl' = [j \in Jobs |-> IF j \in held THEN 0 ELSE ttl[j]]
           /\ wait' = [j \in Jobs |-> IF j \in held THEN 0 ELSE wait[j]]
    /\ UNCHANGED <<row, attempts, awaited, handle, stalls, errors>>

\* With the pool closed, what is left of a handle ends without a trace.
Abandon(h) ==
    /\ Busy(h)
    /\ ProcessOf[h] \notin alive
    /\ Resolve(h)
    /\ UNCHANGED <<table, alive, stalls, errors>>

\* The process is lost with all its handles; its leases have to expire.
Crash(p) ==
    /\ p \in alive
    /\ Lost < MaxLost
    /\ alive' = alive \ {p}
    /\ LET mine == {h \in Handles : ProcessOf[h] = p}
       IN  /\ pc' = [h \in Handles |-> IF h \in mine THEN "idle" ELSE pc[h]]
           /\ left' = [h \in Handles |-> IF h \in mine THEN 0 ELSE left[h]]
           /\ job' = [h \in Handles |-> IF h \in mine THEN NoJob ELSE job[h]]
           /\ beating' = beating \ mine
    /\ awaited' = [awaited EXCEPT ![p] = {}]
    /\ UNCHANGED <<table, stalls, errors>>

Down(n) == IF n = 0 THEN 0 ELSE n - 1

\* A lease expires under a handle that is still at work.
Overrun == \E h \in Handles : Busy(h) /\ left[h] = 1

\* A heartbeat comes well before the expiry of the lease, unless the process
\* stalls, cannot reach the database or has lost the lease.
Tick ==
    /\ Overrun => stalls + errors < MaxMishaps
    /\ stalls' = IF Overrun THEN stalls + 1 ELSE stalls
    /\ wait' = [j \in Jobs |-> Down(wait[j])]
    /\ ttl' = [j \in Jobs |-> Down(ttl[j])]
    /\ left' = [h \in Handles |-> Down(left[h])]
    /\ UNCHANGED <<row, owner, attempts, alive, awaited, pc, job, beating, errors>>

-----------------------------------------------------------------------------
Handle(h) ==
    \/ \E outcome \in JobOutcome : Process(h, outcome)
    \/ Acknowledge(h)
    \/ RecordFailure(h)
    \/ Abandon(h)

Next ==
    \/ \E j \in Jobs, delay \in 0..MaxWait : Enqueue(j, delay)
    \/ \E j \in Jobs : RecoverFailed(j) \/ PruneFinished(j)
    \/ \E p \in Processes, S \in SUBSET Jobs : LeaseJobs(p, S)
    \/ \E h \in Handles :
         \/ Handle(h)
         \/ AcknowledgeThrows(h)
         \/ RecordFailureThrows(h)
         \/ Heartbeat(h)
    \/ \E p \in Processes : Stop(p) \/ Crash(p)
    \/ Tick

\* Time passes without end, a job ends (transports and fetches time out),
\* heartbeats come before their lease expires, and a row that is leasable
\* again and again is leased, because lease takes the longest waiting rows
\* first.
Fairness ==
    /\ SF_vars(Tick)
    /\ \A h \in Handles : WF_vars(Handle(h)) /\ WF_vars(Heartbeat(h))
    /\ \A j \in Jobs :
         SF_vars(\E p \in Processes, S \in SUBSET Jobs :
                   j \in S /\ LeaseJobs(p, S))

Spec == Init /\ [][Next]_vars /\ Fairness

-----------------------------------------------------------------------------
\* "Leases due jobs once across competing workers" (postgres-job-queue.test):
\* two handles never run one job under leases neither of which has expired.
\* Once a queue operation has thrown it may fail: Stop then releases the
\* leases of handles that are still running.
LeasedRunsAlone ==
    \A g, h \in Handles :
        /\ errors = 0
        /\ g # h
        /\ pc[g] = "running" /\ left[g] > 0
        /\ pc[h] = "running" /\ left[h] > 0
        => job[g] # job[h]

\* "Retries transient failures and terminally isolates permanent/exhausted
\* jobs" (docs/portable-postgres.md): no row stays live for ever, whatever
\* crashes, stalls or throws on the way.
JobSettles == \A j \in Jobs : row[j] = "live" ~> row[j] # "live"
=============================================================================
