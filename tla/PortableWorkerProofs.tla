------------------------ MODULE PortableWorkerProofs ------------------------
(***************************************************************************)
(* Proofs about PortableWorker, for any finite sets of jobs and handles,   *)
(* any processes, any lease, concurrency and retry delay, and any number   *)
(* of stalls and lost processes.                                           *)
(***************************************************************************)
EXTENDS PortableWorker, FiniteSetTheorems, TLAPS

-----------------------------------------------------------------------------
(* The inductive invariant.                                                 *)

RowStatus == {"absent", "live", "completed", "failed"}

HandlePc == {"idle", "running"} \cup JobOutcome

\* The rows and the locals of the handles keep their types.
TypeOK ==
    /\ row \in [Jobs -> RowStatus]
    /\ wait \in [Jobs -> Nat]
    /\ owner \in [Jobs -> Processes \cup {NoOwner}]
    /\ ttl \in [Jobs -> Nat]
    /\ attempts \in [Jobs -> Nat]
    /\ alive \subseteq Processes
    /\ awaited \in [Processes -> SUBSET Handles]
    /\ pc \in [Handles -> HandlePc]
    /\ job \in [Handles -> Jobs \cup {NoJob}]
    /\ beating \subseteq Handles
    /\ left \in [Handles -> Nat]
    /\ stalls \in Nat
    /\ errors \in Nat

\* A handle that is not at work has no job.
IdleInv == \A h \in Handles : ~Busy(h) => job[h] = NoJob

\* A handle at work is awaited by the tick of its process.
AwaitedInv == \A h \in Handles : Busy(h) => h \in awaited[ProcessOf[h]]

\* The handles of a tick work on different jobs.
DistinctInv ==
    \A g, h \in Handles :
        Busy(g) /\ Busy(h) /\ ProcessOf[g] = ProcessOf[h] /\ job[g] = job[h]
        => g = h

\* A handle at work under a lease that has not expired works on a live row
\* that its process still owns, for at least as long.
GrantedInv ==
    \A h \in Handles : Busy(h) /\ left[h] > 0 =>
        /\ job[h] \in Live
        /\ owner[job[h]] = ProcessOf[h]
        /\ ttl[job[h]] >= left[h]

\* All of it until the first queue operation throws: the handles of a
\* rejected tick run on unawaited, and Stop releases their leases.
LeasesInv ==
    (errors = 0) => IdleInv /\ AwaitedInv /\ DistinctInv /\ GrantedInv

-----------------------------------------------------------------------------
(* Which handle takes which job.                                            *)

\* A finite set has a subset of every smaller size.
LEMMA SubsetOfSizeLemma ==
    ASSUME NEW F, IsFiniteSet(F), NEW n \in Nat, n <= Cardinality(F)
    PROVE  \E G \in SUBSET F : Cardinality(G) = n
  <1> DEFINE c == Cardinality(F)
  <1>1. c \in Nat /\ ExistsBijection(1..c, F)
    BY FS_CardinalityType
  <1>2. PICK f : f \in Bijection(1..c, F)
    BY <1>1 DEF ExistsBijection
  <1>3. f \in [1..c -> F] /\ \A a, b \in 1..c : f[a] = f[b] => a = b
    BY <1>2 DEF Bijection, Injection, IsInjective
  <1> DEFINE D == 1..n
             G == {f[i] : i \in D}
             g == [i \in D |-> f[i]]
  <1>4. D \subseteq 1..c
    BY <1>1
  <1>5. g \in Bijection(D, G)
    BY <1>3, <1>4 DEF Bijection, Injection, Surjection, IsInjective
  <1>6. IsFiniteSet(D) /\ Cardinality(D) = n
    <2>1. IsFiniteSet(1..n) /\ Cardinality(1..n) = IF 1 > n THEN 0 ELSE n - 1 + 1
      BY FS_Interval
    <2> QED  BY <2>1
  <1>7. Cardinality(G) = n
    <2> HIDE DEF D, G, g
    <2>1. ExistsBijection(D, G)
      BY <1>5 DEF ExistsBijection
    <2> QED  BY <1>6, <2>1, FS_Bijection
  <1>8. G \in SUBSET F
    BY <1>3, <1>4
  <1> HIDE DEF G
  <1> QED  BY <1>7, <1>8

\* A lease gives its jobs to free handles of the process, one each.
LEMMA LeaseLemma ==
    ASSUME TypeOK, NEW p \in Processes, NEW S \in SUBSET Jobs, LeaseJobs(p, S)
    PROVE  \E H \in SUBSET Free(p), took \in [Handles -> Jobs \cup {NoJob}] :
             /\ \A h \in H : took[h] \in S
             /\ \A g, h \in H : took[g] = took[h] => g = h
             /\ job' = [h \in Handles |-> IF h \in H THEN took[h] ELSE job[h]]
             /\ pc' = [h \in Handles |-> IF h \in H THEN "running" ELSE pc[h]]
             /\ left' = [h \in Handles |-> IF h \in H THEN Lease ELSE left[h]]
             /\ beating' = beating \cup H
             /\ awaited' = [awaited EXCEPT ![p] = H]
  <1> DEFINE H == CHOOSE G \in SUBSET Free(p) : Cardinality(G) = Cardinality(S)
             t == CHOOSE f \in [H -> S] : \A j \in S : \E h \in H : f[h] = j
             u == [h \in Handles |-> IF h \in H THEN t[h] ELSE job[h]]
  <1>f. Free(p) \subseteq Handles
    BY DEF Free
  <1>1. IsFiniteSet(S) /\ IsFiniteSet(Free(p))
    BY <1>f, PortableWorkerAssumption, FS_Subset
  <1>2. Cardinality(S) \in Nat /\ Cardinality(S) <= Cardinality(Free(p))
    BY <1>1, FS_CardinalityType DEF LeaseJobs
  <1>3. H \in SUBSET Free(p) /\ Cardinality(H) = Cardinality(S)
    <2>1. \E G \in SUBSET Free(p) : Cardinality(G) = Cardinality(S)
      BY <1>1, <1>2, SubsetOfSizeLemma
    <2> QED  BY <2>1
  <1>d. /\ job' = [h \in Handles |-> IF h \in H THEN t[h] ELSE job[h]]
        /\ pc' = [h \in Handles |-> IF h \in H THEN "running" ELSE pc[h]]
        /\ left' = [h \in Handles |-> IF h \in H THEN Lease ELSE left[h]]
        /\ beating' = beating \cup H
        /\ awaited' = [awaited EXCEPT ![p] = H]
    BY DEF LeaseJobs
  <1> HIDE DEF H
  <1>4. IsFiniteSet(H)
    BY <1>1, <1>3, FS_Subset
  <1>5. t \in [H -> S] /\ \A j \in S : \E h \in H : t[h] = j
    <2>1. ExistsBijection(H, S)
      BY <1>1, <1>3, <1>4, FS_SameCardinalityBij
    <2>2. PICK f : f \in Bijection(H, S)
      BY <2>1 DEF ExistsBijection
    <2>3. f \in [H -> S] /\ \A j \in S : \E h \in H : f[h] = j
      BY <2>2 DEF Bijection, Injection, Surjection
    <2> QED  BY <2>3
  <1> HIDE DEF t
  <1>6. \A g, h \in H : t[g] = t[h] => g = h
    <2>1. t \in Surjection(H, S)
      BY <1>5 DEF Surjection
    <2>2. t \in Injection(H, S)
      BY <1>3, <1>4, <2>1, FS_SurjSameCardinalityImpliesInj
    <2> QED  BY <2>2 DEF Injection, IsInjective
  <1>7. H \subseteq Handles /\ \A h \in H : u[h] = t[h]
    BY <1>3, <1>f
  <1>8. u \in [Handles -> Jobs \cup {NoJob}]
    <2>1. \A h \in H : t[h] \in Jobs
      BY <1>5
    <2> QED  BY <2>1 DEF TypeOK
  <1>9. job' = [h \in Handles |-> IF h \in H THEN u[h] ELSE job[h]]
    BY <1>d
  <1>10. \A h \in H : u[h] \in S
    BY <1>5, <1>7
  <1>11. \A g, h \in H : u[g] = u[h] => g = h
    BY <1>6, <1>7
  <1> HIDE DEF u
  <1> QED  BY <1>3, <1>8, <1>9, <1>10, <1>11, <1>d

-----------------------------------------------------------------------------
(* Type correctness.                                                        *)

\* An empty queue has the types.
LEMMA TypeInit == Init => TypeOK
  BY DEF Init, TypeOK, RowStatus, HandlePc

\* Giving up the lease of a row keeps the types.
LEMMA UnleaseLemma ==
    ASSUME TypeOK, NEW j \in Jobs, Unlease(j)
    PROVE  /\ owner' \in [Jobs -> Processes \cup {NoOwner}]
           /\ ttl' \in [Jobs -> Nat]
  <1>1. owner' = [owner EXCEPT ![j] = NoOwner] /\ ttl' = [ttl EXCEPT ![j] = 0]
    BY DEF Unlease
  <1>2. owner' \in [Jobs -> Processes \cup {NoOwner}]
    BY <1>1 DEF TypeOK
  <1>3. ttl' \in [Jobs -> Nat]
    BY <1>1 DEF TypeOK
  <1> QED  BY <1>2, <1>3

TableOK ==
    /\ row \in [Jobs -> RowStatus]
    /\ wait \in [Jobs -> Nat]
    /\ owner \in [Jobs -> Processes \cup {NoOwner}]
    /\ ttl \in [Jobs -> Nat]
    /\ attempts \in [Jobs -> Nat]

HandlesOK ==
    /\ awaited \in [Processes -> SUBSET Handles]
    /\ pc \in [Handles -> HandlePc]
    /\ job \in [Handles -> Jobs \cup {NoJob}]
    /\ beating \subseteq Handles
    /\ left \in [Handles -> Nat]

\* The two UPDATEs keep the types of the table.
LEMMA TableLemma ==
    ASSUME TypeOK, NEW h \in Handles,
           CompleteRow(h) \/ FailRow(h) \/ UNCHANGED table
    PROVE  TableOK'
  <1>u. ASSUME UNCHANGED table PROVE TableOK'
    BY <1>u DEF table, TypeOK, TableOK
  <1>o. ASSUME Owned(h) PROVE job[h] \in Jobs
    BY <1>o DEF Owned, Live
  <1>1. CASE CompleteRow(h) /\ Owned(h)
    <2>1. /\ row' = [row EXCEPT ![job[h]] = "completed"]
          /\ Unlease(job[h])
          /\ UNCHANGED <<wait, attempts>>
      BY <1>1 DEF CompleteRow
    <2>2. row' \in [Jobs -> RowStatus]
      BY <2>1 DEF TypeOK, RowStatus
    <2> QED  BY <1>1, <1>o, <2>1, <2>2, UnleaseLemma DEF TypeOK, TableOK
  <1>2. CASE FailRow(h) /\ Owned(h)
    <2>1. /\ \/ row' = [row EXCEPT ![job[h]] = "failed"] /\ UNCHANGED wait
             \/ wait' = [wait EXCEPT ![job[h]] = RetryDelay] /\ UNCHANGED row
          /\ Unlease(job[h])
          /\ UNCHANGED attempts
      BY <1>2 DEF FailRow
    <2>2. row' \in [Jobs -> RowStatus] /\ wait' \in [Jobs -> Nat]
      BY <2>1, PortableWorkerAssumption DEF TypeOK, RowStatus
    <2> QED  BY <1>2, <1>o, <2>1, <2>2, UnleaseLemma DEF TypeOK, TableOK
  <1>3. CASE ~Owned(h)
    BY <1>3, <1>u DEF CompleteRow, FailRow
  <1> QED  BY <1>1, <1>2, <1>3, <1>u

\* A handle whose result is awaited no longer leaves the types of the handles.
LEMMA ResolveLemma ==
    ASSUME TypeOK, NEW h \in Handles, Resolve(h)
    PROVE  HandlesOK'
  <1>1. ProcessOf[h] \in Processes
    BY PortableWorkerAssumption
  <1>2. awaited' \in [Processes -> SUBSET Handles]
    <2>1. awaited' = [awaited EXCEPT ![ProcessOf[h]] = awaited[ProcessOf[h]] \ {h}]
      BY DEF Resolve
    <2>2. awaited[ProcessOf[h]] \ {h} \in SUBSET Handles
      BY <1>1 DEF TypeOK
    <2> QED  BY <2>1, <2>2 DEF TypeOK
  <1>3. pc' \in [Handles -> HandlePc]
    BY DEF Resolve, TypeOK, HandlePc
  <1>4. job' \in [Handles -> Jobs \cup {NoJob}]
    <2>1. job' = [job EXCEPT ![h] = NoJob]
      BY DEF Resolve
    <2> QED  BY <2>1 DEF TypeOK
  <1> QED  BY <1>2, <1>3, <1>4 DEF Resolve, TypeOK, HandlesOK

\* Every step keeps the types.
LEMMA TypeStep ==
    ASSUME TypeOK, [Next]_vars
    PROVE  TypeOK'
  <1> USE PortableWorkerAssumption
  <1>j. ASSUME TableOK', HandlesOK', alive' \subseteq Processes,
               stalls' \in Nat, errors' \in Nat
        PROVE  TypeOK'
    BY <1>j DEF TypeOK, TableOK, HandlesOK
  <1>0. TableOK /\ HandlesOK /\ alive \subseteq Processes /\ stalls \in Nat
        /\ errors \in Nat
    BY DEF TypeOK, TableOK, HandlesOK
  <1>a. ASSUME UNCHANGED table PROVE TableOK'
    BY <1>a, <1>0 DEF TableOK, table
  <1>b. ASSUME UNCHANGED <<awaited, handle>> PROVE HandlesOK'
    BY <1>b, <1>0 DEF HandlesOK, handle
  <1>1. ASSUME NEW j \in Jobs, NEW delay \in 0..MaxWait, Enqueue(j, delay)
        PROVE  TypeOK'
    <2>1. row' \in [Jobs -> RowStatus] /\ wait' \in [Jobs -> Nat]
      BY <1>1 DEF Enqueue, TypeOK, RowStatus
    <2> QED  BY <1>1, <1>b, <1>j, <1>0, <2>1 DEF Enqueue, TableOK
  <1>2. ASSUME NEW j \in Jobs, RecoverFailed(j) \/ PruneFinished(j)
        PROVE  TypeOK'
    <2>1. /\ row' \in [Jobs -> RowStatus]
          /\ wait' \in [Jobs -> Nat]
          /\ attempts' \in [Jobs -> Nat]
      BY <1>2 DEF RecoverFailed, PruneFinished, TypeOK, RowStatus
    <2> QED  BY <1>2, <1>b, <1>j, <1>0, <2>1 DEF RecoverFailed, PruneFinished, TableOK
  <1>3. ASSUME NEW p \in Processes, NEW S \in SUBSET Jobs, LeaseJobs(p, S)
        PROVE  TypeOK'
    <2>1. PICK H \in SUBSET Free(p), took \in [Handles -> Jobs \cup {NoJob}] :
             /\ \A h \in H : took[h] \in S
             /\ \A g, h \in H : took[g] = took[h] => g = h
             /\ job' = [h \in Handles |-> IF h \in H THEN took[h] ELSE job[h]]
             /\ pc' = [h \in Handles |-> IF h \in H THEN "running" ELSE pc[h]]
             /\ left' = [h \in Handles |-> IF h \in H THEN Lease ELSE left[h]]
             /\ beating' = beating \cup H
             /\ awaited' = [awaited EXCEPT ![p] = H]
      BY <1>3, LeaseLemma
    <2>2. H \subseteq Handles
      BY DEF Free
    <2>3. HandlesOK'
      <3>1. awaited' \in [Processes -> SUBSET Handles]
        BY <2>1, <2>2 DEF TypeOK
      <3>2. job' \in [Handles -> Jobs \cup {NoJob}] /\ left' \in [Handles -> Nat]
        BY <2>1 DEF TypeOK
      <3>3. pc' \in [Handles -> HandlePc]
        BY <2>1 DEF TypeOK, HandlePc
      <3> QED  BY <2>1, <2>2, <3>1, <3>2, <3>3 DEF HandlesOK, TypeOK
    <2>4. TableOK'
      <3>1. owner' \in [Jobs -> Processes \cup {NoOwner}]
        BY <1>3 DEF LeaseJobs, TypeOK
      <3>2. ttl' \in [Jobs -> Nat] /\ attempts' \in [Jobs -> Nat]
        BY <1>3 DEF LeaseJobs, TypeOK
      <3> QED  BY <1>3, <3>1, <3>2 DEF LeaseJobs, TypeOK, TableOK
    <2> QED  BY <1>3, <1>j, <1>0, <2>3, <2>4 DEF LeaseJobs
  <1>4. ASSUME NEW h \in Handles, NEW outcome \in JobOutcome, Process(h, outcome)
        PROVE  TypeOK'
    <2>1. pc' \in [Handles -> HandlePc]
      BY <1>4 DEF Process, TypeOK, HandlePc
    <2> QED  BY <1>4, <1>a, <1>j, <1>0, <2>1 DEF Process, HandlesOK
  <1>5. ASSUME NEW h \in Handles, Acknowledge(h) \/ RecordFailure(h) \/ Abandon(h)
        PROVE  TypeOK'
    BY <1>5, <1>j, <1>0, TableLemma, ResolveLemma
       DEF Acknowledge, RecordFailure, Abandon
  <1>6. ASSUME NEW h \in Handles, AcknowledgeThrows(h) PROVE TypeOK'
    <2>1. pc' \in [Handles -> HandlePc]
      BY <1>6 DEF AcknowledgeThrows, TypeOK, HandlePc, JobOutcome
    <2>2. TableOK'
      BY <1>6, TableLemma DEF AcknowledgeThrows
    <2> QED  BY <1>6, <1>j, <1>0, <2>1, <2>2 DEF AcknowledgeThrows, HandlesOK
  <1>7. ASSUME NEW h \in Handles, RecordFailureThrows(h) PROVE TypeOK'
    <2>1. pc' \in [Handles -> HandlePc] /\ left' \in [Handles -> Nat]
      BY <1>7 DEF RecordFailureThrows, TypeOK, HandlePc
    <2>2. job' \in [Handles -> Jobs \cup {NoJob}]
      <3>1. job' = [job EXCEPT ![h] = NoJob]
        BY <1>7 DEF RecordFailureThrows
      <3> QED  BY <3>1 DEF TypeOK
    <2>3. awaited' \in [Processes -> SUBSET Handles]
      <3>1. {} \in SUBSET Handles
        OBVIOUS
      <3>2. \/ awaited' = [awaited EXCEPT ![ProcessOf[h]] = {}]
            \/ awaited' = awaited
        BY <1>7 DEF RecordFailureThrows
      <3> QED  BY <3>1, <3>2 DEF TypeOK
    <2>4. TableOK'
      BY <1>7, TableLemma DEF RecordFailureThrows
    <2> QED  BY <1>7, <1>j, <1>0, <2>1, <2>2, <2>3, <2>4
                DEF RecordFailureThrows, HandlesOK
  <1>8. ASSUME NEW h \in Handles, Heartbeat(h) PROVE TypeOK'
    <2>1. ttl' \in [Jobs -> Nat] /\ left' \in [Handles -> Nat] /\ beating' \subseteq Handles
      BY <1>8 DEF Heartbeat, TypeOK
    <2> QED  BY <1>8, <1>j, <1>0, <2>1 DEF Heartbeat, TableOK, HandlesOK
  <1>9. ASSUME NEW p \in Processes, Stop(p) PROVE TypeOK'
    <2>1. owner' \in [Jobs -> Processes \cup {NoOwner}]
      BY <1>9 DEF Stop, TypeOK
    <2>2. ttl' \in [Jobs -> Nat] /\ wait' \in [Jobs -> Nat]
      BY <1>9 DEF Stop, TypeOK
    <2> QED  BY <1>9, <1>b, <1>j, <1>0, <2>1, <2>2 DEF Stop, TableOK
  <1>10. ASSUME NEW p \in Processes, Crash(p) PROVE TypeOK'
    <2>1. pc' \in [Handles -> HandlePc]
      BY <1>10 DEF Crash, TypeOK, HandlePc
    <2>2. left' \in [Handles -> Nat] /\ job' \in [Handles -> Jobs \cup {NoJob}]
      BY <1>10 DEF Crash, TypeOK
    <2>3. awaited' \in [Processes -> SUBSET Handles]
      <3>1. awaited' = [awaited EXCEPT ![p] = {}] /\ {} \in SUBSET Handles
        BY <1>10 DEF Crash
      <3> QED  BY <3>1 DEF TypeOK
    <2> QED  BY <1>10, <1>a, <1>j, <1>0, <2>1, <2>2, <2>3 DEF Crash, HandlesOK
  <1>11. CASE Tick
    <2>1. \A n \in Nat : Down(n) \in Nat
      BY DEF Down
    <2>2. wait' \in [Jobs -> Nat] /\ ttl' \in [Jobs -> Nat] /\ left' \in [Handles -> Nat]
      BY <1>11, <2>1 DEF Tick, TypeOK
    <2>3. stalls' \in Nat
      BY <1>11 DEF Tick, TypeOK
    <2> QED  BY <1>11, <1>j, <1>0, <2>2, <2>3 DEF Tick, TableOK, HandlesOK
  <1>12. CASE UNCHANGED vars
    BY <1>12, <1>a, <1>b, <1>j, <1>0 DEF vars
  <1> QED
    BY <1>1, <1>2, <1>3, <1>4, <1>5, <1>6, <1>7, <1>8, <1>9, <1>10, <1>11, <1>12
       DEF Next, Handle
-----------------------------------------------------------------------------
(* The leases.                                                              *)

\* A handle that resolves, after one of the two UPDATEs or none, takes
\* nothing from the others: who has a lease to the same job would be a handle
\* of the same tick.
LEMMA ResolveKeepsLeases ==
    ASSUME TypeOK, NEW h \in Handles, Busy(h),
           IdleInv, AwaitedInv, DistinctInv, GrantedInv, Resolve(h),
           CompleteRow(h) \/ FailRow(h) \/ UNCHANGED table
    PROVE  (IdleInv /\ AwaitedInv /\ DistinctInv /\ GrantedInv)'
  <1>1. /\ pc' = [pc EXCEPT ![h] = "idle"]
        /\ left' = [left EXCEPT ![h] = 0]
        /\ awaited' = [awaited EXCEPT ![ProcessOf[h]] = awaited[ProcessOf[h]] \ {h}]
        /\ job' = [job EXCEPT ![h] = NoJob]
    BY DEF Resolve
  <1>2. \A g \in Handles : IF g = h THEN ~Busy(g)' /\ job'[g] = NoJob
                                    ELSE /\ Busy(g)' <=> Busy(g)
                                         /\ job'[g] = job[g]
                                         /\ left'[g] = left[g]
    BY <1>1 DEF TypeOK, Busy
  <1>3. \A g \in Handles : g # h /\ g \in awaited[ProcessOf[g]]
                           => g \in awaited'[ProcessOf[g]]
    <2>1. \A g \in Handles : ProcessOf[g] \in Processes
      BY PortableWorkerAssumption
    <2> QED  BY <1>1, <2>1 DEF TypeOK
  <1>4. AwaitedInv'
    BY <1>2, <1>3 DEF AwaitedInv
  <1>5. IdleInv' /\ DistinctInv'
    BY <1>2 DEF IdleInv, DistinctInv
  <1>6. ASSUME NEW g \in Handles, g # h, Busy(g), left[g] > 0
        PROVE  /\ job[g] \in Live'
               /\ owner'[job[g]] = ProcessOf[g]
               /\ ttl'[job[g]] >= left[g]
    <2>1. /\ job[g] \in Live
          /\ owner[job[g]] = ProcessOf[g]
          /\ ttl[job[g]] >= left[g]
      BY <1>6 DEF GrantedInv
    <2>2. job[g] \in Jobs
      BY <2>1 DEF Live
    <2>3. Owned(h) => job[h] # job[g]
      BY <1>6, <2>1 DEF Owned, DistinctInv
    <2>4. /\ row'[job[g]] = row[job[g]]
          /\ owner'[job[g]] = owner[job[g]]
          /\ ttl'[job[g]] = ttl[job[g]]
      <3>1. CASE Owned(h)
        <4>1. \/ row' = row
              \/ row' = [row EXCEPT ![job[h]] = "completed"]
              \/ row' = [row EXCEPT ![job[h]] = "failed"]
          BY <3>1 DEF CompleteRow, FailRow, table
        <4>2. \/ owner' = owner /\ ttl' = ttl
              \/ Unlease(job[h])
          BY <3>1 DEF CompleteRow, FailRow, table
        <4> QED  BY <2>2, <2>3, <3>1, <4>1, <4>2 DEF Unlease, TypeOK
      <3>2. CASE ~Owned(h)
        BY <3>2 DEF CompleteRow, FailRow, table
      <3> QED  BY <3>1, <3>2
    <2> QED  BY <2>1, <2>2, <2>4 DEF Live
  <1>7. GrantedInv'
    <2> SUFFICES ASSUME NEW g \in Handles, Busy(g)', left'[g] > 0
                 PROVE  /\ job'[g] \in Live'
                        /\ owner'[job'[g]] = ProcessOf[g]
                        /\ ttl'[job'[g]] >= left'[g]
      BY DEF GrantedInv
    <2> QED  BY <1>2, <1>6
  <1> QED  BY <1>4, <1>5, <1>7

\* A lease given to handles of p: none of them was at work, and a job it
\* takes has no lease that another handle could still rely on.
LEMMA LeaseKeepsLeases ==
    ASSUME TypeOK, NEW p \in Processes, NEW S \in SUBSET Jobs, LeaseJobs(p, S),
           IdleInv, AwaitedInv, DistinctInv, GrantedInv
    PROVE  (IdleInv /\ AwaitedInv /\ DistinctInv /\ GrantedInv)'
  <1>1. PICK H \in SUBSET Free(p), took \in [Handles -> Jobs \cup {NoJob}] :
             /\ \A h \in H : took[h] \in S
             /\ \A g, h \in H : took[g] = took[h] => g = h
             /\ job' = [h \in Handles |-> IF h \in H THEN took[h] ELSE job[h]]
             /\ pc' = [h \in Handles |-> IF h \in H THEN "running" ELSE pc[h]]
             /\ left' = [h \in Handles |-> IF h \in H THEN Lease ELSE left[h]]
             /\ beating' = beating \cup H
             /\ awaited' = [awaited EXCEPT ![p] = H]
    BY LeaseLemma
  <1>2. /\ H \subseteq Handles
        /\ \A h \in H : ProcessOf[h] = p
        /\ \A h \in Handles : Busy(h) => ProcessOf[h] # p
    BY DEF Free, AwaitedInv, LeaseJobs
  <1>3. \A h \in Handles :
           IF h \in H THEN /\ Busy(h)'
                           /\ job'[h] = took[h]
                           /\ left'[h] = Lease
                      ELSE /\ Busy(h)' <=> Busy(h)
                           /\ job'[h] = job[h]
                           /\ left'[h] = left[h]
    BY <1>1 DEF Busy
  <1>4. \A h \in H : took[h] \in Jobs
    BY <1>1
  <1>5. IdleInv'
    BY <1>3 DEF IdleInv
  <1>6. AwaitedInv'
    <2> SUFFICES ASSUME NEW h \in Handles, Busy(h)'
                 PROVE  h \in awaited'[ProcessOf[h]]
      BY DEF AwaitedInv
    <2>1. ProcessOf[h] \in Processes
      BY PortableWorkerAssumption
    <2>2. CASE h \in H
      BY <1>1, <1>2, <2>1, <2>2 DEF TypeOK
    <2>3. CASE h \notin H
      BY <1>1, <1>2, <1>3, <2>1, <2>3 DEF TypeOK, AwaitedInv
    <2> QED  BY <2>2, <2>3
  <1>7. DistinctInv'
    <2> SUFFICES ASSUME NEW g \in Handles, NEW h \in Handles, Busy(g)', Busy(h)',
                        ProcessOf[g] = ProcessOf[h], job'[g] = job'[h]
                 PROVE  g = h
      BY DEF DistinctInv
    <2>1. CASE g \in H /\ h \in H
      BY <1>1, <1>3, <2>1
    <2>2. CASE g \notin H /\ h \notin H
      BY <1>3, <2>2 DEF DistinctInv
    <2> QED  BY <1>2, <1>3, <2>1, <2>2
  <1>8. /\ owner' = [j \in Jobs |-> IF j \in S THEN p ELSE owner[j]]
        /\ ttl' = [j \in Jobs |-> IF j \in S THEN Lease ELSE ttl[j]]
        /\ row' = row
        /\ \A j \in S : j \in Live /\ ttl[j] = 0
    BY DEF LeaseJobs, Leasable
  <1>9. GrantedInv'
    <2> SUFFICES ASSUME NEW h \in Handles, Busy(h)', left'[h] > 0
                 PROVE  /\ job'[h] \in Live'
                        /\ owner'[job'[h]] = ProcessOf[h]
                        /\ ttl'[job'[h]] >= left'[h]
      BY DEF GrantedInv
    <2>1. CASE h \in H
      <3>1. job'[h] \in S /\ job'[h] \in Jobs
        BY <1>1, <1>3, <1>4, <2>1
      <3>2. ttl'[job'[h]] = Lease /\ left'[h] = Lease /\ Lease \in Nat
        BY <1>3, <1>8, <2>1, <3>1, PortableWorkerAssumption
      <3> QED  BY <1>2, <1>8, <2>1, <3>1, <3>2 DEF Live
    <2>2. CASE h \notin H
      <3>1. Busy(h) /\ job'[h] = job[h] /\ left'[h] = left[h] /\ left[h] > 0
        BY <1>3, <2>2
      <3>2. /\ job[h] \in Live
            /\ owner[job[h]] = ProcessOf[h]
            /\ ttl[job[h]] >= left[h]
        BY <3>1 DEF GrantedInv
      <3>3. job[h] \in Jobs /\ left[h] \in Nat
        BY <3>2 DEF Live, TypeOK
      <3>4. job[h] \notin S
        BY <1>8, <3>1, <3>2, <3>3
      <3> QED  BY <1>8, <3>1, <3>2, <3>3, <3>4 DEF Live
    <2> QED  BY <2>1, <2>2
  <1> QED  BY <1>5, <1>6, <1>7, <1>9

\* Every step keeps the invariant of the leases.
LEMMA LeasesStep ==
    ASSUME TypeOK, LeasesInv, [Next]_vars
    PROVE  LeasesInv'
  <1> USE DEF LeasesInv
  <1>s. ASSUME UNCHANGED handle
        PROVE  \A h \in Handles : /\ Busy(h)' <=> Busy(h)
                                  /\ job'[h] = job[h]
                                  /\ left'[h] = left[h]
    BY <1>s DEF handle, Busy
  <1>1. ASSUME NEW j \in Jobs, NEW delay \in 0..MaxWait, Enqueue(j, delay)
        PROVE  LeasesInv'
    <2>1. Live \subseteq Live'
      BY <1>1 DEF Enqueue, Live, TypeOK
    <2> QED  BY <1>1, <1>s, <2>1
             DEF Enqueue, IdleInv, AwaitedInv, DistinctInv, GrantedInv
  <1>2. ASSUME NEW j \in Jobs, RecoverFailed(j) \/ PruneFinished(j)
        PROVE  LeasesInv'
    <2>1. Live \subseteq Live'
      BY <1>2 DEF RecoverFailed, PruneFinished, Live, TypeOK
    <2> QED  BY <1>2, <1>s, <2>1 DEF RecoverFailed, PruneFinished,
                IdleInv, AwaitedInv, DistinctInv, GrantedInv
  <1>3. ASSUME NEW p \in Processes, NEW S \in SUBSET Jobs, LeaseJobs(p, S)
        PROVE  LeasesInv'
    BY <1>3, LeaseKeepsLeases DEF LeaseJobs
  <1>4. ASSUME NEW h \in Handles, NEW outcome \in JobOutcome, Process(h, outcome)
        PROVE  LeasesInv'
    <2>1. \A g \in Handles : Busy(g)' <=> Busy(g)
      BY <1>4 DEF Process, Busy, TypeOK, JobOutcome
    <2> QED  BY <1>4, <2>1 DEF Process, table, Live,
                IdleInv, AwaitedInv, DistinctInv, GrantedInv
  <1>5. ASSUME NEW h \in Handles, Acknowledge(h) \/ RecordFailure(h) \/ Abandon(h)
        PROVE  LeasesInv'
    <2>1. Busy(h) /\ Resolve(h) /\ errors' = errors
          /\ (CompleteRow(h) \/ FailRow(h) \/ UNCHANGED table)
      BY <1>5 DEF Acknowledge, RecordFailure, Abandon, Busy
    <2> QED  BY <2>1, ResolveKeepsLeases
  <1>6. ASSUME NEW h \in Handles, AcknowledgeThrows(h) \/ RecordFailureThrows(h)
        PROVE  LeasesInv'
    <2>1. errors' # 0
      BY <1>6 DEF AcknowledgeThrows, RecordFailureThrows, TypeOK
    <2> QED  BY <2>1
  <1>7. ASSUME NEW h \in Handles, Heartbeat(h) PROVE LeasesInv'
    <2> SUFFICES ASSUME errors = 0 PROVE (IdleInv /\ AwaitedInv /\ DistinctInv /\ GrantedInv)'
      BY <1>7 DEF Heartbeat
    <2>1. \A g \in Handles : (Busy(g)' <=> Busy(g)) /\ job'[g] = job[g]
      BY <1>7 DEF Heartbeat, Busy
    <2>2. IdleInv' /\ AwaitedInv' /\ DistinctInv'
      BY <1>7, <2>1 DEF Heartbeat, IdleInv, AwaitedInv, DistinctInv
    <2>3. GrantedInv'
      <3> SUFFICES ASSUME NEW g \in Handles, Busy(g), left'[g] > 0
                   PROVE  /\ job[g] \in Live
                          /\ owner[job[g]] = ProcessOf[g]
                          /\ ttl'[job[g]] >= left'[g]
        BY <1>7, <2>1 DEF GrantedInv, Heartbeat, Live
      <3>1. CASE ~Owned(h)
        BY <1>7, <3>1 DEF Heartbeat, GrantedInv
      <3>2. CASE Owned(h) /\ g = h
        <4>1. job[h] \in Jobs
          BY <3>2 DEF Owned, Live
        <4> QED  BY <1>7, <3>2, <4>1, PortableWorkerAssumption
                    DEF Heartbeat, Owned, TypeOK
      <3>3. CASE Owned(h) /\ g # h
        <4>1. left'[g] = left[g] /\ job[h] \in Jobs
          BY <1>7, <3>3 DEF Heartbeat, TypeOK, Owned, Live
        <4>2. /\ job[g] \in Live
              /\ owner[job[g]] = ProcessOf[g]
              /\ ttl[job[g]] >= left[g]
          BY <4>1 DEF GrantedInv
        <4>3. Busy(h)
          BY <4>1, PortableWorkerAssumption DEF IdleInv
        <4>4. job[g] # job[h]
          BY <3>3, <4>2, <4>3 DEF Owned, DistinctInv
        <4>5. job[g] \in Jobs
          BY <4>2 DEF Live
        <4> QED  BY <1>7, <3>3, <4>1, <4>2, <4>4, <4>5 DEF Heartbeat, TypeOK
      <3> QED  BY <3>1, <3>2, <3>3
    <2> QED  BY <2>2, <2>3
  <1>8. ASSUME NEW p \in Processes, Stop(p) PROVE LeasesInv'
    <2> SUFFICES ASSUME errors = 0 PROVE (IdleInv /\ AwaitedInv /\ DistinctInv /\ GrantedInv)'
      BY <1>8 DEF Stop
    <2>1. UNCHANGED handle /\ awaited' = awaited /\ row' = row
      BY <1>8 DEF Stop
    <2>2. \A h \in Handles : Busy(h) => ProcessOf[h] # p
      BY <1>8 DEF Stop, AwaitedInv
    <2>3. \A j \in Jobs : j \in Live /\ owner[j] # p
                          => owner'[j] = owner[j] /\ ttl'[j] = ttl[j]
      BY <1>8 DEF Stop
    <2>4. IdleInv' /\ AwaitedInv' /\ DistinctInv'
      BY <1>s, <2>1 DEF IdleInv, AwaitedInv, DistinctInv
    <2>5. GrantedInv'
      BY <1>s, <2>1, <2>2, <2>3 DEF GrantedInv, Live
    <2> QED  BY <2>4, <2>5
  <1>9. ASSUME NEW p \in Processes, Crash(p) PROVE LeasesInv'
    <2> SUFFICES ASSUME errors = 0 PROVE (IdleInv /\ AwaitedInv /\ DistinctInv /\ GrantedInv)'
      BY <1>9 DEF Crash
    <2>1. \A h \in Handles :
            IF ProcessOf[h] = p THEN ~Busy(h)' /\ job'[h] = NoJob
                                ELSE /\ Busy(h)' <=> Busy(h)
                                     /\ job'[h] = job[h]
                                     /\ left'[h] = left[h]
      BY <1>9 DEF Crash, Busy
    <2>2. \A h \in Handles : ProcessOf[h] # p => awaited'[ProcessOf[h]] = awaited[ProcessOf[h]]
      BY <1>9, PortableWorkerAssumption DEF Crash, TypeOK
    <2>3. row' = row /\ owner' = owner /\ ttl' = ttl
      BY <1>9 DEF Crash, table
    <2>4. IdleInv' /\ AwaitedInv' /\ DistinctInv'
      BY <2>1, <2>2 DEF IdleInv, AwaitedInv, DistinctInv
    <2>5. GrantedInv'
      BY <2>1, <2>3 DEF GrantedInv, Live
    <2> QED  BY <2>4, <2>5
  <1>10. CASE Tick
    <2> SUFFICES ASSUME errors = 0 PROVE (IdleInv /\ AwaitedInv /\ DistinctInv /\ GrantedInv)'
      BY <1>10 DEF Tick
    <2>1. \A h \in Handles : (Busy(h)' <=> Busy(h)) /\ job'[h] = job[h]
      BY <1>10 DEF Tick, Busy
    <2>2. IdleInv' /\ AwaitedInv' /\ DistinctInv'
      BY <1>10, <2>1 DEF Tick, IdleInv, AwaitedInv, DistinctInv
    <2>3. GrantedInv'
      <3> SUFFICES ASSUME NEW h \in Handles, Busy(h), left'[h] > 0
                   PROVE  /\ job[h] \in Live
                          /\ owner[job[h]] = ProcessOf[h]
                          /\ ttl'[job[h]] >= left'[h]
        BY <1>10, <2>1 DEF Tick, GrantedInv, Live
      <3>1. left'[h] = Down(left[h]) /\ left[h] \in Nat
        BY <1>10 DEF Tick, TypeOK
      <3>2. left[h] > 0 /\ left'[h] = left[h] - 1
        BY <3>1 DEF Down
      <3>3. /\ job[h] \in Live
            /\ owner[job[h]] = ProcessOf[h]
            /\ ttl[job[h]] >= left[h]
        BY <3>2 DEF GrantedInv
      <3>4. ttl'[job[h]] = Down(ttl[job[h]]) /\ ttl[job[h]] \in Nat
        BY <1>10, <3>3 DEF Tick, Live, TypeOK
      <3> QED  BY <3>1, <3>2, <3>3, <3>4 DEF Down
    <2> QED  BY <2>2, <2>3
  <1>11. CASE UNCHANGED vars
    BY <1>11, <1>s DEF vars, table, handle, Live, IdleInv, AwaitedInv, DistinctInv, GrantedInv
  <1> QED
    BY <1>1, <1>2, <1>3, <1>4, <1>5, <1>6, <1>7, <1>8, <1>9, <1>10, <1>11
       DEF Next, Handle

\* Every reachable state has the types of the table and of the handles, and
\* until a queue operation throws every handle at work under a live lease
\* works on a row its process owns (postgres-job-queue.ts, worker.ts).
THEOREM LeasesInvariant == Spec => [](TypeOK /\ LeasesInv)
  <1>1. Init => TypeOK /\ LeasesInv
    <2>1. Init => LeasesInv
      BY DEF Init, LeasesInv, IdleInv, AwaitedInv, DistinctInv, GrantedInv, Busy
    <2> QED  BY <2>1, TypeInit
  <1>2. TypeOK /\ LeasesInv /\ [Next]_vars => (TypeOK /\ LeasesInv)'
    BY TypeStep, LeasesStep
  <1> QED  BY <1>1, <1>2, PTL DEF Spec

\* As long as no queue operation has thrown, two handles never run one job
\* under leases neither of which has expired, whatever stalls, crashes and
\* orderly stops happen.
THEOREM LeasedRunsAloneHolds == Spec => []LeasedRunsAlone
  <1>1. TypeOK /\ LeasesInv => LeasedRunsAlone
    BY DEF LeasesInv, DistinctInv, GrantedInv, LeasedRunsAlone, Busy
  <1> QED  BY <1>1, LeasesInvariant, PTL
=============================================================================
