---------------------------- MODULE StoreProofs ----------------------------
(***************************************************************************)
(* Proofs about what the delivery stores promise the services: the outbox, *)
(* for any finite set of items, any sweeps, owners and layouts of them,    *)
(* any lease, batch and schedule, and any number of faults; and the ledger *)
(* of the DynamoDB store, for any recipients, callers, events and bound on *)
(* the attempts.                                                           *)
(***************************************************************************)
EXTENDS Outbox, LedgerStore, FiniteSetTheorems, TLAPS

-----------------------------------------------------------------------------
(* The inductive invariants.                                                *)

SweepPc == {"idle", "sweeping", "accepted", "refused"}

\* The records of the items and the locals of the sweeps keep their types.
TypeOK ==
    /\ ownerOf \in [Sweeps -> Owners]
    /\ wait \in [Items -> Nat]
    /\ owner \in [Items -> Owners \cup {NoOwner}]
    /\ ttl \in [Items -> Nat]
    /\ dispatched \subseteq Items
    /\ index \in [Items -> {"none", "due", "leased"} \X Nat]
    /\ undispatched \in Int
    /\ published \subseteq Items
    /\ pc \in [Sweeps -> SweepPc]
    /\ todo \in [Sweeps -> SUBSET Items]
    /\ cur \in [Sweeps -> Items]
    /\ left \in [Sweeps -> Nat]
    /\ faults \in Nat

\* What a sweep keeps of the items it leased: the one it is publishing is
\* off its list, and one whose publication was accepted is in the queue.
SweepsInv ==
    /\ dispatched \subseteq published
    /\ \A d \in Sweeps :
         /\ pc[d] = "idle" => todo[d] = {}
         /\ pc[d] \in {"accepted", "refused"} => cur[d] \notin todo[d]
         /\ pc[d] = "accepted" => cur[d] \in published

DistinctOwners == \A c, d \in Sweeps : ownerOf[c] = ownerOf[d] => c = d

\* A sweep whose leases have not run out still owns every item it holds, in
\* the store, for at least as long.
LeasesInv ==
    DistinctOwners =>
    \A d \in Sweeps : left[d] > 0 =>
        \A i \in Holds(d) : /\ i \notin dispatched
                            /\ owner[i] = ownerOf[d]
                            /\ ttl[i] >= left[d]

\* The index entry of an item says what the item says: nothing once it is
\* dispatched, when it is due while nobody leased it, and when its lease runs
\* out, dead or alive, once somebody has.  The counter is their number.
IndexInv ==
    /\ \A i \in dispatched : index[i] = Unindexed
    /\ \A i \in Items \ dispatched :
         /\ owner[i] = NoOwner => ttl[i] = 0 /\ index[i] = <<"due", wait[i]>>
         /\ owner[i] # NoOwner => wait[i] = 0 /\ index[i] = <<"leased", ttl[i]>>
    /\ undispatched = Cardinality(Items \ dispatched)

OutboxInv == TypeOK /\ SweepsInv /\ LeasesInv /\ IndexInv

-----------------------------------------------------------------------------
(* Type correctness.                                                        *)

\* Only items are leased.
LEMMA LeasableLemma == Leasable \subseteq Items
  BY DEF Leasable

\* The outbox starts with its types.
LEMMA TypeInit == ObInit => TypeOK
  <1> SUFFICES ASSUME ObInit PROVE TypeOK
    OBVIOUS
  <1> USE OutboxAssumption
  <1>1. undispatched \in Int
    <2>1. IsFiniteSet(Items \ dispatched)
      BY FS_Difference
    <2> QED  BY <2>1, FS_CardinalityType DEF ObInit
  <1>2. index \in [Items -> {"none", "due", "leased"} \X Nat]
    BY DEF ObInit, Unindexed
  <1>3. /\ pc \in [Sweeps -> SweepPc]
        /\ todo \in [Sweeps -> SUBSET Items]
        /\ left \in [Sweeps -> Nat]
    BY DEF ObInit, SweepPc
  <1> QED  BY <1>1, <1>2, <1>3 DEF ObInit, TypeOK

\* Giving up a lease, or dispatching an item, keeps the types.
LEMMA ReleaseTypeLemma ==
    ASSUME TypeOK, NEW d \in Sweeps, ReleaseLease(d)
    PROVE  /\ owner' \in [Items -> Owners \cup {NoOwner}]
           /\ ttl' \in [Items -> Nat]
  <1>1. owner' \in [Items -> Owners \cup {NoOwner}]
    <2>1. owner' = [owner EXCEPT ![cur[d]] = NoOwner]
      BY DEF ReleaseLease
    <2>2. NoOwner \in Owners \cup {NoOwner}
      OBVIOUS
    <2> QED  BY <2>1, <2>2 DEF TypeOK
  <1>2. ttl' \in [Items -> Nat]
    BY DEF ReleaseLease, TypeOK
  <1> QED  BY <1>1, <1>2

\* Every step keeps the types.
LEMMA TypeStep ==
    ASSUME TypeOK, [ObNext]_vars
    PROVE  TypeOK'
  <1> USE OutboxAssumption
  <1>1. ASSUME NEW d \in Sweeps, LeaseDueOutbox(d) PROVE TypeOK'
    <2>1. PICK S \in SUBSET Leasable :
            /\ owner' = [i \in Items |-> IF i \in S THEN ownerOf[d] ELSE owner[i]]
            /\ ttl' = [i \in Items |-> IF i \in S THEN Lease ELSE ttl[i]]
            /\ index' = [i \in Items |-> IF i \in S THEN <<"leased", Lease>> ELSE index[i]]
            /\ todo' = [todo EXCEPT ![d] = S]
      BY <1>1 DEF LeaseDueOutbox
    <2>2. S \subseteq Items
      BY LeasableLemma
    <2>3. /\ owner' \in [Items -> Owners \cup {NoOwner}]
          /\ ttl' \in [Items -> Nat]
          /\ todo' \in [Sweeps -> SUBSET Items]
      BY <2>1, <2>2 DEF TypeOK
    <2>4. index' \in [Items -> {"none", "due", "leased"} \X Nat]
      BY <2>1 DEF TypeOK
    <2>5. left' \in [Sweeps -> Nat] /\ pc' \in [Sweeps -> SweepPc]
      BY <1>1 DEF LeaseDueOutbox, TypeOK, SweepPc
    <2> QED  BY <1>1, <2>3, <2>4, <2>5 DEF LeaseDueOutbox, TypeOK
  <1>2. ASSUME NEW d \in Sweeps, NEW i \in Items,
               PublishAccepted(d, i) \/ PublishRefused(d, i)
        PROVE  TypeOK'
    <2>1. todo' \in [Sweeps -> SUBSET Items] /\ pc' \in [Sweeps -> SweepPc]
      <3>1. todo' = [todo EXCEPT ![d] = todo[d] \ {i}]
        BY <1>2 DEF PublishAccepted, PublishRefused
      <3>2. todo[d] \ {i} \in SUBSET Items
        BY DEF TypeOK
      <3>3. pc' \in [Sweeps -> SweepPc]
        BY <1>2 DEF PublishAccepted, PublishRefused, TypeOK, SweepPc
      <3> QED  BY <3>1, <3>2, <3>3 DEF TypeOK
    <2> QED  BY <1>2, <2>1 DEF PublishAccepted, PublishRefused, TypeOK
  <1>3. ASSUME NEW d \in Sweeps, AcknowledgeOutbox(d) PROVE TypeOK'
    <2>1. pc' \in [Sweeps -> SweepPc]
      BY <1>3 DEF AcknowledgeOutbox, NextItem, TypeOK, SweepPc
    <2>2. cur[d] \in Items
      BY DEF TypeOK
    <2>3. CASE Owned(d)
      <3>1. index' \in [Items -> {"none", "due", "leased"} \X Nat]
        BY <1>3, <2>3, <2>2 DEF AcknowledgeOutbox, TypeOK, Unindexed, Owned
      <3>2. /\ owner' \in [Items -> Owners \cup {NoOwner}]
            /\ ttl' \in [Items -> Nat]
        BY <1>3, <2>3, ReleaseTypeLemma DEF AcknowledgeOutbox
      <3>3. undispatched' \in Int /\ dispatched' \subseteq Items
        BY <1>3, <2>3, <2>2 DEF AcknowledgeOutbox, TypeOK
      <3> QED
        BY <1>3, <2>1, <2>3, <3>1, <3>2, <3>3 DEF AcknowledgeOutbox, TypeOK
    <2>4. CASE ~Owned(d)
      BY <1>3, <2>1, <2>4 DEF AcknowledgeOutbox, TypeOK
    <2> QED  BY <2>3, <2>4
  <1>4. ASSUME NEW d \in Sweeps, RecordOutboxFailure(d) PROVE TypeOK'
    <2>1. pc' \in [Sweeps -> SweepPc]
      BY <1>4 DEF RecordOutboxFailure, NextItem, TypeOK, SweepPc
    <2>2. CASE Owned(d)
      <3>1. index' \in [Items -> {"none", "due", "leased"} \X Nat]
        BY <1>4, <2>2 DEF RecordOutboxFailure, Reindexed, TypeOK
      <3>2. /\ owner' \in [Items -> Owners \cup {NoOwner}]
            /\ ttl' \in [Items -> Nat]
        BY <1>4, <2>2, ReleaseTypeLemma DEF RecordOutboxFailure
      <3> QED  BY <1>4, <2>1, <3>1, <3>2 DEF RecordOutboxFailure, TypeOK
    <2>3. CASE ~Owned(d)
      BY <1>4, <2>1, <2>3 DEF RecordOutboxFailure, TypeOK
    <2> QED  BY <2>2, <2>3
  <1>5. ASSUME NEW d \in Sweeps, Lose(d) PROVE TypeOK'
    BY <1>5 DEF Lose, TypeOK, SweepPc
  <1>6. ASSUME NEW i \in Items, NEW t \in 1..MaxWait, Reschedule(i, t) PROVE TypeOK'
    BY <1>6 DEF Reschedule, TypeOK
  <1>7. CASE Tick
    <2>1. \A n \in Nat : Down(n) \in Nat
      BY DEF Down
    <2>2. index' \in [Items -> {"none", "due", "leased"} \X Nat]
      <3>1. \A i \in Items : <<index[i][1], Down(index[i][2])>>
                               \in {"none", "due", "leased"} \X Nat
        BY <2>1 DEF TypeOK
      <3> QED  BY <1>7, <3>1 DEF Tick
    <2> QED  BY <1>7, <2>1, <2>2 DEF Tick, TypeOK
  <1>8. CASE UNCHANGED vars
    BY <1>8 DEF vars, TypeOK
  <1> QED
    BY <1>1, <1>2, <1>3, <1>4, <1>5, <1>6, <1>7, <1>8 DEF ObNext, Sweep

-----------------------------------------------------------------------------
(* The sweeps.                                                              *)

\* Every step keeps the invariant of the sweeps.
LEMMA SweepsStep ==
    ASSUME TypeOK, SweepsInv, [ObNext]_vars
    PROVE  SweepsInv'
  <1>1. ASSUME NEW d \in Sweeps, LeaseDueOutbox(d) PROVE SweepsInv'
    <2>1. /\ pc' = [pc EXCEPT ![d] = "sweeping"]
          /\ \A c \in Sweeps \ {d} : todo'[c] = todo[c]
          /\ UNCHANGED <<dispatched, published, cur>>
      BY <1>1 DEF LeaseDueOutbox, TypeOK
    <2> QED  BY <2>1 DEF SweepsInv, TypeOK
  <1>2. ASSUME NEW d \in Sweeps, NEW i \in Items,
               PublishAccepted(d, i) \/ PublishRefused(d, i)
        PROVE  SweepsInv'
    <2>1. /\ todo' = [todo EXCEPT ![d] = @ \ {i}]
          /\ cur' = [cur EXCEPT ![d] = i]
          /\ published \subseteq published'
          /\ dispatched' = dispatched
          /\ \/ pc' = [pc EXCEPT ![d] = "accepted"] /\ i \in published'
             \/ pc' = [pc EXCEPT ![d] = "refused"]
      BY <1>2 DEF PublishAccepted, PublishRefused
    <2> QED  BY <2>1 DEF SweepsInv, TypeOK
  <1>3. ASSUME NEW d \in Sweeps, AcknowledgeOutbox(d) \/ RecordOutboxFailure(d)
        PROVE  SweepsInv'
    <2>1. /\ pc' = [pc EXCEPT ![d] = IF todo[d] = {} THEN "idle" ELSE "sweeping"]
          /\ UNCHANGED <<todo, cur, published>>
      BY <1>3 DEF AcknowledgeOutbox, RecordOutboxFailure, NextItem
    <2>2. dispatched' \subseteq published'
      BY <1>3 DEF AcknowledgeOutbox, RecordOutboxFailure, SweepsInv
    <2> QED  BY <2>1, <2>2 DEF SweepsInv, TypeOK
  <1>4. ASSUME NEW d \in Sweeps, Lose(d) PROVE SweepsInv'
    BY <1>4 DEF Lose, SweepsInv, TypeOK
  <1>5. ASSUME NEW i \in Items, NEW t \in 1..MaxWait, Reschedule(i, t)
        PROVE  SweepsInv'
    BY <1>5 DEF Reschedule, SweepsInv
  <1>6. CASE Tick
    BY <1>6 DEF Tick, SweepsInv
  <1>7. CASE UNCHANGED vars
    BY <1>7 DEF vars, SweepsInv
  <1> QED
    BY <1>1, <1>2, <1>3, <1>4, <1>5, <1>6, <1>7 DEF ObNext, Sweep

-----------------------------------------------------------------------------
(* The leases.                                                              *)

\* A step that adds nothing to what the sweeps hold, nor time to their
\* leases, keeps the live ones as long as it leaves their items alone.
LEMMA LeasesFrameLemma ==
    ASSUME LeasesInv, UNCHANGED <<ownerOf, left>>,
           \A c \in Sweeps : Holds(c)' \subseteq Holds(c),
           DistinctOwners =>
             \A c \in Sweeps : left[c] > 0 =>
               \A i \in Holds(c)' :
                 /\ i \in dispatched' => i \in dispatched
                 /\ owner'[i] = owner[i]
                 /\ ttl'[i] = ttl[i]
    PROVE  LeasesInv'
  BY DEF LeasesInv, DistinctOwners

\* Every step keeps the invariant of the leases.
LEMMA LeasesStep ==
    ASSUME TypeOK, SweepsInv, LeasesInv, [ObNext]_vars
    PROVE  LeasesInv'
  <1> USE OutboxAssumption
  <1>1. ASSUME NEW d \in Sweeps, LeaseDueOutbox(d) PROVE LeasesInv'
    <2>1. PICK S \in SUBSET Leasable :
            /\ owner' = [i \in Items |-> IF i \in S THEN ownerOf[d] ELSE owner[i]]
            /\ ttl' = [i \in Items |-> IF i \in S THEN Lease ELSE ttl[i]]
            /\ todo' = [todo EXCEPT ![d] = S]
      BY <1>1 DEF LeaseDueOutbox
    <2>2. /\ left' = [left EXCEPT ![d] = Lease]
          /\ pc' = [pc EXCEPT ![d] = "sweeping"]
          /\ UNCHANGED <<ownerOf, dispatched, cur>>
      BY <1>1 DEF LeaseDueOutbox
    <2>3. Holds(d)' = S /\ \A c \in Sweeps \ {d} : Holds(c)' = Holds(c)
      BY <2>1, <2>2 DEF Holds, TypeOK
    <2>4. \A i \in S : i \in Items /\ i \notin dispatched /\ ttl[i] = 0
      BY DEF Leasable
    <2>5. \A c \in Sweeps : Holds(c) \subseteq Items
      BY DEF Holds, TypeOK
    <2> SUFFICES ASSUME DistinctOwners, NEW c \in Sweeps, left'[c] > 0,
                        NEW i \in Holds(c)'
                 PROVE  i \notin dispatched' /\ owner'[i] = ownerOf'[c]
                        /\ ttl'[i] >= left'[c]
      BY <2>2 DEF LeasesInv, DistinctOwners
    <2>6. CASE c = d
      BY <2>1, <2>2, <2>3, <2>4, <2>6 DEF TypeOK
    <2>7. CASE c # d
      <3>1. /\ i \notin dispatched
            /\ owner[i] = ownerOf[c]
            /\ ttl[i] >= left[c]
            /\ left'[c] = left[c]
            /\ i \in Items
        BY <2>2, <2>3, <2>5, <2>7 DEF LeasesInv, TypeOK
      <3>2. i \notin S
        BY <2>2, <2>4, <2>7, <3>1 DEF TypeOK
      <3> QED  BY <2>1, <2>2, <3>1, <3>2
    <2> QED  BY <2>6, <2>7
  <1>2. ASSUME NEW d \in Sweeps, NEW i \in Items,
               PublishAccepted(d, i) \/ PublishRefused(d, i)
        PROVE  LeasesInv'
    <2>1. /\ i \in todo[d]
          /\ todo' = [todo EXCEPT ![d] = @ \ {i}]
          /\ cur' = [cur EXCEPT ![d] = i]
          /\ UNCHANGED <<ownerOf, owner, ttl, dispatched, left>>
          /\ \/ pc' = [pc EXCEPT ![d] = "accepted"]
             \/ pc' = [pc EXCEPT ![d] = "refused"]
      BY <1>2 DEF PublishAccepted, PublishRefused
    <2>2. \A c \in Sweeps : Holds(c)' \subseteq Holds(c)
      BY <2>1 DEF Holds, TypeOK
    <2> QED  BY <2>1, <2>2, LeasesFrameLemma
  <1>3. ASSUME NEW d \in Sweeps, AcknowledgeOutbox(d) \/ RecordOutboxFailure(d)
        PROVE  LeasesInv'
    <2>1. /\ pc[d] \in {"accepted", "refused"}
          /\ pc' = [pc EXCEPT ![d] = IF todo[d] = {} THEN "idle" ELSE "sweeping"]
          /\ UNCHANGED <<ownerOf, todo, cur, left>>
      BY <1>3 DEF AcknowledgeOutbox, RecordOutboxFailure, NextItem
    <2>2. Holds(d)' = todo[d] /\ \A c \in Sweeps : Holds(c)' \subseteq Holds(c)
      BY <2>1 DEF Holds, TypeOK
    <2>3. cur[d] \notin todo[d]
      BY <2>1 DEF SweepsInv
    <2>4. \A j \in Items : (~Owned(d) \/ j # cur[d]) =>
            /\ j \in dispatched' => j \in dispatched
            /\ owner'[j] = owner[j]
            /\ ttl'[j] = ttl[j]
      BY <1>3 DEF AcknowledgeOutbox, RecordOutboxFailure, ReleaseLease, TypeOK
    <2>5. ASSUME DistinctOwners, NEW c \in Sweeps, left[c] > 0, NEW j \in Holds(c)'
          PROVE  j \in Items /\ (~Owned(d) \/ j # cur[d])
      <3>1. j \in Holds(c) /\ j \in Items
        BY <2>2, <2>5 DEF Holds, TypeOK
      <3>2. owner[j] = ownerOf[c]
        BY <2>5, <3>1 DEF LeasesInv
      <3>3. CASE c = d
        BY <2>2, <2>3, <2>5, <3>1, <3>3
      <3>4. CASE c # d
        BY <2>5, <3>1, <3>2, <3>4 DEF Owned, DistinctOwners
      <3> QED  BY <3>3, <3>4
    <2> QED  BY <2>1, <2>2, <2>4, <2>5, LeasesFrameLemma
  <1>4. ASSUME NEW d \in Sweeps, Lose(d) PROVE LeasesInv'
    <2>1. \A c \in Sweeps : Holds(c)' \subseteq Holds(c)
      BY <1>4 DEF Lose, Holds, TypeOK
    <2> QED  BY <1>4, <2>1, LeasesFrameLemma DEF Lose
  <1>5. ASSUME NEW i \in Items, NEW t \in 1..MaxWait, Reschedule(i, t)
        PROVE  LeasesInv'
    BY <1>5, LeasesFrameLemma DEF Reschedule, Holds
  <1>6. CASE Tick
    <2>1. /\ ttl' = [i \in Items |-> Down(ttl[i])]
          /\ left' = [d \in Sweeps |-> Down(left[d])]
          /\ UNCHANGED <<ownerOf, owner, dispatched, pc, todo, cur>>
      BY <1>6 DEF Tick
    <2>2. \A c \in Sweeps : Holds(c)' = Holds(c) /\ Holds(c) \subseteq Items
      BY <2>1 DEF Holds, TypeOK
    <2> SUFFICES ASSUME DistinctOwners, NEW c \in Sweeps, left'[c] > 0,
                        NEW i \in Holds(c)
                 PROVE  i \notin dispatched /\ owner[i] = ownerOf[c]
                        /\ ttl'[i] >= left'[c]
      BY <2>1, <2>2 DEF LeasesInv, DistinctOwners
    <2>3. left[c] \in Nat /\ ttl[i] \in Nat /\ i \in Items
      BY <2>2 DEF TypeOK
    <2>4. left[c] > 0
      BY <2>1, <2>3 DEF Down
    <2>5. i \notin dispatched /\ owner[i] = ownerOf[c] /\ ttl[i] >= left[c]
      BY <2>4 DEF LeasesInv
    <2> QED  BY <2>1, <2>3, <2>4, <2>5 DEF Down
  <1>7. CASE UNCHANGED vars
    BY <1>7, LeasesFrameLemma DEF vars, Holds
  <1> QED
    BY <1>1, <1>2, <1>3, <1>4, <1>5, <1>6, <1>7 DEF ObNext, Sweep

-----------------------------------------------------------------------------
(* The index.                                                               *)

\* Every step keeps the due index true to the items.
LEMMA IndexStep ==
    ASSUME TypeOK, IndexInv, [ObNext]_vars
    PROVE  IndexInv'
  <1> USE OutboxAssumption
  <1>1. ASSUME NEW d \in Sweeps, LeaseDueOutbox(d) PROVE IndexInv'
    <2>1. PICK S \in SUBSET Leasable :
            /\ owner' = [i \in Items |-> IF i \in S THEN ownerOf[d] ELSE owner[i]]
            /\ ttl' = [i \in Items |-> IF i \in S THEN Lease ELSE ttl[i]]
            /\ index' = [i \in Items |-> IF i \in S THEN <<"leased", Lease>> ELSE index[i]]
      BY <1>1 DEF LeaseDueOutbox
    <2>2. UNCHANGED <<wait, dispatched, undispatched>>
      BY <1>1 DEF LeaseDueOutbox
    <2>3. \A i \in S : i \in Items \ dispatched /\ wait[i] = 0
      BY DEF Leasable
    <2>4. ownerOf[d] # NoOwner
      BY DEF TypeOK
    <2>5. ASSUME NEW i \in dispatched PROVE index'[i] = Unindexed
      BY <2>1, <2>3, <2>5 DEF IndexInv, TypeOK
    <2>6. ASSUME NEW i \in Items \ dispatched
          PROVE  /\ owner'[i] = NoOwner => ttl'[i] = 0 /\ index'[i] = <<"due", wait[i]>>
                 /\ owner'[i] # NoOwner => wait[i] = 0 /\ index'[i] = <<"leased", ttl'[i]>>
      <3>1. CASE i \in S
        BY <2>1, <2>3, <2>4, <3>1
      <3>2. CASE i \notin S
        BY <2>1, <3>2 DEF IndexInv
      <3> QED  BY <3>1, <3>2
    <2> QED  BY <2>2, <2>5, <2>6 DEF IndexInv
  <1>2. ASSUME NEW d \in Sweeps, NEW i \in Items,
               PublishAccepted(d, i) \/ PublishRefused(d, i)
        PROVE  IndexInv'
    BY <1>2 DEF PublishAccepted, PublishRefused, IndexInv
  <1>3. ASSUME NEW d \in Sweeps, AcknowledgeOutbox(d) PROVE IndexInv'
    <2> DEFINE j == cur[d]
    <2>1. CASE Owned(d)
      <3>1. /\ dispatched' = dispatched \cup {j}
            /\ undispatched' = undispatched - 1
            /\ index' = [index EXCEPT ![j] = Unindexed]
            /\ owner' = [owner EXCEPT ![j] = NoOwner]
            /\ ttl' = [ttl EXCEPT ![j] = 0]
            /\ wait' = wait
        BY <1>3, <2>1 DEF AcknowledgeOutbox, ReleaseLease
      <3>2. j \in Items \ dispatched
        BY <2>1 DEF Owned, TypeOK
      <3>3. undispatched' = Cardinality(Items \ dispatched')
        <4>1. Items \ dispatched' = (Items \ dispatched) \ {j}
          BY <3>1
        <4>2. IsFiniteSet(Items \ dispatched)
          BY FS_Difference
        <4>3. Cardinality((Items \ dispatched) \ {j}) = Cardinality(Items \ dispatched) - 1
          BY <3>2, <4>2, FS_RemoveElement
        <4> QED  BY <3>1, <4>1, <4>3 DEF IndexInv
      <3>4. \A i \in dispatched' : index'[i] = Unindexed
        BY <3>1, <3>2 DEF IndexInv, TypeOK
      <3>5. \A i \in Items \ dispatched' :
              /\ i # j
              /\ owner'[i] = owner[i]
              /\ ttl'[i] = ttl[i]
              /\ index'[i] = index[i]
        BY <3>1 DEF TypeOK
      <3> QED  BY <3>1, <3>3, <3>4, <3>5 DEF IndexInv
    <2>2. CASE ~Owned(d)
      BY <1>3, <2>2 DEF AcknowledgeOutbox, IndexInv
    <2> QED  BY <2>1, <2>2
  <1>4. ASSUME NEW d \in Sweeps, RecordOutboxFailure(d) PROVE IndexInv'
    <2> DEFINE j == cur[d]
    <2>1. CASE Owned(d)
      <3>1. /\ index' = [index EXCEPT ![j] = <<"due", 0>>]
            /\ owner' = [owner EXCEPT ![j] = NoOwner]
            /\ ttl' = [ttl EXCEPT ![j] = 0]
            /\ UNCHANGED <<wait, dispatched, undispatched>>
        BY <1>4, <2>1 DEF RecordOutboxFailure, ReleaseLease, Reindexed
      <3>2. j \in Items \ dispatched /\ owner[j] # NoOwner
        BY <2>1 DEF Owned, TypeOK
      <3>3. wait[j] = 0
        BY <3>2 DEF IndexInv
      <3>4. \A i \in Items : i # j =>
              /\ owner'[i] = owner[i]
              /\ ttl'[i] = ttl[i]
              /\ index'[i] = index[i]
        BY <3>1 DEF TypeOK
      <3>5. owner'[j] = NoOwner /\ ttl'[j] = 0 /\ index'[j] = <<"due", 0>>
        BY <3>1, <3>2 DEF TypeOK
      <3>6. \A i \in dispatched : i \in Items /\ i # j
        BY <3>2 DEF TypeOK
      <3> HIDE DEF j
      <3> QED  BY <3>1, <3>2, <3>3, <3>4, <3>5, <3>6 DEF IndexInv
    <2>2. CASE ~Owned(d)
      BY <1>4, <2>2 DEF RecordOutboxFailure, IndexInv
    <2> QED  BY <2>1, <2>2
  <1>5. ASSUME NEW d \in Sweeps, Lose(d) PROVE IndexInv'
    BY <1>5 DEF Lose, IndexInv
  <1>6. ASSUME NEW j \in Items, NEW t \in 1..MaxWait, Reschedule(j, t)
        PROVE  IndexInv'
    <2>1. /\ j \notin dispatched
          /\ owner[j] = NoOwner
          /\ wait' = [wait EXCEPT ![j] = t]
          /\ index' = [index EXCEPT ![j] = <<"due", t>>]
          /\ UNCHANGED <<owner, ttl, dispatched, undispatched>>
      BY <1>6 DEF Reschedule, Reschedulable
    <2>2. \A i \in Items : i # j => wait'[i] = wait[i] /\ index'[i] = index[i]
      BY <2>1 DEF TypeOK
    <2>3. wait'[j] = t /\ index'[j] = <<"due", t>>
      BY <2>1 DEF TypeOK
    <2>4. \A i \in dispatched : i \in Items /\ i # j
      BY <2>1 DEF TypeOK
    <2> QED  BY <2>1, <2>2, <2>3, <2>4 DEF IndexInv
  <1>7. CASE Tick
    <2>1. /\ wait' = [i \in Items |-> Down(wait[i])]
          /\ ttl' = [i \in Items |-> Down(ttl[i])]
          /\ index' = [i \in Items |-> <<index[i][1], Down(index[i][2])>>]
          /\ UNCHANGED <<owner, dispatched, undispatched>>
      BY <1>7 DEF Tick
    <2>2. Down(0) = 0
      BY DEF Down
    <2>3. ASSUME NEW i \in dispatched PROVE index'[i] = Unindexed
      <3>1. i \in Items /\ index[i] = Unindexed
        BY DEF IndexInv, TypeOK
      <3>2. index'[i] = <<"none", Down(0)>>
        BY <2>1, <3>1 DEF Unindexed
      <3> QED  BY <2>2, <3>2 DEF Unindexed
    <2>4. ASSUME NEW i \in Items \ dispatched
          PROVE  /\ owner[i] = NoOwner => ttl'[i] = 0 /\ index'[i] = <<"due", wait'[i]>>
                 /\ owner[i] # NoOwner => wait'[i] = 0 /\ index'[i] = <<"leased", ttl'[i]>>
      BY <2>1, <2>2 DEF IndexInv
    <2> QED  BY <2>1, <2>3, <2>4 DEF IndexInv
  <1>8. CASE UNCHANGED vars
    BY <1>8 DEF vars, IndexInv
  <1> QED
    BY <1>1, <1>2, <1>3, <1>4, <1>5, <1>6, <1>7, <1>8 DEF ObNext, Sweep

\* What the index finds, and what the three stores count, from the index
\* invariant.
LEMMA BacklogLemma ==
    ASSUME TypeOK, IndexInv
    PROVE  BacklogIsIndexed
  <1> USE OutboxAssumption
  <1>i. \A i \in Items :
          \/ /\ i \in dispatched
             /\ index[i][1] = "none"
          \/ /\ i \notin dispatched
             /\ owner[i] = NoOwner
             /\ ttl[i] = 0
             /\ index[i][1] = "due"
             /\ index[i][2] = wait[i]
          \/ /\ i \notin dispatched
             /\ owner[i] # NoOwner
             /\ wait[i] = 0
             /\ index[i][1] = "leased"
             /\ index[i][2] = ttl[i]
    BY DEF IndexInv, Unindexed
  <1>t. \A i \in Items : wait[i] \in Nat /\ ttl[i] \in Nat
    BY DEF TypeOK
  <1>1. Candidates = Leasable
    BY <1>i DEF Candidates, Partition, Leasable
  <1> DEFINE D == {i \in Items \ dispatched : wait[i] = 0 /\ ttl[i] = 0}
             L == {i \in Items \ dispatched : wait[i] = 0 /\ ttl[i] > 0}
             K == {i \in Items \ dispatched :
                     wait[i] = 0 /\ owner[i] # NoOwner /\ ttl[i] = 0}
             U == {i \in Items : index[i][1] = "due" /\ wait[i] = 0}
             V == {i \in Items : index[i][1] = "leased" /\ ttl[i] = 0}
             Counts == [due |-> Cardinality(D), leased |-> Cardinality(L),
                        stuck_leases |-> Cardinality(K),
                        undispatched |-> Cardinality(Items \ dispatched)]
  <1>2. MemoryMetrics = Counts
    <2>1. {i \in Items : CountsAs(i) \in {"due", "stuck"}} = D
      BY <1>t DEF CountsAs
    <2>2. {i \in Items : CountsAs(i) \in {"leased"}} = L
      BY <1>t DEF CountsAs
    <2>3. {i \in Items : CountsAs(i) \in {"stuck"}} = K
      BY <1>t DEF CountsAs
    <2>4. {i \in Items : CountsAs(i) \in {"later", "leased", "due", "stuck"}}
            = Items \ dispatched
      BY DEF CountsAs
    <2> HIDE DEF D, L, K
    <2> QED  BY <2>1, <2>2, <2>3, <2>4 DEF MemoryMetrics
  <1>3. SqlMetrics = Counts
    <2>1. {i \in Items \ dispatched : TRUE} = Items \ dispatched
      OBVIOUS
    <2> QED  BY <2>1 DEF SqlMetrics
  <1>4. IndexMetrics = Counts
    <2>1. {i \in Partition("due") : wait[i] = 0} = U
          /\ {i \in Partition("leased") : ttl[i] = 0} = V
      BY DEF Partition
    <2>2. V = K
      BY <1>i
    <2>3. Partition("leased") \ V = L
      BY <1>i, <1>t DEF Partition
    <2>4. Cardinality(U) + Cardinality(V) = Cardinality(D)
      <3>1. U \cup V = D /\ U \cap V = {}
        BY <1>i
      <3>2. IsFiniteSet(U) /\ IsFiniteSet(V)
        <4>1. U \in SUBSET Items /\ V \in SUBSET Items
          OBVIOUS
        <4> HIDE DEF U, V
        <4> QED  BY <4>1, FS_Subset
      <3> HIDE DEF U, V, D
      <3>3. Cardinality(U \cup V) =
              Cardinality(U) + Cardinality(V) - Cardinality(U \cap V)
        BY <3>2, FS_Union
      <3>4. Cardinality({}) = 0 /\ Cardinality(U) \in Nat /\ Cardinality(V) \in Nat
        BY <3>2, FS_EmptySet, FS_CardinalityType
      <3>5. Cardinality(U \cup V) = Cardinality(D) /\ Cardinality(U \cap V) = 0
        BY <3>1, <3>4
      <3> QED  BY <3>3, <3>4, <3>5
    <2>5. undispatched = Cardinality(Items \ dispatched)
      BY DEF IndexInv
    <2> HIDE DEF U, V, D, L, K
    <2> QED  BY <2>1, <2>2, <2>3, <2>4, <2>5 DEF IndexMetrics
  <1> HIDE DEF Counts
  <1> QED  BY <1>1, <1>2, <1>3, <1>4 DEF BacklogIsIndexed

-----------------------------------------------------------------------------
(* The theorems.                                                            *)

\* The outbox starts with its invariants.
LEMMA InvInit == ObInit => OutboxInv
  <1> SUFFICES ASSUME ObInit PROVE OutboxInv
    OBVIOUS
  <1>1. TypeOK
    BY TypeInit
  <1>2. SweepsInv
    BY DEF ObInit, SweepsInv
  <1>3. LeasesInv
    BY DEF ObInit, LeasesInv
  <1>4. IndexInv
    BY <1>1 DEF ObInit, IndexInv, TypeOK
  <1> QED  BY <1>1, <1>2, <1>3, <1>4 DEF OutboxInv

\* The inductive invariant holds throughout.
THEOREM OutboxInvariant == ObSpec => []OutboxInv
  <1>1. OutboxInv /\ [ObNext]_vars => OutboxInv'
    BY TypeStep, SweepsStep, LeasesStep, IndexStep DEF OutboxInv
  <1> QED  BY <1>1, InvInit, PTL DEF ObSpec

\* An item leaves the backlog only once the queue has its job, whichever
\* sweep acknowledges it.
THEOREM DispatchedWasPublishedHolds == ObSpec => []DispatchedWasPublished
  <1>1. OutboxInv => DispatchedWasPublished
    BY DEF OutboxInv, SweepsInv, DispatchedWasPublished
  <1> QED  BY <1>1, OutboxInvariant, PTL

\* Two sweeps with owners of their own never hold an item under leases that
\* have not run out, however often leases expire under stalled sweeps.
THEOREM LiveLeaseIsExclusiveHolds == ObSpec => []LiveLeaseIsExclusive
  <1>1. OutboxInv => LiveLeaseIsExclusive
    BY DEF OutboxInv, LeasesInv, DistinctOwners, LiveLeaseIsExclusive
  <1> QED  BY <1>1, OutboxInvariant, PTL

\* The index of the DynamoDB store finds what the other stores would lease,
\* and the three stores report the same metrics.
THEOREM BacklogIsIndexedHolds == ObSpec => []BacklogIsIndexed
  <1>1. OutboxInv => BacklogIsIndexed
    BY BacklogLemma DEF OutboxInv
  <1> QED  BY <1>1, OutboxInvariant, PTL

-----------------------------------------------------------------------------
(* The ledger.                                                              *)

\* The records of a message are the five fields, whatever an operation wrote
\* last.
LedgerShape ==
    /\ led = [f \in Fields |-> led[f]]
    /\ led.attempts \in Seq(AttemptStatus)

\* Only the last attempt can be anything but a retryable failure, and the
\* recipients say which: they are queued exactly when it may be followed by
\* another, and in flight exactly while it is open.
Agree(rs, tries) ==
    LET k == Len(tries) IN
    /\ \A i \in 1..k : i < k => tries[i] = "retryable_failed"
    /\ SomeRecipient(rs, {"queued"}) =>
         /\ EveryRecipient(rs, {"queued"})
         /\ k > 0 => tries[k] = "retryable_failed"
    /\ SomeRecipient(rs, {"sending"}) =>
         k > 0 /\ tries[k] = "submitting"
    /\ k > 0 /\ tries[k] = "submitting" =>
         EveryRecipient(rs, {"sending"})

LedgerInv == Agree(led.rcpt, led.attempts)

\* A call names an attempt that its caller has seen, or the next one; an
\* attempt stays once it is there.
CallsInv ==
    /\ op \in [Callers -> Operations \cup {NoOp}]
    /\ view = [c \in Callers |-> [f \in Fields |-> view[c][f]]]
    /\ \A c \in Callers :
         /\ op[c].kind = "begin" => op[c].seq <= Len(led.attempts) + 1
         /\ op[c].kind \in {"complete", "event"} => op[c].seq \in DOMAIN led.attempts

StoreInv == LedgerShape /\ LedgerInv /\ CallsInv

\* A call that returns leaves the invariant of the calls alone.
LEMMA DoneLemma ==
    ASSUME CallsInv, NEW c \in Callers, Done(c),
           DOMAIN led.attempts \subseteq DOMAIN led'.attempts,
           Len(led.attempts) \in Nat, Len(led'.attempts) \in Nat,
           Len(led.attempts) <= Len(led'.attempts)
    PROVE  CallsInv'
  <1>1. op' \in [Callers -> Operations \cup {NoOp}]
    BY DEF Done, CallsInv
  <1>2. view' = [d \in Callers |-> [f \in Fields |-> view'[d][f]]]
    <2>1. view' = [view EXCEPT ![c] = NoView]
      BY DEF Done
    <2>2. NoView = [f \in Fields |-> NoView[f]]
      BY DEF NoView, Fields
    <2> HIDE DEF NoView
    <2> QED  BY <2>1, <2>2 DEF CallsInv
  <1>3. ASSUME NEW d \in Callers
        PROVE  /\ op'[d].kind = "begin" => op'[d].seq <= Len(led'.attempts) + 1
               /\ op'[d].kind \in {"complete", "event"} =>
                    op'[d].seq \in DOMAIN led'.attempts
    <2>1. CASE d = c
      <3>1. op'[d] = NoOp
        BY <2>1 DEF Done, CallsInv
      <3> QED  BY <3>1 DEF NoOp
    <2>2. CASE d # c
      <3>1. op'[d] = op[d]
        BY <2>2 DEF Done, CallsInv
      <3>2. CASE op[d].kind = "begin"
        <4>1. op[d].seq \in 1..MaxAttempts
          BY <3>2 DEF CallsInv, Operations, NoOp
        <4>2. op[d].seq <= Len(led.attempts) + 1
          BY <3>2 DEF CallsInv
        <4> QED  BY <3>1, <3>2, <4>1, <4>2
      <3>3. CASE op[d].kind \in {"complete", "event"}
        BY <3>1, <3>3 DEF CallsInv
      <3> QED  BY <3>1, <3>2, <3>3
    <2> QED  BY <2>1, <2>2
  <1> QED  BY <1>1, <1>2, <1>3 DEF CallsInv

\* No event queues a recipient again or has it in flight.
LEMMA EventLemma ==
    ASSUME NEW s, s \notin {"queued", "sending"}, NEW e \in ProviderEventType
    PROVE  transitionRecipientStatus(s, e) \notin {"queued", "sending"}
  <1>1. EVENT_TARGET[e] \notin {"queued", "sending"}
    BY DEF EVENT_TARGET, ProviderEventType
  <1> HIDE DEF EVENT_TARGET
  <1> QED  BY <1>1 DEF transitionRecipientStatus

\* Attempts and recipients agree again when a submission begins ...
LEMMA AgreeBegin ==
    ASSUME NEW rs, NEW tries \in Seq(AttemptStatus), Agree(rs, tries),
           CanStartAttempt(rs)
    PROVE  Agree([r \in Recipients |-> "sending"], Append(tries, "submitting"))
  <1> DEFINE k == Len(tries)
             bs == Append(tries, "submitting")
             ss == [r \in Recipients |-> "sending"]
  <1>1. /\ k \in Nat
        /\ Len(bs) = k + 1
        /\ bs[k + 1] = "submitting"
        /\ \A i \in 1..k : bs[i] = tries[i]
    BY DEF AttemptStatus
  <1>2. SomeRecipient(rs, {"queued"})
    BY RecipientsAssumption DEF CanStartAttempt, EveryRecipient, SomeRecipient
  <1>3. \A i \in 1..k : tries[i] = "retryable_failed"
    BY <1>1, <1>2 DEF Agree
  <1>4. EveryRecipient(ss, {"sending"}) /\ ~SomeRecipient(ss, {"queued"})
    BY DEF EveryRecipient, SomeRecipient
  <1> HIDE DEF bs, ss
  <1>5. \A i \in 1..(k + 1) : i < k + 1 => bs[i] = "retryable_failed"
    BY <1>1, <1>3
  <1>6. Agree(ss, bs)
    BY <1>1, <1>4, <1>5 DEF Agree
  <1> QED  BY <1>6 DEF bs, ss

\* ... when it ends ...
LEMMA AgreeComplete ==
    ASSUME NEW rs, NEW tries \in Seq(AttemptStatus), Agree(rs, tries),
           NEW seq \in DOMAIN tries, tries[seq] = "submitting",
           NEW status \in Completion, NEW rejects \in BOOLEAN
    PROVE  /\ [tries EXCEPT ![seq] = status] \in Seq(AttemptStatus)
           /\ Len([tries EXCEPT ![seq] = status]) = Len(tries)
           /\ Agree([r \in Recipients |-> completedRecipientStatus(status, rejects)],
                    [tries EXCEPT ![seq] = status])
  <1> DEFINE k == Len(tries)
             bs == [tries EXCEPT ![seq] = status]
             ss == [r \in Recipients |-> completedRecipientStatus(status, rejects)]
  <1>1. k \in Nat /\ seq \in 1..k /\ DOMAIN tries = 1..k
    OBVIOUS
  <1>2. seq = k
    BY <1>1 DEF Agree
  <1>3. status \in AttemptStatus
    BY DEF Completion, AttemptStatus
  <1>4. bs \in Seq(AttemptStatus) /\ Len(bs) = k
    BY <1>3
  <1>5. bs[k] = status /\ \A i \in 1..k : i < k => bs[i] = tries[i]
    BY <1>1, <1>2
  <1>6. /\ ~SomeRecipient(ss, {"sending"})
        /\ status = "retryable_failed" => EveryRecipient(ss, {"queued"})
        /\ status # "retryable_failed" => ~SomeRecipient(ss, {"queued"})
    BY DEF completedRecipientStatus, SomeRecipient, EveryRecipient, Completion
  <1> HIDE DEF bs, ss
  <1>7. \A i \in 1..k : i < k => bs[i] = "retryable_failed"
    BY <1>5 DEF Agree
  <1>8. status # "submitting"
    BY DEF Completion
  <1>9. Agree(ss, bs)
    BY <1>1, <1>4, <1>5, <1>6, <1>7, <1>8 DEF Agree
  <1> QED  BY <1>4, <1>9 DEF bs, ss

\* ... when an event is applied, for which there is an accepted attempt ...
LEMMA AgreeEvent ==
    ASSUME NEW rs, NEW tries \in Seq(AttemptStatus), Agree(rs, tries),
           NEW seq \in DOMAIN tries, tries[seq] = "accepted",
           NEW type \in ProviderEventType, NEW targets \in SUBSET Recipients
    PROVE  Agree(planProviderEvent(rs, type, targets), tries)
  <1> DEFINE k == Len(tries)
             ss == planProviderEvent(rs, type, targets)
  <1>1. k \in Nat /\ seq \in 1..k /\ DOMAIN tries = 1..k
    OBVIOUS
  <1>2. seq = k
    BY <1>1 DEF Agree
  <1>3. ~SomeRecipient(rs, {"queued", "sending"})
    BY <1>1, <1>2 DEF Agree, SomeRecipient
  <1>4. ASSUME NEW r \in Recipients
        PROVE  ss[r] \notin {"queued", "sending"}
    <2>1. rs[r] \notin {"queued", "sending"}
      BY <1>3 DEF SomeRecipient
    <2>2. transitionRecipientStatus(rs[r], type) \notin {"queued", "sending"}
      BY <2>1, EventLemma
    <2> QED  BY <2>1, <2>2 DEF planProviderEvent
  <1>5. ~SomeRecipient(ss, {"queued"}) /\ ~SomeRecipient(ss, {"sending"})
    BY <1>4 DEF SomeRecipient
  <1> HIDE DEF ss
  <1>6. Agree(ss, tries)
    BY <1>1, <1>2, <1>5 DEF Agree
  <1> QED  BY <1>6 DEF ss

\* ... and when the message is canceled or suppressed.
LEMMA AgreeStop ==
    ASSUME NEW rs, NEW tries \in Seq(AttemptStatus), Agree(rs, tries),
           \A i \in DOMAIN tries : tries[i] # "submitting",
           NEW status \in {"canceled", "suppressed"}
    PROVE  Agree(planLocalRecipientState(rs, status), tries)
  <1> DEFINE k == Len(tries)
             ss == planLocalRecipientState(rs, status)
  <1>1. k \in Nat /\ DOMAIN tries = 1..k
    OBVIOUS
  <1>2. ~SomeRecipient(ss, {"queued"}) /\ ~SomeRecipient(ss, {"sending"})
    BY DEF SomeRecipient, planLocalRecipientState
  <1> HIDE DEF ss
  <1>3. Agree(ss, tries)
    BY <1>1, <1>2 DEF Agree
  <1> QED  BY <1>3 DEF ss

\* The fields of a plan.
LEMMA WithRecipientsLemma ==
    ASSUME NEW L, L = [f \in Fields |-> L[f]], NEW rs
    PROVE  /\ DOMAIN WithRecipients(L, rs) = Fields
           /\ WithRecipients(L, rs) = [f \in Fields |-> WithRecipients(L, rs)[f]]
           /\ WithRecipients(L, rs).rcpt = rs
           /\ WithRecipients(L, rs).message = deriveDeliveryMessageStatus(rs)
           /\ WithRecipients(L, rs).status = updateEmailForRecipients(rs)
           /\ WithRecipients(L, rs).latest = L.latest
           /\ WithRecipients(L, rs).attempts = L.attempts
  <1> DEFINE m == deriveDeliveryMessageStatus(rs)
             s == updateEmailForRecipients(rs)
             M1 == [L EXCEPT !.rcpt = rs]
             M2 == [M1 EXCEPT !.message = m]
             M3 == [M2 EXCEPT !.status = s]
  <1>0. WithRecipients(L, rs) = M3
    BY DEF WithRecipients
  <1> HIDE DEF m, s
  <1>1. /\ M1 = [f \in Fields |-> M1[f]] /\ DOMAIN M1 = Fields
        /\ M1.rcpt = rs /\ M1.latest = L.latest /\ M1.attempts = L.attempts
    BY DEF Fields
  <1> HIDE DEF M1
  <1>2. /\ M2 = [f \in Fields |-> M2[f]] /\ DOMAIN M2 = Fields
        /\ M2.rcpt = rs /\ M2.latest = L.latest /\ M2.attempts = L.attempts
        /\ M2.message = m
    BY <1>1 DEF Fields
  <1> HIDE DEF M2
  <1>3. /\ M3 = [f \in Fields |-> M3[f]] /\ DOMAIN M3 = Fields
        /\ M3.rcpt = rs /\ M3.latest = L.latest /\ M3.attempts = L.attempts
        /\ M3.message = m /\ M3.status = s
    BY <1>2 DEF Fields
  <1> HIDE DEF M3
  <1> QED  BY <1>0, <1>3 DEF m, s

\* And those of the plan of a new attempt.
LEMMA BegunLemma ==
    ASSUME NEW L, L = [f \in Fields |-> L[f]], NEW seq
    PROVE  /\ Begun(L, seq) = [f \in Fields |-> Begun(L, seq)[f]]
           /\ Begun(L, seq).rcpt = [r \in Recipients |-> "sending"]
           /\ Begun(L, seq).message =
                deriveDeliveryMessageStatus([r \in Recipients |-> "sending"])
           /\ Begun(L, seq).status = "sending"
           /\ Begun(L, seq).latest = [r \in Recipients |-> seq]
           /\ Begun(L, seq).attempts = Append(L.attempts, "submitting")
  <1> DEFINE rs == [r \in Recipients |-> "sending"]
             m == deriveDeliveryMessageStatus(rs)
             lt == [r \in Recipients |-> seq]
             tries == Append(L.attempts, "submitting")
             M1 == [L EXCEPT !.rcpt = rs]
             M2 == [M1 EXCEPT !.message = m]
             M3 == [M2 EXCEPT !.status = "sending"]
             M4 == [M3 EXCEPT !.latest = lt]
             M5 == [M4 EXCEPT !.attempts = tries]
  <1>0. Begun(L, seq) = M5
    BY DEF Begun, Fields
  <1> HIDE DEF rs, m, lt, tries
  <1>1. /\ M1 = [f \in Fields |-> M1[f]] /\ DOMAIN M1 = Fields
        /\ M1.rcpt = rs
    BY DEF Fields
  <1> HIDE DEF M1
  <1>2. /\ M2 = [f \in Fields |-> M2[f]] /\ DOMAIN M2 = Fields
        /\ M2.rcpt = rs /\ M2.message = m
    BY <1>1 DEF Fields
  <1> HIDE DEF M2
  <1>3. /\ M3 = [f \in Fields |-> M3[f]] /\ DOMAIN M3 = Fields
        /\ M3.rcpt = rs /\ M3.message = m /\ M3.status = "sending"
    BY <1>2 DEF Fields
  <1> HIDE DEF M3
  <1>4. /\ M4 = [f \in Fields |-> M4[f]] /\ DOMAIN M4 = Fields
        /\ M4.rcpt = rs /\ M4.message = m /\ M4.status = "sending"
        /\ M4.latest = lt
    BY <1>3 DEF Fields
  <1> HIDE DEF M4
  <1>5. /\ M5 = [f \in Fields |-> M5[f]]
        /\ M5.rcpt = rs /\ M5.message = m /\ M5.status = "sending"
        /\ M5.latest = lt /\ M5.attempts = tries
    BY <1>4 DEF Fields
  <1> HIDE DEF M5
  <1> QED  BY <1>0, <1>5 DEF rs, m, lt, tries

-----------------------------------------------------------------------------
\* What every step of AtomicLedger does to the recipients and the attempts.
LEMMA LedgerStep ==
    ASSUME LedgerShape, LedgerInv, [Next]_<<led, events>>
    PROVE  /\ LedgerShape'
           /\ LedgerInv'
           /\ Len(led.attempts) <= Len(led'.attempts)
  <1> DEFINE k == Len(led.attempts)
  <1>0. /\ led = [f \in Fields |-> led[f]]
        /\ led.attempts \in Seq(AttemptStatus)
        /\ k \in Nat
        /\ Agree(led.rcpt, led.attempts)
    BY DEF LedgerShape, LedgerInv
  <1>1. ASSUME led' = [f \in Fields |-> led'[f]],
               NEW rs, led'.rcpt = rs,
               NEW tries \in Seq(AttemptStatus), led'.attempts = tries,
               Agree(rs, tries), k <= Len(tries)
        PROVE  LedgerShape' /\ LedgerInv' /\ k <= Len(led'.attempts)
    BY <1>1 DEF LedgerShape, LedgerInv
  <1>2. CASE UNCHANGED <<led, events>>
    BY <1>0, <1>1, <1>2
  <1>3. CASE ClaimEmailForSend
    <2> DEFINE l == [led EXCEPT !.status = "sending"]
    <2>1. led' = l
      BY <1>3 DEF ClaimEmailForSend
    <2>2. l = [f \in Fields |-> l[f]] /\ l.rcpt = led.rcpt /\ l.attempts = led.attempts
      BY <1>0 DEF Fields
    <2> HIDE DEF l
    <2>3. /\ led' = [f \in Fields |-> led'[f]]
          /\ led'.rcpt = led.rcpt
          /\ led'.attempts = led.attempts
      BY <2>1, <2>2
    <2> QED  BY <1>0, <1>1, <2>3
  <1>4. CASE RescheduleEmail
    <2>1. PICK m : led' = [led EXCEPT !.status = "scheduled", !.message = m]
      BY <1>4 DEF RescheduleEmail
    <2> DEFINE l1 == [led EXCEPT !.status = "scheduled"]
               l == [l1 EXCEPT !.message = m]
    <2>2. led' = l
      BY <2>1, <1>0 DEF Fields
    <2>3. l = [f \in Fields |-> l[f]] /\ l.rcpt = led.rcpt /\ l.attempts = led.attempts
      BY <1>0 DEF Fields
    <2> HIDE DEF l
    <2>4. /\ led' = [f \in Fields |-> led'[f]]
          /\ led'.rcpt = led.rcpt
          /\ led'.attempts = led.attempts
      BY <2>2, <2>3
    <2> QED  BY <1>0, <1>1, <2>4
  <1>5. CASE BeginDeliveryAttempt(Len(led.attempts) + 1)
    <2> DEFINE rs == [r \in Recipients |-> "sending"]
               tries == Append(led.attempts, "submitting")
    <2>1. CanStartAttempt(led.rcpt) /\ led' = Begun(led, k + 1)
      BY <1>5 DEF BeginDeliveryAttempt, CanBegin
    <2>2. /\ led' = [f \in Fields |-> led'[f]]
          /\ led'.rcpt = rs
          /\ led'.attempts = tries
      <3> DEFINE B == Begun(led, k + 1)
      <3>1. /\ B = [f \in Fields |-> B[f]]
            /\ B.rcpt = rs
            /\ B.message = deriveDeliveryMessageStatus(rs)
            /\ B.status = "sending"
            /\ B.latest = [r \in Recipients |-> k + 1]
            /\ B.attempts = tries
        BY <1>0, BegunLemma
      <3> HIDE DEF B
      <3> QED  BY <2>1, <3>1 DEF B
    <2>3. Agree(rs, tries)
      BY <1>0, <2>1, AgreeBegin
    <2>4. tries \in Seq(AttemptStatus) /\ k <= Len(tries)
      BY <1>0 DEF AttemptStatus
    <2> HIDE DEF rs, tries
    <2> QED  BY <1>1, <2>2, <2>3, <2>4
  <1>6. ASSUME NEW seq \in DOMAIN led.attempts, NEW status \in Completion,
               NEW rejects \in BOOLEAN,
               CompleteDeliveryAttempt(seq, status, rejects)
        PROVE  LedgerShape' /\ LedgerInv' /\ k <= Len(led'.attempts)
    <2> DEFINE rs == [r \in Recipients |-> completedRecipientStatus(status, rejects)]
               tries == [led.attempts EXCEPT ![seq] = status]
               W == WithRecipients(led, rs)
    <2>1. led.attempts[seq] = "submitting"
      BY <1>6 DEF CompleteDeliveryAttempt, CanComplete, CanCompleteAttempt
    <2>2. led' = [W EXCEPT !.attempts[seq] = status]
      BY <1>6 DEF CompleteDeliveryAttempt, Completed
    <2>3. /\ tries \in Seq(AttemptStatus) /\ Len(tries) = k
          /\ Agree(rs, tries)
      BY <1>0, <2>1, AgreeComplete
    <2> HIDE DEF rs
    <2>4. /\ W = [f \in Fields |-> W[f]]
          /\ DOMAIN W = Fields
          /\ W.rcpt = rs
          /\ W.attempts = led.attempts
      BY <1>0, WithRecipientsLemma
    <2> HIDE DEF W
    <2>5. led' = [W EXCEPT !.attempts = tries]
      BY <2>2, <2>4 DEF Fields
    <2> HIDE DEF tries
    <2>6. /\ led' = [f \in Fields |-> led'[f]]
          /\ led'.rcpt = rs
          /\ led'.attempts = tries
      BY <2>4, <2>5 DEF Fields
    <2> QED  BY <1>0, <1>1, <2>3, <2>6
  <1>7. ASSUME NEW id \in EventIds, NEW seq \in DOMAIN led.attempts,
               NEW type \in EventTypes, NEW targets \in SUBSET Recipients,
               AppendProviderEvent(id, seq, type, targets)
        PROVE  LedgerShape' /\ LedgerInv' /\ k <= Len(led'.attempts)
    <2> DEFINE rs == planProviderEvent(led.rcpt, type, targets)
    <2>1. led.attempts[seq] = "accepted" /\ led' = WithRecipients(led, rs)
      BY <1>7 DEF AppendProviderEvent, CanCorrelate, Correlated
    <2>2. type \in ProviderEventType
      BY AtomicLedgerAssumption
    <2>3. Agree(rs, led.attempts)
      BY <1>0, <2>1, <2>2, AgreeEvent
    <2> HIDE DEF rs
    <2>4. /\ led' = [f \in Fields |-> led'[f]]
          /\ led'.rcpt = rs
          /\ led'.attempts = led.attempts
      BY <1>0, <2>1, WithRecipientsLemma
    <2> QED  BY <1>0, <1>1, <2>3, <2>4
  <1>8. ASSUME NEW status \in {"canceled", "suppressed"},
               ApplyLocalDeliveryState(status)
        PROVE  LedgerShape' /\ LedgerInv' /\ k <= Len(led'.attempts)
    <2> DEFINE rs == planLocalRecipientState(led.rcpt, status)
    <2>1. /\ \A i \in DOMAIN led.attempts : led.attempts[i] # "submitting"
          /\ led' = WithRecipients(led, rs)
      BY <1>8 DEF ApplyLocalDeliveryState, CanStop, Stopped
    <2>2. Agree(rs, led.attempts)
      BY <1>0, <2>1, AgreeStop
    <2> HIDE DEF rs
    <2>3. /\ led' = [f \in Fields |-> led'[f]]
          /\ led'.rcpt = rs
          /\ led'.attempts = led.attempts
      BY <1>0, <2>1, WithRecipientsLemma
    <2> QED  BY <1>0, <1>1, <2>2, <2>3
  <1> QED  BY <1>2, <1>3, <1>4, <1>5, <1>6, <1>7, <1>8 DEF Next

-----------------------------------------------------------------------------
(* The DynamoDB store.                                                      *)

\* Two records of a message with the same fields are the same.
LEMMA FieldsLemma ==
    ASSUME NEW A, A = [f \in Fields |-> A[f]], NEW B, B = [f \in Fields |-> B[f]],
           A.status = B.status, A.message = B.message, A.rcpt = B.rcpt,
           A.latest = B.latest, A.attempts = B.attempts
    PROVE  A = B
  <1>1. \A f \in Fields : A[f] = B[f]
    BY DEF Fields
  <1> QED  BY <1>1

\* A record whose attempts are replaced keeps its other fields.
LEMMA WithAttemptsLemma ==
    ASSUME NEW L, L = [f \in Fields |-> L[f]], NEW tries
    PROVE  LET M == [L EXCEPT !.attempts = tries]
           IN  /\ M = [f \in Fields |-> M[f]]
               /\ M.status = L.status
               /\ M.message = L.message
               /\ M.rcpt = L.rcpt
               /\ M.latest = L.latest
               /\ M.attempts = tries
  BY DEF Fields

\* What a call read, and the attempt it names, are those of the ledger when
\* its transaction goes through: so it does to the records as they are what
\* it planned on those it read, and the attempts that it did not compare
\* decide nothing.
LEMMA CommitStep ==
    ASSUME StoreInv, Backend = "dynamo", NEW c \in Callers, Commit(c)
    PROVE  Next
  <1> DEFINE o == op[c]
             V == view[c]
             k == Len(led.attempts)
  <1>0. /\ led = [f \in Fields |-> led[f]]
        /\ led.attempts \in Seq(AttemptStatus)
        /\ k \in Nat
        /\ DOMAIN led.attempts = 1..k
        /\ Agree(led.rcpt, led.attempts)
    BY DEF StoreInv, LedgerShape, LedgerInv
  <1>1. /\ o \in Operations
        /\ V = [f \in Fields |-> V[f]]
        /\ o.kind = "begin" => o.seq <= k + 1
        /\ o.kind \in {"complete", "event"} => o.seq \in 1..k
    BY <1>0 DEF StoreInv, CallsInv, Commit, Ready
  <1>2. /\ V.status = led.status
        /\ V.message = led.message
        /\ V.rcpt = led.rcpt
        /\ V.latest = led.latest
    BY DEF Commit, GuardHolds
  <1>3. /\ o.kind = "begin" => o.seq \notin 1..k
        /\ o.kind = "event" => o.id \notin events
        /\ o.kind \in {"complete", "event"} => led.attempts[o.seq] = V.attempts[o.seq]
    BY <1>0 DEF Commit, AdditionHolds
  <1>4. events' = IF o.kind = "event" THEN events \cup {o.id} ELSE events
    BY DEF Commit
  <1>5. CASE o.kind = "begin"
    <2> DEFINE tries == Append(led.attempts, "submitting")
               B == Begun(V, o.seq)
               A == Begun(led, k + 1)
    <2>1. o.seq \in 1..MaxAttempts
      BY <1>1, <1>5 DEF Operations
    <2>2. o.seq = k + 1
      BY <1>0, <1>1, <1>3, <1>5, <2>1
    <2>3. led' = [B EXCEPT !.attempts = tries]
      BY <1>5 DEF Commit, Planned
    <2>4. CanStartAttempt(led.rcpt)
      BY <1>2, <1>5 DEF Commit, Admitted, CanBegin
    <2>5. /\ A = [f \in Fields |-> A[f]]
          /\ A.rcpt = [r \in Recipients |-> "sending"]
          /\ A.message = deriveDeliveryMessageStatus([r \in Recipients |-> "sending"])
          /\ A.status = "sending"
          /\ A.latest = [r \in Recipients |-> k + 1]
          /\ A.attempts = tries
      BY <1>0, BegunLemma
    <2>6. /\ B = [f \in Fields |-> B[f]]
          /\ B.rcpt = [r \in Recipients |-> "sending"]
          /\ B.message = deriveDeliveryMessageStatus([r \in Recipients |-> "sending"])
          /\ B.status = "sending"
          /\ B.latest = [r \in Recipients |-> k + 1]
      <3>1. V = [f \in Fields |-> V[f]]
        BY <1>1
      <3> HIDE DEF V, o
      <3>2. /\ B = [f \in Fields |-> B[f]]
            /\ B.rcpt = [r \in Recipients |-> "sending"]
            /\ B.message = deriveDeliveryMessageStatus([r \in Recipients |-> "sending"])
            /\ B.status = "sending"
            /\ B.latest = [r \in Recipients |-> o.seq]
            /\ B.attempts = Append(V.attempts, "submitting")
        BY <3>1, BegunLemma
      <3> HIDE DEF B, k
      <3> QED  BY <2>2, <3>2
    <2> HIDE DEF A, B, tries
    <2>7. /\ led' = [f \in Fields |-> led'[f]]
          /\ led'.status = B.status
          /\ led'.message = B.message
          /\ led'.rcpt = B.rcpt
          /\ led'.latest = B.latest
          /\ led'.attempts = tries
      BY <2>3, <2>6, WithAttemptsLemma
    <2>8. led' = A
      BY <2>5, <2>6, <2>7, FieldsLemma
    <2>9. BeginDeliveryAttempt(k + 1)
      BY <1>4, <1>5, <2>4, <2>8 DEF BeginDeliveryAttempt, CanBegin, A
    <2> QED  BY <2>9 DEF Next
  <1>6. CASE o.kind = "complete"
    <2> DEFINE rs == [r \in Recipients |-> completedRecipientStatus(o.status, FALSE)]
               tries == [led.attempts EXCEPT ![o.seq] = o.status]
               W == WithRecipients(V, rs)
               X == WithRecipients(led, rs)
               A == Completed(led, o.seq, o.status, FALSE)
    <2>1. o.status \in Completion /\ o.seq \in DOMAIN led.attempts
      BY <1>0, <1>1, <1>6 DEF Operations
    <2>2. CanComplete(led, o.seq)
      BY <1>1, <1>2, <1>3, <1>6, <2>1
      DEF Commit, Admitted, CanComplete, CanCompleteAttempt
    <2>3. led' = [[W EXCEPT !.attempts[o.seq] = o.status] EXCEPT !.attempts = tries]
      BY <1>6 DEF Commit, Planned, Completed
    <2>4. A = [X EXCEPT !.attempts[o.seq] = o.status]
      BY DEF Completed
    <2> HIDE DEF rs, A
    <2>5. /\ W = [f \in Fields |-> W[f]]
          /\ W.rcpt = rs
          /\ W.message = deriveDeliveryMessageStatus(rs)
          /\ W.status = updateEmailForRecipients(rs)
          /\ W.latest = led.latest
      BY <1>1, <1>2, WithRecipientsLemma
    <2>6. /\ X = [f \in Fields |-> X[f]]
          /\ X.rcpt = rs
          /\ X.message = deriveDeliveryMessageStatus(rs)
          /\ X.status = updateEmailForRecipients(rs)
          /\ X.latest = led.latest
          /\ X.attempts = led.attempts
      BY <1>0, WithRecipientsLemma
    <2> HIDE DEF W, X
    <2>7. /\ A = [f \in Fields |-> A[f]]
          /\ A.status = X.status
          /\ A.message = X.message
          /\ A.rcpt = X.rcpt
          /\ A.latest = X.latest
          /\ A.attempts = tries
      BY <2>4, <2>6 DEF Fields
    <2> HIDE DEF tries
    <2>8. /\ led' = [f \in Fields |-> led'[f]]
          /\ led'.status = W.status
          /\ led'.message = W.message
          /\ led'.rcpt = W.rcpt
          /\ led'.latest = W.latest
          /\ led'.attempts = tries
      BY <2>3, <2>5 DEF Fields
    <2>9. led' = A
      BY <2>5, <2>6, <2>7, <2>8, FieldsLemma
    <2>10. CompleteDeliveryAttempt(o.seq, o.status, FALSE)
      BY <1>4, <1>6, <2>2, <2>9 DEF CompleteDeliveryAttempt, A
    <2> QED  BY <2>1, <2>10 DEF Next
  <1>7. CASE o.kind = "event"
    <2> DEFINE rs == planProviderEvent(led.rcpt, o.type, o.targets)
               W == WithRecipients(V, rs)
               A == WithRecipients(led, rs)
    <2>1. /\ o.id \in EventIds /\ o.type \in EventTypes
          /\ o.targets \in SUBSET Recipients /\ o.seq \in DOMAIN led.attempts
      BY <1>0, <1>1, <1>7 DEF Operations
    <2>2. CanCorrelate(led, o.seq)
      BY <1>3, <1>7, <2>1 DEF Commit, Admitted, CanCorrelate
    <2>3. led' = [W EXCEPT !.attempts = led.attempts]
      BY <1>2, <1>7 DEF Commit, Planned, Correlated
    <2>4. A = Correlated(led, o.type, o.targets)
      BY DEF Correlated
    <2> HIDE DEF rs
    <2>5. /\ W = [f \in Fields |-> W[f]]
          /\ W.rcpt = rs
          /\ W.message = deriveDeliveryMessageStatus(rs)
          /\ W.status = updateEmailForRecipients(rs)
          /\ W.latest = led.latest
      BY <1>1, <1>2, WithRecipientsLemma
    <2>6. /\ A = [f \in Fields |-> A[f]]
          /\ A.rcpt = rs
          /\ A.message = deriveDeliveryMessageStatus(rs)
          /\ A.status = updateEmailForRecipients(rs)
          /\ A.latest = led.latest
          /\ A.attempts = led.attempts
      BY <1>0, WithRecipientsLemma
    <2> HIDE DEF W, A
    <2>7. /\ led' = [f \in Fields |-> led'[f]]
          /\ led'.status = W.status
          /\ led'.message = W.message
          /\ led'.rcpt = W.rcpt
          /\ led'.latest = W.latest
          /\ led'.attempts = led.attempts
      BY <2>3, <2>5 DEF Fields
    <2>8. led' = A
      BY <2>5, <2>6, <2>7, FieldsLemma
    <2>9. AppendProviderEvent(o.id, o.seq, o.type, o.targets)
      BY <1>3, <1>4, <1>7, <2>2, <2>4, <2>8 DEF AppendProviderEvent
    <2> QED  BY <2>1, <2>9 DEF Next
  <1>8. CASE o.kind = "local"
    <2> DEFINE rs == planLocalRecipientState(led.rcpt, o.status)
               W == WithRecipients(V, rs)
               A == WithRecipients(led, rs)
    <2>1. o.status \in {"canceled", "suppressed"}
      BY <1>1, <1>8 DEF Operations
    <2>2. ~SomeRecipient(led.rcpt, {"sending"})
      BY <1>2, <1>8 DEF Commit, Admitted, CanStop
    <2>3. CanStop(led)
      <3>1. ~EveryRecipient(led.rcpt, {"sending"})
        BY <2>2, RecipientsAssumption DEF EveryRecipient, SomeRecipient
      <3>2. \A i \in 1..k : led.attempts[i] # "submitting"
        <4> SUFFICES ASSUME NEW i \in 1..k PROVE led.attempts[i] # "submitting"
          OBVIOUS
        <4>1. CASE i < k
          BY <1>0, <4>1 DEF Agree
        <4>2. CASE i = k
          BY <1>0, <3>1, <4>2 DEF Agree
        <4> QED  BY <1>0, <4>1, <4>2
      <3> QED  BY <1>0, <2>2, <3>2 DEF CanStop
    <2>4. led' = [W EXCEPT !.attempts = led.attempts]
      BY <1>2, <1>8 DEF Commit, Planned, Stopped
    <2>5. A = Stopped(led, o.status)
      BY DEF Stopped
    <2> HIDE DEF rs
    <2>6. /\ W = [f \in Fields |-> W[f]]
          /\ W.rcpt = rs
          /\ W.message = deriveDeliveryMessageStatus(rs)
          /\ W.status = updateEmailForRecipients(rs)
          /\ W.latest = led.latest
      BY <1>1, <1>2, WithRecipientsLemma
    <2>7. /\ A = [f \in Fields |-> A[f]]
          /\ A.rcpt = rs
          /\ A.message = deriveDeliveryMessageStatus(rs)
          /\ A.status = updateEmailForRecipients(rs)
          /\ A.latest = led.latest
          /\ A.attempts = led.attempts
      BY <1>0, WithRecipientsLemma
    <2> HIDE DEF W, A
    <2>8. /\ led' = [f \in Fields |-> led'[f]]
          /\ led'.status = W.status
          /\ led'.message = W.message
          /\ led'.rcpt = W.rcpt
          /\ led'.latest = W.latest
          /\ led'.attempts = led.attempts
      BY <2>4, <2>6 DEF Fields
    <2>9. led' = A
      BY <2>6, <2>7, <2>8, FieldsLemma
    <2>10. ApplyLocalDeliveryState(o.status)
      BY <1>4, <1>8, <2>3, <2>5, <2>9 DEF ApplyLocalDeliveryState
    <2> QED  BY <2>1, <2>10 DEF Next
  <1>9. o.kind \in {"begin", "complete", "event", "local"}
    BY <1>1 DEF Operations
  <1> QED  BY <1>5, <1>6, <1>7, <1>8, <1>9

\* Nothing but a transaction, a claim and a reschedule changes the records.
LEMMA StoreStep ==
    ASSUME StoreInv, Backend = "dynamo", [StoreNext]_storeVars
    PROVE  [Next]_<<led, events>>
  <1>1. CASE UNCHANGED storeVars
    BY <1>1 DEF storeVars
  <1>2. ASSUME NEW c \in Callers, NEW o \in Operations, Start(c, o)
        PROVE  UNCHANGED <<led, events>>
    BY <1>2 DEF Start
  <1>3. ASSUME NEW c \in Callers, NEW s \in Requests(c), Read(c, s)
        PROVE  UNCHANGED <<led, events>>
    BY <1>3 DEF Read
  <1>4. ASSUME NEW c \in Callers, Refuse(c) \/ Conflict(c)
        PROVE  UNCHANGED <<led, events>>
    BY <1>4 DEF Refuse, Conflict
  <1>5. ASSUME NEW c \in Callers, Commit(c) PROVE Next
    BY <1>5, CommitStep
  <1>6. CASE ClaimOrReschedule
    BY <1>6 DEF ClaimOrReschedule, Next
  <1> QED  BY <1>1, <1>2, <1>3, <1>4, <1>5, <1>6 DEF StoreNext

\* No step takes away an attempt that a call names.
LEMMA CallsStep ==
    ASSUME StoreInv, [StoreNext]_storeVars, LedgerShape',
           Len(led.attempts) <= Len(led'.attempts)
    PROVE  CallsInv'
  <1> DEFINE k == Len(led.attempts)
             n == Len(led'.attempts)
  <1>0. /\ k \in Nat /\ n \in Nat /\ k <= n
        /\ DOMAIN led.attempts = 1..k
        /\ DOMAIN led'.attempts = 1..n
    BY DEF StoreInv, LedgerShape
  <1>i. CallsInv
    BY DEF StoreInv
  <1>1. ASSUME op' = op, view' = view PROVE CallsInv'
    <2>1. ASSUME NEW d \in Callers
          PROVE  /\ op[d].kind = "begin" => op[d].seq <= n + 1
                 /\ op[d].kind \in {"complete", "event"} => op[d].seq \in 1..n
      <3>1. CASE op[d].kind = "begin"
        <4>1. op[d].seq \in 1..MaxAttempts /\ op[d].seq <= k + 1
          BY <3>1, <1>i DEF CallsInv, Operations, NoOp
        <4> QED  BY <1>0, <3>1, <4>1
      <3>2. CASE op[d].kind \in {"complete", "event"}
        <4>1. op[d].seq \in 1..k
          BY <3>2, <1>i, <1>0 DEF CallsInv
        <4> QED  BY <1>0, <3>2, <4>1
      <3> QED  BY <3>1, <3>2
    <2> QED  BY <1>0, <1>1, <1>i, <2>1 DEF CallsInv
  <1>2. CASE UNCHANGED storeVars
    BY <1>1, <1>2 DEF storeVars, call
  <1>3. ASSUME NEW c \in Callers, NEW o \in Operations, Start(c, o)
        PROVE  CallsInv'
    <2>1. /\ op' = [op EXCEPT ![c] = o] /\ view' = view /\ led' = led
          /\ Named(o)
      BY <1>3 DEF Start
    <2>2. op' \in [Callers -> Operations \cup {NoOp}]
      BY <2>1, <1>i DEF CallsInv
    <2>3. ASSUME NEW d \in Callers
          PROVE  /\ op'[d].kind = "begin" => op'[d].seq <= Len(led.attempts) + 1
                 /\ op'[d].kind \in {"complete", "event"} =>
                      op'[d].seq \in DOMAIN led.attempts
      <3>1. CASE d = c
        <4>1. op'[d] = o
          BY <2>1, <3>1, <1>i DEF CallsInv
        <4> QED  BY <2>1, <4>1 DEF Named, CanCorrelate
      <3>2. CASE d # c
        <4>1. op'[d] = op[d]
          BY <2>1, <3>2, <1>i DEF CallsInv
        <4> QED  BY <4>1, <1>i DEF CallsInv
      <3> QED  BY <3>1, <3>2
    <2> QED  BY <2>1, <2>2, <2>3, <1>i DEF CallsInv
  <1>4. ASSUME NEW c \in Callers, NEW s \in Requests(c), Read(c, s)
        PROVE  CallsInv'
    <2> DEFINE v == [f \in Fields |-> IF f \in s THEN led[f] ELSE view[c][f]]
    <2>1. op' = op /\ led' = led
      BY <1>4 DEF Read
    <2>2. DOMAIN led = Fields
      BY DEF StoreInv, LedgerShape
    <2>3. view' = [view EXCEPT ![c] = v]
      BY <1>4, <2>2, <1>i DEF Read, CallsInv
    <2>4. v = [f \in Fields |-> v[f]]
      OBVIOUS
    <2> HIDE DEF v
    <2>5. view' = [d \in Callers |-> [f \in Fields |-> view'[d][f]]]
      BY <2>3, <2>4, <1>i DEF CallsInv
    <2> QED  BY <2>1, <2>5, <1>i DEF CallsInv
  <1>5. ASSUME NEW c \in Callers, Done(c) PROVE CallsInv'
    <2>1. DOMAIN led.attempts \subseteq DOMAIN led'.attempts
      BY <1>0
    <2> QED  BY <1>0, <1>5, <1>i, <2>1, DoneLemma
  <1>6. ASSUME NEW c \in Callers, Refuse(c) \/ Commit(c) PROVE CallsInv'
    BY <1>5, <1>6 DEF Refuse, Commit
  <1>7. ASSUME NEW c \in Callers, Conflict(c) PROVE CallsInv'
    <2>1. CASE Done(c)
      BY <1>5, <2>1
    <2>2. CASE view' = [view EXCEPT ![c] = NoView] /\ op' = op
      <3>1. NoView = [f \in Fields |-> NoView[f]]
        BY DEF NoView, Fields
      <3> HIDE DEF NoView
      <3>2. view' = [d \in Callers |-> [f \in Fields |-> view'[d][f]]]
        BY <2>2, <3>1, <1>i DEF CallsInv
      <3>3. led' = led
        BY <1>7 DEF Conflict
      <3> QED  BY <2>2, <3>2, <3>3, <1>i DEF CallsInv
    <2> QED  BY <1>7, <2>1, <2>2 DEF Conflict
  <1>8. CASE ClaimOrReschedule
    BY <1>1, <1>8 DEF ClaimOrReschedule, call
  <1> QED  BY <1>2, <1>3, <1>4, <1>6, <1>7, <1>8 DEF StoreNext

\* A committed e-mail has no attempts, and nobody has called yet.
LEMMA StoreInitLemma == StoreInit => StoreInv
  <1> SUFFICES ASSUME StoreInit PROVE StoreInv
    OBVIOUS
  <1>1. PICK s \in {"queued", "scheduled", "suppressed"} :
          led = [status   |-> s,
                 message  |-> s,
                 rcpt     |-> [r \in Recipients |->
                                 IF s = "suppressed" THEN s ELSE "queued"],
                 latest   |-> [r \in Recipients |-> 0],
                 attempts |-> <<>>]
    BY DEF StoreInit, Init
  <1> DEFINE rs == [r \in Recipients |-> IF s = "suppressed" THEN s ELSE "queued"]
  <1>2. Agree(rs, <<>>)
    <2>1. ~SomeRecipient(rs, {"sending"})
      BY DEF SomeRecipient
    <2>2. SomeRecipient(rs, {"queued"}) => EveryRecipient(rs, {"queued"})
      BY DEF SomeRecipient, EveryRecipient
    <2> HIDE DEF rs
    <2> QED  BY <2>1, <2>2 DEF Agree
  <1> HIDE DEF rs
  <1>3. LedgerShape
    BY <1>1 DEF LedgerShape, Fields
  <1>4. LedgerInv
    BY <1>1, <1>2 DEF LedgerInv, rs
  <1>5. CallsInv
    <2>1. NoView = [f \in Fields |-> NoView[f]]
      BY DEF NoView, Fields
    <2>2. NoOp.kind = "none"
      BY DEF NoOp
    <2> HIDE DEF NoView, NoOp
    <2>3. op \in [Callers -> Operations \cup {NoOp}]
      BY DEF StoreInit
    <2>4. view = [c \in Callers |-> [f \in Fields |-> view[c][f]]]
      BY <2>1 DEF StoreInit
    <2>5. \A c \in Callers : op[c].kind = "none"
      BY <2>2 DEF StoreInit
    <2> QED  BY <2>3, <2>4, <2>5 DEF CallsInv
  <1> QED  BY <1>3, <1>4, <1>5 DEF StoreInv

\* With DynamoDB the last attempt and the recipients agree in every state,
\* and a call names an attempt that is there.
THEOREM StoreInvariant == (Backend = "dynamo") => (StoreSpec => []StoreInv)
  <1> SUFFICES ASSUME Backend = "dynamo" PROVE StoreSpec => []StoreInv
    OBVIOUS
  <1>1. StoreInv /\ [StoreNext]_storeVars => StoreInv'
    <2> SUFFICES ASSUME StoreInv, [StoreNext]_storeVars PROVE StoreInv'
      OBVIOUS
    <2>1. [Next]_<<led, events>>
      BY StoreStep
    <2>2. /\ LedgerShape' /\ LedgerInv'
          /\ Len(led.attempts) <= Len(led'.attempts)
      BY <2>1, LedgerStep DEF StoreInv
    <2> QED  BY <2>2, CallsStep DEF StoreInv
  <1> QED  BY <1>1, StoreInitLemma, PTL DEF StoreSpec

\* The DynamoDB store implements AtomicLedger, for any number of callers,
\* recipients, events and attempts: although a call reads the records of a
\* message in pages, and its transaction does not compare the attempts as a
\* whole, what it commits is what the operation makes of the records as they
\* are at that moment.  (Of D1 the run ledger_d1 shows the opposite.)
THEOREM ImplementsAtomicLedgerHolds ==
    (Backend = "dynamo") => (StoreSpec => ImplementsAtomicLedger)
  <1> SUFFICES ASSUME Backend = "dynamo" PROVE StoreSpec => ImplementsAtomicLedger
    OBVIOUS
  <1>1. StoreInit => Init
    BY DEF StoreInit
  <1>2. StoreInv /\ [StoreNext]_storeVars => [Next]_<<led, events>>
    BY StoreStep
  <1> QED
    BY <1>1, <1>2, StoreInvariant, PTL
    DEF StoreSpec, ImplementsAtomicLedger, Spec
=============================================================================
