----------------------- MODULE WebhookDeliveryProofs -----------------------
(***************************************************************************)
(* Proofs about WebhookDelivery, for any number of endpoints, any calls    *)
(* and runners, any page size and any number of receives, changes, runs    *)
(* and faults.                                                             *)
(***************************************************************************)
EXTENDS WebhookDelivery, FiniteSetTheorems, WellFoundedInduction, TLAPS

-----------------------------------------------------------------------------
(* The inductive invariant.                                                 *)

BranchPc == {"none", "create", "enqueue", "mark", "ok", "threw", "lost"}

CallState == [pc : {"idle", "list", "branches", "done", "threw", "lost"},
              cursor : Nat]

DeliveryState == [status : Live \cup {"absent", "expired"}, attempts : Nat]

JobState == [state : {"none", "queued", "acked", "dead"}, receives : Nat]

Statuses == Enabled \cup {"absent", "disabled", "deleted"}

Histories == Seq(Statuses) \ {<<>>}

RunPc == {"idle", "load", "create", "endpoint", "begin", "cancel", "request",
          "record", "return"}

RunState == [pc : RunPc, id : Ids \cup {<<>>}, attempt : Nat, attempts : Nat,
             answer : {"none", "ok", "failed"}]

\* The records, the jobs and the locals of the calls and runs keep their types.
TypeOK ==
    /\ webhook \in [Webhooks -> Histories]
    /\ delivery \in [Ids -> DeliveryState]
    /\ job \in [Ids -> JobState]
    /\ call \in [Calls -> CallState]
    /\ branch \in [Ids -> BranchPc]
    /\ runner \in [Runners -> RunState]
    /\ answered \subseteq Ids
    /\ unwanted \subseteq Ids
    /\ sent \in [Ids -> Nat]
    /\ cut \subseteq Ids
    /\ steady \in [Calls -> SUBSET Webhooks]
    /\ overlaps \in Nat
    /\ lost \in Nat

\* What a call has done by its program point: nothing; every older endpoint is
\* still untouched; the endpoints that wanted the event all along have a
\* branch, and before the next page a finished one.
ReachedInv(c) ==
    /\ steady[c] \subseteq {w \in Webhooks : Steady(w)}
    /\ call[c].pc = "idle" =>
          steady[c] = {} /\ \A w \in Webhooks : branch[<<c, w>>] = "none"
    /\ call[c].pc \in {"list", "branches"} =>
          \A w \in Webhooks :
             w < call[c].cursor => branch[<<c, w>>] = "none"
    /\ call[c].pc = "branches" =>
          \A w \in steady[c] :
             w >= call[c].cursor => branch[<<c, w>>] # "none"
    /\ call[c].pc = "list" =>
          \A w \in steady[c] :
             w >= call[c].cursor => branch[<<c, w>>] = "ok"
    /\ call[c].pc = "done" => \A w \in steady[c] : branch[<<c, w>>] = "ok"

\* A delivery has no record before its branch writes one, and no job before
\* its branch enqueues one.
EnqueuedInv(d) ==
    /\ branch[d] \in {"none", "create"} => delivery[d].status = "absent"
    /\ branch[d] \in {"none", "create", "enqueue"} =>
          job[d] = [state |-> "none", receives |-> 0]
    /\ branch[d] = "ok" => job[d].state # "none"

\* A run has a job that was received, and what it is about to settle has been
\* answered or found unwanted.
RunInv(x) ==
    Busy(x) =>
       LET d == runner[x].id
       IN  /\ d \in Ids
           /\ job[d].state # "none"
           /\ runner[x].attempt >= 1
           /\ runner[x].attempt <= job[d].receives
           /\ runner[x].pc = "cancel" => d \in unwanted
           /\ runner[x].pc = "record" /\ runner[x].answer = "ok" => d \in answered
           /\ runner[x].pc = "return" => d \in answered \cup unwanted

WhInv ==
    /\ \A c \in Calls : ReachedInv(c)
    /\ \A d \in Ids : EnqueuedInv(d)
    /\ \A x \in Runners : RunInv(x)

\* A run has yet to write its last word into the record.
Working(d) == \E x \in Runners : Busy(x) /\ runner[x].pc # "return" /\ runner[x].id = d

\* A run has yet to write the last word, the branch has yet to enqueue the job
\* or was lost before, nobody has received the job yet, or a run was lost.
Drives(d) ==
    \/ Working(d)
    \/ branch[d] \in {"create", "enqueue", "mark", "lost"} /\ job[d].state = "none"
    \/ job[d].state = "queued" /\ job[d].receives = 0
    \/ d \in cut /\ job[d].state # "none"

Unsettled(d) == delivery[d].status \in {"pending", "delivering"}

\* Every unsettled record is accounted for.
DrivenInv == \A d \in Ids : Unsettled(d) => Drives(d)

\* A job has at most one run.
OneRun ==
    \A x, y \in Runners :
        Busy(x) /\ Busy(y) /\ runner[x].id = runner[y].id => x = y

\* Requests are counted before they are made, and a branch that is not finished
\* finds its record as it left it, or further on.
CountedDelivery(d) ==
    /\ sent[d] <= job[d].receives
    /\ branch[d] \in {"enqueue", "mark"} =>
          delivery[d].status \in Live /\ delivery[d].attempts >= sent[d]
    /\ delivery[d].status \in {"delivering", "succeeded", "failed"} =>
          delivery[d].attempts >= sent[d]

\* The attempt of a run is the last receive of its job; until the run has made
\* its request there was none for this attempt, and right before it the record
\* has counted it.
CountedRun(x) ==
    Busy(x) =>
        LET d == runner[x].id
        IN  /\ runner[x].attempt = job[d].receives
            /\ runner[x].pc \in {"load", "create", "endpoint", "begin", "request"} =>
                  sent[d] < runner[x].attempt
            /\ runner[x].pc = "request" =>
                  /\ runner[x].attempts > sent[d]
                  /\ delivery[d].status \in Live => delivery[d].attempts > sent[d]
            /\ runner[x].pc = "record" => runner[x].attempts >= sent[d]

\* All of it until two runs of a job overlap.
CountedInv ==
    (overlaps = 0) =>
        /\ OneRun
        /\ \A d \in Ids : CountedDelivery(d)
        /\ \A x \in Runners : CountedRun(x)

-----------------------------------------------------------------------------
(* Numbers and pages.                                                       *)

\* A set of natural numbers with a member has a least one.
LEMMA LeastMember ==
    ASSUME NEW S \in SUBSET Nat, S # {}
    PROVE  \E m \in S : \A n \in S : m <= n
  <1> DEFINE R == {ss \in Nat \X Nat : ss[1] < ss[2]}
  <1>1. IsWellFoundedOn(R, Nat)
    BY NatLessThanWellFounded DEF OpToRel
  <1>2. PICK m \in S : \A n \in S : ~ (<<n, m>> \in R)
    <2> HIDE DEF R
    <2> QED BY <1>1, WFMin
  <1>3. \A n \in S : <<n, m>> \in R <=> n < m
    OBVIOUS
  <1>4. \A n \in S : ~ (n < m)
    BY <1>2, <1>3
  <1>5. \A n \in S : n \in Nat
    OBVIOUS
  <1>6. \A n \in S : m <= n
    BY <1>4, <1>5
  <1> QED BY <1>6

\* Min is the least member.
LEMMA MinIsLeast ==
    ASSUME NEW S \in SUBSET Nat, S # {}
    PROVE  Min(S) \in S /\ \A n \in S : Min(S) <= n
  BY LeastMember DEF Min

\* A set of numbers up to a bound has a greatest one.
LEMMA GreatestMember ==
    ASSUME NEW N \in Nat, NEW S \in SUBSET (1..N), S # {}
    PROVE  \E m \in S : \A n \in S : n <= m
  <1> DEFINE T == {N - n : n \in S}
  <1>1. T \in SUBSET Nat /\ T # {}
    <2>1. \A n \in S : N - n \in Nat
      OBVIOUS
    <2>2. T \subseteq Nat
      BY <2>1
    <2>3. T # {}
      OBVIOUS
    <2> QED BY <2>2, <2>3
  <1>2. PICK k \in T : \A t \in T : k <= t
    BY <1>1, LeastMember
  <1>3. PICK m \in S : k = N - m
    OBVIOUS
  <1>4. \A n \in S : N - m <= N - n
    BY <1>2, <1>3
  <1> QED BY <1>4

\* The attempt number is positive, and above both numbers it is made of.
LEMMA AttemptNumberIsNext ==
    ASSUME NEW a \in Nat, NEW n \in Nat
    PROVE  /\ AttemptNumber(a, n) \in Nat
           /\ AttemptNumber(a, n) >= a
           /\ AttemptNumber(a, n) >= n + 1
  <1> DEFINE S == {a, n + 1}
  <1>1. \E x \in S : \A y \in S : x >= y
    <2>1. CASE a >= n + 1
      BY <2>1
    <2>2. CASE n + 1 >= a
      BY <2>2
    <2> QED BY <2>1, <2>2
  <1>2. Max(S) \in S /\ \A y \in S : Max(S) >= y
    BY <1>1 DEF Max
  <1> QED BY <1>2 DEF AttemptNumber

\* The next cursor is older than the one before, the endpoints between the two
\* that exist are on the page, and the page has none beyond them.
LEMMA PageReaches ==
    ASSUME NEW cursor \in Nat
    PROVE  /\ NextCursor(cursor) \in Nat
           /\ NextCursor(cursor) <= cursor
           /\ Page(cursor) \subseteq Older(cursor)
           /\ \A w \in Page(cursor) : w >= NextCursor(cursor)
           /\ \A w \in Older(cursor) : w >= NextCursor(cursor) => w \in Page(cursor)
  <1> DEFINE Above(w) == {v \in Older(cursor) : v > w}
  <1> USE BoundsAssumption
  <1>1. Older(cursor) \subseteq 1..Newest
    BY DEF Older, Webhooks
  <1>2. IsFiniteSet(Older(cursor))
    <2>1. IsFiniteSet(1..Newest)
      BY FS_Interval
    <2> QED BY <1>1, <2>1, FS_Subset
  <1>3. \A w \in Older(cursor) : IsFiniteSet(Above(w)) /\ Cardinality(Above(w)) \in Nat
    BY <1>2, FS_Subset, FS_CardinalityType
  <1>4. Page(cursor) \subseteq Older(cursor)
    BY DEF Page
  <1>5. CASE Page(cursor) = Older(cursor)
    <2>1. NextCursor(cursor) = 0
      BY <1>5 DEF NextCursor
    <2> QED BY <1>1, <1>5, <2>1
  <1>6. CASE Page(cursor) # Older(cursor)
    <2>1. PICK m \in Older(cursor) : \A n \in Older(cursor) : n <= m
      <3>1. Older(cursor) # {}
        BY <1>4, <1>6
      <3> QED BY <1>1, <3>1, GreatestMember
    <2>2. m \in Page(cursor)
      <3>1. Above(m) = {}
        BY <1>1, <2>1
      <3>2. Cardinality(Above(m)) = 0
        BY <3>1, FS_EmptySet
      <3> QED BY <3>2 DEF Page
    <2>3. Page(cursor) \in SUBSET Nat
      BY <1>1, <1>4
    <2> DEFINE least == Min(Page(cursor))
    <2>4. least \in Page(cursor) /\ \A n \in Page(cursor) : least <= n
      BY <2>2, <2>3, MinIsLeast
    <2>5. NextCursor(cursor) = least
      BY <1>6 DEF NextCursor
    <2> HIDE DEF least
    <2>6. \A w \in Older(cursor) : w >= least => w \in Page(cursor)
      <3> SUFFICES ASSUME NEW w \in Older(cursor), w >= least
                   PROVE  w \in Page(cursor)
        OBVIOUS
      <3>1. Above(w) \subseteq Above(least)
        BY <1>1, <1>4, <2>4
      <3>2. Cardinality(Above(least)) < PageSize
        BY <2>4 DEF Page
      <3>3. Cardinality(Above(w)) <= Cardinality(Above(least))
        BY <1>3, <1>4, <2>4, <3>1, FS_Subset
      <3>4. Cardinality(Above(w)) < PageSize
        BY <1>3, <1>4, <2>4, <3>2, <3>3
      <3> QED BY <3>4 DEF Page
    <2>7. least < cursor
      BY <1>4, <2>4 DEF Older
    <2> QED BY <1>1, <1>4, <2>3, <2>4, <2>5, <2>6, <2>7
  <1> QED BY <1>5, <1>6

-----------------------------------------------------------------------------
(* What is written                                                         *)

\* A delivery is named by a call and an endpoint.
LEMMA IdsArePairs ==
    /\ \A d \in Ids : d[1] \in Calls /\ d[2] \in Webhooks /\ d = <<d[1], d[2]>>
    /\ \A c \in Calls, w \in Webhooks :
          <<c, w>> \in Ids /\ <<c, w>>[1] = c /\ <<c, w>>[2] = w
  BY DEF Ids

\* A write of a delivery's record changes that record only, and only one that
\* is there.
LEMMA UpdatedIs ==
    ASSUME NEW d \in Ids, NEW status \in Live, NEW n \in Nat, TypeOK
    PROVE  /\ Updated(d, status, n) \in [Ids -> DeliveryState]
           /\ \A e \in Ids : e # d => Updated(d, status, n)[e] = delivery[e]
           /\ delivery[d].status \in Live =>
                /\ Updated(d, status, n)[d].status = status
                /\ Updated(d, status, n)[d].attempts = n
           /\ delivery[d].status \notin Live =>
                Updated(d, status, n)[d] = delivery[d]
  BY DEF Updated, TypeOK, DeliveryState, Live

\* A record is created only where there is none.
LEMMA CreatedIs ==
    ASSUME NEW d \in Ids, TypeOK
    PROVE  /\ Created(d) \in [Ids -> DeliveryState]
           /\ \A e \in Ids : e # d => Created(d)[e] = delivery[e]
           /\ delivery[d].status = "absent" =>
                /\ Created(d)[d].status = "pending"
                /\ Created(d)[d].attempts = 0
           /\ delivery[d].status # "absent" => Created(d)[d] = delivery[d]
  BY DEF Created, TypeOK, DeliveryState, Live

\* A run goes on to a program point with a count and an answer; no other run
\* is changed.
Moves(x, pc, n, answer) ==
    /\ runner' \in [Runners -> RunState]
    /\ runner'[x].pc = pc
    /\ runner'[x].id = runner[x].id
    /\ runner'[x].attempt = runner[x].attempt
    /\ runner'[x].attempts = n
    /\ runner'[x].answer = answer
    /\ \A y \in Runners : y # x => runner'[y] = runner[y]

\* A run is over; no other run is changed.
Ends(x) ==
    /\ runner' \in [Runners -> RunState]
    /\ runner'[x].pc = "idle"
    /\ \A y \in Runners : y # x => runner'[y] = runner[y]

\* A step of a run that changes its program point.
LEMMA StepMoves ==
    ASSUME TypeOK, NEW x \in Runners, NEW to \in RunPc,
           runner' = [runner EXCEPT ![x].pc = to]
    PROVE  Moves(x, to, runner[x].attempts, runner[x].answer)
  BY DEF TypeOK, Moves, RunState

\* The locals of the runs after a write of one count.
WithCount(f, x, n) == [f EXCEPT ![x].attempts = n]

\* A write of the count into the locals of one run.
LEMMA CountIs ==
    ASSUME NEW f \in [Runners -> RunState], NEW x \in Runners, NEW n \in Nat
    PROVE  /\ WithCount(f, x, n) \in [Runners -> RunState]
           /\ WithCount(f, x, n)[x].pc = f[x].pc
           /\ WithCount(f, x, n)[x].id = f[x].id
           /\ WithCount(f, x, n)[x].attempt = f[x].attempt
           /\ WithCount(f, x, n)[x].attempts = n
           /\ WithCount(f, x, n)[x].answer = f[x].answer
           /\ \A y \in Runners : y # x => WithCount(f, x, n)[y] = f[y]
  BY DEF WithCount, RunState

\* The locals of the runs after a write of one answer.
WithAnswer(f, x, answer) == [f EXCEPT ![x].answer = answer]

\* A write of the answer into the locals of one run.
LEMMA AnswerIs ==
    ASSUME NEW f \in [Runners -> RunState], NEW x \in Runners,
           NEW answer \in {"none", "ok", "failed"}
    PROVE  /\ WithAnswer(f, x, answer) \in [Runners -> RunState]
           /\ WithAnswer(f, x, answer)[x].pc = f[x].pc
           /\ WithAnswer(f, x, answer)[x].id = f[x].id
           /\ WithAnswer(f, x, answer)[x].attempt = f[x].attempt
           /\ WithAnswer(f, x, answer)[x].attempts = f[x].attempts
           /\ WithAnswer(f, x, answer)[x].answer = answer
           /\ \A y \in Runners : y # x => WithAnswer(f, x, answer)[y] = f[y]
  BY DEF WithAnswer, RunState

\* How a run changes its program point and its count in one step.
SetsCount(x, to, n) == runner' = [runner EXCEPT ![x].pc = to, ![x].attempts = n]

\* A step of a run that changes its program point and its count.
LEMMA CountMoves ==
    ASSUME TypeOK, NEW x \in Runners, NEW to \in RunPc, NEW n \in Nat,
           SetsCount(x, to, n)
    PROVE  Moves(x, to, n, runner[x].answer)
  <1> DEFINE first == [runner EXCEPT ![x].pc = to]
  <1>1. /\ first \in [Runners -> RunState]
        /\ first[x].pc = to
        /\ first[x].id = runner[x].id
        /\ first[x].attempt = runner[x].attempt
        /\ first[x].answer = runner[x].answer
        /\ \A y \in Runners : y # x => first[y] = runner[y]
    BY DEF TypeOK, RunState
  <1>2. runner' = WithCount(first, x, n)
    BY DEF WithCount, SetsCount
  <1> HIDE DEF first
  <1>3. /\ runner' \in [Runners -> RunState]
        /\ runner'[x].pc = first[x].pc
        /\ runner'[x].id = first[x].id
        /\ runner'[x].attempt = first[x].attempt
        /\ runner'[x].attempts = n
        /\ runner'[x].answer = first[x].answer
        /\ \A y \in Runners : y # x => runner'[y] = first[y]
    <2>1. first \in [Runners -> RunState]
      BY <1>1
    <2> QED BY <1>2, <2>1, CountIs
  <1> QED BY <1>1, <1>3 DEF Moves

\* How a run changes its program point and its answer in one step.
SetsAnswer(x, to, answer) ==
    runner' = [runner EXCEPT ![x].pc = to, ![x].answer = answer]

\* A step of a run that changes its program point and its answer.
LEMMA AnswerMoves ==
    ASSUME TypeOK, NEW x \in Runners, NEW to \in RunPc,
           NEW answer \in {"none", "ok", "failed"},
           SetsAnswer(x, to, answer)
    PROVE  Moves(x, to, runner[x].attempts, answer)
  <1> DEFINE first == [runner EXCEPT ![x].pc = to]
  <1>1. /\ first \in [Runners -> RunState]
        /\ first[x].pc = to
        /\ first[x].id = runner[x].id
        /\ first[x].attempt = runner[x].attempt
        /\ first[x].attempts = runner[x].attempts
        /\ \A y \in Runners : y # x => first[y] = runner[y]
    BY DEF TypeOK, RunState
  <1>2. runner' = WithAnswer(first, x, answer)
    BY DEF WithAnswer, SetsAnswer
  <1> HIDE DEF first
  <1>3. /\ runner' \in [Runners -> RunState]
        /\ runner'[x].pc = first[x].pc
        /\ runner'[x].id = first[x].id
        /\ runner'[x].attempt = first[x].attempt
        /\ runner'[x].attempts = first[x].attempts
        /\ runner'[x].answer = answer
        /\ \A y \in Runners : y # x => runner'[y] = first[y]
    <2>1. first \in [Runners -> RunState]
      BY <1>1
    <2> QED BY <1>2, <2>1, AnswerIs
  <1> QED BY <1>1, <1>3 DEF Moves

\* A run that becomes idle has ended.
LEMMA IdleEnds ==
    ASSUME TypeOK, NEW x \in Runners, runner' = [runner EXCEPT ![x] = Idle]
    PROVE  Ends(x)
  BY DEF TypeOK, Ends, Idle, RunState, RunPc

-----------------------------------------------------------------------------
(* Types, and what calls, branches and runs have done.                      *)

Inv == TypeOK /\ WhInv /\ SettledWasAnswered

\* The initial state.
LEMMA InitInv == Init => Inv
  BY BoundsAssumption
  DEF Init, Inv, TypeOK, WhInv, ReachedInv, EnqueuedInv, RunInv, Idle, Busy,
      SettledWasAnswered, AcknowledgedWasHandled, SucceededWasAnswered, Webhooks,
      Statuses, Histories, CallState, DeliveryState, JobState, RunState, RunPc, BranchPc, Live, Calls, Ids

\* What a write of an endpoint's record leaves.
LEMMA WriteIs ==
    ASSUME TypeOK, NEW w \in Webhooks, NEW status \in Statuses, NEW late \in BOOLEAN,
           Write(w, status, late)
    PROVE  /\ webhook' \in [Webhooks -> Histories]
           /\ \A v \in Webhooks : v # w => webhook'[v] = webhook[v]
  <1>1. webhook[w] \in Seq(Statuses)
    BY DEF TypeOK, Histories
  <1> DEFINE next == IF late THEN Append(webhook[w], status) ELSE <<status>>
  <1>2. next \in Histories
    BY <1>1 DEF Histories
  <1>3. webhook' = [webhook EXCEPT ![w] = next]
    BY DEF Write
  <1> HIDE DEF next
  <1> QED BY <1>2, <1>3 DEF TypeOK

\* A write of the endpoints that no call counts on.
LEMMA EndpointFrame ==
    ASSUME Inv, NEW w \in Webhooks,
           webhook' \in [Webhooks -> Histories],
           \A v \in Webhooks : v # w => webhook'[v] = webhook[v],
           steady' \in [Calls -> SUBSET Webhooks],
           \A c \in Calls : steady'[c] \subseteq steady[c] /\ w \notin steady'[c],
           UNCHANGED <<delivery, job, call, branch, runner, history, overlaps, lost>>
    PROVE  Inv'
  <1> USE DEF Inv, history
  <1>1. TypeOK'
    BY DEF TypeOK
  <1>2. \A c \in Calls : ReachedInv(c)'
    <2> SUFFICES ASSUME NEW c \in Calls PROVE ReachedInv(c)'
      OBVIOUS
    <2>1. \A v \in steady'[c] : v \in Webhooks /\ Steady(v) /\ v # w
      BY DEF WhInv, ReachedInv
    <2>2. \A v \in steady'[c] : v \in Webhooks /\ Steady(v)'
      BY <2>1 DEF Steady
    <2>3. steady'[c] \subseteq steady[c]
      OBVIOUS
    <2> QED BY <2>2, <2>3 DEF WhInv, ReachedInv
  <1>3. \A d \in Ids : EnqueuedInv(d)'
    BY DEF WhInv, EnqueuedInv
  <1>4. \A x \in Runners : RunInv(x)'
    BY DEF WhInv, RunInv, Busy
  <1>5. SettledWasAnswered'
    BY DEF SettledWasAnswered, AcknowledgedWasHandled, SucceededWasAnswered
  <1> QED BY <1>1, <1>2, <1>3, <1>4, <1>5 DEF WhInv

\* CreateWebhook keeps the invariant: no call counts on an absent endpoint.
LEMMA CreateWebhookInv ==
    ASSUME Inv, NEW w \in Webhooks, NEW late \in BOOLEAN, CreateWebhook(w, late)
    PROVE  Inv'
  <1>1. /\ webhook' \in [Webhooks -> Histories]
        /\ \A v \in Webhooks : v # w => webhook'[v] = webhook[v]
    BY WriteIs DEF Inv, CreateWebhook, Statuses, Enabled
  <1>2. ~Steady(w)
    <2>1. Record(w) = "absent"
      BY DEF CreateWebhook
    <2> QED BY <2>1 DEF Record, Steady
  <1>3. \A c \in Calls : w \notin steady[c]
    BY <1>2 DEF Inv, WhInv, ReachedInv
  <1>4. UNCHANGED <<delivery, job, call, branch, runner, history, steady, overlaps, lost>>
    BY DEF CreateWebhook
  <1> QED BY <1>1, <1>3, <1>4, EndpointFrame DEF Inv, TypeOK

\* A changed endpoint no longer counts as steady, so that UpdateWebhook and
\* DeleteWebhook keep the invariant.
LEMMA ChangeInv ==
    ASSUME Inv, NEW w \in Webhooks, NEW status \in Statuses, NEW late \in BOOLEAN,
           Change(w, status, late)
    PROVE  Inv'
  <1>1. /\ webhook' \in [Webhooks -> Histories]
        /\ \A v \in Webhooks : v # w => webhook'[v] = webhook[v]
    BY WriteIs DEF Inv, Change
  <1>2. /\ steady' = [c \in Calls |-> steady[c] \ {w}]
        /\ UNCHANGED <<delivery, job, call, branch, runner, history, overlaps, lost>>
    BY DEF Change
  <1> QED BY <1>1, <1>2, EndpointFrame DEF Inv, TypeOK

\* Reindex keeps the invariant: a steady endpoint has nothing left to list.
LEMMA ReindexInv ==
    ASSUME Inv, NEW w \in Webhooks, Reindex(w)
    PROVE  Inv'
  <1> DEFINE past == webhook[w]
  <1>1. past \in Seq(Statuses) /\ Len(past) > 1
    BY DEF Inv, TypeOK, Histories, Reindex
  <1>2. Tail(past) \in Histories
    <2> HIDE DEF past
    <2>1. Tail(past) \in Seq(Statuses) /\ Len(Tail(past)) = Len(past) - 1
      BY <1>1
    <2>2. Len(Tail(past)) # 0
      BY <1>1, <2>1
    <2>3. Len(<<>>) = 0
      OBVIOUS
    <2>4. Tail(past) # <<>>
      BY <2>2, <2>3
    <2> QED BY <2>1, <2>4 DEF Histories
  <1>3. /\ webhook' \in [Webhooks -> Histories]
        /\ \A v \in Webhooks : v # w => webhook'[v] = webhook[v]
    BY <1>2 DEF Inv, TypeOK, Reindex
  <1>4. \A c \in Calls : w \notin steady[c]
    <2>1. ASSUME Steady(w) PROVE FALSE
      <3>1. past = <<"subscribed">>
        BY <2>1 DEF Steady
      <3> HIDE DEF past
      <3>2. Len(past) = 1
        BY <3>1
      <3> QED BY <1>1, <3>2
    <2> QED BY <2>1 DEF Inv, WhInv, ReachedInv
  <1>5. UNCHANGED <<delivery, job, call, branch, runner, history, steady, overlaps, lost>>
    BY DEF Reindex, bounds
  <1> QED BY <1>3, <1>4, <1>5, EndpointFrame DEF Inv, TypeOK

\* A step that changes neither records nor jobs, runs nor their findings.
LEMMA CallFrame ==
    ASSUME Inv, UNCHANGED <<delivery, job, runner, history>>
    PROVE  /\ \A x \in Runners : RunInv(x)'
           /\ SettledWasAnswered'
  BY DEF Inv, WhInv, RunInv, Busy, history,
         SettledWasAnswered, AcknowledgedWasHandled, SucceededWasAnswered

\* Publish keeps the invariant: no endpoint is as old as its first cursor.
LEMMA PublishInv ==
    ASSUME Inv, NEW c \in Publications, Publish(c)
    PROVE  Inv'
  <1> USE BoundsAssumption DEF Inv, Publish, store, history, bounds
  <1>0. c \in Calls
    BY DEF Calls
  <1>1. TypeOK'
    <2>1. call' \in [Calls -> CallState]
      BY <1>0 DEF TypeOK, CallState
    <2>2. steady' \in [Calls -> SUBSET Webhooks]
      BY <1>0 DEF TypeOK
    <2> QED BY <2>1, <2>2 DEF TypeOK
  <1>2. \A b \in Calls : ReachedInv(b)'
    <2> SUFFICES ASSUME NEW b \in Calls PROVE ReachedInv(b)'
      OBVIOUS
    <2>1. CASE b = c
      <3>1. /\ call'[b].pc = "list" /\ call'[b].cursor = Newest + 1
            /\ steady'[b] = {w \in Webhooks : Steady(w)}
        BY <1>0, <2>1 DEF TypeOK
      <3>2. \A w \in Webhooks : branch[<<b, w>>] = "none"
        BY <2>1 DEF WhInv, ReachedInv, Steady
      <3>3. \A w \in Webhooks : ~ (w >= Newest + 1)
        BY DEF Webhooks
      <3> QED BY <3>1, <3>2, <3>3 DEF ReachedInv, Steady
    <2>2. CASE b # c
      <3>1. call'[b] = call[b] /\ steady'[b] = steady[b]
        BY <2>2 DEF TypeOK
      <3> QED BY <3>1 DEF WhInv, ReachedInv, Steady
    <2> QED BY <2>1, <2>2
  <1>3. \A d \in Ids : EnqueuedInv(d)'
    BY DEF WhInv, EnqueuedInv
  <1> QED BY <1>1, <1>2, <1>3, CallFrame DEF WhInv

\* ListWebhooks keeps the invariant: the page has every endpoint down to the
\* next cursor, and none has had a branch yet.
LEMMA ListWebhooksInv ==
    ASSUME Inv, NEW c \in Publications, ListWebhooks(c)
    PROVE  Inv'
  <1> USE DEF Inv, ListWebhooks, store, history, bounds
  <1> DEFINE cursor == call[c].cursor
  <1>0. c \in Calls /\ cursor \in Nat
    BY DEF Calls, TypeOK, CallState
  <1>a. CASE cursor \in Webhooks /\ ~Exists(cursor)
    <2>0. call' = [call EXCEPT ![c].pc = "threw"] /\ UNCHANGED branch
      BY <1>a
    <2>1. TypeOK'
      BY <1>0, <2>0 DEF TypeOK, CallState
    <2>2. \A b \in Calls : ReachedInv(b)'
      BY <1>0, <2>0 DEF TypeOK, CallState, WhInv, ReachedInv, Steady
    <2>3. \A d \in Ids : EnqueuedInv(d)'
      BY <2>0 DEF WhInv, EnqueuedInv
    <2> QED BY <2>1, <2>2, <2>3, CallFrame DEF WhInv
  <1>b. CASE ~ (cursor \in Webhooks /\ ~Exists(cursor))
    <2>0. /\ branch' = [d \in Ids |->
                IF d[1] = c /\ d[2] \in Page(cursor) /\ Wanted(d[2])
                  THEN "create" ELSE branch[d]]
          /\ call' = [call EXCEPT ![c] =
                [pc |-> "branches", cursor |-> NextCursor(cursor)]]
      BY <1>b
    <2>1. /\ NextCursor(cursor) \in Nat
          /\ NextCursor(cursor) <= cursor
          /\ Page(cursor) \subseteq Older(cursor)
          /\ \A w \in Page(cursor) : w >= NextCursor(cursor)
          /\ \A w \in Older(cursor) : w >= NextCursor(cursor) => w \in Page(cursor)
      BY <1>0, PageReaches
    <2>2. TypeOK'
      <3>1. call' \in [Calls -> CallState]
        BY <1>0, <2>0, <2>1 DEF TypeOK, CallState
      <3>2. branch' \in [Ids -> BranchPc]
        BY <2>0 DEF TypeOK, BranchPc
      <3> QED BY <3>1, <3>2 DEF TypeOK
    <2>3. \A w \in Webhooks : w < cursor => branch[<<c, w>>] = "none"
      BY <1>0 DEF WhInv, ReachedInv, Steady
    <2>4. \A b \in Calls : ReachedInv(b)'
      <3> SUFFICES ASSUME NEW b \in Calls PROVE ReachedInv(b)'
        OBVIOUS
      <3>1. CASE b = c
        <4>1. call'[b].pc = "branches" /\ call'[b].cursor = NextCursor(cursor)
          BY <1>0, <2>0, <3>1 DEF TypeOK
        <4>2. \A w \in Webhooks : branch'[<<b, w>>] =
                 IF w \in Page(cursor) /\ Wanted(w) THEN "create" ELSE branch[<<b, w>>]
          BY <2>0, <3>1, IdsArePairs
        <4>3. \A w \in Webhooks : w < NextCursor(cursor) => branch'[<<b, w>>] = "none"
          <5> SUFFICES ASSUME NEW w \in Webhooks, w < NextCursor(cursor)
                       PROVE  branch'[<<b, w>>] = "none"
            OBVIOUS
          <5>1. w \in Nat
            BY DEF Webhooks
          <5>2. w \notin Page(cursor)
            BY <2>1, <5>1
          <5>3. w < cursor
            BY <1>0, <2>1, <5>1
          <5> QED BY <2>3, <3>1, <4>2, <5>2, <5>3
        <4>4. \A w \in steady[b] : w >= NextCursor(cursor) => branch'[<<b, w>>] # "none"
          <5> SUFFICES ASSUME NEW w \in steady[b], w >= NextCursor(cursor)
                       PROVE  branch'[<<b, w>>] # "none"
            OBVIOUS
          <5>1. w \in Webhooks /\ Steady(w)
            BY DEF WhInv, ReachedInv
          <5>2. w \in Nat
            BY <5>1 DEF Webhooks
          <5>3. CASE w < cursor
            <6>1. Listed(w) /\ Wanted(w)
              BY <5>1 DEF Steady, Listed, Wanted, Enabled
            <6> QED BY <2>1, <4>2, <5>1, <5>3, <6>1 DEF Older
          <5>4. CASE w >= cursor
            <6>1. branch[<<b, w>>] = "ok"
              BY <3>1, <5>4 DEF WhInv, ReachedInv, Steady
            <6> QED BY <4>2, <5>1, <6>1
          <5> QED BY <1>0, <5>2, <5>3, <5>4
        <4> QED BY <4>1, <4>3, <4>4 DEF WhInv, ReachedInv, Steady
      <3>2. CASE b # c
        <4>1. call'[b] = call[b]
          BY <2>0, <3>2 DEF TypeOK
        <4>2. \A w \in Webhooks : branch'[<<b, w>>] = branch[<<b, w>>]
          BY <2>0, <3>2, IdsArePairs
        <4> QED BY <4>1, <4>2 DEF TypeOK, WhInv, ReachedInv, Steady
      <3> QED BY <3>1, <3>2
    <2>5. \A d \in Ids : EnqueuedInv(d)'
      <3> SUFFICES ASSUME NEW d \in Ids PROVE EnqueuedInv(d)'
        OBVIOUS
      <3>1. CASE d[1] = c /\ d[2] \in Page(cursor) /\ Wanted(d[2])
        <4>1. d = <<c, d[2]>> /\ d[2] \in Webhooks
          BY <3>1, IdsArePairs
        <4>2. branch[d] = "none"
          BY <2>1, <2>3, <3>1, <4>1 DEF Older
        <4>3. branch'[d] = "create"
          BY <2>0, <3>1
        <4> QED BY <4>2, <4>3 DEF WhInv, EnqueuedInv
      <3>2. CASE ~ (d[1] = c /\ d[2] \in Page(cursor) /\ Wanted(d[2]))
        <4>1. branch'[d] = branch[d]
          BY <2>0, <3>2
        <4> QED BY <4>1 DEF WhInv, EnqueuedInv
      <3> QED BY <3>1, <3>2
    <2> QED BY <2>2, <2>4, <2>5, CallFrame DEF WhInv
  <1> QED BY <1>a, <1>b


\* Replay keeps the invariant: the call has had no branch yet.
LEMMA ReplayInv ==
    ASSUME Inv, NEW c \in Replays, NEW source \in Ids, Replay(c, source)
    PROVE  Inv'
  <1> USE DEF Inv, Replay, store, history, bounds
  <1> DEFINE w == source[2]
  <1>0. c \in Calls /\ w \in Webhooks /\ <<c, w>> \in Ids
    BY IdsArePairs DEF Calls
  <1> HIDE DEF w
  <1>1. /\ call[c].pc = "idle"
        /\ branch' = [branch EXCEPT ![<<c, w>>] = "create"]
        /\ call' = [call EXCEPT ![c] = [pc |-> "branches", cursor |-> 0]]
        /\ UNCHANGED <<store, job, runner, history, steady, bounds>>
    BY DEF w
  <1>2. TypeOK'
    <2>1. call' \in [Calls -> CallState]
      BY <1>0, <1>1 DEF TypeOK, CallState
    <2>2. branch' \in [Ids -> BranchPc]
      BY <1>0, <1>1 DEF TypeOK, BranchPc
    <2> QED BY <1>1, <2>1, <2>2 DEF TypeOK
  <1>3. steady[c] = {} /\ \A v \in Webhooks : branch[<<c, v>>] = "none"
    BY <1>0, <1>1 DEF WhInv, ReachedInv, Steady
  <1>4. \A b \in Calls : ReachedInv(b)'
    <2> SUFFICES ASSUME NEW b \in Calls PROVE ReachedInv(b)'
      OBVIOUS
    <2>1. CASE b = c
      <3>1. call'[b].pc = "branches" /\ call'[b].cursor = 0 /\ steady'[b] = {}
        BY <1>0, <1>1, <1>3, <2>1 DEF TypeOK
      <3>2. \A v \in Webhooks : ~ (v < 0)
        BY DEF Webhooks
      <3> QED BY <3>1, <3>2 DEF ReachedInv, Steady
    <2>2. CASE b # c
      <3>1. call'[b] = call[b]
        BY <1>1, <2>2 DEF TypeOK
      <3>2. \A v \in Webhooks : branch'[<<b, v>>] = branch[<<b, v>>]
        <4>1. \A v \in Webhooks : <<b, v>> # <<c, w>> /\ <<b, v>> \in Ids
          BY <2>2, IdsArePairs
        <4> QED BY <1>1, <4>1 DEF TypeOK
      <3> QED BY <1>1, <3>1, <3>2 DEF TypeOK, WhInv, ReachedInv, Steady
    <2> QED BY <2>1, <2>2
  <1>5. \A d \in Ids : EnqueuedInv(d)'
    <2>1. branch[<<c, w>>] = "none"
      BY <1>0, <1>3
    <2> QED BY <1>0, <1>1, <2>1 DEF TypeOK, WhInv, EnqueuedInv
  <1>6. UNCHANGED <<delivery, job, runner, history>>
    BY <1>1
  <1> QED BY <1>2, <1>4, <1>5, <1>6, CallFrame DEF WhInv

\* PageDone keeps the invariant: a branch that is none or ok is ok wherever
\* there has to be one.
LEMMA PageDoneInv ==
    ASSUME Inv, NEW c \in Calls, PageDone(c)
    PROVE  Inv'
  <1> USE DEF Inv, PageDone, store, history, bounds
  <1>1. TypeOK'
    <2>1. call' \in [Calls -> CallState]
      BY DEF TypeOK, CallState
    <2> QED BY <2>1 DEF TypeOK
  <1>2. \A b \in Calls : ReachedInv(b)'
    <2> SUFFICES ASSUME NEW b \in Calls PROVE ReachedInv(b)'
      OBVIOUS
    <2>1. CASE b = c
      <3>1. /\ call'[b].pc = IF call[c].cursor = 0 THEN "done" ELSE "list"
            /\ call'[b].cursor = call[b].cursor
        BY <2>1 DEF TypeOK, CallState
      <3>2. /\ steady[b] \subseteq {w \in Webhooks : Steady(w)}
            /\ \A w \in Webhooks : w < call[b].cursor => branch[<<b, w>>] = "none"
            /\ \A w \in steady[b] :
                  w >= call[b].cursor => branch[<<b, w>>] # "none"
        BY <2>1 DEF WhInv, ReachedInv, Steady
      <3>3. \A w \in steady[b] : w >= call[b].cursor => branch[<<b, w>>] = "ok"
        BY <2>1, <3>2
      <3>4. CASE call[c].cursor = 0
        <4>1. \A w \in steady[b] : w >= call[b].cursor
          BY <2>1, <3>2, <3>4 DEF Webhooks
        <4> QED BY <3>1, <3>2, <3>3, <3>4, <4>1 DEF ReachedInv, Steady
      <3>5. CASE call[c].cursor # 0
        BY <3>1, <3>2, <3>3, <3>5 DEF ReachedInv, Steady
      <3> QED BY <3>4, <3>5
    <2>2. CASE b # c
      <3>1. call'[b] = call[b]
        BY <2>2 DEF TypeOK
      <3>2. UNCHANGED <<webhook, branch, steady>>
        OBVIOUS
      <3>3. ReachedInv(b)
        BY DEF WhInv
      <3> HIDE DEF PageDone
      <3> QED BY <3>1, <3>2, <3>3 DEF ReachedInv, Steady
    <2> QED BY <2>1, <2>2
  <1>3. \A d \in Ids : EnqueuedInv(d)'
    BY DEF WhInv, EnqueuedInv
  <1> QED BY <1>1, <1>2, <1>3, CallFrame DEF WhInv

\* A call that has ended in any way but normally has nothing left to promise.
LEMMA BrokenOff ==
    ASSUME TypeOK, WhInv, NEW c \in Calls, NEW pc \in {"threw", "lost"},
           call' = [call EXCEPT ![c].pc = pc],
           \A b \in Calls : b # c =>
              \A w \in Webhooks : branch'[<<b, w>>] = branch[<<b, w>>],
           UNCHANGED <<webhook, steady>>
    PROVE  /\ call' \in [Calls -> CallState]
           /\ \A b \in Calls : ReachedInv(b)'
  <1>1. call' \in [Calls -> CallState]
    BY DEF TypeOK, CallState
  <1>2. ReachedInv(c)'
    <2>1. call'[c].pc = pc
      BY DEF TypeOK, CallState
    <2> QED BY <2>1 DEF WhInv, ReachedInv, Steady
  <1>3. \A b \in Calls : b # c => ReachedInv(b)'
    <2> SUFFICES ASSUME NEW b \in Calls, b # c PROVE ReachedInv(b)'
      OBVIOUS
    <2>1. call'[b] = call[b]
      BY DEF TypeOK
    <2> QED BY <2>1 DEF WhInv, ReachedInv, Steady
  <1> QED BY <1>1, <1>2, <1>3

\* LoseCall keeps the invariant.
LEMMA LoseCallInv ==
    ASSUME Inv, NEW c \in Calls, LoseCall(c)
    PROVE  Inv'
  <1> USE DEF Inv, LoseCall, store, history
  <1>1. branch' \in [Ids -> BranchPc] /\ lost' \in Nat
    BY DEF TypeOK, BranchPc
  <1>2. \A b \in Calls : b # c =>
           \A w \in Webhooks : branch'[<<b, w>>] = branch[<<b, w>>]
    BY IdsArePairs
  <1>3. call' \in [Calls -> CallState] /\ \A b \in Calls : ReachedInv(b)'
    BY <1>2, BrokenOff
  <1>4. TypeOK'
    BY <1>1, <1>3 DEF TypeOK
  <1>5. \A d \in Ids : EnqueuedInv(d)'
    BY DEF WhInv, EnqueuedInv
  <1> QED BY <1>3, <1>4, <1>5, CallFrame DEF WhInv

\* A branch that goes on leaves what its call has reached, unless the call
\* counts on it.
LEMMA BranchGoesOn ==
    ASSUME TypeOK, WhInv, NEW d \in Ids, NEW to \in BranchPc \ {"none"},
           branch[d] \notin {"none", "ok"},
           branch' = [branch EXCEPT ![d] = to],
           UNCHANGED <<webhook, call, steady>>
    PROVE  /\ branch' \in [Ids -> BranchPc]
           /\ \A c \in Calls : ReachedInv(c)'
  <1>1. branch' \in [Ids -> BranchPc]
    BY DEF TypeOK
  <1>2. \A e \in Ids : /\ branch[e] = "none" <=> branch'[e] = "none"
                       /\ branch[e] = "ok" => branch'[e] = "ok"
    BY DEF TypeOK
  <1>3. \A c \in Calls, w \in Webhooks :
           /\ branch[<<c, w>>] = "none" <=> branch'[<<c, w>>] = "none"
           /\ branch[<<c, w>>] = "ok" => branch'[<<c, w>>] = "ok"
    BY <1>2, IdsArePairs
  <1>4. \A c \in Calls : steady[c] \subseteq Webhooks
    BY DEF TypeOK
  <1> QED BY <1>1, <1>3, <1>4 DEF WhInv, ReachedInv, Steady

\* A branch that throws breaks its call off.
LEMMA ThrowBreaksOff ==
    ASSUME TypeOK, WhInv, NEW d \in Ids, Throw(d), UNCHANGED <<webhook, steady>>
    PROVE  /\ branch' \in [Ids -> BranchPc]
           /\ call' \in [Calls -> CallState]
           /\ \A c \in Calls : ReachedInv(c)'
  <1> USE DEF Throw
  <1>1. branch' \in [Ids -> BranchPc]
    BY DEF TypeOK, BranchPc
  <1>2. d[1] \in Calls
    BY IdsArePairs
  <1>3. \A b \in Calls : b # d[1] =>
           \A w \in Webhooks : branch'[<<b, w>>] = branch[<<b, w>>]
    <2> SUFFICES ASSUME NEW b \in Calls, b # d[1], NEW w \in Webhooks
                 PROVE  branch'[<<b, w>>] = branch[<<b, w>>]
      OBVIOUS
    <2>1. <<b, w>> \in Ids /\ <<b, w>> # d
      BY IdsArePairs
    <2> QED BY <2>1 DEF TypeOK
  <1> QED BY <1>1, <1>2, <1>3, BrokenOff

\* CreateRecord keeps the invariant.
LEMMA CreateRecordInv ==
    ASSUME Inv, NEW d \in Ids, CreateRecord(d)
    PROVE  Inv'
  <1> USE DEF Inv
  <1>0. /\ branch[d] = "create"
        /\ UNCHANGED <<webhook, job, runner, history, steady, bounds>>
    BY DEF CreateRecord
  <1>1. \A x \in Runners : RunInv(x)'
    BY <1>0 DEF WhInv, RunInv, Busy, history
  <1>a. CASE Throw(d) /\ UNCHANGED delivery
    <2>1. /\ branch' \in [Ids -> BranchPc]
          /\ call' \in [Calls -> CallState]
          /\ \A c \in Calls : ReachedInv(c)'
      BY <1>0, <1>a, ThrowBreaksOff
    <2>2. TypeOK'
      BY <1>0, <1>a, <2>1 DEF TypeOK, history, bounds
    <2>3. \A e \in Ids : EnqueuedInv(e)'
      BY <1>0, <1>a DEF Throw, TypeOK, WhInv, EnqueuedInv
    <2> QED BY <1>0, <1>1, <1>a, <2>1, <2>2, <2>3, CallFrame DEF WhInv
  <1>b. CASE /\ delivery' = Created(d)
             /\ branch' = [branch EXCEPT ![d] = "enqueue"]
             /\ UNCHANGED call
    <2>1. /\ branch' \in [Ids -> BranchPc]
          /\ \A c \in Calls : ReachedInv(c)'
      BY <1>0, <1>b, BranchGoesOn DEF BranchPc
    <2>2. /\ delivery' \in [Ids -> DeliveryState]
          /\ \A e \in Ids : e # d => delivery'[e] = delivery[e]
          /\ delivery'[d].status # "succeeded" \/ delivery'[d] = delivery[d]
      BY <1>b, CreatedIs
    <2>3. TypeOK'
      BY <1>0, <1>b, <2>1, <2>2 DEF TypeOK, history, bounds
    <2>4. \A e \in Ids : EnqueuedInv(e)'
      BY <1>0, <1>b, <2>2 DEF TypeOK, WhInv, EnqueuedInv
    <2>5. SettledWasAnswered'
      BY <1>0, <2>2
      DEF history, SettledWasAnswered, AcknowledgedWasHandled, SucceededWasAnswered
    <2> QED BY <1>1, <2>1, <2>3, <2>4, <2>5 DEF WhInv
  <1> QED BY <1>a, <1>b DEF CreateRecord

\* EnqueueJob keeps the invariant.
LEMMA EnqueueJobInv ==
    ASSUME Inv, NEW d \in Ids, EnqueueJob(d)
    PROVE  Inv'
  <1> USE DEF Inv
  <1>0. PICK to \in {"ok", "mark"} :
           /\ branch' = [branch EXCEPT ![d] = to]
           /\ \/ job' = [job EXCEPT ![d].state = "queued"]
              \/ to = "mark" /\ UNCHANGED job
           /\ branch[d] = "enqueue"
           /\ UNCHANGED <<store, call, runner, history, steady, bounds>>
    BY DEF EnqueueJob, TypeOK
  <1>1. /\ branch' \in [Ids -> BranchPc]
        /\ \A c \in Calls : ReachedInv(c)'
    BY <1>0, BranchGoesOn DEF BranchPc, store
  <1>2. /\ job' \in [Ids -> JobState]
        /\ \A e \in Ids : e # d => job'[e] = job[e]
        /\ job'[d].state \in {"none", "queued"}
        /\ to = "ok" => job'[d].state = "queued"
        /\ job[d].state = "none"
    BY <1>0 DEF TypeOK, JobState, WhInv, EnqueuedInv
  <1>3. TypeOK'
    BY <1>0, <1>1, <1>2 DEF TypeOK, store, history, bounds
  <1>4. \A e \in Ids : EnqueuedInv(e)'
    BY <1>0, <1>2 DEF TypeOK, WhInv, EnqueuedInv, store
  <1>5. \A x \in Runners : RunInv(x)'
    <2> SUFFICES ASSUME NEW x \in Runners, Busy(x) PROVE RunInv(x)'
      BY <1>0 DEF RunInv, Busy
    <2>1. runner[x].id # d /\ runner[x].id \in Ids
      BY <1>2 DEF WhInv, RunInv
    <2> QED BY <1>0, <1>2, <2>1 DEF WhInv, RunInv, Busy, history
  <1>6. SettledWasAnswered'
    BY <1>0, <1>2
    DEF store, history, SettledWasAnswered, AcknowledgedWasHandled, SucceededWasAnswered
  <1> QED BY <1>1, <1>3, <1>4, <1>5, <1>6 DEF WhInv

\* MarkFailed keeps the invariant.
LEMMA MarkFailedInv ==
    ASSUME Inv, NEW d \in Ids, MarkFailed(d)
    PROVE  Inv'
  <1> USE DEF Inv
  <1>0. /\ branch[d] = "mark"
        /\ delivery' = Updated(d, "failed", delivery[d].attempts)
        /\ Throw(d)
        /\ UNCHANGED <<webhook, job, runner, history, steady, bounds>>
    BY DEF MarkFailed
  <1>1. /\ branch' \in [Ids -> BranchPc]
        /\ call' \in [Calls -> CallState]
        /\ \A c \in Calls : ReachedInv(c)'
    BY <1>0, ThrowBreaksOff
  <1>2. /\ delivery' \in [Ids -> DeliveryState]
        /\ \A e \in Ids : e # d => delivery'[e] = delivery[e]
        /\ delivery'[d].status # "succeeded" \/ delivery'[d] = delivery[d]
    <2>1. delivery[d].attempts \in Nat /\ "failed" \in Live
      BY DEF TypeOK, DeliveryState, Live
    <2> DEFINE next == Updated(d, "failed", delivery[d].attempts)
    <2>2. /\ next \in [Ids -> DeliveryState]
          /\ \A e \in Ids : e # d => next[e] = delivery[e]
          /\ delivery[d].status \in Live => next[d].status = "failed"
          /\ delivery[d].status \notin Live => next[d] = delivery[d]
      BY <2>1, UpdatedIs
    <2> QED BY <1>0, <2>2
  <1>3. TypeOK'
    BY <1>0, <1>1, <1>2 DEF TypeOK, history, bounds
  <1>4. \A e \in Ids : EnqueuedInv(e)'
    BY <1>0, <1>2 DEF TypeOK, WhInv, EnqueuedInv, Throw
  <1>5. \A x \in Runners : RunInv(x)'
    BY <1>0 DEF WhInv, RunInv, Busy, history
  <1>6. SettledWasAnswered'
    BY <1>0, <1>2
    DEF history, SettledWasAnswered, AcknowledgedWasHandled, SucceededWasAnswered
  <1> QED BY <1>1, <1>3, <1>4, <1>5, <1>6 DEF WhInv


\* A step of the workers leaves what the calls have reached.
LEMMA WorkerFrame ==
    ASSUME Inv, UNCHANGED <<webhook, call, branch, steady>>
    PROVE  \A c \in Calls : ReachedInv(c)'
  BY DEF Inv, WhInv, ReachedInv, Steady

\* A write into the record of a job that was enqueued.
LEMMA RecordFrame ==
    ASSUME Inv, NEW d \in Ids, job[d].state # "none",
           \A e \in Ids : e # d => delivery'[e] = delivery[e],
           UNCHANGED <<branch, job>>
    PROVE  \A e \in Ids : EnqueuedInv(e)'
  BY DEF Inv, WhInv, EnqueuedInv, TypeOK, JobState

\* What a run relies on is not taken back by the steps of the others.
LEMMA OtherRuns ==
    ASSUME Inv, NEW x \in Runners,
           \A y \in Runners : y # x => runner'[y] = runner[y],
           answered \subseteq answered', unwanted \subseteq unwanted',
           \A d \in Ids : /\ job[d].state # "none" => job'[d].state # "none"
                          /\ job'[d].receives \in Nat
                          /\ job'[d].receives >= job[d].receives
    PROVE  \A y \in Runners : y # x => RunInv(y)'
  <1> SUFFICES ASSUME NEW y \in Runners, y # x, Busy(y)'
               PROVE  RunInv(y)'
    BY DEF RunInv
  <1>1. Busy(y) /\ RunInv(y) /\ runner'[y] = runner[y]
    BY DEF Busy, Inv, WhInv
  <1>2. runner[y].attempt \in Nat /\ \A d \in Ids : job[d].receives \in Nat
    BY DEF Inv, TypeOK, RunState, JobState
  <1> QED BY <1>1, <1>2 DEF RunInv, Busy

\* A job that leaves the queue without an acknowledgement, and a record that is
\* not marked as succeeded, keep the findings.
LEMMA SettledFrame ==
    ASSUME Inv,
           answered \subseteq answered', unwanted \subseteq unwanted',
           \A d \in Ids : job'[d].state = "acked" =>
                            job[d].state = "acked" \/ d \in answered' \cup unwanted',
           \A d \in Ids : delivery'[d].status = "succeeded" =>
                            delivery[d].status = "succeeded" \/ d \in answered'
    PROVE  SettledWasAnswered'
  BY DEF Inv, SettledWasAnswered, AcknowledgedWasHandled, SucceededWasAnswered

\* A step of a run that only changes its program point, its count and its
\* answer, with what that point requires.
LEMMA RunGoesOn ==
    ASSUME Inv, NEW x \in Runners, Busy(x),
           NEW to, NEW n, NEW answer, Moves(x, to, n, answer),
           answered \subseteq answered', unwanted \subseteq unwanted',
           UNCHANGED job,
           to = "cancel" => runner[x].id \in unwanted',
           to = "record" /\ answer = "ok" => runner[x].id \in answered',
           to = "return" => runner[x].id \in answered' \cup unwanted'
    PROVE  \A y \in Runners : RunInv(y)'
  <1>1. \A y \in Runners : y # x => RunInv(y)'
    <2>1. \A d \in Ids : job[d].receives \in Nat
      BY DEF Inv, TypeOK, JobState
    <2> QED BY <2>1, OtherRuns DEF Moves
  <1>2. RunInv(x)'
    BY DEF Inv, WhInv, RunInv, Moves, Busy
  <1> QED BY <1>1, <1>2

\* A run that ends leaves the other runs.
LEMMA RunIsOver ==
    ASSUME Inv, NEW x \in Runners, Ends(x), UNCHANGED <<answered, unwanted>>,
           \A d \in Ids : /\ job[d].state # "none" => job'[d].state # "none"
                          /\ job'[d].receives = job[d].receives
    PROVE  \A y \in Runners : RunInv(y)'
  <1>1. \A y \in Runners : y # x => RunInv(y)'
    <2>1. \A d \in Ids : job[d].receives \in Nat
      BY DEF Inv, TypeOK, JobState
    <2> QED BY <2>1, OtherRuns DEF Ends
  <1>2. RunInv(x)'
    BY DEF RunInv, Busy, Ends
  <1> QED BY <1>1, <1>2

\* A busy run has a job.
LEMMA BusyHasJob ==
    ASSUME Inv, NEW x \in Runners, Busy(x)
    PROVE  runner[x].id \in Ids /\ job[runner[x].id].state # "none"
  BY DEF Inv, WhInv, RunInv

\* What Receive does.
LEMMA ReceiveIs ==
    ASSUME Inv, NEW x \in Runners, NEW d \in Ids, Receive(x, d)
    PROVE  /\ ~Busy(x) /\ job[d].state = "queued"
           /\ job' \in [Ids -> JobState]
           /\ \A e \in Ids : /\ job'[e].state = job[e].state
                             /\ job[e].receives \in Nat
                             /\ job'[e].receives \in Nat
                             /\ job'[e].receives >= job[e].receives
                             /\ e # d => job'[e] = job[e]
           /\ job'[d].receives = job[d].receives + 1
           /\ runner' \in [Runners -> RunState]
           /\ runner'[x].pc = "load" /\ runner'[x].id = d
           /\ runner'[x].attempt = job[d].receives + 1
           /\ \A y \in Runners : y # x => runner'[y] = runner[y]
           /\ overlaps' = IF Held(d) THEN overlaps + 1 ELSE overlaps
           /\ UNCHANGED <<webhook, delivery, call, branch, answered, unwanted,
                          sent, cut, steady, lost>>
  <1> USE DEF Inv
  <1>0. /\ ~Busy(x) /\ job[d].state = "queued"
        /\ overlaps' = IF Held(d) THEN overlaps + 1 ELSE overlaps
        /\ job' = [job EXCEPT ![d].receives = @ + 1]
        /\ UNCHANGED <<store, call, branch, history, steady, changes, lost>>
        /\ runner' = [runner EXCEPT ![x] =
                        [pc |-> "load", id |-> d, attempt |-> job[d].receives + 1,
                         attempts |-> 0, answer |-> "none"]]
    BY DEF Receive
  <1>1. /\ job' \in [Ids -> JobState]
        /\ \A e \in Ids : /\ job'[e].state = job[e].state
                          /\ job[e].receives \in Nat
                          /\ job'[e].receives \in Nat
                          /\ job'[e].receives >= job[e].receives
                          /\ e # d => job'[e] = job[e]
        /\ job'[d].receives = job[d].receives + 1
    BY <1>0 DEF TypeOK, JobState
  <1>2. /\ runner' \in [Runners -> RunState]
        /\ runner'[x].pc = "load" /\ runner'[x].id = d
        /\ runner'[x].attempt = job[d].receives + 1
        /\ \A y \in Runners : y # x => runner'[y] = runner[y]
    BY <1>0, <1>1 DEF TypeOK, RunState, RunPc
  <1> QED BY <1>0, <1>1, <1>2 DEF store, history

\* Receive keeps the invariant.
LEMMA ReceiveInv ==
    ASSUME Inv, NEW x \in Runners, NEW d \in Ids, Receive(x, d)
    PROVE  Inv'
  <1> USE DEF Inv
  <1>1. /\ job[d].state = "queued"
        /\ job' \in [Ids -> JobState]
        /\ \A e \in Ids : /\ job'[e].state = job[e].state
                          /\ job[e].receives \in Nat
                          /\ job'[e].receives \in Nat
                          /\ job'[e].receives >= job[e].receives
                          /\ e # d => job'[e] = job[e]
        /\ job'[d].receives = job[d].receives + 1
        /\ UNCHANGED <<webhook, delivery, call, branch, answered, unwanted,
                       sent, cut, steady, lost>>
    BY ReceiveIs
  <1>2. /\ runner' \in [Runners -> RunState]
        /\ runner'[x].pc = "load" /\ runner'[x].id = d
        /\ runner'[x].attempt = job[d].receives + 1
        /\ \A y \in Runners : y # x => runner'[y] = runner[y]
        /\ overlaps' = IF Held(d) THEN overlaps + 1 ELSE overlaps
    BY ReceiveIs
  <1>3. TypeOK'
    BY <1>1, <1>2 DEF TypeOK
  <1>4. \A e \in Ids : EnqueuedInv(e)'
    BY <1>1 DEF WhInv, EnqueuedInv
  <1>5. \A y \in Runners : RunInv(y)'
    <2>1. \A y \in Runners : y # x => RunInv(y)'
      BY <1>1, <1>2, OtherRuns
    <2>2. RunInv(x)'
      BY <1>1, <1>2 DEF RunInv, Busy
    <2> QED BY <2>1, <2>2
  <1>6. SettledWasAnswered'
    BY <1>1, SettledFrame
  <1>7. \A c \in Calls : ReachedInv(c)'
    BY <1>1, WorkerFrame
  <1> QED BY <1>3, <1>4, <1>5, <1>6, <1>7 DEF WhInv

\* What Load does.
LEMMA LoadIs ==
    ASSUME Inv, NEW x \in Runners, Load(x)
    PROVE  /\ Busy(x) /\ runner[x].pc = "load"
           /\ \E to \in {"endpoint", "create"}, n \in Nat :
                 Moves(x, to, n, runner[x].answer)
           /\ UNCHANGED <<webhook, delivery, job, call, branch, answered, unwanted,
                          sent, cut, steady, overlaps, lost>>
  <1> USE DEF Inv
  <1> DEFINE d == runner[x].id
  <1>0. /\ runner[x].pc = "load"
        /\ \/ SetsCount(x, "endpoint", delivery[d].attempts)
           \/ runner' = [runner EXCEPT ![x].pc = "create"]
        /\ UNCHANGED <<store, job, call, branch, history, steady, bounds>>
    BY DEF Load, SetsCount
  <1>1. Busy(x) /\ d \in Ids /\ delivery[d].attempts \in Nat
    BY <1>0, BusyHasJob DEF Busy, TypeOK, DeliveryState
  <1> HIDE DEF d
  <1>2. \E to \in {"endpoint", "create"}, n \in Nat :
           Moves(x, to, n, runner[x].answer)
    <2>1. runner[x].attempts \in Nat
      BY DEF TypeOK, RunState
    <2>a. CASE SetsCount(x, "endpoint", delivery[d].attempts)
      BY <1>1, <2>a, CountMoves DEF RunPc
    <2>b. CASE runner' = [runner EXCEPT ![x].pc = "create"]
      BY <2>1, <2>b, StepMoves DEF RunPc
    <2> QED BY <1>0, <2>a, <2>b
  <1> QED BY <1>0, <1>1, <1>2 DEF store, history, bounds

\* Load keeps the invariant.
LEMMA LoadInv ==
    ASSUME Inv, NEW x \in Runners, Load(x)
    PROVE  Inv'
  <1> USE DEF Inv
  <1>0. /\ Busy(x)
        /\ UNCHANGED <<webhook, delivery, job, call, branch, answered, unwanted,
                       sent, cut, steady, overlaps, lost>>
    BY LoadIs
  <1>2. PICK to \in {"endpoint", "create"}, n \in Nat : Moves(x, to, n, runner[x].answer)
    BY LoadIs
  <1>3. TypeOK'
    BY <1>0, <1>2 DEF TypeOK, Moves
  <1>4. \A e \in Ids : EnqueuedInv(e)'
    BY <1>0 DEF WhInv, EnqueuedInv
  <1>5. \A y \in Runners : RunInv(y)'
    <2>1. to # "cancel" /\ to # "record" /\ to # "return"
      OBVIOUS
    <2> QED BY <1>0, <1>2, <2>1, RunGoesOn
  <1>6. SettledWasAnswered'
    BY <1>0, SettledFrame
  <1>7. \A c \in Calls : ReachedInv(c)'
    BY <1>0, WorkerFrame
  <1> QED BY <1>3, <1>4, <1>5, <1>6, <1>7 DEF WhInv

\* What Recreate does.
LEMMA RecreateIs ==
    ASSUME Inv, NEW x \in Runners, Recreate(x)
    PROVE  /\ Busy(x) /\ runner[x].pc = "create"
           /\ runner[x].id \in Ids /\ job[runner[x].id].state # "none"
           /\ Moves(x, "endpoint", runner[x].attempts, runner[x].answer)
           /\ delivery' \in [Ids -> DeliveryState]
           /\ \A e \in Ids : e # runner[x].id => delivery'[e] = delivery[e]
           /\ delivery[runner[x].id].status = "absent" =>
                delivery'[runner[x].id].status = "pending"
           /\ delivery[runner[x].id].status # "absent" =>
                delivery'[runner[x].id] = delivery[runner[x].id]
           /\ UNCHANGED <<webhook, job, call, branch, answered, unwanted,
                          sent, cut, steady, overlaps, lost>>
  <1> USE DEF Inv
  <1> DEFINE d == runner[x].id
  <1>0. /\ runner[x].pc = "create"
        /\ runner' = [runner EXCEPT ![x].pc = "endpoint"]
        /\ delivery' = Created(d)
        /\ UNCHANGED <<webhook, job, call, branch, history, steady, bounds>>
    BY DEF Recreate, Step
  <1>1. Busy(x) /\ d \in Ids /\ job[d].state # "none"
    BY <1>0, BusyHasJob DEF Busy
  <1>2. Moves(x, "endpoint", runner[x].attempts, runner[x].answer)
    BY <1>0, StepMoves DEF RunPc
  <1> HIDE DEF d
  <1>3. /\ delivery' \in [Ids -> DeliveryState]
        /\ \A e \in Ids : e # d => delivery'[e] = delivery[e]
        /\ delivery[d].status = "absent" => delivery'[d].status = "pending"
        /\ delivery[d].status # "absent" => delivery'[d] = delivery[d]
    BY <1>0, <1>1, CreatedIs
  <1> QED BY <1>0, <1>1, <1>2, <1>3 DEF d, history, bounds

\* Recreate keeps the invariant.
LEMMA RecreateInv ==
    ASSUME Inv, NEW x \in Runners, Recreate(x)
    PROVE  Inv'
  <1> USE DEF Inv
  <1> DEFINE d == runner[x].id
  <1>1. /\ Busy(x) /\ d \in Ids /\ job[d].state # "none"
        /\ UNCHANGED <<webhook, job, call, branch, answered, unwanted,
                       sent, cut, steady, overlaps, lost>>
    BY RecreateIs
  <1>2. Moves(x, "endpoint", runner[x].attempts, runner[x].answer)
    BY RecreateIs
  <1>3. /\ delivery' \in [Ids -> DeliveryState]
        /\ \A e \in Ids : e # d => delivery'[e] = delivery[e]
        /\ delivery[d].status = "absent" => delivery'[d].status = "pending"
        /\ delivery[d].status # "absent" => delivery'[d] = delivery[d]
    BY RecreateIs
  <1> HIDE DEF d
  <1>4. TypeOK'
    BY <1>1, <1>2, <1>3 DEF TypeOK, Moves
  <1>5. \A e \in Ids : EnqueuedInv(e)'
    BY <1>1, <1>3, RecordFrame
  <1>6. \A y \in Runners : RunInv(y)'
    BY <1>1, <1>2, RunGoesOn
  <1>7. SettledWasAnswered'
    BY <1>1, <1>3, SettledFrame
  <1>8. \A c \in Calls : ReachedInv(c)'
    BY <1>1, WorkerFrame
  <1> QED BY <1>4, <1>5, <1>6, <1>7, <1>8 DEF WhInv

\* What ReadEndpoint does.
LEMMA ReadEndpointIs ==
    ASSUME Inv, NEW x \in Runners, ReadEndpoint(x)
    PROVE  /\ Busy(x) /\ runner[x].pc = "endpoint" /\ runner[x].id \in Ids
           /\ \E to \in {"begin", "cancel"} :
                /\ Moves(x, to, runner[x].attempts, runner[x].answer)
                /\ to = "cancel" => runner[x].id \in unwanted'
           /\ unwanted \subseteq unwanted'
           /\ unwanted' \subseteq unwanted \cup {runner[x].id}
           /\ UNCHANGED <<webhook, delivery, job, call, branch, answered,
                          sent, cut, steady, overlaps, lost>>
  <1> USE DEF Inv
  <1>0. PICK to \in {"begin", "cancel"} :
        /\ runner[x].pc = "endpoint"
        /\ runner' = [runner EXCEPT ![x].pc = to]
        /\ unwanted \subseteq unwanted'
        /\ unwanted' \subseteq unwanted \cup {runner[x].id}
        /\ to = "cancel" => runner[x].id \in unwanted'
        /\ UNCHANGED <<store, job, call, branch, answered, sent, cut, steady, bounds>>
    BY DEF ReadEndpoint, Step
  <1>1. Busy(x) /\ runner[x].id \in Ids
    BY <1>0, BusyHasJob DEF Busy
  <1>2. Moves(x, to, runner[x].attempts, runner[x].answer)
    BY <1>0, StepMoves DEF RunPc
  <1> QED BY <1>0, <1>1, <1>2 DEF store, bounds

\* ReadEndpoint keeps the invariant: a run that is to cancel found no endpoint.
LEMMA ReadEndpointInv ==
    ASSUME Inv, NEW x \in Runners, ReadEndpoint(x)
    PROVE  Inv'
  <1> USE DEF Inv
  <1> DEFINE d == runner[x].id
  <1>0. /\ Busy(x) /\ d \in Ids
        /\ unwanted \subseteq unwanted'
        /\ unwanted' \subseteq unwanted \cup {d}
        /\ UNCHANGED <<webhook, delivery, job, call, branch, answered,
                       sent, cut, steady, overlaps, lost>>
    BY ReadEndpointIs
  <1>2. PICK to \in {"begin", "cancel"} :
           /\ Moves(x, to, runner[x].attempts, runner[x].answer)
           /\ to = "cancel" => d \in unwanted'
    BY ReadEndpointIs
  <1>5. \A y \in Runners : RunInv(y)'
    BY <1>0, <1>2, RunGoesOn
  <1> HIDE DEF d
  <1>3. TypeOK'
    BY <1>0, <1>2 DEF TypeOK, Moves
  <1>4. \A e \in Ids : EnqueuedInv(e)'
    BY <1>0 DEF WhInv, EnqueuedInv
  <1>6. SettledWasAnswered'
    BY <1>0, SettledFrame
  <1>7. \A c \in Calls : ReachedInv(c)'
    BY <1>0, WorkerFrame
  <1> QED BY <1>3, <1>4, <1>5, <1>6, <1>7 DEF WhInv

\* What CancelDelivery does.
LEMMA CancelDeliveryIs ==
    ASSUME Inv, NEW x \in Runners, CancelDelivery(x)
    PROVE  /\ Busy(x) /\ runner[x].pc = "cancel"
           /\ runner[x].id \in Ids /\ job[runner[x].id].state # "none"
           /\ Moves(x, "return", runner[x].attempts, runner[x].answer)
           /\ delivery' \in [Ids -> DeliveryState]
           /\ \A e \in Ids : e # runner[x].id => delivery'[e] = delivery[e]
           /\ delivery[runner[x].id].status \in Live =>
                /\ delivery'[runner[x].id].status = "cancelled"
                /\ delivery'[runner[x].id].attempts = delivery[runner[x].id].attempts
           /\ delivery[runner[x].id].status \notin Live =>
                delivery'[runner[x].id] = delivery[runner[x].id]
           /\ UNCHANGED <<webhook, job, call, branch, answered, unwanted,
                          sent, cut, steady, overlaps, lost>>
  <1> USE DEF Inv
  <1> DEFINE d == runner[x].id
             n == delivery[d].attempts
  <1>0. /\ runner[x].pc = "cancel"
        /\ runner' = [runner EXCEPT ![x].pc = "return"]
        /\ delivery' = Updated(d, "cancelled", n)
        /\ UNCHANGED <<webhook, job, call, branch, history, steady, bounds>>
    BY DEF CancelDelivery, Step
  <1>1. Busy(x) /\ d \in Ids /\ job[d].state # "none"
    BY <1>0, BusyHasJob DEF Busy
  <1>2. n \in Nat /\ "cancelled" \in Live
    BY <1>1 DEF TypeOK, DeliveryState, Live
  <1>3. Moves(x, "return", runner[x].attempts, runner[x].answer)
    BY <1>0, StepMoves DEF RunPc
  <1> HIDE DEF d, n
  <1>4. /\ Updated(d, "cancelled", n) \in [Ids -> DeliveryState]
        /\ \A e \in Ids : e # d => Updated(d, "cancelled", n)[e] = delivery[e]
        /\ delivery[d].status \in Live =>
              /\ Updated(d, "cancelled", n)[d].status = "cancelled"
              /\ Updated(d, "cancelled", n)[d].attempts = n
        /\ delivery[d].status \notin Live =>
              Updated(d, "cancelled", n)[d] = delivery[d]
    BY <1>1, <1>2, UpdatedIs
  <1> QED BY <1>0, <1>1, <1>3, <1>4 DEF d, n, history, bounds

\* CancelDelivery keeps the invariant.
LEMMA CancelDeliveryInv ==
    ASSUME Inv, NEW x \in Runners, CancelDelivery(x)
    PROVE  Inv'
  <1> USE DEF Inv
  <1> DEFINE d == runner[x].id
  <1>1. /\ Busy(x) /\ d \in Ids /\ job[d].state # "none" /\ d \in unwanted'
        /\ UNCHANGED <<webhook, job, call, branch, answered, unwanted,
                       sent, cut, steady, overlaps, lost>>
    BY CancelDeliveryIs DEF WhInv, RunInv
  <1>3. Moves(x, "return", runner[x].attempts, runner[x].answer)
    BY CancelDeliveryIs
  <1>4. /\ delivery' \in [Ids -> DeliveryState]
        /\ \A e \in Ids : e # d => delivery'[e] = delivery[e]
        /\ delivery'[d].status # "succeeded" \/ delivery'[d] = delivery[d]
    BY CancelDeliveryIs
  <1>7. \A y \in Runners : RunInv(y)'
    BY <1>1, <1>3, RunGoesOn
  <1> HIDE DEF d
  <1>5. TypeOK'
    BY <1>1, <1>3, <1>4 DEF TypeOK, Moves
  <1>6. \A e \in Ids : EnqueuedInv(e)'
    BY <1>1, <1>4, RecordFrame
  <1>8. SettledWasAnswered'
    BY <1>1, <1>4, SettledFrame
  <1>9. \A c \in Calls : ReachedInv(c)'
    BY <1>1, WorkerFrame
  <1> QED BY <1>5, <1>6, <1>7, <1>8, <1>9 DEF WhInv

\* What BeginAttempt does.
LEMMA BeginAttemptIs ==
    ASSUME Inv, NEW x \in Runners, BeginAttempt(x)
    PROVE  /\ Busy(x) /\ runner[x].pc = "begin"
           /\ runner[x].id \in Ids /\ job[runner[x].id].state # "none"
           /\ delivery' \in [Ids -> DeliveryState]
           /\ \A e \in Ids : e # runner[x].id => delivery'[e] = delivery[e]
           /\ \E n \in Nat :
                /\ n >= runner[x].attempt
                /\ Moves(x, "request", n, runner[x].answer)
                /\ delivery[runner[x].id].status \in Live =>
                     /\ delivery'[runner[x].id].status = "delivering"
                     /\ delivery'[runner[x].id].attempts = n
           /\ delivery[runner[x].id].status \notin Live =>
                delivery'[runner[x].id] = delivery[runner[x].id]
           /\ UNCHANGED <<webhook, job, call, branch, answered, unwanted,
                          sent, cut, steady, overlaps, lost>>
  <1> USE DEF Inv
  <1> DEFINE d == runner[x].id
             n == AttemptNumber(runner[x].attempt, runner[x].attempts)
  <1>0. /\ runner[x].pc = "begin"
        /\ SetsCount(x, "request", n)
        /\ delivery' = Updated(d, "delivering", n)
        /\ UNCHANGED <<webhook, job, call, branch, history, steady, bounds>>
    BY DEF BeginAttempt, SetsCount
  <1>1. Busy(x) /\ d \in Ids /\ job[d].state # "none"
    BY <1>0, BusyHasJob DEF Busy
  <1>2. n \in Nat /\ n >= runner[x].attempt /\ "delivering" \in Live
    BY AttemptNumberIsNext DEF TypeOK, RunState, Live
  <1> HIDE DEF d, n
  <1>3. Moves(x, "request", n, runner[x].answer)
    BY <1>0, <1>2, CountMoves DEF RunPc
  <1>4. /\ Updated(d, "delivering", n) \in [Ids -> DeliveryState]
        /\ \A e \in Ids : e # d => Updated(d, "delivering", n)[e] = delivery[e]
        /\ delivery[d].status \in Live =>
              /\ Updated(d, "delivering", n)[d].status = "delivering"
              /\ Updated(d, "delivering", n)[d].attempts = n
        /\ delivery[d].status \notin Live =>
              Updated(d, "delivering", n)[d] = delivery[d]
    BY <1>1, <1>2, UpdatedIs
  <1> QED BY <1>0, <1>1, <1>2, <1>3, <1>4 DEF d, history, bounds

\* BeginAttempt keeps the invariant.
LEMMA BeginAttemptInv ==
    ASSUME Inv, NEW x \in Runners, BeginAttempt(x)
    PROVE  Inv'
  <1> USE DEF Inv
  <1> DEFINE d == runner[x].id
  <1>1. /\ Busy(x) /\ d \in Ids /\ job[d].state # "none"
        /\ UNCHANGED <<webhook, job, call, branch, answered, unwanted,
                       sent, cut, steady, overlaps, lost>>
    BY BeginAttemptIs
  <1>3. PICK n \in Nat : Moves(x, "request", n, runner[x].answer)
    BY BeginAttemptIs
  <1>4. /\ delivery' \in [Ids -> DeliveryState]
        /\ \A e \in Ids : e # d => delivery'[e] = delivery[e]
        /\ delivery'[d].status # "succeeded" \/ delivery'[d] = delivery[d]
    BY BeginAttemptIs
  <1> HIDE DEF d
  <1>5. TypeOK'
    BY <1>1, <1>3, <1>4 DEF TypeOK, Moves
  <1>6. \A e \in Ids : EnqueuedInv(e)'
    BY <1>1, <1>4, RecordFrame
  <1>7. \A y \in Runners : RunInv(y)'
    BY <1>1, <1>3, RunGoesOn
  <1>8. SettledWasAnswered'
    BY <1>1, <1>4, SettledFrame
  <1>9. \A c \in Calls : ReachedInv(c)'
    BY <1>1, WorkerFrame
  <1> QED BY <1>5, <1>6, <1>7, <1>8, <1>9 DEF WhInv

\* What Request does.
LEMMA RequestIs ==
    ASSUME Inv, NEW x \in Runners, NEW answer \in {"ok", "failed"},
           Request(x, answer)
    PROVE  /\ Busy(x) /\ runner[x].pc = "request" /\ runner[x].id \in Ids
           /\ Moves(x, "record", runner[x].attempts, answer)
           /\ answered \subseteq answered' /\ answered' \subseteq Ids
           /\ answer = "ok" => runner[x].id \in answered'
           /\ sent' \in [Ids -> Nat]
           /\ sent'[runner[x].id] = sent[runner[x].id] + 1
           /\ \A e \in Ids : e # runner[x].id => sent'[e] = sent[e]
           /\ UNCHANGED <<webhook, delivery, job, call, branch, unwanted,
                          cut, steady, overlaps, lost>>
  <1> USE DEF Inv
  <1> DEFINE d == runner[x].id
  <1>0. /\ runner[x].pc = "request"
        /\ SetsAnswer(x, "record", answer)
        /\ sent' = [sent EXCEPT ![d] = @ + 1]
        /\ answered' = IF answer = "ok" THEN answered \cup {d} ELSE answered
        /\ UNCHANGED <<store, job, call, branch, unwanted, cut, steady, bounds>>
    BY DEF Request, SetsAnswer
  <1>1. Busy(x) /\ d \in Ids
    BY <1>0, BusyHasJob DEF Busy
  <1> HIDE DEF d
  <1>2. Moves(x, "record", runner[x].attempts, answer)
    BY <1>0, AnswerMoves DEF RunPc
  <1>3. /\ answered \subseteq answered' /\ answered' \subseteq Ids
        /\ answer = "ok" => d \in answered'
    BY <1>0, <1>1 DEF TypeOK
  <1>4. /\ sent' \in [Ids -> Nat]
        /\ sent'[d] = sent[d] + 1
        /\ \A e \in Ids : e # d => sent'[e] = sent[e]
    BY <1>0, <1>1 DEF TypeOK
  <1> QED BY <1>0, <1>1, <1>2, <1>3, <1>4 DEF d, store, bounds

\* Request keeps the invariant.
LEMMA RequestInv ==
    ASSUME Inv, NEW x \in Runners, NEW answer \in {"ok", "failed"},
           Request(x, answer)
    PROVE  Inv'
  <1> USE DEF Inv
  <1>1. /\ Busy(x) /\ runner[x].id \in Ids
        /\ UNCHANGED <<webhook, delivery, job, call, branch, unwanted,
                       cut, steady, overlaps, lost>>
    BY RequestIs
  <1>2. Moves(x, "record", runner[x].attempts, answer)
    BY RequestIs
  <1>3. /\ answered \subseteq answered' /\ answered' \subseteq Ids
        /\ answer = "ok" => runner[x].id \in answered'
        /\ sent' \in [Ids -> Nat]
    BY RequestIs
  <1>4. TypeOK'
    BY <1>1, <1>2, <1>3 DEF TypeOK, Moves
  <1>5. \A e \in Ids : EnqueuedInv(e)'
    BY <1>1 DEF WhInv, EnqueuedInv
  <1>6. \A y \in Runners : RunInv(y)'
    <2>1. "record" # "cancel" /\ "record" # "return"
      OBVIOUS
    <2> QED BY <1>1, <1>2, <1>3, <2>1, RunGoesOn
  <1>7. SettledWasAnswered'
    BY <1>1, <1>3, SettledFrame
  <1>8. \A c \in Calls : ReachedInv(c)'
    BY <1>1, WorkerFrame
  <1> QED BY <1>4, <1>5, <1>6, <1>7, <1>8 DEF WhInv

\* What RecordAnswer does.
LEMMA RecordAnswerIs ==
    ASSUME Inv, NEW x \in Runners, RecordAnswer(x)
    PROVE  /\ Busy(x) /\ runner[x].pc = "record"
           /\ runner[x].id \in Ids /\ job[runner[x].id].state # "none"
           /\ \/ /\ runner[x].id \in answered
                 /\ Moves(x, "return", runner[x].attempts, runner[x].answer)
              \/ Ends(x)
           /\ delivery' \in [Ids -> DeliveryState]
           /\ \A e \in Ids : e # runner[x].id => delivery'[e] = delivery[e]
           /\ delivery[runner[x].id].status \in Live =>
                /\ delivery'[runner[x].id].status \in {"succeeded", "failed"}
                /\ delivery'[runner[x].id].status = "succeeded" => runner[x].id \in answered
                /\ delivery'[runner[x].id].attempts = runner[x].attempts
           /\ delivery[runner[x].id].status \notin Live =>
                delivery'[runner[x].id] = delivery[runner[x].id]
           /\ UNCHANGED <<webhook, job, call, branch, answered, unwanted,
                          sent, cut, steady, overlaps, lost>>
  <1> USE DEF Inv
  <1> DEFINE d == runner[x].id
             status == Recorded(runner[x].answer)
             n == runner[x].attempts
  <1>0. /\ runner[x].pc = "record"
        /\ delivery' = Updated(d, status, n)
        /\ \/ /\ runner[x].answer = "ok"
              /\ runner' = [runner EXCEPT ![x].pc = "return"]
           \/ /\ runner[x].answer # "ok"
              /\ runner' = [runner EXCEPT ![x] = Idle]
        /\ UNCHANGED <<webhook, job, call, branch, history, steady, bounds>>
    BY DEF RecordAnswer, Returns, TypeOK
  <1>1. /\ Busy(x) /\ d \in Ids /\ job[d].state # "none"
        /\ runner[x].answer = "ok" => d \in answered
    BY <1>0, BusyHasJob DEF Busy, WhInv, RunInv
  <1>2. /\ n \in Nat /\ status \in Live /\ status \in {"succeeded", "failed"}
        /\ status = "succeeded" => runner[x].answer = "ok"
    BY <1>1 DEF TypeOK, RunState, Live, Recorded
  <1>3. \/ /\ d \in answered
           /\ Moves(x, "return", runner[x].attempts, runner[x].answer)
        \/ Ends(x)
    BY <1>0, <1>1, StepMoves, IdleEnds DEF RunPc
  <1> HIDE DEF d, n, status
  <1>4. /\ Updated(d, status, n) \in [Ids -> DeliveryState]
        /\ \A e \in Ids : e # d => Updated(d, status, n)[e] = delivery[e]
        /\ delivery[d].status \in Live =>
              /\ Updated(d, status, n)[d].status = status
              /\ Updated(d, status, n)[d].attempts = n
        /\ delivery[d].status \notin Live =>
              Updated(d, status, n)[d] = delivery[d]
    BY <1>1, <1>2, UpdatedIs
  <1>5. /\ delivery[d].status \in Live =>
             /\ delivery'[d].status \in {"succeeded", "failed"}
             /\ delivery'[d].status = "succeeded" => d \in answered
             /\ delivery'[d].attempts = n
    BY <1>0, <1>1, <1>2, <1>4
  <1> QED BY <1>0, <1>1, <1>3, <1>4, <1>5 DEF d, n, history, bounds

\* RecordAnswer keeps the invariant: what it records as succeeded was answered.
LEMMA RecordAnswerInv ==
    ASSUME Inv, NEW x \in Runners, RecordAnswer(x)
    PROVE  Inv'
  <1> USE DEF Inv
  <1> DEFINE d == runner[x].id
  <1>1. /\ Busy(x) /\ d \in Ids /\ job[d].state # "none"
        /\ UNCHANGED <<webhook, job, call, branch, answered, unwanted,
                       sent, cut, steady, overlaps, lost>>
    BY RecordAnswerIs
  <1>2. /\ delivery' \in [Ids -> DeliveryState]
        /\ \A e \in Ids : e # d => delivery'[e] = delivery[e]
        /\ delivery'[d].status = "succeeded" =>
              d \in answered \/ delivery'[d] = delivery[d]
    BY RecordAnswerIs
  <1>3. /\ runner' \in [Runners -> RunState]
        /\ \A y \in Runners : RunInv(y)'
    <2>a. CASE /\ d \in answered
               /\ Moves(x, "return", runner[x].attempts, runner[x].answer)
      <3>1. \A y \in Runners : RunInv(y)'
        BY <1>1, <2>a, RunGoesOn
      <3> QED BY <2>a, <3>1 DEF Moves
    <2>b. CASE Ends(x)
      <3>1. \A y \in Runners : RunInv(y)'
        BY <1>1, <2>b, RunIsOver DEF history
      <3> QED BY <2>b, <3>1 DEF Ends
    <2> QED BY <2>a, <2>b, RecordAnswerIs
  <1> HIDE DEF d
  <1>5. TypeOK'
    BY <1>1, <1>2, <1>3 DEF TypeOK
  <1>6. \A e \in Ids : EnqueuedInv(e)'
    BY <1>1, <1>2, RecordFrame
  <1>8. SettledWasAnswered'
    BY <1>1, <1>2, SettledFrame
  <1>9. \A c \in Calls : ReachedInv(c)'
    BY <1>1, WorkerFrame
  <1> QED BY <1>3, <1>5, <1>6, <1>8, <1>9 DEF WhInv

\* What Acknowledge does.
LEMMA AcknowledgeIs ==
    ASSUME Inv, NEW x \in Runners, Acknowledge(x)
    PROVE  /\ Busy(x) /\ runner[x].pc = "return"
           /\ runner[x].id \in Ids /\ job[runner[x].id].state # "none"
           /\ Ends(x)
           /\ job' \in [Ids -> JobState]
           /\ \A e \in Ids : e # runner[x].id => job'[e] = job[e]
           /\ job'[runner[x].id].state = "acked"
           /\ job'[runner[x].id].receives = job[runner[x].id].receives
           /\ UNCHANGED <<webhook, delivery, call, branch, answered, unwanted,
                          sent, cut, steady, overlaps, lost>>
  <1> USE DEF Inv
  <1> DEFINE d == runner[x].id
  <1>0. /\ runner[x].pc = "return"
        /\ runner' = [runner EXCEPT ![x] = Idle]
        /\ job' = [job EXCEPT ![d].state = "acked"]
        /\ UNCHANGED <<store, call, branch, history, steady, bounds>>
    BY DEF Acknowledge
  <1>1. Busy(x) /\ d \in Ids /\ job[d].state # "none"
    BY <1>0, BusyHasJob DEF Busy
  <1> HIDE DEF d
  <1>2. Ends(x)
    BY <1>0, IdleEnds
  <1>3. /\ job' \in [Ids -> JobState]
        /\ \A e \in Ids : e # d => job'[e] = job[e]
        /\ job'[d].state = "acked"
        /\ job'[d].receives = job[d].receives
    BY <1>0, <1>1 DEF TypeOK, JobState
  <1> QED BY <1>0, <1>1, <1>2, <1>3 DEF d, store, history, bounds

\* Acknowledge keeps the invariant: a run that returns has settled its job.
LEMMA AcknowledgeInv ==
    ASSUME Inv, NEW x \in Runners, Acknowledge(x)
    PROVE  Inv'
  <1> USE DEF Inv
  <1> DEFINE d == runner[x].id
  <1>1. /\ Busy(x) /\ d \in Ids /\ job[d].state # "none"
        /\ d \in answered \cup unwanted
        /\ UNCHANGED <<webhook, delivery, call, branch, answered, unwanted,
                       sent, cut, steady, overlaps, lost>>
    BY AcknowledgeIs DEF WhInv, RunInv
  <1>2. Ends(x)
    BY AcknowledgeIs
  <1>3. /\ job' \in [Ids -> JobState]
        /\ \A e \in Ids : e # d => job'[e] = job[e]
        /\ job'[d].state = "acked"
        /\ job'[d].receives = job[d].receives
    BY AcknowledgeIs
  <1> HIDE DEF d
  <1>4. TypeOK'
    BY <1>1, <1>2, <1>3 DEF TypeOK, Ends
  <1>5. \A e \in Ids : EnqueuedInv(e)'
    <2>1. branch[d] \notin {"none", "create", "enqueue"}
      BY <1>1 DEF WhInv, EnqueuedInv
    <2> QED BY <1>1, <1>3, <2>1 DEF WhInv, EnqueuedInv
  <1>6. \A y \in Runners : RunInv(y)'
    <2>1. \A e \in Ids : /\ job[e].state # "none" => job'[e].state # "none"
                         /\ job'[e].receives = job[e].receives
      BY <1>3
    <2> QED BY <1>1, <1>2, <2>1, RunIsOver DEF history
  <1>7. SettledWasAnswered'
    BY <1>1, <1>3, SettledFrame
  <1>8. \A c \in Calls : ReachedInv(c)'
    BY <1>1, WorkerFrame
  <1> QED BY <1>4, <1>5, <1>6, <1>7, <1>8 DEF WhInv

\* LoseRun keeps the invariant.
LEMMA LoseRunInv ==
    ASSUME Inv, NEW x \in Runners, LoseRun(x)
    PROVE  Inv'
  <1> USE DEF Inv
  <1>0. /\ runner' = [runner EXCEPT ![x] = Idle]
        /\ lost' = lost + 1
        /\ cut' = cut \cup {runner[x].id} /\ runner[x].id \in Ids
        /\ UNCHANGED <<store, job, call, branch, answered, unwanted, sent, steady, overlaps>>
    BY DEF LoseRun, WhInv, RunInv
  <1>1. Ends(x)
    BY <1>0, IdleEnds
  <1>2. TypeOK'
    BY <1>0, <1>1 DEF TypeOK, Ends, store
  <1>3. \A e \in Ids : EnqueuedInv(e)'
    BY <1>0 DEF WhInv, EnqueuedInv, store
  <1>4. \A y \in Runners : RunInv(y)'
    BY <1>0, <1>1, RunIsOver
  <1>5. SettledWasAnswered'
    BY <1>0, SettledFrame DEF store
  <1>6. \A c \in Calls : ReachedInv(c)'
    BY <1>0, WorkerFrame DEF store
  <1> QED BY <1>2, <1>3, <1>4, <1>5, <1>6 DEF WhInv

\* DeadLetter keeps the invariant.
LEMMA DeadLetterInv ==
    ASSUME Inv, NEW d \in Ids, DeadLetter(d)
    PROVE  Inv'
  <1> USE DEF Inv
  <1>0. /\ job[d].state = "queued"
        /\ job' = [job EXCEPT ![d].state = "dead"]
        /\ UNCHANGED <<store, call, branch, runner, history, steady, bounds>>
    BY DEF DeadLetter
  <1>1. /\ job' \in [Ids -> JobState]
        /\ \A e \in Ids : /\ e # d => job'[e] = job[e]
                          /\ job'[e].receives = job[e].receives
        /\ job'[d].state = "dead"
    BY <1>0 DEF TypeOK, JobState
  <1>2. TypeOK'
    BY <1>0, <1>1 DEF TypeOK, store, history, bounds
  <1>3. \A e \in Ids : EnqueuedInv(e)'
    <2>1. branch[d] \notin {"none", "create", "enqueue"}
      BY <1>0 DEF WhInv, EnqueuedInv
    <2> QED BY <1>0, <1>1, <2>1 DEF WhInv, EnqueuedInv, store
  <1>4. \A y \in Runners : RunInv(y)'
    BY <1>0, <1>1 DEF WhInv, RunInv, Busy, history
  <1>5. SettledWasAnswered'
    BY <1>0, <1>1, SettledFrame DEF store, history
  <1>6. \A c \in Calls : ReachedInv(c)'
    BY <1>0, WorkerFrame DEF store
  <1> QED BY <1>2, <1>3, <1>4, <1>5, <1>6 DEF WhInv

\* Expire and Purge keep the invariant: they touch a record that a branch has
\* written, and mark none as succeeded.
LEMMA RecordGoesInv ==
    ASSUME Inv, NEW d \in Ids, delivery[d].status # "absent",
           delivery' \in [Ids -> DeliveryState],
           \A e \in Ids : e # d => delivery'[e] = delivery[e],
           delivery'[d].status # "succeeded",
           UNCHANGED <<webhook, job, call, branch, runner, history, steady, overlaps, lost>>
    PROVE  Inv'
  <1> USE DEF Inv
  <1>1. TypeOK'
    BY DEF TypeOK, history
  <1>2. \A e \in Ids : EnqueuedInv(e)'
    BY DEF WhInv, EnqueuedInv
  <1>3. \A y \in Runners : RunInv(y)'
    BY DEF WhInv, RunInv, Busy, history
  <1>4. SettledWasAnswered'
    BY SettledFrame DEF history
  <1>5. \A c \in Calls : ReachedInv(c)'
    BY WorkerFrame
  <1> QED BY <1>1, <1>2, <1>3, <1>4, <1>5 DEF WhInv

\* A record that expires.
LEMMA ExpireIs ==
    ASSUME TypeOK, NEW d \in Ids, Expire(d)
    PROVE  /\ delivery[d].status # "absent"
           /\ delivery' \in [Ids -> DeliveryState]
           /\ \A e \in Ids : e # d => delivery'[e] = delivery[e]
           /\ delivery'[d].status = "expired"
  BY DEF TypeOK, Expire, DeliveryState, Live

\* A record that is removed.
LEMMA PurgeIs ==
    ASSUME TypeOK, NEW d \in Ids, Purge(d)
    PROVE  /\ delivery[d].status # "absent"
           /\ delivery' \in [Ids -> DeliveryState]
           /\ \A e \in Ids : e # d => delivery'[e] = delivery[e]
           /\ delivery'[d].status = "absent"
  BY DEF TypeOK, Purge, DeliveryState

\* Every step keeps the invariant.
LEMMA NextInv == Inv /\ [Next]_vars => Inv'
  <1> SUFFICES ASSUME Inv, [Next]_vars PROVE Inv'
    OBVIOUS
  <1>1. CASE UNCHANGED vars
    BY <1>1 DEF vars, store, history, bounds, Inv, TypeOK, WhInv, ReachedInv, Steady,
                EnqueuedInv, RunInv, Busy,
                SettledWasAnswered, AcknowledgedWasHandled, SucceededWasAnswered
  <1>2. CASE \E w \in Webhooks :
               \/ \E late \in BOOLEAN :
                    \/ CreateWebhook(w, late)
                    \/ DeleteWebhook(w, late)
                    \/ \E status \in Enabled \cup {"disabled"} :
                         UpdateWebhook(w, status, late)
               \/ Reindex(w)
    BY <1>2, CreateWebhookInv, ChangeInv, ReindexInv
    DEF UpdateWebhook, DeleteWebhook, Statuses
  <1>3. CASE \E c \in Publications : Publish(c) \/ ListWebhooks(c)
    BY <1>3, PublishInv, ListWebhooksInv
  <1>4. CASE \E c \in Replays, d \in Ids : Replay(c, d)
    BY <1>4, ReplayInv
  <1>5. CASE \E c \in Calls : PageDone(c) \/ LoseCall(c)
    BY <1>5, PageDoneInv, LoseCallInv
  <1>6. CASE \E d \in Ids :
               \/ CreateRecord(d) \/ EnqueueJob(d) \/ MarkFailed(d)
               \/ DeadLetter(d) \/ Expire(d) \/ Purge(d)
    <2>1. \A d \in Ids : Expire(d) => Inv'
      <3> SUFFICES ASSUME NEW d \in Ids, Expire(d) PROVE Inv'
        OBVIOUS
      <3>1. UNCHANGED <<webhook, job, call, branch, runner, history, steady, overlaps, lost>>
        BY DEF Expire
      <3> QED BY <3>1, ExpireIs, RecordGoesInv DEF Inv
    <2>2. \A d \in Ids : Purge(d) => Inv'
      <3> SUFFICES ASSUME NEW d \in Ids, Purge(d) PROVE Inv'
        OBVIOUS
      <3>1. UNCHANGED <<webhook, job, call, branch, runner, history, steady, overlaps, lost>>
        BY DEF Purge, bounds
      <3> QED BY <3>1, PurgeIs, RecordGoesInv DEF Inv
    <2> QED BY <1>6, <2>1, <2>2, CreateRecordInv, EnqueueJobInv, MarkFailedInv,
               DeadLetterInv
  <1>7. CASE \E x \in Runners : Deliver(x)
    <2> SUFFICES ASSUME NEW x \in Runners, Deliver(x) PROVE Inv'
      BY <1>7
    <2> QED BY ReceiveInv, LoadInv, RecreateInv, ReadEndpointInv, CancelDeliveryInv,
               BeginAttemptInv, RequestInv, RecordAnswerInv, AcknowledgeInv, LoseRunInv
            DEF Deliver
  <1> QED BY <1>1, <1>2, <1>3, <1>4, <1>5, <1>6, <1>7 DEF Next

\* The records, jobs, calls and runs keep their types; calls, branches and
\* runs have done what their program points say; and a job or a record is
\* settled as answered only after the endpoint answered.
THEOREM WebhookInvariant == Spec => []Inv
  BY InitInv, NextInv, PTL DEF Spec

\* Nothing is settled without an answer, whatever is lost, duplicated or
\* overlaps: neither an acknowledged job nor a record that says succeeded.
THEOREM SettledWasAnsweredHolds == Spec => []SettledWasAnswered
  <1>1. Inv => SettledWasAnswered
    BY DEF Inv
  <1> QED BY <1>1, WebhookInvariant, PTL

\* A publication that ends normally has a job for every endpoint that wanted
\* the event from its start on and whose last change the listing showed by then,
\* whatever changed, or was listed late, between two of its pages.
THEOREM PublicationReachesAllHolds == Spec => []PublicationReachesAll
  <1>1. Inv => PublicationReachesAll
    BY IdsArePairs
    DEF Inv, TypeOK, WhInv, ReachedInv, EnqueuedInv, PublicationReachesAll
  <1> QED BY <1>1, WebhookInvariant, PTL


-----------------------------------------------------------------------------
(* Who drives an unsettled delivery.                                        *)

\* A run that goes on before its last word works on; the others do anyway.
LEMMA WorksOn ==
    ASSUME Inv, NEW x \in Runners, Busy(x), NEW to \in RunPc \ {"idle", "return"},
           NEW n, NEW answer, Moves(x, to, n, answer)
    PROVE  \A d \in Ids : Working(d) \/ d = runner[x].id => Working(d)'
  BY DEF Working, Moves, Busy

\* A run that ends, or that has had its last word, leaves those of other jobs.
LEMMA OthersWorkOn ==
    ASSUME Inv, NEW x \in Runners,
           \A y \in Runners : y # x => runner'[y] = runner[y]
    PROVE  \A d \in Ids :
              Working(d) /\ (d # runner[x].id \/ runner[x].pc = "return")
              => Working(d)'
  BY DEF Working, Busy

\* A step that unsettles no record and leaves what drives the others.
LEMMA DrivenFrame ==
    ASSUME Inv, DrivenInv,
           \A d \in Ids : Unsettled(d)' =>
              Drives(d)' \/ (Unsettled(d) /\ (Drives(d) => Drives(d)'))
    PROVE  DrivenInv'
  BY DEF DrivenInv

\* A step that leaves records, branches, jobs and runs.
LEMMA NothingMoves ==
    ASSUME Inv, DrivenInv, UNCHANGED <<delivery, job, branch, runner, cut>>
    PROVE  DrivenInv'
  BY DEF DrivenInv, Unsettled, Drives, Working, Busy

\* The steps of the calls, up to the records.
LEMMA CallsDrive ==
    ASSUME Inv, DrivenInv, NEW c,
           \/ c \in Publications /\ ListWebhooks(c)
           \/ \E d \in Ids : c \in Replays /\ Replay(c, d)
    PROVE  DrivenInv'
  <1>1. UNCHANGED <<delivery, job, runner, cut>>
    BY DEF ListWebhooks, Replay, store, history, bounds
  <1>2. \A d \in Ids : branch'[d] \in {branch[d], "create"}
    BY DEF ListWebhooks, Replay, Inv, TypeOK
  <1>3. \A d \in Ids : Drives(d) => Drives(d)'
    BY <1>1, <1>2 DEF Drives, Working, Busy
  <1> QED BY <1>1, <1>3, DrivenFrame DEF Unsettled

\* The steps of the branches.
LEMMA BranchesDrive ==
    ASSUME Inv, DrivenInv, NEW d \in Ids,
           CreateRecord(d) \/ EnqueueJob(d) \/ MarkFailed(d)
    PROVE  DrivenInv'
  <1> USE DEF Inv
  <1>1. /\ UNCHANGED <<runner, cut>>
        /\ branch[d] \in {"create", "enqueue", "mark"}
    BY DEF CreateRecord, EnqueueJob, MarkFailed, history, bounds
  <1>2. \A e \in Ids : e # d => branch'[e] = branch[e]
    BY DEF CreateRecord, EnqueueJob, MarkFailed, Throw, TypeOK
  <1>3. \A e \in Ids : e # d => delivery'[e] = delivery[e]
    <2>1. CASE delivery' = Created(d)
      BY <2>1, CreatedIs
    <2>2. CASE delivery' = Updated(d, "failed", delivery[d].attempts)
      <3>1. delivery[d].attempts \in Nat /\ "failed" \in Live
        BY DEF TypeOK, DeliveryState, Live
      <3> QED BY <2>2, <3>1, UpdatedIs
    <2>3. CASE UNCHANGED delivery
      BY <2>3
    <2> QED BY <2>1, <2>2, <2>3 DEF CreateRecord, EnqueueJob, MarkFailed, store
  <1>4. \A e \in Ids : e # d => job'[e] = job[e]
    BY DEF CreateRecord, EnqueueJob, MarkFailed, TypeOK
  <1>5. \A e \in Ids : Working(e) <=> Working(e)'
    BY <1>1 DEF Working, Busy
  <1>6. \A e \in Ids : e # d => (Drives(e) => Drives(e)') /\ (Unsettled(e)' => Unsettled(e))
    <2> SUFFICES ASSUME NEW e \in Ids, e # d
                 PROVE  (Drives(e) => Drives(e)') /\ (Unsettled(e)' => Unsettled(e))
      OBVIOUS
    <2>1. Unsettled(e)' => Unsettled(e)
      BY <1>3 DEF Unsettled
    <2>2. Drives(e) => Drives(e)'
      BY <1>1, <1>2, <1>4, <1>5 DEF Drives
    <2> QED BY <2>1, <2>2
  <1>7. Unsettled(d)' => Drives(d)'
    <2>1. CASE CreateRecord(d)
      <3>1. delivery[d].status = "absent"
        BY <2>1 DEF CreateRecord, WhInv, EnqueuedInv
      <3>2. CASE UNCHANGED delivery
        BY <3>1, <3>2 DEF Unsettled
      <3>3. CASE branch' = [branch EXCEPT ![d] = "enqueue"]
        <4>1. branch'[d] = "enqueue"
          BY <3>3 DEF TypeOK
        <4>2. job'[d].state = "none"
          BY <2>1 DEF CreateRecord, WhInv, EnqueuedInv
        <4> QED BY <4>1, <4>2 DEF Drives
      <3> QED BY <2>1, <3>2, <3>3 DEF CreateRecord
    <2>2. CASE EnqueueJob(d)
      <3>1. job[d].state = "none" /\ job[d].receives = 0
        BY <2>2 DEF EnqueueJob, WhInv, EnqueuedInv
      <3>2. CASE job' = [job EXCEPT ![d].state = "queued"]
        <4>1. job'[d].state = "queued" /\ job'[d].receives = 0
          BY <3>1, <3>2 DEF TypeOK, JobState
        <4> QED BY <4>1 DEF Drives
      <3>3. CASE branch'[d] = "mark" /\ UNCHANGED job
        BY <3>1, <3>3 DEF Drives
      <3> QED BY <2>2, <3>2, <3>3 DEF EnqueueJob
    <2>3. CASE MarkFailed(d)
      <3>1. delivery[d].attempts \in Nat /\ "failed" \in Live
        BY DEF TypeOK, DeliveryState, Live
      <3>2. delivery' = Updated(d, "failed", delivery[d].attempts)
        BY <2>3 DEF MarkFailed
      <3>3. /\ delivery[d].status \in Live => delivery'[d].status = "failed"
            /\ delivery[d].status \notin Live => delivery'[d] = delivery[d]
        BY <3>1, <3>2, UpdatedIs
      <3> QED BY <3>3 DEF Unsettled, Live
    <2> QED BY <2>1, <2>2, <2>3
  <1> QED BY <1>1, <1>6, <1>7, DrivenFrame

\* The steps of the queue and the removal of records.
LEMMA QueueDrives ==
    ASSUME Inv, DrivenInv, NEW d \in Ids,
           DeadLetter(d) \/ Expire(d) \/ Purge(d)
    PROVE  DrivenInv'
  <1> USE DEF Inv
  <1>1. CASE DeadLetter(d)
    <2>1. /\ job[d].receives = MaxReceives /\ ~Held(d)
          /\ UNCHANGED <<delivery, branch, runner, cut>>
      BY <1>1 DEF DeadLetter, store, history, bounds
    <2>2. /\ \A e \in Ids : e # d => job'[e] = job[e]
          /\ job[d].state = "queued" /\ job'[d].state = "dead"
      BY <1>1 DEF DeadLetter, TypeOK, JobState
    <2>3. job[d].receives # 0 /\ ~Working(d)
      BY <2>1, BoundsAssumption DEF Held, Working
    <2>4. \A e \in Ids : Drives(e) => Drives(e)'
      BY <2>1, <2>2, <2>3 DEF Drives, Working, Busy
    <2> QED BY <2>1, <2>4, DrivenFrame DEF Unsettled
  <1>2. CASE Expire(d) \/ Purge(d)
    <2>1. /\ \A e \in Ids : e # d => delivery'[e] = delivery[e]
          /\ delivery'[d].status \in {"expired", "absent"}
      BY <1>2, ExpireIs, PurgeIs
    <2>2. UNCHANGED <<job, branch, runner, cut>>
      BY <1>2 DEF Expire, Purge, history, bounds
    <2>3. \A e \in Ids : Drives(e) <=> Drives(e)'
      BY <2>2 DEF Drives, Working, Busy
    <2> QED BY <2>1, <2>2, <2>3, DrivenFrame DEF Unsettled
  <1> QED BY <1>1, <1>2

\* The steps of a run that has not had its last word.
LEMMA RunsDrive ==
    ASSUME Inv, DrivenInv, NEW x \in Runners, Busy(x),
           NEW to \in RunPc \ {"idle", "return"}, NEW n, NEW answer,
           Moves(x, to, n, answer),
           \A e \in Ids : e # runner[x].id => delivery'[e] = delivery[e],
           UNCHANGED <<job, branch, cut>>
    PROVE  DrivenInv'
  <1>1. \A d \in Ids : Working(d) \/ d = runner[x].id => Working(d)'
    BY WorksOn
  <1>2. \A d \in Ids : d # runner[x].id => (Unsettled(d)' => Unsettled(d))
    BY DEF Unsettled
  <1>3. \A d \in Ids : Drives(d) \/ d = runner[x].id => Drives(d)'
    BY <1>1 DEF Drives
  <1>4. \A d \in Ids : Unsettled(d)' =>
           Drives(d)' \/ (Unsettled(d) /\ (Drives(d) => Drives(d)'))
    BY <1>2, <1>3
  <1> QED BY <1>4, DrivenFrame

\* The last word of a run settles the record.
LEMMA LastWordDrives ==
    ASSUME Inv, DrivenInv, NEW x \in Runners, CancelDelivery(x) \/ RecordAnswer(x)
    PROVE  DrivenInv'
  <1>0. PICK d \in Ids : d = runner[x].id
    BY CancelDeliveryIs, RecordAnswerIs
  <1>1. UNCHANGED <<job, branch, cut>>
    BY CancelDeliveryIs, RecordAnswerIs
  <1>2. \A y \in Runners : y # x => runner'[y] = runner[y]
    BY CancelDeliveryIs, RecordAnswerIs DEF Moves, Ends
  <1>3. /\ \A e \in Ids : e # d => delivery'[e] = delivery[e]
        /\ delivery[d].status \in Live =>
              delivery'[d].status \in {"cancelled", "succeeded", "failed"}
        /\ delivery[d].status \notin Live => delivery'[d] = delivery[d]
    BY <1>0, CancelDeliveryIs, RecordAnswerIs
  <1>4. \A e \in Ids : e # d => (Drives(e) => Drives(e)')
    BY <1>0, <1>1, <1>2, OthersWorkOn DEF Drives
  <1>5. \A e \in Ids : e # d => (Unsettled(e)' => Unsettled(e))
    BY <1>3 DEF Unsettled
  <1>6. ~Unsettled(d)'
    BY <1>3 DEF Unsettled, Live
  <1> QED BY <1>1, <1>4, <1>5, <1>6, DrivenFrame

\* An acknowledged job was received: its record is driven by others, if at all.
LEMMA AcknowledgeDrives ==
    ASSUME Inv, DrivenInv, NEW x \in Runners, Acknowledge(x)
    PROVE  DrivenInv'
  <1>0. PICK d \in Ids : d = runner[x].id
    BY AcknowledgeIs
  <1>1. /\ UNCHANGED <<delivery, branch, cut>>
        /\ runner[x].pc = "return"
        /\ \A e \in Ids : e # d => job'[e] = job[e]
    BY <1>0, AcknowledgeIs
  <1>2. job[d].receives # 0 /\ job[d].state # "none" /\ job'[d].state # "none"
    BY <1>0, AcknowledgeIs, BusyHasJob
    DEF Inv, WhInv, RunInv, TypeOK, JobState, RunState
  <1>3. \A e \in Ids : Working(e) => Working(e)'
    <2>1. \A y \in Runners : y # x => runner'[y] = runner[y]
      BY AcknowledgeIs DEF Ends
    <2> QED BY <1>1, <2>1, OthersWorkOn
  <1>4. \A e \in Ids : Drives(e) => Drives(e)'
    BY <1>1, <1>2, <1>3 DEF Drives
  <1> QED BY <1>1, <1>4, DrivenFrame DEF Unsettled

\* A received job has a run at work.
LEMMA ReceiveDrives ==
    ASSUME Inv, DrivenInv, NEW x \in Runners, NEW d \in Ids, Receive(x, d)
    PROVE  DrivenInv'
  <1>1. /\ UNCHANGED <<delivery, branch, cut>>
        /\ ~Busy(x)
        /\ \A e \in Ids : e # d => job'[e] = job[e]
    BY ReceiveIs
  <1>2. /\ runner'[x].pc = "load" /\ runner'[x].id = d
        /\ \A y \in Runners : y # x => runner'[y] = runner[y]
    BY ReceiveIs
  <1>3. Working(d)' /\ \A e \in Ids : Working(e) => Working(e)'
    BY <1>1, <1>2 DEF Working, Busy
  <1>4. \A e \in Ids : Drives(e) => Drives(e)'
    <2> SUFFICES ASSUME NEW e \in Ids, Drives(e) PROVE Drives(e)'
      OBVIOUS
    <2>1. CASE e = d
      BY <1>3, <2>1 DEF Drives
    <2>2. CASE e # d
      BY <1>1, <1>3, <2>2 DEF Drives
    <2> QED BY <2>1, <2>2
  <1> QED BY <1>1, <1>4, DrivenFrame DEF Unsettled

\* A lost call leaves a branch that had no job yet lost without one.
LEMMA LostCallDrives ==
    ASSUME Inv, DrivenInv, NEW c \in Calls, LoseCall(c)
    PROVE  DrivenInv'
  <1>1. UNCHANGED <<delivery, job, runner, cut>>
    BY DEF LoseCall, store, history
  <1>2. \A d \in Ids : branch'[d] \in {branch[d], "lost"}
    BY DEF LoseCall
  <1>3. \A d \in Ids : Drives(d) => Drives(d)'
    BY <1>1, <1>2 DEF Drives, Working, Busy
  <1> QED BY <1>1, <1>3, DrivenFrame DEF Unsettled

\* A lost run leaves a job whose delivery is known to have been cut short.
LEMMA LostRunDrives ==
    ASSUME Inv, DrivenInv, NEW x \in Runners, LoseRun(x)
    PROVE  DrivenInv'
  <1>0. PICK d \in Ids : d = runner[x].id /\ job[d].state # "none"
    BY BusyHasJob DEF LoseRun
  <1>1. /\ UNCHANGED <<delivery, job, branch>>
        /\ cut' = cut \cup {d}
    BY <1>0 DEF LoseRun, store
  <1>2. \A y \in Runners : y # x => runner'[y] = runner[y]
    BY DEF LoseRun, Inv, TypeOK
  <1>3. \A e \in Ids : e # d => (Drives(e) => Drives(e)')
    BY <1>0, <1>1, <1>2, OthersWorkOn DEF Drives
  <1>4. Drives(d)'
    BY <1>0, <1>1 DEF Drives
  <1> QED BY <1>1, <1>3, <1>4, DrivenFrame DEF Unsettled

\* Every step of deliver keeps what drives the deliveries.
LEMMA DeliverDrives ==
    ASSUME Inv, DrivenInv, NEW x \in Runners, Deliver(x)
    PROVE  DrivenInv'
  <1>1. CASE Load(x)
    <2>1. /\ Busy(x)
          /\ UNCHANGED <<delivery, job, branch, cut>>
      BY <1>1, LoadIs
    <2>2. PICK to \in {"endpoint", "create"}, n \in Nat :
             Moves(x, to, n, runner[x].answer)
      BY <1>1, LoadIs
    <2>3. to \in RunPc \ {"idle", "return"}
      BY DEF RunPc
    <2> QED BY <2>1, <2>2, <2>3, RunsDrive
  <1>2. CASE Recreate(x)
    <2>1. /\ Busy(x)
          /\ Moves(x, "endpoint", runner[x].attempts, runner[x].answer)
          /\ \A e \in Ids : e # runner[x].id => delivery'[e] = delivery[e]
          /\ UNCHANGED <<job, branch, cut>>
      BY <1>2, RecreateIs
    <2>2. "endpoint" \in RunPc \ {"idle", "return"}
      BY DEF RunPc
    <2> QED BY <2>1, <2>2, RunsDrive
  <1>3. CASE ReadEndpoint(x)
    <2>1. /\ Busy(x)
          /\ UNCHANGED <<delivery, job, branch, cut>>
      BY <1>3, ReadEndpointIs
    <2>2. PICK to \in {"begin", "cancel"} :
             Moves(x, to, runner[x].attempts, runner[x].answer)
      BY <1>3, ReadEndpointIs
    <2>3. to \in RunPc \ {"idle", "return"}
      BY DEF RunPc
    <2> QED BY <2>1, <2>2, <2>3, RunsDrive
  <1>4. CASE BeginAttempt(x)
    <2>1. /\ Busy(x)
          /\ \A e \in Ids : e # runner[x].id => delivery'[e] = delivery[e]
          /\ UNCHANGED <<job, branch, cut>>
      BY <1>4, BeginAttemptIs
    <2>2. PICK n \in Nat : Moves(x, "request", n, runner[x].answer)
      BY <1>4, BeginAttemptIs
    <2>3. "request" \in RunPc \ {"idle", "return"}
      BY DEF RunPc
    <2> QED BY <2>1, <2>2, <2>3, RunsDrive
  <1>5. CASE \E answer \in {"ok", "failed"} : Request(x, answer)
    <2> PICK answer \in {"ok", "failed"} : Request(x, answer)
      BY <1>5
    <2>1. /\ Busy(x)
          /\ Moves(x, "record", runner[x].attempts, answer)
          /\ UNCHANGED <<delivery, job, branch, cut>>
      BY RequestIs
    <2>2. "record" \in RunPc \ {"idle", "return"}
      BY DEF RunPc
    <2> QED BY <2>1, <2>2, RunsDrive
  <1> QED BY <1>1, <1>2, <1>3, <1>4, <1>5, ReceiveDrives, LastWordDrives,
             AcknowledgeDrives, LostRunDrives DEF Deliver

\* Every step keeps an unsettled delivery driven.
LEMMA NextDrives == Inv /\ DrivenInv /\ [Next]_vars => DrivenInv'
  <1> SUFFICES ASSUME Inv, DrivenInv, [Next]_vars PROVE DrivenInv'
    OBVIOUS
  <1>1. CASE UNCHANGED vars
    BY <1>1, NothingMoves DEF vars, store, history, bounds
  <1>2. CASE \E w \in Webhooks :
               \/ \E late \in BOOLEAN :
                    \/ CreateWebhook(w, late)
                    \/ DeleteWebhook(w, late)
                    \/ \E status \in Enabled \cup {"disabled"} :
                         UpdateWebhook(w, status, late)
               \/ Reindex(w)
    BY <1>2, NothingMoves
    DEF CreateWebhook, UpdateWebhook, DeleteWebhook, Change, Reindex, history, bounds
  <1>3. CASE \E c \in Publications : Publish(c)
    BY <1>3, NothingMoves DEF Publish, store, history, bounds
  <1>4. CASE \E c \in Calls : PageDone(c)
    BY <1>4, NothingMoves DEF PageDone, store, history, bounds
  <1>5. CASE \E c \in Publications : ListWebhooks(c)
    BY <1>5, CallsDrive
  <1>6. CASE \E c \in Replays, d \in Ids : Replay(c, d)
    BY <1>6, CallsDrive
  <1>7. CASE \E d \in Ids :
               \/ CreateRecord(d) \/ EnqueueJob(d) \/ MarkFailed(d)
               \/ DeadLetter(d) \/ Expire(d) \/ Purge(d)
    BY <1>7, BranchesDrive, QueueDrives
  <1>8. CASE \E c \in Calls : LoseCall(c)
    BY <1>8, LostCallDrives
  <1>9. CASE \E x \in Runners : Deliver(x)
    BY <1>9, DeliverDrives
  <1> QED BY <1>1, <1>2, <1>3, <1>4, <1>5, <1>6, <1>7, <1>8, <1>9 DEF Next

\* Every delivery that is shown as pending or delivering is accounted for: by a
\* call or a run at work, by a job nobody has received, or by a lost process.
THEOREM DrivenInvariant == Spec => []DrivenInv
  <1>1. Init => DrivenInv
    BY DEF Init, DrivenInv, Unsettled
  <1> QED BY <1>1, NextDrives, WebhookInvariant, PTL DEF Spec

\* A delivery shown as unfinished is unfinished work of somebody, whatever
\* enqueue threw and whichever processes were lost, unless its own call was lost
\* before its job was enqueued, or its own run was lost and its job is over.
THEOREM UnfinishedIsDrivenHolds == Spec => []UnfinishedIsDriven
  <1>1. Inv /\ DrivenInv => UnfinishedIsDriven
    BY DEF Inv, TypeOK, JobState, DrivenInv, Drives, Unsettled, UnfinishedIsDriven,
           Unfinished, Stranded, CutShort, Working, Held
  <1> QED BY <1>1, WebhookInvariant, DrivenInvariant, PTL


-----------------------------------------------------------------------------
(* What the attempt counts cover.                                           *)

\* The deliveries and runs that a run's step does not touch.
LEMMA CountedOthers ==
    ASSUME Inv, OneRun, \A d \in Ids : CountedDelivery(d),
           \A y \in Runners : CountedRun(y),
           NEW x \in Runners, Busy(x), NEW d \in Ids, d = runner[x].id,
           \A e \in Ids : /\ e # d => delivery'[e] = delivery[e] /\ sent'[e] = sent[e]
                          /\ job'[e].receives = job[e].receives,
           UNCHANGED branch,
           \A y \in Runners : y # x => runner'[y] = runner[y],
           runner'[x].pc = "idle" \/ runner'[x].id = d
    PROVE  /\ OneRun'
           /\ \A e \in Ids : e # d => CountedDelivery(e)'
           /\ \A y \in Runners : y # x => CountedRun(y)'
  <1>1. OneRun'
    BY DEF OneRun, Busy
  <1>2. \A e \in Ids : e # d => CountedDelivery(e)'
    BY DEF CountedDelivery
  <1>3. \A y \in Runners : y # x => CountedRun(y)'
    <2> SUFFICES ASSUME NEW y \in Runners, y # x, Busy(y)
                 PROVE  CountedRun(y)'
      BY DEF CountedRun, Busy
    <2>1. runner[y].id # d /\ runner[y].id \in Ids
      BY BusyHasJob DEF OneRun
    <2> QED BY <2>1 DEF CountedRun, Busy
  <1> QED BY <1>1, <1>2, <1>3

\* A step of a call or of the queue that touches one delivery, with no run on
\* it that is about to make a request.
LEMMA CountedElsewhere ==
    ASSUME Inv, CountedInv, NEW d \in Ids,
           \A e \in Ids : /\ e # d => delivery'[e] = delivery[e]
                          /\ branch'[e] \in {"enqueue", "mark"} => 
                                e = d \/ branch[e] \in {"enqueue", "mark"}
                          /\ job'[e].receives = job[e].receives,
           UNCHANGED <<runner, sent, overlaps>>,
           overlaps = 0 => CountedDelivery(d)',
           Held(d) => /\ delivery'[d].attempts = delivery[d].attempts
                      /\ delivery'[d].status \in Live => delivery[d].status \in Live
    PROVE  CountedInv'
  <1> SUFFICES ASSUME overlaps = 0
               PROVE  /\ OneRun'
                      /\ \A e \in Ids : CountedDelivery(e)'
                      /\ \A y \in Runners : CountedRun(y)'
    BY DEF CountedInv
  <1>1. OneRun'
    BY DEF CountedInv, OneRun, Busy
  <1>2. \A e \in Ids : CountedDelivery(e)'
    BY DEF CountedInv, CountedDelivery
  <1>3. \A y \in Runners : CountedRun(y)'
    <2> SUFFICES ASSUME NEW y \in Runners, Busy(y)
                 PROVE  CountedRun(y)'
      BY DEF CountedRun, Busy
    <2>1. runner[y].id \in Ids
      BY BusyHasJob
    <2>2. CountedRun(y)
      BY DEF CountedInv
    <2>3. CASE runner[y].id = d
      <3>1. Held(d)
        BY <2>3 DEF Held
      <3> QED BY <2>2, <2>3, <3>1 DEF CountedRun, Busy
    <2>4. CASE runner[y].id # d
      BY <2>1, <2>2, <2>4 DEF CountedRun, Busy
    <2> QED BY <2>3, <2>4
  <1> QED BY <1>1, <1>2, <1>3

\* The steps that change neither records nor jobs nor runs, and start no write.
LEMMA CallsCount ==
    ASSUME Inv, CountedInv, UNCHANGED <<delivery, job, runner, sent, overlaps>>,
           \A e \in Ids : branch'[e] \in {"enqueue", "mark"} =>
                            branch[e] \in {"enqueue", "mark"}
    PROVE  CountedInv'
  BY DEF CountedInv, OneRun, CountedDelivery, CountedRun, Busy

\* CreateRecord: its job has not been received.
LEMMA CreateRecordCounts ==
    ASSUME Inv, CountedInv, NEW d \in Ids, CreateRecord(d)
    PROVE  CountedInv'
  <1> USE DEF Inv
  <1>0. /\ branch[d] = "create"
        /\ UNCHANGED <<job, runner, sent, overlaps>>
    BY DEF CreateRecord, history, bounds
  <1>1. /\ delivery[d].status = "absent"
        /\ job[d].state = "none" /\ job[d].receives = 0
    BY <1>0 DEF WhInv, EnqueuedInv
  <1>2. CASE Throw(d) /\ UNCHANGED delivery
    BY <1>0, <1>2, CallsCount DEF Throw, TypeOK
  <1>3. CASE /\ delivery' = Created(d)
             /\ branch' = [branch EXCEPT ![d] = "enqueue"]
    <2>1. /\ \A e \in Ids : e # d => delivery'[e] = delivery[e]
          /\ delivery'[d].status = "pending" /\ delivery'[d].attempts = 0
      BY <1>1, <1>3, CreatedIs
    <2>2. ~Held(d)
      BY <1>1, BusyHasJob DEF Held
    <2>3. \A e \in Ids : e # d => branch'[e] = branch[e]
      BY <1>3 DEF TypeOK
    <2>4. (overlaps = 0) => CountedDelivery(d)'
      <3>1. (overlaps = 0) => sent[d] <= 0
        BY <1>1 DEF CountedInv, CountedDelivery
      <3>2. sent[d] \in Nat
        BY DEF TypeOK
      <3> QED BY <1>0, <1>1, <2>1, <3>1, <3>2 DEF CountedDelivery, Live
    <2> QED BY <1>0, <2>1, <2>2, <2>3, <2>4, CountedElsewhere
  <1> QED BY <1>2, <1>3 DEF CreateRecord

\* EnqueueJob leaves the record and the receives.
LEMMA EnqueueJobCounts ==
    ASSUME Inv, CountedInv, NEW d \in Ids, EnqueueJob(d)
    PROVE  CountedInv'
  <1> USE DEF Inv
  <1>0. /\ branch[d] = "enqueue"
        /\ UNCHANGED <<delivery, runner, sent, overlaps>>
    BY DEF EnqueueJob, store, history, bounds
  <1>1. \A e \in Ids : /\ e # d => branch'[e] = branch[e]
                       /\ job'[e].receives = job[e].receives
    BY DEF EnqueueJob, TypeOK, JobState
  <1>2. (overlaps = 0) => CountedDelivery(d)'
    BY <1>0, <1>1 DEF CountedInv, CountedDelivery
  <1> QED BY <1>0, <1>1, <1>2, CountedElsewhere

\* MarkFailed keeps the count of the record.
LEMMA MarkFailedCounts ==
    ASSUME Inv, CountedInv, NEW d \in Ids, MarkFailed(d)
    PROVE  CountedInv'
  <1> USE DEF Inv
  <1>0. /\ branch[d] = "mark" /\ branch' = [branch EXCEPT ![d] = "threw"]
        /\ delivery' = Updated(d, "failed", delivery[d].attempts)
        /\ UNCHANGED <<job, runner, sent, overlaps>>
    BY DEF MarkFailed, Throw, history, bounds
  <1>1. delivery[d].attempts \in Nat /\ "failed" \in Live
    BY DEF TypeOK, DeliveryState, Live
  <1>2. /\ \A e \in Ids : e # d => delivery'[e] = delivery[e]
        /\ delivery'[d].attempts = delivery[d].attempts
        /\ delivery'[d].status \in Live => delivery[d].status \in Live
    BY <1>0, <1>1, UpdatedIs
  <1>3. branch'[d] = "threw" /\ \A e \in Ids : e # d => branch'[e] = branch[e]
    BY <1>0 DEF TypeOK
  <1>4. (overlaps = 0) => CountedDelivery(d)'
    BY <1>0, <1>2, <1>3 DEF CountedInv, CountedDelivery
  <1> QED BY <1>0, <1>2, <1>3, <1>4, CountedElsewhere

\* The queue isolates a job, and records expire and are removed, while nobody
\* is about to write them.
LEMMA QueueCounts ==
    ASSUME Inv, CountedInv, NEW d \in Ids,
           DeadLetter(d) \/ Expire(d) \/ Purge(d)
    PROVE  CountedInv'
  <1> USE DEF Inv
  <1>1. CASE DeadLetter(d)
    <2>1. \A e \in Ids : job'[e].receives = job[e].receives
      BY <1>1 DEF DeadLetter, TypeOK, JobState
    <2>2. UNCHANGED <<delivery, branch, runner, sent, overlaps>>
      BY <1>1 DEF DeadLetter, store, history, bounds
    <2>3. (overlaps = 0) => CountedDelivery(d)'
      BY <2>1, <2>2 DEF CountedInv, CountedDelivery
    <2> QED BY <2>1, <2>2, <2>3, CountedElsewhere
  <1>2. CASE Expire(d)
    <2>1. /\ \A e \in Ids : e # d => delivery'[e] = delivery[e]
          /\ delivery'[d].status = "expired"
      BY <1>2, ExpireIs
    <2>2. /\ ~Held(d) /\ ~Unfinished(d)
          /\ UNCHANGED <<job, branch, runner, sent, overlaps>>
      BY <1>2 DEF Expire, history
    <2>3. (overlaps = 0) => CountedDelivery(d)'
      BY <2>1, <2>2 DEF CountedInv, CountedDelivery, Unfinished
    <2> QED BY <2>1, <2>2, <2>3, CountedElsewhere
  <1>3. CASE Purge(d)
    <2>1. /\ \A e \in Ids : e # d => delivery'[e] = delivery[e]
          /\ delivery'[d].status = "absent"
      BY <1>3, PurgeIs
    <2>2. /\ delivery[d].status = "expired"
          /\ delivery'[d].attempts = delivery[d].attempts
          /\ UNCHANGED <<job, branch, runner, sent, overlaps>>
      BY <1>3 DEF Purge, history, bounds, TypeOK, DeliveryState
    <2>3. (overlaps = 0) => CountedDelivery(d)'
      BY <2>1, <2>2 DEF CountedInv, CountedDelivery, Live
    <2>4. delivery'[d].status \notin Live
      BY <2>1 DEF Live
    <2> QED BY <2>1, <2>2, <2>3, <2>4, CountedElsewhere
  <1> QED BY <1>1, <1>2, <1>3

\* Receive: the first run of a job that has none counts one more receive.
LEMMA ReceiveCounts ==
    ASSUME Inv, CountedInv, NEW x \in Runners, NEW d \in Ids, Receive(x, d)
    PROVE  CountedInv'
  <1> SUFFICES ASSUME overlaps' = 0
               PROVE  /\ OneRun'
                      /\ \A e \in Ids : CountedDelivery(e)'
                      /\ \A y \in Runners : CountedRun(y)'
    BY DEF CountedInv
  <1>1. overlaps = 0 /\ ~Held(d)
    <2>1. overlaps' = IF Held(d) THEN overlaps + 1 ELSE overlaps
      BY ReceiveIs
    <2> QED BY <2>1 DEF Inv, TypeOK
  <1>2. /\ ~Busy(x)
        /\ runner'[x].pc = "load" /\ runner'[x].id = d
        /\ runner'[x].attempt = job[d].receives + 1
        /\ \A y \in Runners : y # x => runner'[y] = runner[y]
        /\ UNCHANGED <<delivery, branch, sent>>
    BY ReceiveIs
  <1>3. /\ \A e \in Ids : /\ job[e].receives \in Nat
                          /\ e # d => job'[e] = job[e]
        /\ job'[d].receives = job[d].receives + 1
    BY ReceiveIs
  <1>4. \A e \in Ids : sent[e] \in Nat
    BY DEF Inv, TypeOK
  <1>5. OneRun'
    BY <1>1, <1>2 DEF CountedInv, OneRun, Busy, Held
  <1>6. \A e \in Ids : CountedDelivery(e)'
    BY <1>1, <1>2, <1>3, <1>4 DEF CountedInv, CountedDelivery
  <1>7. CountedRun(x)'
    <2>1. sent[d] <= job[d].receives
      BY <1>1 DEF CountedInv, CountedDelivery
    <2> QED BY <1>2, <1>3, <1>4, <2>1 DEF CountedRun, Busy
  <1>8. \A y \in Runners : y # x => CountedRun(y)'
    <2> SUFFICES ASSUME NEW y \in Runners, y # x, Busy(y)
                 PROVE  CountedRun(y)'
      BY <1>2 DEF CountedRun, Busy
    <2>1. runner[y].id # d /\ runner[y].id \in Ids
      BY <1>1, BusyHasJob DEF Held
    <2> QED BY <1>1, <1>2, <1>3, <2>1 DEF CountedInv, CountedRun, Busy
  <1> QED BY <1>5, <1>6, <1>7, <1>8

\* The steps of a run: what is left to show is about the run and its delivery.
LEMMA RunCounts ==
    ASSUME Inv, CountedInv, NEW x \in Runners, Busy(x),
           NEW d \in Ids, d = runner[x].id,
           \A e \in Ids : /\ e # d => delivery'[e] = delivery[e] /\ sent'[e] = sent[e]
                          /\ job'[e].receives = job[e].receives,
           UNCHANGED <<branch, overlaps>>,
           \A y \in Runners : y # x => runner'[y] = runner[y],
           runner'[x].pc = "idle" \/ runner'[x].id = d,
           overlaps = 0 => CountedDelivery(d)' /\ CountedRun(x)'
    PROVE  CountedInv'
  <1> SUFFICES ASSUME overlaps = 0
               PROVE  /\ OneRun'
                      /\ \A e \in Ids : CountedDelivery(e)'
                      /\ \A y \in Runners : CountedRun(y)'
    BY DEF CountedInv
  <1>1. OneRun /\ (\A e \in Ids : CountedDelivery(e)) /\ (\A y \in Runners : CountedRun(y))
    BY DEF CountedInv
  <1>2. /\ OneRun'
        /\ \A e \in Ids : e # d => CountedDelivery(e)'
        /\ \A y \in Runners : y # x => CountedRun(y)'
    BY <1>1, CountedOthers
  <1> QED BY <1>2


\* The numbers of a run and of its delivery.
LEMMA RunNumbers ==
    ASSUME Inv, NEW x \in Runners, Busy(x), NEW d \in Ids, d = runner[x].id
    PROVE  /\ sent[d] \in Nat /\ job[d].receives \in Nat
           /\ delivery[d].attempts \in Nat
           /\ runner[x].attempt \in Nat /\ runner[x].attempts \in Nat
  BY DEF Inv, TypeOK, JobState, DeliveryState, RunState

\* Load and ReadEndpoint change neither record nor count of requests.
LEMMA ReadingCounts ==
    ASSUME Inv, CountedInv, NEW x \in Runners, Load(x) \/ ReadEndpoint(x)
    PROVE  CountedInv'
  <1>0. Busy(x) /\ runner[x].pc \in {"load", "endpoint"}
    BY LoadIs, ReadEndpointIs
  <1>1. PICK d \in Ids : d = runner[x].id
    BY <1>0, BusyHasJob
  <1>2. UNCHANGED <<delivery, job, branch, sent, overlaps>>
    BY LoadIs, ReadEndpointIs
  <1>3. PICK to \in {"endpoint", "create", "begin", "cancel"}, n \in Nat :
           Moves(x, to, n, runner[x].answer)
    <2>1. runner[x].attempts \in Nat
      BY <1>0, <1>1, RunNumbers
    <2> QED BY <2>1, LoadIs, ReadEndpointIs
  <1>4. overlaps = 0 => CountedDelivery(d)' /\ CountedRun(x)'
    BY <1>0, <1>1, <1>2, <1>3 DEF CountedInv, CountedDelivery, CountedRun, Busy, Moves
  <1> QED BY <1>0, <1>1, <1>2, <1>3, <1>4, RunCounts DEF Moves

\* Recreate: a record that an unfinished branch counts on is there already.
LEMMA RecreateCounts ==
    ASSUME Inv, CountedInv, NEW x \in Runners, Recreate(x)
    PROVE  CountedInv'
  <1>0. /\ Busy(x) /\ runner[x].pc = "create"
        /\ UNCHANGED <<job, branch, sent, overlaps>>
        /\ Moves(x, "endpoint", runner[x].attempts, runner[x].answer)
    BY RecreateIs
  <1>1. PICK d \in Ids : d = runner[x].id
    BY <1>0, BusyHasJob
  <1>2. /\ \A e \in Ids : e # d => delivery'[e] = delivery[e]
        /\ delivery[d].status = "absent" => delivery'[d].status = "pending"
        /\ delivery[d].status # "absent" => delivery'[d] = delivery[d]
    BY <1>1, RecreateIs
  <1>3. overlaps = 0 => CountedDelivery(d)'
    BY <1>0, <1>2 DEF CountedInv, CountedDelivery, Live
  <1>4. overlaps = 0 => CountedRun(x)'
    BY <1>0, <1>1 DEF CountedInv, CountedRun, Busy, Moves
  <1> QED BY <1>0, <1>1, <1>2, <1>3, <1>4, RunCounts DEF Moves

\* CancelDelivery keeps the count of the record.
LEMMA CancelDeliveryCounts ==
    ASSUME Inv, CountedInv, NEW x \in Runners, CancelDelivery(x)
    PROVE  CountedInv'
  <1>0. /\ Busy(x) /\ runner[x].pc = "cancel"
        /\ UNCHANGED <<job, branch, sent, overlaps>>
        /\ Moves(x, "return", runner[x].attempts, runner[x].answer)
    BY CancelDeliveryIs
  <1>1. PICK d \in Ids : d = runner[x].id
    BY <1>0, BusyHasJob
  <1>2. /\ \A e \in Ids : e # d => delivery'[e] = delivery[e]
        /\ delivery[d].status \in Live =>
              /\ delivery'[d].status = "cancelled"
              /\ delivery'[d].attempts = delivery[d].attempts
        /\ delivery[d].status \notin Live => delivery'[d] = delivery[d]
    BY <1>1, CancelDeliveryIs
  <1>3. overlaps = 0 => CountedDelivery(d)'
    BY <1>0, <1>2 DEF CountedInv, CountedDelivery, Live
  <1>4. overlaps = 0 => CountedRun(x)'
    BY <1>0, <1>1 DEF CountedInv, CountedRun, Busy, Moves
  <1> QED BY <1>0, <1>1, <1>2, <1>3, <1>4, RunCounts DEF Moves

\* BeginAttempt: the new count is at least the attempt, which no request has
\* been made for.
LEMMA BeginAttemptCounts ==
    ASSUME Inv, CountedInv, NEW x \in Runners, BeginAttempt(x)
    PROVE  CountedInv'
  <1>0. /\ Busy(x) /\ runner[x].pc = "begin"
        /\ UNCHANGED <<job, branch, sent, overlaps>>
    BY BeginAttemptIs
  <1>1. PICK d \in Ids : d = runner[x].id
    BY <1>0, BusyHasJob
  <1>2. /\ \A e \in Ids : e # d => delivery'[e] = delivery[e]
        /\ delivery[d].status \notin Live => delivery'[d] = delivery[d]
    BY <1>1, BeginAttemptIs
  <1>3. PICK n \in Nat :
           /\ n >= runner[x].attempt
           /\ Moves(x, "request", n, runner[x].answer)
           /\ delivery[d].status \in Live =>
                /\ delivery'[d].status = "delivering"
                /\ delivery'[d].attempts = n
    BY <1>1, BeginAttemptIs
  <1>4. overlaps = 0 => /\ sent[d] < runner[x].attempt
                        /\ runner[x].attempt = job[d].receives
                        /\ CountedDelivery(d)
    BY <1>0, <1>1 DEF CountedInv, CountedRun
  <1>5. /\ sent[d] \in Nat /\ job[d].receives \in Nat
        /\ runner[x].attempt \in Nat
    BY <1>0, <1>1, RunNumbers
  <1>6. overlaps = 0 => n > sent[d]
    BY <1>3, <1>4, <1>5
  <1>7. overlaps = 0 => CountedDelivery(d)'
    BY <1>0, <1>2, <1>3, <1>4, <1>5, <1>6 DEF CountedDelivery, Live
  <1>8. overlaps = 0 => CountedRun(x)'
    <2>1. /\ runner'[x].id = d /\ runner'[x].pc = "request"
          /\ runner'[x].attempt = runner[x].attempt /\ runner'[x].attempts = n
      BY <1>1, <1>3 DEF Moves
    <2>2. delivery'[d].status \in Live => delivery'[d].attempts = n
      BY <1>2, <1>3
    <2> QED BY <1>0, <1>4, <1>6, <2>1, <2>2 DEF CountedRun
  <1> QED BY <1>0, <1>1, <1>2, <1>3, <1>7, <1>8, RunCounts DEF Moves

\* Request: the request it counts was counted before.
LEMMA RequestCounts ==
    ASSUME Inv, CountedInv, NEW x \in Runners,
           NEW answer \in {"ok", "failed"}, Request(x, answer)
    PROVE  CountedInv'
  <1>0. /\ Busy(x) /\ runner[x].pc = "request"
        /\ UNCHANGED <<delivery, job, branch, overlaps>>
        /\ Moves(x, "record", runner[x].attempts, answer)
    BY RequestIs
  <1>1. PICK d \in Ids : d = runner[x].id
    BY <1>0, BusyHasJob
  <1>2. /\ sent'[d] = sent[d] + 1
        /\ \A e \in Ids : e # d => sent'[e] = sent[e]
    BY <1>1, RequestIs
  <1>3. overlaps = 0 => /\ sent[d] < runner[x].attempt
                        /\ runner[x].attempt = job[d].receives
                        /\ runner[x].attempts > sent[d]
                        /\ delivery[d].status \in Live => delivery[d].attempts > sent[d]
                        /\ CountedDelivery(d)
    BY <1>0, <1>1 DEF CountedInv, CountedRun
  <1>4. /\ sent[d] \in Nat /\ job[d].receives \in Nat
        /\ delivery[d].attempts \in Nat
        /\ runner[x].attempt \in Nat /\ runner[x].attempts \in Nat
    BY <1>0, <1>1, RunNumbers
  <1>5. overlaps = 0 => CountedDelivery(d)'
    <2>1. {"delivering", "succeeded", "failed"} \subseteq Live
      BY DEF Live
    <2> QED BY <1>0, <1>2, <1>3, <1>4, <2>1 DEF CountedDelivery
  <1>6. overlaps = 0 => CountedRun(x)'
    <2>1. /\ runner'[x].id = d /\ runner'[x].pc = "record"
          /\ runner'[x].attempt = runner[x].attempt
          /\ runner'[x].attempts = runner[x].attempts
      BY <1>0, <1>1 DEF Moves
    <2> QED BY <1>0, <1>2, <1>3, <1>4, <2>1 DEF CountedRun
  <1> QED BY <1>0, <1>1, <1>2, <1>5, <1>6, RunCounts DEF Moves

\* RecordAnswer writes a count that covers the request.
LEMMA RecordAnswerCounts ==
    ASSUME Inv, CountedInv, NEW x \in Runners, RecordAnswer(x)
    PROVE  CountedInv'
  <1>0. /\ Busy(x) /\ runner[x].pc = "record"
        /\ UNCHANGED <<job, branch, sent, overlaps>>
        /\ Moves(x, "return", runner[x].attempts, runner[x].answer) \/ Ends(x)
    BY RecordAnswerIs
  <1>1. PICK d \in Ids : d = runner[x].id
    BY <1>0, BusyHasJob
  <1>2. /\ \A e \in Ids : e # d => delivery'[e] = delivery[e]
        /\ delivery[d].status \in Live =>
              /\ delivery'[d].status \in {"succeeded", "failed"}
              /\ delivery'[d].attempts = runner[x].attempts
        /\ delivery[d].status \notin Live => delivery'[d] = delivery[d]
    BY <1>1, RecordAnswerIs
  <1>3. overlaps = 0 => /\ runner[x].attempt = job[d].receives
                        /\ runner[x].attempts >= sent[d]
                        /\ CountedDelivery(d)
    BY <1>0, <1>1 DEF CountedInv, CountedRun
  <1>4. overlaps = 0 => CountedDelivery(d)'
    BY <1>0, <1>2, <1>3 DEF CountedDelivery, Live
  <1>5. overlaps = 0 => CountedRun(x)'
    BY <1>0, <1>1, <1>3 DEF CountedRun, Busy, Moves, Ends
  <1> QED BY <1>0, <1>1, <1>2, <1>4, <1>5, RunCounts DEF Moves, Ends

\* A run that is over has nothing to count.
LEMMA EndCounts ==
    ASSUME Inv, CountedInv, NEW x \in Runners, Acknowledge(x) \/ LoseRun(x)
    PROVE  CountedInv'
  <1>0. /\ Busy(x) /\ Ends(x)
        /\ UNCHANGED <<delivery, branch, sent, overlaps>>
    BY AcknowledgeIs, IdleEnds DEF LoseRun, Inv, store, history
  <1>1. PICK d \in Ids : d = runner[x].id
    BY <1>0, BusyHasJob
  <1>2. \A e \in Ids : job'[e].receives = job[e].receives
    BY AcknowledgeIs DEF LoseRun
  <1>3. overlaps = 0 => CountedDelivery(d)' /\ CountedRun(x)'
    BY <1>0, <1>2 DEF CountedInv, CountedDelivery, CountedRun, Busy, Ends
  <1> QED BY <1>0, <1>1, <1>2, <1>3, RunCounts DEF Ends

\* Every step keeps the counts.
LEMMA NextCounts == Inv /\ CountedInv /\ [Next]_vars => CountedInv'
  <1> SUFFICES ASSUME Inv, CountedInv, [Next]_vars PROVE CountedInv'
    OBVIOUS
  <1>1. CASE UNCHANGED vars
    BY <1>1, CallsCount DEF vars, store, history, bounds
  <1>2. CASE \E w \in Webhooks :
               \/ \E late \in BOOLEAN :
                    \/ CreateWebhook(w, late)
                    \/ DeleteWebhook(w, late)
                    \/ \E status \in Enabled \cup {"disabled"} :
                         UpdateWebhook(w, status, late)
               \/ Reindex(w)
    BY <1>2, CallsCount
    DEF CreateWebhook, UpdateWebhook, DeleteWebhook, Change, Reindex, history, bounds
  <1>3. CASE \E c \in Publications : Publish(c)
    BY <1>3, CallsCount DEF Publish, store, history, bounds
  <1>4. CASE \E c \in Calls : PageDone(c)
    BY <1>4, CallsCount DEF PageDone, store, history, bounds
  <1>5. CASE \E c \in Publications : ListWebhooks(c)
    <2>1. UNCHANGED <<delivery, job, runner, sent, overlaps>>
      BY <1>5 DEF ListWebhooks, store, history, bounds
    <2>2. \A e \in Ids : branch'[e] \in {branch[e], "create"}
      BY <1>5 DEF ListWebhooks
    <2> QED BY <2>1, <2>2, CallsCount
  <1>6. CASE \E c \in Replays, d \in Ids : Replay(c, d)
    <2>1. UNCHANGED <<delivery, job, runner, sent, overlaps>>
      BY <1>6 DEF Replay, store, history, bounds
    <2>2. \A e \in Ids : branch'[e] \in {branch[e], "create"}
      BY <1>6 DEF Replay, Inv, TypeOK
    <2> QED BY <2>1, <2>2, CallsCount
  <1>7. CASE \E d \in Ids :
               \/ CreateRecord(d) \/ EnqueueJob(d) \/ MarkFailed(d)
               \/ DeadLetter(d) \/ Expire(d) \/ Purge(d)
    BY <1>7, CreateRecordCounts, EnqueueJobCounts, MarkFailedCounts, QueueCounts
  <1>8. CASE \E c \in Calls : LoseCall(c)
    <2>1. UNCHANGED <<delivery, job, runner, sent, overlaps>>
      BY <1>8 DEF LoseCall, store, history
    <2>2. \A e \in Ids : branch'[e] \in {branch[e], "lost"}
      BY <1>8 DEF LoseCall
    <2> QED BY <2>1, <2>2, CallsCount
  <1>9. CASE \E x \in Runners : Deliver(x)
    BY <1>9, ReceiveCounts, ReadingCounts, RecreateCounts, CancelDeliveryCounts,
       BeginAttemptCounts, RequestCounts, RecordAnswerCounts, EndCounts DEF Deliver
  <1> QED BY <1>1, <1>2, <1>3, <1>4, <1>5, <1>6, <1>7, <1>8, <1>9 DEF Next

\* Until two runs of a job overlap, a job has one run, whose attempt is the last
\* receive, and every request was counted in the record before it was made.
THEOREM CountedInvariant == Spec => []CountedInv
  <1>1. Init => CountedInv
    BY DEF Init, CountedInv, OneRun, CountedDelivery, CountedRun, Busy, Idle
  <1> QED BY <1>1, NextCounts, WebhookInvariant, PTL DEF Spec

\* The attempt count of the history covers the requests made, across lost runs
\* and expired records, until two runs of the job overlap.
THEOREM AttemptsCoverRequestsHolds == Spec => []AttemptsCoverRequests
  <1>1. CountedInv => AttemptsCoverRequests
    BY DEF CountedInv, CountedDelivery, AttemptsCoverRequests
  <1> QED BY <1>1, CountedInvariant, PTL

=============================================================================
