--------------------------- MODULE ResendMigration ---------------------------
(* The migration commands of src/cli-resend-migration.ts: the inventory of  *)
(* a workload, canaries that send the same message through HayaSend and     *)
(* Resend and compare how they end, and the go/no-go report on what the     *)
(* operator recorded.                                                       *)
(*                                                                          *)
(* External: the two providers (an e-mail for each idempotency key, whose   *)
(* last event moves on, and may still move after a final event), and the    *)
(* operator, who counts a canary result as a match when it says ok.         *)
EXTENDS Naturals, FiniteSets

CONSTANTS Streams,      \* streams of the workload
          Comparisons,  \* comparison identifiers
          StreamOf,     \* comparison -> the stream it is run for
          Features      \* what a workload may use of Resend

BothProviders == {"HayaSend", "Resend"}
\* Two of TERMINAL_EVENTS: an e-mail moves from sent to delivered, and may be
\* complained about after that.
TerminalEvents == {"delivered", "complained"}
FollowedBy(event) ==
    IF event = "sent" THEN {"delivered"}
    ELSE IF event = "delivered" THEN {"complained"} ELSE {}

VARIABLES lastEvent,  \* provider -> comparison -> last event of its e-mail
          canary,     \* the canary command that runs
          results,    \* comparison -> the last result that was printed for it
          migrationReport      \* the last report

rmVars == <<lastEvent, canary, results, migrationReport>>

IdleCanary == [pc |-> "idle", comparison |-> "none", seen |-> [p \in BothProviders |-> "none"]]
NoResult == [seen |-> [p \in BothProviders |-> "none"], ok |-> FALSE]
NoReport == [decision |-> "none", used |-> {}, verified |-> {}]

RmInit ==
    /\ lastEvent = [p \in BothProviders |-> [c \in Comparisons |-> "none"]]
    /\ canary = IdleCanary
    /\ results = [c \in Comparisons |-> NoResult]
    /\ migrationReport = NoReport

----------------------------------------------------------------------------
(* canaryCommand.                                                           *)

\* A plan prints what would be sent; --apply needs both confirmations and both
\* keys.  A command that is refused, or only plans, changes nothing.
StartCanary(c) ==
    /\ canary.pc = "idle"
    /\ canary' = [IdleCanary EXCEPT !.pc = "HayaSend", !.comparison = c]
    /\ migrationReport' = NoReport
    /\ UNCHANGED <<lastEvent, results>>

\* POST /emails under the comparison's key: a repetition finds the first e-mail.
SendCanary(p) ==
    /\ canary.pc = p
    /\ lastEvent' = [lastEvent EXCEPT ![p][canary.comparison] =
                        IF @ = "none" THEN "sent" ELSE @]
    /\ canary' = [canary EXCEPT !.pc = IF p = "HayaSend" THEN "Resend" ELSE "poll"]
    /\ UNCHANGED <<results, migrationReport>>

\* awaitTerminal, for both providers side by side.
PollCanary(p) ==
    /\ canary.pc = "poll" /\ canary.seen[p] \notin TerminalEvents
    /\ canary' = [canary EXCEPT !.seen[p] = lastEvent[p][canary.comparison]]
    /\ UNCHANGED <<lastEvent, results, migrationReport>>

\* Mutant: equal events match, final or not.
CanaryOk_SameEvent(seen) == seen["HayaSend"] = seen["Resend"]

CanaryOk(seen) ==
    (\A p \in BothProviders : seen[p] \in TerminalEvents) /\ seen["HayaSend"] = seen["Resend"]

\* Both polls ended, with a final event or at their deadline.
PrintResult ==
    /\ canary.pc = "poll"
    /\ results' = [results EXCEPT ![canary.comparison] =
                     [seen |-> canary.seen, ok |-> CanaryOk(canary.seen)]]
    /\ canary' = IdleCanary
    /\ UNCHANGED <<lastEvent, migrationReport>>

\* A request fails or the process ends: nothing is printed, sent stays sent.
AbortCanary ==
    /\ canary.pc # "idle"
    /\ canary' = IdleCanary
    /\ UNCHANGED <<lastEvent, results, migrationReport>>

ProviderEvent(p, c, event) ==
    /\ event \in FollowedBy(lastEvent[p][c])
    /\ lastEvent' = [lastEvent EXCEPT ![p][c] = event]
    /\ UNCHANGED <<canary, results, migrationReport>>

----------------------------------------------------------------------------
(* The report on an inventory and the evidence the operator recorded.       *)

\* resendInventorySchema: each feature in use is assigned to a stream.
AcceptedInventory(inventory) ==
    inventory.used \subseteq UNION {inventory.features[s] : s \in Streams}

\* The counts of a stream: its comparisons that printed a result, and those
\* whose result says ok.
Compared(s) == {c \in Comparisons : StreamOf[c] = s /\ results[c] # NoResult}
Matched(s)  == {c \in Compared(s) : results[c].ok}

\* A stream: enough comparisons, all of which matched, and every feature of the
\* stream verified.
StreamPasses(s, inventory, evidence) ==
    /\ Cardinality(Compared(s)) >= 1
    /\ Cardinality(Matched(s)) = Cardinality(Compared(s))
    /\ inventory.features[s] \subseteq evidence.verified[s]

\* assessResendInventory found no blocker, the gates on the age of the evidence,
\* SES, dogfood, SDK and reconciliation passed, and so did every stream.
GoDecision(inventory, evidence) ==
    /\ ~inventory.blocked
    /\ evidence.gates
    /\ \A s \in Streams : StreamPasses(s, inventory, evidence)

\* A file the schema refuses prints no report.
BuildReport(inventory, evidence) ==
    /\ AcceptedInventory(inventory)
    /\ migrationReport' = IF GoDecision(inventory, evidence)
                   THEN [decision |-> "GO", used |-> inventory.used,
                         verified |-> UNION {evidence.verified[s] : s \in Streams}]
                   ELSE [NoReport EXCEPT !.decision = "NO_GO"]
    /\ UNCHANGED <<lastEvent, canary, results>>

Inventories == [blocked : BOOLEAN, used : SUBSET Features,
                features : [Streams -> SUBSET Features \ {{}}]]
Evidences == [gates : BOOLEAN, verified : [Streams -> SUBSET Features]]

RmNext ==
    \/ \E c \in Comparisons : StartCanary(c)
    \/ \E p \in BothProviders : SendCanary(p) \/ PollCanary(p)
    \/ PrintResult \/ AbortCanary
    \/ \E p \in BothProviders, c \in Comparisons, e \in TerminalEvents :
          ProviderEvent(p, c, e)
    \/ canary.pc = "idle" /\ \E i \in Inventories, e \in Evidences : BuildReport(i, e)

RmSpec == RmInit /\ [][RmNext]_rmVars

----------------------------------------------------------------------------
\* A GO stands on what happened: when the report decides it, every feature the
\* workload uses was verified in some stream, and for every stream some canary
\* saw the e-mails of both providers end in the same final event.
GoIsEarned ==
    [][migrationReport'.decision = "GO" /\ migrationReport # migrationReport' =>
          /\ migrationReport'.used \subseteq migrationReport'.verified
          /\ \A s \in Streams : \E c \in Comparisons :
                /\ StreamOf[c] = s
                /\ \E e \in TerminalEvents : \A p \in BothProviders :
                      /\ results[c].seen[p] = e
                      /\ lastEvent[p][c] \in {e} \cup FollowedBy(e)]_rmVars
=============================================================================
