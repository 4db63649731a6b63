------------------------ MODULE CloudflareDeployment ------------------------
(* The operator's commands on Cloudflare: deployCloudflare (deploy, and     *)
(* upgrade of an existing database), rollbackCloudflare, cleanupCloudflare, *)
(* ensureCloudflareEmailSubscription and the doctors.  Each is a sequence   *)
(* of wrangler calls; a deployment stops at the first that fails, a cleanup *)
(* notes it and goes on.  Runs interleave, and may be cut short.            *)
(*                                                                          *)
(* Cloudflare itself is external: names are unique, a bucket is deleted     *)
(* only when it is empty, a Worker is deployed only when its bindings exist.*)
EXTENDS Naturals, Sequences, FiniteSets

CONSTANTS Runs,      \* runs of the command line
          CfCommands,
          Builds,    \* versions of the package, each with its schema number
          MaxCfFaults

ASSUME BuildsAreNumbers == Builds \subseteq Nat \ {0}

Queues == {"jobs", "dlq", "events"}
Resources == {"d1", "r2", "worker"} \cup Queues

VARIABLES cloud,  \* what the account holds under the deterministic names
          runs,   \* the local state of each run
          cfFaults

cfVars == <<cloud, runs, cfFaults>>

\* A Worker version: the build it was made of and the database it is bound to.
NoVersion == [build |-> 0, db |-> 0]

IdleRun == [pc |-> "idle", cmd |-> "none", build |-> 0, db |-> 0, keys |-> {},
            version |-> NoVersion, unresolved |-> FALSE, alone |-> TRUE,
            tries |-> 0]

NothingDeployed ==
    [present |-> {}, db |-> 0, schema |-> 0, consumers |-> {}, subscriptions |-> 0,
     versions |-> {}, active |-> NoVersion, objects |-> {}]

\* An account on which a build has been deployed, subscribed and used.
Deployed(build) ==
    LET v == [build |-> build, db |-> 1] IN
    [present |-> Resources, db |-> 1, schema |-> build, consumers |-> Queues,
     subscriptions |-> 1, versions |-> {v}, active |-> v, objects |-> {"payload"}]

CfInit ==
    /\ cloud \in {NothingDeployed} \cup {Deployed(b) : b \in Builds}
    /\ runs = [o \in Runs |-> IdleRun]
    /\ cfFaults = 0

Doing(o, point)  == runs[o].pc = point
Step(o, point)   == runs' = [runs EXCEPT ![o].pc = point]
Note(o, r, point) == runs' = [runs EXCEPT ![o] = [r EXCEPT !.pc = point]]
Building(o)   == runs[o].cmd \in {"deploy", "upgrade"}
Ended(o)      == runs[o].pc \in {"idle", "planned", "ok", "failed", "complete", "unresolved"}

Fault == cfFaults < MaxCfFaults /\ cfFaults' = cfFaults + 1

\* The plan is printed; --apply needs the account repeated and, for a Worker,
\* a domain, a recipient and a key.
requireMutationConfirmation(first, apply, confirmed) ==
    IF ~apply THEN "planned" ELSE IF confirmed THEN first ELSE "failed"

\* What each command of the command line starts with.
deployCloudflareCommand(build, apply, confirmed) ==
    [IdleRun EXCEPT !.cmd = "deploy", !.build = build,
                    !.pc = requireMutationConfirmation("d1", apply, confirmed)]

upgradeCloudflareCommand(build, apply, confirmed) ==
    [IdleRun EXCEPT !.cmd = "upgrade", !.build = build, !.db = cloud.db,
                    !.pc = requireMutationConfirmation("migrate", apply, confirmed)]

rollbackCloudflareCommand(apply, confirmed) ==
    [IdleRun EXCEPT !.cmd = "rollback",
                    !.pc = requireMutationConfirmation("rollback", apply, confirmed)]

cleanupCloudflareCommand(apply, confirmed) ==
    [IdleRun EXCEPT !.cmd = "cleanup",
                    !.pc = requireMutationConfirmation("subscriptions", apply, confirmed)]

subscribeCloudflareCommand == [IdleRun EXCEPT !.cmd = "subscribe", !.pc = "lookup"]

doctorCloudflareCommand == [IdleRun EXCEPT !.cmd = "doctor", !.pc = "examine"]

StartOf(cmd, build, apply, confirmed) ==
    IF cmd = "deploy" THEN deployCloudflareCommand(build, apply, confirmed)
    ELSE IF cmd = "upgrade" THEN upgradeCloudflareCommand(build, apply, confirmed)
    ELSE IF cmd = "rollback" THEN rollbackCloudflareCommand(apply, confirmed)
    ELSE IF cmd = "cleanup" THEN cleanupCloudflareCommand(apply, confirmed)
    ELSE IF cmd = "subscribe" THEN subscribeCloudflareCommand
    ELSE doctorCloudflareCommand

BeginRun(o, cmd, build, apply, confirmed) ==
    /\ Doing(o, "idle")
    /\ cmd = "upgrade" => cloud.db > 0
    /\ runs' = [x \in Runs |->
         IF x = o
         THEN [StartOf(cmd, build, apply, confirmed) EXCEPT
                 !.alone = \A y \in Runs \ {o} : Ended(y) \/ ~Building(y)]
         ELSE [runs[x] EXCEPT !.alone = @ /\ cmd \notin {"deploy", "upgrade"}]]
    /\ UNCHANGED <<cloud, cfFaults>>

\* A run is interrupted, or one of its calls fails before it has an effect.
RunStops(o) ==
    /\ ~Ended(o) /\ Fault
    /\ Step(o, "failed")
    /\ UNCHANGED cloud

----------------------------------------------------------------------------
(* deploy and upgrade.                                                      *)

CreationOrder == <<"d1", "r2", "jobs", "dlq", "events">>

AfterCreation(point) ==
    IF point = "events" THEN "listed"
    ELSE CreationOrder[1 + CHOOSE i \in 1 .. 5 : CreationOrder[i] = point]

\* d1 create (and the list that tells its identifier), r2 bucket create and
\* the three queues create; a name that is taken fails the run.
CreateResource(o) ==
    LET x == runs[o].pc IN
    /\ runs[o].cmd = "deploy" /\ \E i \in 1 .. 5 : CreationOrder[i] = x
    /\ IF x \in cloud.present THEN Step(o, "failed") /\ UNCHANGED cloud
       ELSE /\ cloud' = [cloud EXCEPT !.present = @ \cup {x},
                           !.db = IF x = "d1" THEN @ + 1 ELSE @,
                           !.schema = IF x = "d1" THEN 0 ELSE @,
                           !.objects = IF x = "r2" THEN {} ELSE @,
                           !.subscriptions = IF x = "events" THEN 0 ELSE @]
            /\ Note(o, [runs[o] EXCEPT !.db = cloud'.db], AfterCreation(x))
    /\ UNCHANGED cfFaults

\* A new queue must not have a subscription.
CheckSubscriptions(o) ==
    /\ Doing(o, "listed")
    /\ Step(o, IF "events" \in cloud.present /\ cloud.subscriptions = 0
               THEN "migrate" ELSE "failed")
    /\ UNCHANGED <<cloud, cfFaults>>

\* Mutant: the last writer decides.
Larger_Last(a, b) == b

Larger(a, b) == IF a > b THEN a ELSE b

\* d1 migrations apply: additive, so a database that is ahead stays ahead.
ApplyMigrations(o) ==
    /\ Doing(o, "migrate")
    /\ IF "d1" \in cloud.present /\ cloud.db = runs[o].db
       THEN /\ cloud' = [cloud EXCEPT !.schema = Larger(@, runs[o].build)]
            /\ Step(o, IF runs[o].cmd = "deploy" THEN "deploy" ELSE "upload")
       ELSE Step(o, "failed") /\ UNCHANGED cloud
    /\ UNCHANGED cfFaults

Bound(o) == ({"d1", "r2"} \cup Queues) \subseteq cloud.present /\ cloud.db = runs[o].db

VersionOf(o) == [build |-> runs[o].build, db |-> runs[o].db]

\* wrangler deploy, for a first deployment: one call uploads the version, sends
\* all traffic to it and attaches the queue consumers.
DeployWorker(o) ==
    /\ Doing(o, "deploy")
    /\ IF Bound(o)
       THEN /\ cloud' = [cloud EXCEPT !.present = @ \cup {"worker"},
                           !.versions = @ \cup {VersionOf(o)},
                           !.active = VersionOf(o), !.consumers = Queues]
            /\ Step(o, "ok")
       ELSE Step(o, "failed") /\ UNCHANGED cloud
    /\ UNCHANGED cfFaults

\* versions upload, for an upgrade.
UploadVersion(o) ==
    /\ Doing(o, "upload")
    /\ IF Bound(o) /\ "worker" \in cloud.present
       THEN /\ cloud' = [cloud EXCEPT !.versions = @ \cup {VersionOf(o)}]
            /\ Note(o, [runs[o] EXCEPT !.version = VersionOf(o)], "activate")
       ELSE Step(o, "failed") /\ UNCHANGED cloud
    /\ UNCHANGED cfFaults

ActivationTries == 2   \* stands for the ten attempts of the code

\* versions deploy: retried while the version still propagates (code 10013).
ActivateVersion(o) ==
    /\ Doing(o, "activate")
    /\ \/ /\ "worker" \in cloud.present
          /\ cloud' = [cloud EXCEPT !.active = runs[o].version]
          /\ Step(o, "ok")
       \/ /\ Note(o, [runs[o] EXCEPT !.tries = @ + 1],
                  IF runs[o].tries + 1 < ActivationTries THEN "activate" ELSE "failed")
          /\ UNCHANGED cloud
    /\ UNCHANGED cfFaults

\* wrangler rollback: all traffic to a version uploaded before.
Rollback(o) ==
    /\ Doing(o, "rollback")
    /\ \/ /\ "worker" \in cloud.present
          /\ \E v \in cloud.versions : cloud' = [cloud EXCEPT !.active = v]
          /\ Step(o, "ok")
       \/ Step(o, "failed") /\ UNCHANGED cloud
    /\ UNCHANGED cfFaults

----------------------------------------------------------------------------
(* The event subscription and the doctors.                                  *)

\* ensureCloudflareEmailSubscription reads the queue and its subscriptions...
LookUpSubscription(o) ==
    /\ Doing(o, "lookup")
    /\ Step(o, IF "events" \notin cloud.present \/ cloud.subscriptions > 1
               THEN "failed"
               ELSE IF cloud.subscriptions = 1 THEN "ok" ELSE "create")
    /\ UNCHANGED <<cloud, cfFaults>>

\* ... and creates one when it saw none.
CreateSubscription(o) ==
    /\ Doing(o, "create")
    /\ IF "events" \in cloud.present
       THEN cloud' = [cloud EXCEPT !.subscriptions = @ + 1] /\ Step(o, "ok")
       ELSE Step(o, "failed") /\ UNCHANGED cloud
    /\ UNCHANGED cfFaults

doctorCloudflareEmailEvents == cloud.subscriptions = 1

\* The deployment that answers, after retries, is the one asked for.
doctorCloudflare(build) == "worker" \in cloud.present /\ cloud.active.build = build

doctorCloudflareSendingDomain(zone) == zone = {"enabled", "synced"}

\* Not a routing destination, and none was left unread.
doctorCloudflareDeliveryRecipient(found, truncated) == ~found /\ ~truncated

Examine(o) ==
    /\ Doing(o, "examine")
    /\ \E healthy \in
         {doctorCloudflareEmailEvents} \cup {doctorCloudflare(b) : b \in Builds}
         \cup {doctorCloudflareSendingDomain(z) : z \in SUBSET {"enabled", "synced", "locked"}}
         \cup {doctorCloudflareDeliveryRecipient(f, t) : f, t \in BOOLEAN} :
           Step(o, IF healthy THEN "ok" ELSE "failed")
    /\ UNCHANGED <<cloud, cfFaults>>

\* The deployed Worker stores a payload and then the row that refers to it.
StorePayload(payload) ==
    /\ {"worker", "d1", "r2"} \subseteq cloud.present /\ cloud.active.db = cloud.db
    /\ cloud' = [cloud EXCEPT !.objects = @ \cup {payload}]
    /\ UNCHANGED <<runs, cfFaults>>

----------------------------------------------------------------------------
(* cleanup: every call is best effort, and what it could not do is counted. *)

CleanupOrder == <<"subscriptions", "consumers", "worker", "keys", "objects",
                  "r2", "jobs", "dlq", "events", "d1", "result">>

AfterCleanup(point) ==
    CleanupOrder[1 + CHOOSE i \in 1 .. 10 : CleanupOrder[i] = point]

Without(x) == [cloud EXCEPT !.present = @ \ {x},
                 !.active = IF x = "worker" THEN NoVersion ELSE @,
                 !.versions = IF x = "worker" THEN {} ELSE @,
                 !.subscriptions = IF x = "events" THEN 0 ELSE @,
                 !.consumers = IF x = "worker" THEN {} ELSE @ \ {x}]

\* What a deletion leaves; absence counts as done, a bucket with objects stays.
Deleted(point, keys) ==
    IF point = "subscriptions" THEN [cloud EXCEPT !.subscriptions = 0]
    ELSE IF point = "consumers" THEN [cloud EXCEPT !.consumers = {}]
    ELSE IF point = "objects" THEN [cloud EXCEPT !.objects = @ \ keys]
    ELSE IF point = "r2" /\ cloud.objects # {} THEN cloud
    ELSE Without(point)

\* bestEffortWrangler says ok.
BestEffortOk(point) == point = "r2" => "r2" \notin cloud.present \/ cloud.objects = {}

\* Mutant: a failed deletion of the Worker is taken as done.
Resolved_Any(point, after) == point = "worker"

\* The Worker's deletion that failed is taken as done when the Worker is found
\* to be absent.
Resolved(point, after) == point = "worker" /\ "worker" \notin after.present

CleanupCall(o) ==
    LET point == runs[o].pc IN
    /\ runs[o].cmd = "cleanup"
    /\ point \notin {"keys", "result"} /\ ~Ended(o)
    /\ \/ /\ cloud' = Deleted(point, runs[o].keys)
          /\ Note(o, [runs[o] EXCEPT !.unresolved = @ \/ ~BestEffortOk(point)],
                  AfterCleanup(point))
          /\ UNCHANGED cfFaults
       \/ /\ cloud' \in {cloud, Deleted(point, runs[o].keys)} /\ Fault
          /\ Note(o, [runs[o] EXCEPT !.unresolved = @ \/ ~Resolved(point, cloud')],
                  AfterCleanup(point))

\* The payload references are read from D1; a failing query reads as none.
ReadPayloadKeys(o) ==
    /\ Doing(o, "keys")
    /\ \/ /\ Note(o, [runs[o] EXCEPT !.keys =
                 IF "d1" \in cloud.present THEN cloud.objects \ {"orphan"} ELSE {}],
                  "objects")
          /\ UNCHANGED cfFaults
       \/ Fault /\ Step(o, "objects")
    /\ UNCHANGED cloud

CleanupResult(o) ==
    /\ Doing(o, "result")
    /\ Step(o, IF runs[o].unresolved THEN "unresolved" ELSE "complete")
    /\ UNCHANGED <<cloud, cfFaults>>

----------------------------------------------------------------------------

CfNext ==
    \/ \E x \in {"payload", "orphan"} : StorePayload(x)
    \/ \E o \in Runs :
         \/ \E cmd \in CfCommands, b \in Builds, apply, confirmed \in BOOLEAN :
              BeginRun(o, cmd, b, apply, confirmed)
         \/ RunStops(o)
         \/ CreateResource(o)
         \/ CheckSubscriptions(o)
         \/ ApplyMigrations(o)
         \/ DeployWorker(o)
         \/ UploadVersion(o)
         \/ ActivateVersion(o)
         \/ Rollback(o)
         \/ LookUpSubscription(o)
         \/ CreateSubscription(o)
         \/ Examine(o)
         \/ CleanupCall(o)
         \/ ReadPayloadKeys(o)
         \/ CleanupResult(o)

CfSpec == CfInit /\ [][CfNext]_cfVars

----------------------------------------------------------------------------

\* A cleanup that reports itself complete, with no deployment running beside
\* it, has left nothing: not a queue, not the bucket whose objects it could not
\* list, not the Worker whose deletion failed, whatever was missing before and
\* whichever of its calls took effect without answering.
CompleteMeansGone ==
    \A o \in Runs :
        Doing(o, "result") /\ ~runs[o].unresolved /\ runs[o].alone
            => cloud.present = {} /\ cloud.subscriptions = 0

\* The Worker that serves never meets a schema older than its own, through
\* interleaved upgrades, failed activations and rollbacks to other versions.
ServedSchemaIsMigrated ==
    cloud.active.db = cloud.db /\ "d1" \in cloud.present
        => cloud.schema >= cloud.active.build
=============================================================================
