--------------------------- MODULE AwsDeployment ---------------------------
(* The operator's commands on AWS: `deploy aws` and `upgrade aws`           *)
(* (deployAws), `cleanup aws` (cleanupAws), `status aws` (statusAws) and    *)
(* `bootstrap aws` (bootstrapAws).  Several sessions run at once, from      *)
(* terminals and from CI, against one application stack and one bootstrap   *)
(* stack.  Every call of the AWS or SAM command line is a step of its own;  *)
(* a call may fail, and a call that changes something may fail after it has *)
(* changed it (the runner kills a command at its timeout).                  *)
(*                                                                          *)
(* CloudFormation is external: change sets, their execution, termination    *)
(* protection, stack policies and retained resources behave as the commands *)
(* rely on them.                                                            *)
EXTENDS Naturals, FiniteSets

CONSTANTS Sessions,      \* runs of the command line
          Commands,      \* the commands they may run
          Existing,      \* the application stacks there may be at the start
          Changes,       \* the resource changes an update may propose
          MaxFaults,     \* failing calls
          MaxGeneration  \* creations of the application stack

ASSUME SessionsAreFinite == IsFiniteSet(Sessions)
ASSUME GenerationsAreCounted == MaxGeneration \in Nat \ {0}
ASSUME ChangesAreTold ==
    Changes \subseteq [action : STRING, replacement : STRING, policyAction : STRING]

STABLE_STACK_STATUSES ==
    {"CREATE_COMPLETE", "UPDATE_COMPLETE", "UPDATE_ROLLBACK_COMPLETE", "IMPORT_COMPLETE"}

CLEANUP_SAFE_STACK_STATUSES == STABLE_STACK_STATUSES \cup {"ROLLBACK_COMPLETE"}

InProgress == {"CREATE_IN_PROGRESS", "UPDATE_IN_PROGRESS", "DELETE_IN_PROGRESS"}

VARIABLES stacks,      \* what CloudFormation holds of each target
          changeSets,  \* the change sets it lists
          resources,   \* generation -> contents of its retained resources
          sessions,    \* the local state of each run
          faults,      \* failing calls so far
          effects,     \* the change sets executed and the resources purged
          alone        \* the run beside which no other was under way since it
                       \* began, and after which none has begun; or none

awsVars == <<stacks, changeSets, resources, sessions, faults, effects, alone>>

NoStack == [status |-> "none", protected |-> FALSE, policy |-> FALSE,
            managed |-> FALSE, generation |-> 0]

Exists(s) == s.status # "none"

AddOnly == [action |-> "Add", replacement |-> "none", policyAction |-> "none"]
Empty   == [action |-> "none", replacement |-> "none", policyAction |-> "none"]
NoSet   == [owner |-> "nobody", target |-> "app", change |-> Empty, done |-> TRUE]

NewSession(cmd, apply, allow, purge, disable) ==
    [pc |-> "idle", cmd |-> cmd, apply |-> apply, allow |-> allow,
     purge |-> purge, disable |-> disable, seen |-> NoStack, before |-> {},
     set |-> NoSet, purgeable |-> FALSE, unprotected |-> FALSE]

IdleSession == NewSession("none", FALSE, FALSE, FALSE, FALSE)

\* A stack there was before: of its first generation, at rest, deployed or
\* with its creation rolled back.
ASSUME ExistingAreAtRest ==
    \A s \in Existing :
        \/ s = NoStack
        \/ s \in [status : CLEANUP_SAFE_STACK_STATUSES, protected : BOOLEAN,
                  policy : BOOLEAN, managed : BOOLEAN, generation : {1}]

AwsInit ==
    /\ \E s \in Existing :
         stacks = [t \in {"app", "bootstrap"} |-> IF t = "app" THEN s ELSE NoStack]
    /\ changeSets = {}
    /\ resources = [g \in 1 .. MaxGeneration |->
                      IF g # stacks["app"].generation THEN "unused"
                      ELSE IF stacks["app"].status = "ROLLBACK_COMPLETE"
                           THEN "empty" ELSE "data"]
    /\ sessions = [o \in Sessions |-> IdleSession]
    /\ faults = 0
    /\ effects = {}
    /\ alone = {}

Target(o) == IF sessions[o].cmd = "bootstrap" THEN "bootstrap" ELSE "app"
Stack(o)  == stacks[Target(o)]
SetsOf(t) == {c \in changeSets : c.target = t}

At(o, point)      == sessions[o].pc = point
Go(o, point)      == sessions' = [sessions EXCEPT ![o].pc = point]
Keep(o, r, point) == sessions' = [sessions EXCEPT ![o] = [r EXCEPT !.pc = point]]
UpdateStack(t, s) == stacks' = [stacks EXCEPT ![t] = s]

----------------------------------------------------------------------------
(* CloudFormation and the application.                                      *)

\* What executing a change does to a retained resource: a removal, a dynamic
\* change, a replacement (certain, conditional or not told) and a policy that
\* does not retain put it out of the stack's reach.
Detaches(c) ==
    \/ c.action \in {"Remove", "Dynamic"}
    \/ c.action = "Modify" /\ c.replacement # "False"
    \/ c.policyAction \notin {"none", "Retain", "Snapshot"}

SettledAs(status) ==
    IF status = "CREATE_IN_PROGRESS" THEN {"CREATE_COMPLETE", "ROLLBACK_COMPLETE"}
    ELSE IF status = "UPDATE_IN_PROGRESS" THEN {"UPDATE_COMPLETE", "UPDATE_ROLLBACK_COMPLETE"}
    ELSE IF status = "DELETE_IN_PROGRESS" THEN {"none", "DELETE_FAILED"} ELSE {}

\* An operation of CloudFormation ends, well or not.
SettleStack(t) ==
    /\ \E end \in SettledAs(stacks[t].status) :
         UpdateStack(t, IF end = "none" THEN NoStack
                        ELSE [stacks[t] EXCEPT !.status = end])
    /\ UNCHANGED <<changeSets, resources, sessions, faults, effects>>

\* The deployed application stores data in its retained resources.
UseApplication ==
    LET g == stacks["app"].generation IN
    /\ stacks["app"].status \in STABLE_STACK_STATUSES
    /\ resources[g] = "empty"
    /\ resources' = [resources EXCEPT ![g] = "data"]
    /\ UNCHANGED <<stacks, changeSets, sessions, faults, effects>>

----------------------------------------------------------------------------
(* Failing calls.                                                           *)

Calls == {"preflight", "build", "before", "create", "after", "describe",
          "execute", "wait", "policy", "protect", "verify", "inspect",
          "disable", "confirm", "delete", "recover", "gone", "purge",
          "drift", "report"}

\* A failing call ends the command.  The deletion is the one call whose
\* failure is handled: when this run switched the protection off, it first
\* tries to switch it on again.
AfterFailure(o) ==
    IF At(o, "delete") /\ sessions[o].unprotected THEN "recover" ELSE "failed"

CallFails(o) ==
    /\ sessions[o].pc \in Calls
    /\ faults < MaxFaults
    /\ faults' = faults + 1
    /\ Go(o, AfterFailure(o))
    /\ UNCHANGED <<stacks, changeSets, resources, effects>>

\* A call has taken effect: it answers, or fails all the same (a timeout).
Answered(o, next) ==
    \/ Go(o, next) /\ UNCHANGED faults
    \/ /\ faults < MaxFaults
       /\ faults' = faults + 1
       /\ Go(o, AfterFailure(o))

----------------------------------------------------------------------------
(* Options.                                                                 *)

LOG_RETENTION_DAYS ==
    {1, 3, 5, 7, 14, 30, 60, 90, 120, 150, 180, 365, 400, 545, 731, 1096,
     1827, 2192, 2557, 2922, 3288, 3653}

OptionLimits ==
    [apiRateLimit |-> <<1, 10000>>, apiBurstLimit |-> <<1, 5000>>,
     logRetentionDays |-> <<1, 3653>>, inboundRetentionDays |-> <<1, 30>>,
     inboundMaxMessageBytes |-> <<1, 41943040>>,
     webhookRetentionDays |-> <<1, 30>>,
     templateHistoryRetentionDays |-> <<1, 365>>,
     templateHistoryLimit |-> <<1, 50>>,
     workerReservedConcurrency |-> <<0, 1000>>,
     workerMaximumConcurrency |-> <<2, 1000>>,
     inboundReservedConcurrency |-> <<0, 1000>>,
     backupRetentionDays |-> <<1, 365>>,
     payloadNoncurrentVersionRetentionDays |-> <<1, 30>>]

requireInteger(value, key) ==
    OptionLimits[key][1] <= value /\ value <= OptionLimits[key][2]

\* The values at and beside the limits of an option.
Boundary(key) ==
    LET low == OptionLimits[key][1]  high == OptionLimits[key][2] IN
    {low, high, high + 1} \cup IF low > 0 THEN {low - 1} ELSE {}

\* normalizeOptions, and the one check cleanupAws makes beside it.
normalizeOptions(r, key, value) ==
    /\ r.allow => r.apply
    /\ r.disable => r.apply
    /\ requireInteger(value, key)
    /\ key = "logRetentionDays" => value \in LOG_RETENTION_DAYS

\* effectiveParameters: the parameters of the stack under the ones given now.
\* p holds the features that end up enabled.
effectiveParameters(p) ==
    /\ "restoreTesting" \in p => "backups" \in p
    /\ "inbound" \in p => "suffixes" \in p

MINIMUM_UNRESERVED_CONCURRENCY == 10

\* The reservations fit the account (a limit of 0 stands for one not reported).
assessLambdaConcurrency(limit, reserved) ==
    reserved > 0 /\ limit # 0 => limit - reserved >= MINIMUM_UNRESERVED_CONCURRENCY

\* The flags each command of the command line takes.
deployCommand(cmd) == {NewSession(cmd, a, d, FALSE, FALSE) : a, d \in BOOLEAN}

bootstrapCommand == deployCommand("bootstrap")

cleanupCommand == {NewSession("cleanup", a, FALSE, p, d) : a, p, d \in BOOLEAN}

statusAwsCommand == {NewSession("status", FALSE, FALSE, FALSE, FALSE)}

FlagsOf(cmd) ==
    IF cmd \in {"deploy", "upgrade"} THEN deployCommand(cmd)
    ELSE IF cmd = "bootstrap" THEN bootstrapCommand
    ELSE IF cmd = "cleanup" THEN cleanupCommand ELSE statusAwsCommand

\* A run that has not begun, or has ended.
AtRest(o) == sessions[o].pc \in {"idle", "planned", "failed", "ok", "operational"}

Begin(o, cmd) ==
    /\ At(o, "idle")
    /\ \E r \in FlagsOf(cmd) :
       \E key \in DOMAIN OptionLimits : \E value \in Boundary(key) :
         Keep(o, r, IF normalizeOptions(r, key, value) THEN "preflight" ELSE "failed")
    /\ alone' = IF \A p \in Sessions : AtRest(p) THEN {o} ELSE {}
    /\ UNCHANGED <<stacks, changeSets, resources, faults, effects>>

----------------------------------------------------------------------------
(* deploy aws and upgrade aws.                                              *)

\* What a deployment finds: the caller's account, a CloudFormation role (none,
\* the bootstrap stack's or another), the artifact bucket that was named, the
\* features to be enabled, the tags, and the account's concurrency.
PlainDeployment ==
    [account |-> "expected", role |-> "none", bucket |-> "none", features |-> {}, tags |-> 2,
     limit |-> 0, reserved |-> 0]

DeployEnvironments ==
    {PlainDeployment,
     [PlainDeployment EXCEPT !.account = "other"],
     [PlainDeployment EXCEPT !.role = "bootstrap"],
     [PlainDeployment EXCEPT !.role = "bootstrap", !.bucket = "other"],
     [PlainDeployment EXCEPT !.role = "other"],
     [PlainDeployment EXCEPT !.role = "other", !.bucket = "other"],
     [PlainDeployment EXCEPT !.features = {"restoreTesting"}],
     [PlainDeployment EXCEPT !.features = {"inbound", "suffixes"}],
     [PlainDeployment EXCEPT !.tags = 51],
     [PlainDeployment EXCEPT !.limit = 20, !.reserved = 10],
     [PlainDeployment EXCEPT !.limit = 20, !.reserved = 11]}

requireAwsIdentity(e) == e.account = "expected"

\* A role needs a bucket: the bootstrap stack's for its own role.
resolveArtifactBucket(e) ==
    IF e.role = "none" THEN TRUE
    ELSE IF ~stacks["bootstrap"].managed \/ e.role = "other" THEN e.bucket # "none"
    ELSE e.bucket # "other"

effectiveTags(e) == e.tags <= 50

\* All of this is checked before anything is built.
DeployPreflight(o, e) ==
    /\ At(o, "preflight") /\ sessions[o].cmd \in {"deploy", "upgrade"}
    /\ LET s == Stack(o)
           refused ==
             \/ ~requireAwsIdentity(e)
             \/ sessions[o].cmd = "upgrade" /\ ~Exists(s)
             \/ Exists(s) /\ s.status \notin STABLE_STACK_STATUSES
             \/ ~resolveArtifactBucket(e)
             \/ ~effectiveParameters(e.features) \/ ~effectiveTags(e)
             \/ ~assessLambdaConcurrency(e.limit, e.reserved)
       IN Keep(o, [sessions[o] EXCEPT !.seen = s],
               IF refused THEN "failed" ELSE "build")
    /\ UNCHANGED <<stacks, changeSets, resources, faults, effects>>

\* SAM validates and builds, and the plan is printed.
DeployBuild(o) ==
    /\ At(o, "build")
    /\ Go(o, IF sessions[o].apply THEN "before" ELSE "planned")
    /\ UNCHANGED <<stacks, changeSets, resources, faults, effects>>

\* listChangeSets: a missing stack is no error before a first creation only.
ListBefore(o) ==
    /\ At(o, "before")
    /\ Keep(o, [sessions[o] EXCEPT !.before = SetsOf("app")],
            IF Exists(Stack(o)) \/ ~Exists(sessions[o].seen)
            THEN "create" ELSE "failed")
    /\ UNCHANGED <<stacks, changeSets, resources, faults, effects>>

\* CloudFormation takes a change set for a new stack, for one that waits for
\* its first execution, and for a stable one.
Changeable(s) ==
    s.status \in {"none", "REVIEW_IN_PROGRESS"} \cup STABLE_STACK_STATUSES

ProposedFor(s) ==
    IF s.status \in STABLE_STACK_STATUSES THEN Changes ELSE {AddOnly}

AddChangeSet(o, t, c) ==
    /\ changeSets' = changeSets \cup
         {[owner |-> o, target |-> t, change |-> c, done |-> FALSE]}
    /\ IF Exists(stacks[t]) THEN UNCHANGED stacks
       ELSE UpdateStack(t, [NoStack EXCEPT !.status = "REVIEW_IN_PROGRESS"])

\* sam deploy --no-execute-changeset: it leaves a change set, or none when the
\* template and the parameters are the ones deployed.
SamDeploy(o) ==
    LET s == Stack(o) IN
    /\ At(o, "create") /\ sessions[o].cmd \in {"deploy", "upgrade"}
    /\ \/ /\ Changeable(s)
          /\ \E c \in ProposedFor(s) : AddChangeSet(o, "app", c)
          /\ Answered(o, "after")
       \/ /\ s.status \in STABLE_STACK_STATUSES
          /\ Go(o, "after") /\ UNCHANGED <<stacks, changeSets, faults>>
       \/ /\ ~Changeable(s)
          /\ Go(o, "failed") /\ UNCHANGED <<stacks, changeSets, faults>>
    /\ UNCHANGED <<resources, effects>>

\* Mutant: a run without a change set ends before the protections.
WithoutChanges_Done(o) == "ok"

\* Without a change set, a stack that existed still gets its protections.
WithoutChanges(o) == IF Exists(sessions[o].seen) THEN "policy" ELSE "ok"

\* The change set this run goes on with is the one that was not listed before.
ListAfter(o) ==
    LET created == SetsOf("app") \ sessions[o].before IN
    /\ At(o, "after")
    /\ \/ /\ ~Exists(Stack(o)) \/ Cardinality(created) > 1
          /\ Go(o, "failed")
       \/ /\ Exists(Stack(o)) /\ created = {}
          /\ Go(o, WithoutChanges(o))
       \/ /\ Exists(Stack(o)) /\ Cardinality(created) = 1
          /\ Keep(o, [sessions[o] EXCEPT !.set = CHOOSE c \in created : TRUE],
                  "describe")
    /\ UNCHANGED <<stacks, changeSets, resources, faults, effects>>

\* summarizeChanges: what the change set says of a replacement it leaves out.
summarizeChanges(c) ==
    [c EXCEPT !.replacement =
       IF @ \in {"True", "False", "Conditional"} THEN @
       ELSE IF c.action \in {"Modify", "Dynamic"} THEN "Unknown" ELSE "False"]

\* Mutant: a replacement that is not known counts as none.
destructiveChanges_KnownOnly(c) ==
    \/ c.action \notin {"Add", "Modify", "Import", "SyncWithActual"}
    \/ c.replacement \in {"True", "Conditional"}
    \/ c.policyAction \notin {"none", "Retain", "Snapshot"}

destructiveChanges(c) ==
    \/ c.action \notin {"Add", "Modify", "Import", "SyncWithActual"}
    \/ c.replacement # "False"
    \/ c.policyAction \notin {"none", "Retain", "Snapshot"}

\* The change set is inspected; a possible removal or replacement needs the
\* operator's acknowledgement.
DescribeChangeSet(o) ==
    LET c == sessions[o].set IN
    /\ At(o, "describe") /\ sessions[o].cmd \in {"deploy", "upgrade"}
    /\ Go(o, IF /\ c \in changeSets /\ ~c.done
                /\ destructiveChanges(summarizeChanges(c.change)) => sessions[o].allow
             THEN "execute" ELSE "failed")
    /\ UNCHANGED <<stacks, changeSets, resources, faults, effects>>

\* execute-change-set: the other change sets of the stack go.  A creation gets
\* retained resources of its own; an update detaches them when its change does
\* and no stack policy refuses it.
ExecuteChangeSet(o) ==
    LET c == sessions[o].set
        t == c.target
        s == stacks[t]
        creates  == s.status = "REVIEW_IN_PROGRESS"
        detaches == ~creates /\ Detaches(c.change) /\ ~s.policy
        used == {x \in DOMAIN resources : resources[x] # "unused"}
        g == IF creates /\ t = "app" THEN Cardinality(used) + 1 ELSE s.generation IN
    /\ At(o, "execute")
    /\ \/ /\ c \in changeSets /\ Changeable(s)
          /\ g <= MaxGeneration
          /\ changeSets' = (changeSets \ SetsOf(t)) \cup {[c EXCEPT !.done = TRUE]}
          /\ UpdateStack(t, [s EXCEPT !.generation = g, !.managed = TRUE,
                 !.status = IF creates THEN "CREATE_IN_PROGRESS"
                            ELSE "UPDATE_IN_PROGRESS"])
          /\ resources' = IF t # "app" THEN resources
                          ELSE IF creates THEN [resources EXCEPT ![g] = "empty"]
                          ELSE IF detaches THEN [resources EXCEPT ![g] = "absent"]
                          ELSE resources
          /\ effects' = effects \cup
               {[by |-> o, owner |-> c.owner,
                 covered |-> detaches => sessions[o].allow]}
          /\ Answered(o, "wait")
       \/ /\ c \notin changeSets \/ ~Changeable(s)
          /\ Go(o, "failed")
          /\ UNCHANGED <<stacks, changeSets, resources, faults, effects>>

\* The waiter of a creation or of an update; deployAws then enforces the
\* protections, bootstrapAws describes the stack and protects it if need be.
WaitForStack(o) ==
    LET s == Stack(o)
        reached == IF Exists(sessions[o].seen) THEN {"UPDATE_COMPLETE"}
                   ELSE {"CREATE_COMPLETE", "UPDATE_COMPLETE"} IN
    /\ At(o, "wait") /\ s.status \notin InProgress
    /\ Go(o, IF s.status \notin reached THEN "failed"
             ELSE IF Target(o) = "app" THEN "policy"
             ELSE IF s.protected THEN "ok" ELSE "protect")
    /\ UNCHANGED <<stacks, changeSets, resources, faults, effects>>

\* enforceStackProtections: the policy over the retained resources listed,
\* then termination protection, then both read back.
SetStackPolicy(o) ==
    LET s == Stack(o) IN
    /\ At(o, "policy")
    /\ \/ /\ Exists(s) /\ s.generation > 0 /\ resources[s.generation] # "absent"
          /\ UpdateStack("app", [s EXCEPT !.policy = TRUE])
          /\ Answered(o, "protect")
       \/ /\ Exists(s) => s.generation = 0 \/ resources[s.generation] = "absent"
          /\ Go(o, "failed") /\ UNCHANGED <<stacks, faults>>
    /\ UNCHANGED <<changeSets, resources, effects>>

EnableProtection(o) ==
    LET s == Stack(o) IN
    /\ At(o, "protect")
    /\ \/ /\ Exists(s) /\ s.status # "DELETE_IN_PROGRESS"
          /\ UpdateStack(Target(o), [s EXCEPT !.protected = TRUE])
          /\ Answered(o, "verify")
       \/ /\ ~Exists(s) \/ s.status = "DELETE_IN_PROGRESS"
          /\ Go(o, "failed") /\ UNCHANGED <<stacks, faults>>
    /\ UNCHANGED <<changeSets, resources, effects>>

VerifyProtections(o) ==
    LET s == Stack(o) IN
    /\ At(o, "verify")
    /\ Go(o, IF s.protected /\ (Target(o) = "app" => s.policy) THEN "ok" ELSE "failed")
    /\ UNCHANGED <<stacks, changeSets, resources, faults, effects>>

----------------------------------------------------------------------------
(* bootstrap aws: a change set of its own name, so none has to be found.    *)

BootstrapPreflight(o) ==
    LET s == Stack(o) IN
    /\ At(o, "preflight") /\ sessions[o].cmd = "bootstrap"
    /\ Keep(o, [sessions[o] EXCEPT !.seen = s],
            IF Exists(s) /\ s.status \notin STABLE_STACK_STATUSES THEN "failed"
            ELSE IF sessions[o].apply THEN "create" ELSE "planned")
    /\ UNCHANGED <<stacks, changeSets, resources, faults, effects>>

BootstrapCreate(o) ==
    LET s == Stack(o) IN
    /\ At(o, "create") /\ sessions[o].cmd = "bootstrap"
    /\ \/ /\ Changeable(s) /\ (Exists(sessions[o].seen) <=> s.status \in STABLE_STACK_STATUSES)
          /\ \E c \in ProposedFor(s) \cup (IF Exists(sessions[o].seen) THEN {Empty} ELSE {}) :
               /\ AddChangeSet(o, "bootstrap", c)
               /\ Keep(o, [sessions[o] EXCEPT !.set = [owner |-> o,
                        target |-> "bootstrap", change |-> c, done |-> FALSE]], "describe")
       \/ /\ ~Changeable(s) \/ (Exists(sessions[o].seen) # (s.status \in STABLE_STACK_STATUSES))
          /\ Go(o, "failed") /\ UNCHANGED <<stacks, changeSets>>
    /\ UNCHANGED <<resources, faults, effects>>

\* An empty change set is deleted and the stack protected as it is.
BootstrapDescribe(o) ==
    LET c == sessions[o].set IN
    /\ At(o, "describe") /\ sessions[o].cmd = "bootstrap"
    /\ \/ /\ c \in changeSets /\ c.change = Empty
          /\ changeSets' = changeSets \ {c}
          /\ Go(o, IF sessions[o].seen.protected THEN "ok" ELSE "protect")
       \/ /\ c \in changeSets => c.change # Empty
          /\ Go(o, IF /\ c \in changeSets
                      /\ destructiveChanges(summarizeChanges(c.change)) => sessions[o].allow
                   THEN "execute" ELSE "failed")
          /\ UNCHANGED changeSets
    /\ UNCHANGED <<stacks, resources, faults, effects>>

----------------------------------------------------------------------------
(* cleanup aws.                                                             *)

CleanupPreflight(o) ==
    LET s == Stack(o)
        r == sessions[o]
        refused == \/ s.status \notin CLEANUP_SAFE_STACK_STATUSES
                   \/ ~s.managed
                   \/ r.purge /\ s.status # "ROLLBACK_COMPLETE" IN
    /\ At(o, "preflight") /\ r.cmd = "cleanup"
    /\ Keep(o, [r EXCEPT !.seen = s],
            IF ~Exists(s) THEN "ok" ELSE IF refused THEN "failed" ELSE "inspect")
    /\ UNCHANGED <<stacks, changeSets, resources, faults, effects>>

\* inspectRetainedResource: an item count lags behind the table, so a table
\* with items may be told empty.
reportedEmpty(g) ==
    {resources[g] = "empty"} \cup (IF resources[g] = "data" THEN {TRUE, FALSE} ELSE {})

\* The inspection, the plan, and the confirmations --apply needs.
CleanupPlan(o) ==
    LET r == sessions[o] IN
    /\ At(o, "inspect") /\ r.cmd = "cleanup"
    /\ \E empty \in IF r.purge THEN reportedEmpty(r.seen.generation) ELSE {FALSE} :
         Keep(o, [r EXCEPT !.purgeable = empty],
              IF ~r.apply THEN "planned"
              ELSE IF r.seen.protected
                   THEN IF r.disable THEN "disable" ELSE "failed"
                   ELSE "delete")
    /\ UNCHANGED <<stacks, changeSets, resources, faults, effects>>

DisableProtection(o) ==
    LET s == Stack(o) IN
    /\ At(o, "disable")
    /\ \/ /\ Exists(s) /\ s.status # "DELETE_IN_PROGRESS"
          /\ UpdateStack("app", [s EXCEPT !.protected = FALSE])
          /\ Answered(o, "confirm")
       \/ /\ ~Exists(s) \/ s.status = "DELETE_IN_PROGRESS"
          /\ Go(o, "failed") /\ UNCHANGED <<stacks, faults>>
    /\ UNCHANGED <<changeSets, resources, effects>>

ConfirmUnprotected(o) ==
    LET s == Stack(o) IN
    /\ At(o, "confirm")
    /\ Keep(o, [sessions[o] EXCEPT !.unprotected = TRUE],
            IF Exists(s) /\ ~s.protected THEN "delete" ELSE "failed")
    /\ UNCHANGED <<stacks, changeSets, resources, faults, effects>>

\* delete-stack: a protected stack refuses, a missing one is no error, and the
\* retained resources stay.
DeleteStack(o) ==
    LET s == Stack(o) IN
    /\ At(o, "delete")
    /\ \/ /\ Exists(s) /\ ~s.protected
          /\ UpdateStack("app", [s EXCEPT !.status = "DELETE_IN_PROGRESS"])
          /\ changeSets' = changeSets \ SetsOf("app")
          /\ Answered(o, "gone")
       \/ /\ ~Exists(s) /\ Go(o, "gone")
          /\ UNCHANGED <<stacks, changeSets, faults>>
       \/ /\ s.protected /\ Go(o, AfterFailure(o))
          /\ UNCHANGED <<stacks, changeSets, faults>>
    /\ UNCHANGED <<resources, effects>>

RecoverProtection(o) ==
    LET s == Stack(o) IN
    /\ At(o, "recover")
    /\ UpdateStack("app", [s EXCEPT !.protected =
                             @ \/ (Exists(s) /\ s.status # "DELETE_IN_PROGRESS")])
    /\ Go(o, "failed")
    /\ UNCHANGED <<changeSets, resources, faults, effects>>

VerifyDeleted(o) ==
    /\ At(o, "gone") /\ Stack(o).status \notin InProgress
    /\ Go(o, IF Exists(Stack(o)) THEN "failed"
             ELSE IF sessions[o].purgeable THEN "purge" ELSE "ok")
    /\ UNCHANGED <<stacks, changeSets, resources, faults, effects>>

PurgeResources(o) ==
    LET g == sessions[o].seen.generation IN
    /\ At(o, "purge")
    /\ resources' = [resources EXCEPT ![g] = "absent"]
    /\ effects' = effects \cup
         {[by |-> o, owner |-> o, covered |-> resources[g] # "data"]}
    /\ Answered(o, "ok")
    /\ UNCHANGED <<stacks, changeSets>>

----------------------------------------------------------------------------
(* status aws: reads only.  Drift detection needs a stable stack and is     *)
(* polled until it completes or fails.                                      *)

StatusPreflight(o, detectDrift) ==
    LET s == Stack(o) IN
    /\ At(o, "preflight") /\ sessions[o].cmd = "status"
    /\ Keep(o, [sessions[o] EXCEPT !.seen = s],
            IF ~Exists(s) THEN "ok"
            ELSE IF ~detectDrift THEN "report"
            ELSE IF s.status \in STABLE_STACK_STATUSES THEN "drift" ELSE "failed")
    /\ UNCHANGED <<stacks, changeSets, resources, faults, effects>>

DetectDrift(o) ==
    /\ At(o, "drift")
    /\ \E end \in {"report", "failed"} : Go(o, end)
    /\ UNCHANGED <<stacks, changeSets, resources, faults, effects>>

\* What the features p need of the resources that are complete.
gradualDeploymentSummary(p, complete) ==
    {"aliases", "groups"} \cup (IF "inbound" \in p THEN {"inboundAlias"} ELSE {}) \subseteq complete

backupSummary(p, complete) ==
    /\ "backups" \in p => "backupPlan" \in complete
    /\ {"backups", "restoreTesting"} \subseteq p => "restorePlan" \in complete

\* There are alarms, each was returned, and each is OK.
alarmSummary(states) == states # {} /\ states \subseteq {"OK"}

\* The endpoint answers, and as this service.
publicHealth(answer) == answer = "hayasend"

Completable == {"aliases", "groups", "inboundAlias", "backupPlan", "restorePlan"}

\* Every outcome of these checks that can come about.
HealthOutcomes ==
    { /\ gradualDeploymentSummary(p, complete) /\ backupSummary(p, complete)
      /\ alarmSummary(states) /\ publicHealth(answer)
      : p \in SUBSET {"inbound", "backups", "restoreTesting"},
        complete \in SUBSET Completable,
        states \in SUBSET {"OK", "ALARM", "NOT_RETURNED"},
        answer \in {"hayasend", "other", "none"} }

\* The stack as described first, its policy and resources as read now.
StatusReport(o, healthy) ==
    LET seen == sessions[o].seen IN
    /\ At(o, "report")
    /\ Go(o, IF /\ seen.status \in STABLE_STACK_STATUSES
                /\ seen.protected /\ Stack(o).policy /\ healthy
             THEN "operational" ELSE "ok")
    /\ UNCHANGED <<stacks, changeSets, resources, faults, effects>>

----------------------------------------------------------------------------

DeployStep(o) ==
    \/ \E e \in DeployEnvironments : DeployPreflight(o, e)
    \/ DeployBuild(o)
    \/ ListBefore(o)
    \/ SamDeploy(o)
    \/ ListAfter(o)
    \/ DescribeChangeSet(o)
    \/ ExecuteChangeSet(o)
    \/ WaitForStack(o)
    \/ SetStackPolicy(o)
    \/ EnableProtection(o)
    \/ VerifyProtections(o)

BootstrapStep(o) ==
    \/ BootstrapPreflight(o)
    \/ BootstrapCreate(o)
    \/ BootstrapDescribe(o)

CleanupStep(o) ==
    \/ CleanupPreflight(o)
    \/ CleanupPlan(o)
    \/ DisableProtection(o)
    \/ ConfirmUnprotected(o)
    \/ DeleteStack(o)
    \/ RecoverProtection(o)
    \/ VerifyDeleted(o)
    \/ PurgeResources(o)

StatusStep(o) ==
    \/ \E d \in BOOLEAN : StatusPreflight(o, d)
    \/ DetectDrift(o)
    \/ \E h \in HealthOutcomes : StatusReport(o, h)

\* A session that has begun, or the account, takes a step.
Proceed ==
    \/ \E t \in DOMAIN stacks : SettleStack(t)
    \/ UseApplication
    \/ \E o \in Sessions :
         \/ CallFails(o)
         \/ DeployStep(o)
         \/ BootstrapStep(o)
         \/ CleanupStep(o)
         \/ StatusStep(o)

AwsNext ==
    \/ \E o \in Sessions, cmd \in Commands : Begin(o, cmd)
    \/ Proceed /\ UNCHANGED alone

AwsSpec == AwsInit /\ [][AwsNext]_awsVars

----------------------------------------------------------------------------

\* Nothing an operator did not acknowledge is lost: whatever the sessions
\* interleave, a retained resource leaves the stack's reach only through a
\* change set executed by a run with --allow-destructive-changes, and a purge
\* destroys no resource that holds data, although the count it goes by lags.
NothingLostUnacknowledged == \A e \in effects : e.covered

\* A deployment was applied and reported success.
Applied(o) ==
    sessions[o].cmd \in {"deploy", "upgrade"} /\ sessions[o].apply /\ At(o, "ok")

\* The application stack is gone or has both its protections.
Closed == Exists(stacks["app"]) => stacks["app"].protected /\ stacks["app"].policy

\* A deployment that reports success leaves no stack open to deletion: neither
\* when it had the account to itself, wherever an earlier run had failed or
\* what it had left half done, nor when several runs interleaved and all of
\* them ended well.
SuccessLeavesProtected ==
    (\E o \in Sessions : Applied(o)) =>
        \/ Closed
        \/ /\ \A o \in alone : ~Applied(o)
           /\ \E o \in Sessions :
                 sessions[o].pc \notin {"idle", "ok", "planned", "operational"}
=============================================================================
