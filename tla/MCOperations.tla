---------------------------- MODULE MCOperations ----------------------------
(***************************************************************************)
(* The parts around the sending pipeline, for TLC: the two deployment      *)
(* commands, the log retention resource, the schema migrations, the        *)
(* migration from Resend, the providers with their event ingress, the      *)
(* Cloudflare runtime and the proof scripts.  They share no state, so a    *)
(* behaviour is one of a single part, chosen at the start; the state space *)
(* is the sum of theirs and not the product.                               *)
(***************************************************************************)
EXTENDS AwsDeployment, CloudflareDeployment, LogRetention, SchemaMigrations,
        ResendMigration, ProviderEvents, CloudflareWorker, HostedProof

VARIABLE area

Areas == {"aws", "cloudflare", "retention", "migrations", "resend", "events", "runtime",
          "proofs"}

operationsVars == <<area, awsVars, cfVars, lrVars, pgVars, rmVars, evVars, wkVars, hpVars>>

\* A part that is not the chosen one starts in one state only.
OperationsInit ==
    /\ area \in Areas
    /\ AwsInit /\ (area # "aws" => stacks["app"] = NoStack)
    /\ CfInit /\ (area # "cloudflare" => cloud = NothingDeployed)
    /\ LrInit /\ (area # "retention" => \A g \in DOMAIN retention : retention[g] = "none")
    /\ PgInit
    /\ RmInit
    /\ EvInit /\ (area # "events" => prov = "ses")
    /\ WkInit
    /\ HpInit /\ (area # "proofs" =>
                     rows = {} /\ proof.kind = "hosted" /\ ~proof.retain)

\* Operators differ in their names only: of two behaviours in which they have
\* exchanged their commands one is enough.
CommandOrder == <<"status", "doctor", "bootstrap", "subscribe", "rollback",
                  "cleanup", "deploy", "upgrade">>

Rank(cmd) == CHOOSE i \in DOMAIN CommandOrder : CommandOrder[i] = cmd

InOrder(operators) ==
    \A o, q \in DOMAIN operators :
        o < q /\ operators[o].cmd # "none" /\ operators[q].cmd # "none"
            => Rank(operators[o].cmd) <= Rank(operators[q].cmd)

OperationsNext ==
    \/ /\ area = "aws" /\ AwsNext /\ InOrder(sessions')
       /\ UNCHANGED <<area, cfVars, lrVars, pgVars, rmVars, evVars, wkVars, hpVars>>
    \/ /\ area = "cloudflare" /\ CfNext /\ InOrder(runs')
       /\ UNCHANGED <<area, awsVars, lrVars, pgVars, rmVars, evVars, wkVars, hpVars>>
    \/ /\ area = "retention" /\ LrNext
       /\ UNCHANGED <<area, awsVars, cfVars, pgVars, rmVars, evVars, wkVars, hpVars>>
    \/ /\ area = "migrations" /\ PgNext
       /\ UNCHANGED <<area, awsVars, cfVars, lrVars, rmVars, evVars, wkVars, hpVars>>
    \/ /\ area = "resend" /\ RmNext
       /\ UNCHANGED <<area, awsVars, cfVars, lrVars, pgVars, evVars, wkVars, hpVars>>
    \/ /\ area = "events" /\ EvNext
       /\ UNCHANGED <<area, awsVars, cfVars, lrVars, pgVars, rmVars, wkVars, hpVars>>
    \/ /\ area = "runtime" /\ WkNext
       /\ UNCHANGED <<area, awsVars, cfVars, lrVars, pgVars, rmVars, evVars, hpVars>>
    \/ /\ area = "proofs" /\ HpNext
       /\ UNCHANGED <<area, awsVars, cfVars, lrVars, pgVars, rmVars, evVars, wkVars>>

OperationsSpec == OperationsInit /\ [][OperationsNext]_operationsVars

-----------------------------------------------------------------------------
App(status, protection, managed) ==
    [status |-> status, protected |-> protection, policy |-> protection,
     managed |-> managed, generation |-> 1]

\* No stack; one deployed and protected; one whose creation failed; a stack of
\* the same name that this project did not create.
Starts == {NoStack, App("CREATE_COMPLETE", TRUE, TRUE),
           App("ROLLBACK_COMPLETE", FALSE, TRUE),
           App("CREATE_COMPLETE", FALSE, FALSE)}

ProposedChange(action, replacement, policyAction) ==
    [action |-> action, replacement |-> replacement, policyAction |-> policyAction]

Proposals == {ProposedChange("Modify", "False", "none"), ProposedChange("Modify", "none", "none"),
              ProposedChange("Remove", "none", "Delete")}

ThreeGroups == <<"api", "worker", "events">>

\* Two releases, and one whose second migration was edited after it shipped.
ShippedReleases == [old |-> <<11, 12>>, current |-> <<11, 12, 13>>, edited |-> <<11, 22>>]

\* Two comparisons of one stream.
ComparedStream == [login1 |-> "login", login2 |-> "login"]
=============================================================================
