------------------------- MODULE MCWebhookDelivery -------------------------
(* Instances of WebhookDelivery for TLC.                                    *)
EXTENDS WebhookDelivery, TLC

RunnerSymmetry == Permutations(Runners)
=============================================================================
