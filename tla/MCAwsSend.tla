----------------------------- MODULE MCAwsSend -----------------------------
(* Instances of AwsSend for TLC.                                            *)
EXTENDS AwsSend, TLC

WorkerSymmetry == Permutations(Workers)

MessageSymmetry == Permutations(Messages)

=============================================================================
