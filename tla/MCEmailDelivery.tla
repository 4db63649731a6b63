-------------------------- MODULE MCEmailDelivery --------------------------
(* Instances of EmailDelivery for TLC.  Workers and recipients are          *)
(* interchangeable, and so are the identities of provider events.           *)
EXTENDS EmailDelivery, TLC

WorkerSymmetry == Permutations(Workers) \cup Permutations(Recipients)

EventSymmetry == Permutations(EventIds) \cup Permutations(Recipients)
=============================================================================
