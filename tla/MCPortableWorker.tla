-------------------------- MODULE MCPortableWorker --------------------------
(* Instances of PortableWorker for TLC.                                     *)
EXTENDS PortableWorker

\* Two handles in the first process, one in the second.
TwoAndOne == [h1 |-> "p1", h2 |-> "p1", h3 |-> "p2"]
=============================================================================
