--------------------------- MODULE MCPortableSend ---------------------------
(* Instances of PortableSend for TLC.  A unit of time is 30 s.              *)
EXTENDS PortableSend, TLC

WorkerSymmetry == Permutations(Workers)
=============================================================================
