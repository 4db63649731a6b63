------------------------------ MODULE MCOutbox ------------------------------
(* An instance of Outbox for TLC.                                           *)
EXTENDS Outbox, TLC

CONSTANTS s1, s2, s3, p1, p2, p3

\* Two sweeps of one process and one of another.
SharedOwner == (s1 :> p1) @@ (s2 :> p1) @@ (s3 :> p2)

\* A process each.
OwnOwner == (s1 :> p1) @@ (s2 :> p2) @@ (s3 :> p3)

BothLayouts == {SharedOwner, OwnOwner}
=============================================================================
