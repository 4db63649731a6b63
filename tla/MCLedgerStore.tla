--------------------------- MODULE MCLedgerStore ---------------------------
(* Instances of LedgerStore for TLC.                                        *)
EXTENDS LedgerStore, TLC

AllSymmetry ==
    Permutations(Callers) \cup Permutations(EventIds) \cup Permutations(Recipients)
=============================================================================
