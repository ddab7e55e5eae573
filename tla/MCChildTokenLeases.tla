------------------------- MODULE MCChildTokenLeases -------------------------
(***************************************************************************)
(* Small instances of ChildTokenLeases for TLC.                            *)
(***************************************************************************)
EXTENDS ChildTokenLeases, TLC

CONSTANTS t1, t2, a1, a2

Symmetry == Permutations(Threads) \cup Permutations(Ids)
=============================================================================
