------------------------- MODULE MCCheckoutRegistry -------------------------
(***************************************************************************)
(* Small instances of CheckoutRegistry for TLC.                            *)
(***************************************************************************)
EXTENDS CheckoutRegistry, TLC

CONSTANTS w1, w2, i1, i2, k8s, kv, harness, adhoc, other

OneTtl == [c \in Caps |-> 1]
TwoTtl == [c \in Caps |-> 2]

NoTtl == {Whatever}

\* The callers of one session, under two harness labels; and a session each.
OneSession == [c \in Callers |-> CHOOSE d \in Callers : TRUE]
OwnSession == [c \in Callers |-> c]

Symmetry == Permutations(Workers) \cup Permutations(Ids) \cup Permutations(Callers \ AnchoredCallers)
=============================================================================
