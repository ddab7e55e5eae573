--------------------------- MODULE MCBrokerStartup ---------------------------
(***************************************************************************)
(* Small instances of BrokerStartup for TLC.                               *)
(***************************************************************************)
EXTENDS BrokerStartup, TLC

CONSTANTS b1, b2, b3, i1, i2

Symmetry == Permutations({b1, b2, b3}) \cup Permutations({i1, i2})
=============================================================================
