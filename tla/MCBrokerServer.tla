--------------------------- MODULE MCBrokerServer ---------------------------
(***************************************************************************)
(* Small instances of BrokerServer for TLC.                                *)
(***************************************************************************)
EXTENDS BrokerServer

CONSTANTS c1, c2, c3
=============================================================================
