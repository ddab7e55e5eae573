-------------------------- MODULE CheckoutLifecycle --------------------------
(***************************************************************************)
(* What the broker promises of every checkout, whatever threads, crashes   *)
(* and failing issuers do: it is opened once, it may be lent out only      *)
(* while it is usable, it leaves that stage only through a revocation, and *)
(* a revoked checkout never comes back (registry.py, "Lifecycle").         *)
(***************************************************************************)
CONSTANT Ids

VARIABLE stage

Stages == {"absent", "usable", "closing", "closed"}

\* Only a usable checkout is lent, and it ends only through closing: never straight
\* from usable to closed, where nobody would have revoked it.  A credential that
\* the process lost before it registered it never was a checkout: absent to closed.
Moves == {<<"absent", "usable">>, <<"usable", "closing">>, <<"closing", "closed">>,
          <<"absent", "closed">>}

LifecycleInit == stage = [id \in Ids |-> "absent"]

LifecycleNext ==
    /\ stage' \in [Ids -> Stages]
    /\ \A id \in Ids : stage'[id] # stage[id] => <<stage[id], stage'[id]>> \in Moves

LifecycleSpec == LifecycleInit /\ [][LifecycleNext]_stage
=============================================================================
