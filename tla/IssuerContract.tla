--------------------------- MODULE IssuerContract ---------------------------
(***************************************************************************)
(* What the broker relies on from an issuer (broker/issuers.py, class      *)
(* Issuer): a grant is minted once, and from then on it only ever moves    *)
(* towards its end.  A grant is what the credential and the Vault child    *)
(* token it hangs on amount to outside the broker: "active" while it       *)
(* works.  `held' is the issuer's in-memory table of the grants this       *)
(* process can still revoke (ChildTokenLeases._held): it dies with the     *)
(* process, the grants do not.                                             *)
(*                                                                         *)
(* The operators are used by CheckoutRegistry, which drives an issuer; the *)
(* specification at the end is the contract that ChildTokenLeases is shown *)
(* to implement.                                                           *)
(***************************************************************************)
EXTENDS FiniteSets

CONSTANT Ids      \* handles: one per grant, never used twice

VARIABLES grant,  \* [Ids -> {"none", "active", "ended"}]
          held    \* grants this process can revoke

contractVars == <<grant, held>>

ContractTypeOK ==
    /\ grant \in [Ids -> {"none", "active", "ended"}]
    /\ held \in SUBSET Ids

Active == {id \in Ids : grant[id] = "active"}

\* Issuer.issue: a handle nobody has seen, held if the grant can be revoked.  A
\* grant that can end by itself may have done so before the reply is here.
Mint(id, revocable) ==
    /\ grant[id] = "none"
    /\ \/ grant' = [grant EXCEPT ![id] = "active"]
       \/ revocable /\ grant' = [grant EXCEPT ![id] = "ended"]
    /\ held' = IF revocable THEN held \cup {id} ELSE held

\* Variant for the mutation runs: the token stays in the table.
RevokeReturns_KeepsToken(id) ==
    /\ grant' = IF id \in held THEN [grant EXCEPT ![id] = "ended"] ELSE grant
    /\ UNCHANGED held

\* Issuer.revoke returned: a held grant is ended, and no longer held.  A grant
\* that is not held (an earlier process minted it, or it is a static value) is
\* none of this issuer's business and the call still returns normally.
RevokeReturns(id) ==
    /\ grant' = IF id \in held THEN [grant EXCEPT ![id] = "ended"] ELSE grant
    /\ held' = held \ {id}

\* Issuer.revoke raised: the call was lost, or it was served and the reply was,
\* or another call for the same grant was served first.
RevokeRaises(id) ==
    /\ grant[id] # "none"
    /\ grant' \in {grant, [grant EXCEPT ![id] = "ended"]}
    /\ UNCHANGED held

\* The grants whose time is up end by themselves; `held' does not notice.
Lapse(ids) ==
    /\ grant' = [id \in Ids |-> IF id \in ids /\ grant[id] = "active"
                                THEN "ended" ELSE grant[id]]
    /\ UNCHANGED held

\* The process is gone, and with it every token it held in memory.
Forget == /\ held' = {}
          /\ UNCHANGED grant

-----------------------------------------------------------------------------
ContractInit == /\ grant = [id \in Ids |-> "none"]
                /\ held = {}

ContractNext ==
    \/ \E id \in Ids : \/ \E revocable \in BOOLEAN : Mint(id, revocable)
                       \/ RevokeReturns(id)
                       \/ RevokeRaises(id)
    \/ \E ids \in SUBSET Ids : Lapse(ids)
    \/ Forget

ContractSpec == ContractInit /\ [][ContractNext]_contractVars
=============================================================================
