------------------------- MODULE ChildTokenLeasesProofs -------------------------
(***************************************************************************)
(* Theorems about ChildTokenLeases, for any number of threads, tokens,     *)
(* lifetimes and uses, every loss of a call or a reply, and any number of  *)
(* restarts; above all that it implements the contract CheckoutRegistry    *)
(* relies on.                                                              *)
(***************************************************************************)
EXTENDS ChildTokenLeases, TLAPS

-----------------------------------------------------------------------------
(* The inductive invariant: what holds between Vault, the table and the    *)
(* threads, call by call.                                                  *)

Issuing == {"minted", "reading", "read", "shape", "quiet"}

(* A token that has not been minted is nowhere; one that is being issued   *)
(* is known to one thread only, and not given out.                         *)
Unborn == \A i \in Ids : token[i] = "none" =>
              i \notin given \cup held \cup lost /\ \A t \in Threads : at[t] # i
Exclusive ==
    \A t \in Threads : pc[t] \in Issuing =>
        at[t] \in Ids /\ at[t] \notin given /\ \A u \in Threads \ {t} : at[u] # at[t]
InHand ==
    /\ \A t \in Threads : pc[t] \in {"idle", "minting"} => at[t] = NoId
    /\ \A t \in Threads : pc[t] \in {"dropping", "revoking", "revoked"} => at[t] \in Ids
    /\ \A t \in Threads : pc[t] = "shape" => at[t] \in held
Known == Unborn /\ Exclusive /\ InHand

(* The clock of the broker never runs ahead: a live token is within its    *)
(* time, and the broker takes it to be over no earlier than Vault does.    *)
OnTime ==
    /\ \A i \in Ids : token[i] = "live" => now < dies[i]
    /\ \A i \in Ids : dies[i] <= now + span[i]
    /\ \A i \in given \cup held : dies[i] <= expires[i]
    /\ \A t \in Threads : pc[t] \in {"reading", "read", "shape", "dropping"} =>
            dies[at[t]] <= expires[at[t]]

(* A token on its way out of the table is dead already.                    *)
Leaving ==
    /\ \A t \in Threads : pc[t] = "dropping" => now >= expires[at[t]]
    /\ \A t \in Threads : pc[t] = "revoked" => token[at[t]] = "dead"
    /\ ReleasedMeansDead

LInv == TypeOK /\ Known /\ OnTime /\ Leaving

LEMMA SpanIsTime ==
    ASSUME TypeOK, NEW i \in Ids
    PROVE  span[i] \in Nat
<1>1. span[i] \in Ttls \cup {0}
  BY DEF TypeOK
<1>2. CASE span[i] \in Ttls
  <2>1. \A x \in Ttls : x \in Nat
    BY LeaseAssumption, Zenon DEF LeaseAssumption
  <2> QED
    BY <1>2, <2>1
<1> QED
  BY <1>1, <1>2

LEMMA TypeStep == TypeOK /\ Known /\ [Next]_vars => TypeOK'
<1> SUFFICES ASSUME TypeOK, Known, [Next]_vars PROVE TypeOK'
  OBVIOUS
<1> USE LeaseAssumption DEF Known, Exclusive, InHand, Issuing, TypeOK, Places, Step, Done,
        vault, broker
<1>n. \A i \in Ids : span[i] \in Nat
  BY SpanIsTime
<1>1. ASSUME NEW t \in Threads, CallMint(t) PROVE TypeOK'
  BY <1>1 DEF CallMint
<1>2. ASSUME NEW t \in Threads, VaultMints(t) PROVE TypeOK'
  BY <1>2 DEF VaultMints
<1>3. ASSUME NEW t \in Threads, MintFails(t) PROVE TypeOK'
  BY <1>3 DEF MintFails
<1>4. ASSUME NEW t \in Threads, MintReturns(t) PROVE TypeOK'
  <2>1. at[t] \in Ids
    BY <1>4 DEF MintReturns
  <2>2. span[at[t]] \in Nat
    BY <2>1, <1>n
  <2> QED
    BY <1>4, <2>1, <2>2 DEF MintReturns
<1>5. ASSUME NEW t \in Threads, VaultReads(t) PROVE TypeOK'
  BY <1>5 DEF VaultReads, Usable
<1>6. ASSUME NEW t \in Threads, ReadFails(t) PROVE TypeOK'
  BY <1>6 DEF ReadFails
<1>7. ASSUME NEW t \in Threads, QuietRevoke(t) PROVE TypeOK'
  BY <1>7 DEF QuietRevoke, SelfRevoke, Usable
<1>8. ASSUME NEW t \in Threads, Hold(t) PROVE TypeOK'
  BY <1>8 DEF Hold
<1>9. ASSUME NEW t \in Threads, HandOver(t) PROVE TypeOK'
  BY <1>9 DEF HandOver
<1>10. ASSUME NEW t \in Threads, BadShape(t) PROVE TypeOK'
  BY <1>10 DEF BadShape
<1>11. ASSUME NEW t \in Threads, NEW i \in Ids, CallRevoke(t, i) PROVE TypeOK'
  BY <1>11 DEF CallRevoke
<1>12. ASSUME NEW t \in Threads, Drop(t) PROVE TypeOK'
  BY <1>12 DEF Drop
<1>13. ASSUME NEW t \in Threads, VaultRevokes(t) PROVE TypeOK'
  BY <1>13 DEF VaultRevokes, SelfRevoke, Usable
<1>14. ASSUME NEW t \in Threads, RevokeFails(t) PROVE TypeOK'
  BY <1>14 DEF RevokeFails
<1>15. ASSUME NEW t \in Threads, RevokeReturns(t) PROVE TypeOK'
  BY <1>15 DEF RevokeReturns
<1>16. ASSUME Tick PROVE TypeOK'
  BY <1>16 DEF Tick
<1>17. ASSUME Restart PROVE TypeOK'
  BY <1>17 DEF Restart
<1>18. CASE UNCHANGED vars
  BY <1>18 DEF vars, vault, broker
<1> QED
  BY <1>1, <1>2, <1>3, <1>4, <1>5, <1>6, <1>7, <1>8, <1>9,
     <1>10, <1>11, <1>12, <1>13, <1>14, <1>15, <1>16, <1>17, <1>18
     DEF Next, IssueStep, RevokeStep

LEMMA KnownStep == TypeOK /\ Known /\ [Next]_vars => Known'
<1> SUFFICES ASSUME TypeOK, Known, [Next]_vars PROVE Known'
  OBVIOUS
<1> USE LeaseAssumption DEF Known, Unborn, Exclusive, InHand, Issuing,
        TypeOK, Places, Step, Done, vault, broker
<1>1. ASSUME NEW t \in Threads, CallMint(t) PROVE Known'
  BY <1>1 DEF CallMint
<1>2. ASSUME NEW t \in Threads, VaultMints(t) PROVE Known'
  BY <1>2 DEF VaultMints
<1>3. ASSUME NEW t \in Threads, MintFails(t) PROVE Known'
  BY <1>3 DEF MintFails
<1>4. ASSUME NEW t \in Threads, MintReturns(t) PROVE Known'
  BY <1>4 DEF MintReturns
<1>5. ASSUME NEW t \in Threads, VaultReads(t) PROVE Known'
  BY <1>5 DEF VaultReads, Usable
<1>6. ASSUME NEW t \in Threads, ReadFails(t) PROVE Known'
  BY <1>6 DEF ReadFails
<1>7. ASSUME NEW t \in Threads, QuietRevoke(t) PROVE Known'
  BY <1>7 DEF QuietRevoke, SelfRevoke, Usable
<1>8. ASSUME NEW t \in Threads, Hold(t) PROVE Known'
  BY <1>8 DEF Hold
<1>9. ASSUME NEW t \in Threads, HandOver(t) PROVE Known'
  BY <1>9 DEF HandOver
<1>10. ASSUME NEW t \in Threads, BadShape(t) PROVE Known'
  BY <1>10 DEF BadShape
<1>11. ASSUME NEW t \in Threads, NEW i \in Ids, CallRevoke(t, i) PROVE Known'
  BY <1>11 DEF CallRevoke
<1>12. ASSUME NEW t \in Threads, Drop(t) PROVE Known'
  BY <1>12 DEF Drop
<1>13. ASSUME NEW t \in Threads, VaultRevokes(t) PROVE Known'
  BY <1>13 DEF VaultRevokes, SelfRevoke, Usable
<1>14. ASSUME NEW t \in Threads, RevokeFails(t) PROVE Known'
  BY <1>14 DEF RevokeFails
<1>15. ASSUME NEW t \in Threads, RevokeReturns(t) PROVE Known'
  BY <1>15 DEF RevokeReturns
<1>16. ASSUME Tick PROVE Known'
  BY <1>16 DEF Tick
<1>17. ASSUME Restart PROVE Known'
  BY <1>17 DEF Restart
<1>18. CASE UNCHANGED vars
  BY <1>18 DEF vars, vault, broker
<1> QED
  BY <1>1, <1>2, <1>3, <1>4, <1>5, <1>6, <1>7, <1>8, <1>9,
     <1>10, <1>11, <1>12, <1>13, <1>14, <1>15, <1>16, <1>17, <1>18
     DEF Next, IssueStep, RevokeStep

LEMMA OnTimeStep == TypeOK /\ Known /\ OnTime /\ [Next]_vars => OnTime'
<1> SUFFICES ASSUME TypeOK, Known, OnTime, [Next]_vars PROVE OnTime'
  OBVIOUS
<1> USE LeaseAssumption DEF Known, Unborn, Exclusive, InHand, Issuing, OnTime,
        TypeOK, Places, Step, Done, vault, broker
<1>n. \A i \in Ids : span[i] \in Nat
  BY SpanIsTime
<1>1. ASSUME NEW t \in Threads, CallMint(t) PROVE OnTime'
  BY <1>1 DEF CallMint
<1>2. ASSUME NEW t \in Threads, VaultMints(t) PROVE OnTime'
  BY <1>2 DEF VaultMints
<1>3. ASSUME NEW t \in Threads, MintFails(t) PROVE OnTime'
  BY <1>3 DEF MintFails
<1>4. ASSUME NEW t \in Threads, MintReturns(t) PROVE OnTime'
  BY <1>4 DEF MintReturns
<1>5. ASSUME NEW t \in Threads, VaultReads(t) PROVE OnTime'
  BY <1>5 DEF VaultReads, Usable
<1>6. ASSUME NEW t \in Threads, ReadFails(t) PROVE OnTime'
  BY <1>6 DEF ReadFails
<1>7. ASSUME NEW t \in Threads, QuietRevoke(t) PROVE OnTime'
  BY <1>7 DEF QuietRevoke, SelfRevoke, Usable
<1>8. ASSUME NEW t \in Threads, Hold(t) PROVE OnTime'
  BY <1>8 DEF Hold
<1>9. ASSUME NEW t \in Threads, HandOver(t) PROVE OnTime'
  BY <1>9 DEF HandOver
<1>10. ASSUME NEW t \in Threads, BadShape(t) PROVE OnTime'
  BY <1>10 DEF BadShape
<1>11. ASSUME NEW t \in Threads, NEW i \in Ids, CallRevoke(t, i) PROVE OnTime'
  BY <1>11 DEF CallRevoke
<1>12. ASSUME NEW t \in Threads, Drop(t) PROVE OnTime'
  BY <1>12 DEF Drop
<1>13. ASSUME NEW t \in Threads, VaultRevokes(t) PROVE OnTime'
  BY <1>13 DEF VaultRevokes, SelfRevoke, Usable
<1>14. ASSUME NEW t \in Threads, RevokeFails(t) PROVE OnTime'
  BY <1>14 DEF RevokeFails
<1>15. ASSUME NEW t \in Threads, RevokeReturns(t) PROVE OnTime'
  BY <1>15 DEF RevokeReturns
<1>16. ASSUME Tick PROVE OnTime'
  <2>1. \A i \in Ids : token'[i] = "live" => token[i] = "live" /\ now + 1 < dies[i]
    BY <1>16 DEF Tick
  <2>2. \A i \in Ids : span[i] \in Nat /\ dies[i] \in Nat
    BY <1>n
  <2>3. now' = now + 1 /\ UNCHANGED <<span, dies, expires, held, given, pc, at>>
    BY <1>16 DEF Tick
  <2> QED
    BY <2>1, <2>2, <2>3
<1>17. ASSUME Restart PROVE OnTime'
  BY <1>17 DEF Restart
<1>18. CASE UNCHANGED vars
  BY <1>18 DEF vars, vault, broker
<1> QED
  BY <1>1, <1>2, <1>3, <1>4, <1>5, <1>6, <1>7, <1>8, <1>9,
     <1>10, <1>11, <1>12, <1>13, <1>14, <1>15, <1>16, <1>17, <1>18
     DEF Next, IssueStep, RevokeStep

LEMMA LeavingStep == TypeOK /\ Known /\ OnTime /\ Leaving /\ [Next]_vars => Leaving'
<1> SUFFICES ASSUME TypeOK, Known, OnTime, Leaving, [Next]_vars PROVE Leaving'
  OBVIOUS
<1> USE LeaseAssumption DEF Known, Unborn, Exclusive, InHand, Issuing, OnTime, Leaving,
        ReleasedMeansDead, TypeOK, Places, Step, Done, vault, broker
<1>1. ASSUME NEW t \in Threads, CallMint(t) PROVE Leaving'
  BY <1>1 DEF CallMint
<1>2. ASSUME NEW t \in Threads, VaultMints(t) PROVE Leaving'
  BY <1>2 DEF VaultMints
<1>3. ASSUME NEW t \in Threads, MintFails(t) PROVE Leaving'
  BY <1>3 DEF MintFails
<1>4. ASSUME NEW t \in Threads, MintReturns(t) PROVE Leaving'
  BY <1>4 DEF MintReturns
<1>5. ASSUME NEW t \in Threads, VaultReads(t) PROVE Leaving'
  BY <1>5 DEF VaultReads, Usable
<1>6. ASSUME NEW t \in Threads, ReadFails(t) PROVE Leaving'
  BY <1>6 DEF ReadFails
<1>7. ASSUME NEW t \in Threads, QuietRevoke(t) PROVE Leaving'
  BY <1>7 DEF QuietRevoke, SelfRevoke, Usable
<1>8. ASSUME NEW t \in Threads, Hold(t) PROVE Leaving'
  BY <1>8 DEF Hold
<1>9. ASSUME NEW t \in Threads, HandOver(t) PROVE Leaving'
  BY <1>9 DEF HandOver
<1>10. ASSUME NEW t \in Threads, BadShape(t) PROVE Leaving'
  BY <1>10 DEF BadShape
<1>11. ASSUME NEW t \in Threads, NEW i \in Ids, CallRevoke(t, i) PROVE Leaving'
  BY <1>11 DEF CallRevoke
<1>12. ASSUME NEW t \in Threads, Drop(t) PROVE Leaving'
  BY <1>12 DEF Drop
<1>13. ASSUME NEW t \in Threads, VaultRevokes(t) PROVE Leaving'
  BY <1>13 DEF VaultRevokes, SelfRevoke, Usable
<1>14. ASSUME NEW t \in Threads, RevokeFails(t) PROVE Leaving'
  BY <1>14 DEF RevokeFails
<1>15. ASSUME NEW t \in Threads, RevokeReturns(t) PROVE Leaving'
  BY <1>15 DEF RevokeReturns
<1>16. ASSUME Tick PROVE Leaving'
  BY <1>16 DEF Tick
<1>17. ASSUME Restart PROVE Leaving'
  BY <1>17 DEF Restart
<1>18. CASE UNCHANGED vars
  BY <1>18 DEF vars, vault, broker
<1> QED
  BY <1>1, <1>2, <1>3, <1>4, <1>5, <1>6, <1>7, <1>8, <1>9,
     <1>10, <1>11, <1>12, <1>13, <1>14, <1>15, <1>16, <1>17, <1>18
     DEF Next, IssueStep, RevokeStep

LEMMA Invariant == Spec => []LInv
<1>1. Init => LInv
  BY LeaseAssumption DEF Init, LInv, Known, Unborn, Exclusive, InHand, Issuing, OnTime,
     Leaving, ReleasedMeansDead, TypeOK, Places
<1>2. LInv /\ [Next]_vars => LInv'
  BY TypeStep, KnownStep, OnTimeStep, LeavingStep DEF LInv
<1> QED
  BY <1>1, <1>2, PTL DEF Spec

(* Every reachable state is well typed (ChildTokenLeases, Vault).          *)
THEOREM LeaseTypes == Spec => []TypeOK
<1>1. LInv => TypeOK
  BY DEF LInv
<1> QED
  BY <1>1, Invariant, PTL

(* A handle that was given out and is held no more stands for a dead token,*)
(* however calls are lost and threads revoke the same handle; only a       *)
(* restart lets go of a live one (ChildTokenLeases.revoke).                *)
THEOREM ReleasedAreDead == Spec => []ReleasedMeansDead
<1>1. LInv => ReleasedMeansDead
  BY DEF LInv, Leaving
<1> QED
  BY <1>1, Invariant, PTL

(* Reading the credential is never a token's last use: the two calls of an *)
(* issue and the revocation are all that is made with it, by one thread    *)
(* (CHILD_TOKEN_NUM_USES).                                                 *)
Unused == \A t \in Threads : pc[t] \in {"minted", "reading"} => uses[at[t]] = NumUses

THEOREM ReadIsNeverLast == ASSUME NumUses > 1 PROVE Spec => ReadKeepsToken
<1>1. Init => Unused
  BY DEF Init, Unused
<1>2. LInv /\ Unused /\ [Next]_vars => Unused'
  <2> SUFFICES ASSUME LInv, Unused, [Next]_vars PROVE Unused'
    OBVIOUS
  <2> USE LeaseAssumption DEF LInv, Known, Unborn, Exclusive, InHand, Issuing, Unused,
          TypeOK, Places, Step, Done, vault, broker
  <2>1. ASSUME NEW t \in Threads, VaultMints(t) PROVE Unused'
    BY <2>1 DEF VaultMints
  <2>2. ASSUME NEW t \in Threads, VaultReads(t) PROVE Unused'
    BY <2>2 DEF VaultReads
  <2>3. ASSUME NEW t \in Threads, QuietRevoke(t) \/ VaultRevokes(t) PROVE Unused'
    BY <2>3 DEF QuietRevoke, VaultRevokes, SelfRevoke
  <2>4. ASSUME NEW t \in Threads,
               \/ CallMint(t) \/ MintFails(t) \/ MintReturns(t) \/ ReadFails(t) \/ Hold(t)
               \/ HandOver(t) \/ BadShape(t) \/ (\E i \in Ids : CallRevoke(t, i))
               \/ Drop(t) \/ RevokeFails(t) \/ RevokeReturns(t)
        PROVE  Unused'
    BY <2>4 DEF CallMint, MintFails, MintReturns, ReadFails, Hold, HandOver, BadShape,
       CallRevoke, Drop, RevokeFails, RevokeReturns
  <2>5. ASSUME Tick \/ Restart \/ UNCHANGED vars PROVE Unused'
    BY <2>5 DEF Tick, Restart, vars
  <2> QED
    BY <2>1, <2>2, <2>3, <2>4, <2>5 DEF Next, IssueStep, RevokeStep
<1>3. LInv /\ Unused /\ [Next]_vars =>
          [\A i \in Ids : i \in lease' \ lease => token'[i] = "live"]_vars
  <2> SUFFICES ASSUME LInv, Unused, Next, NEW i \in Ids, i \in lease' \ lease
               PROVE  token'[i] = "live"
    OBVIOUS
  <2>1. PICK t \in Threads : VaultReads(t)
    BY DEF Next, IssueStep, RevokeStep, CallMint, VaultMints, MintFails, MintReturns, ReadFails,
       QuietRevoke, SelfRevoke, Hold, HandOver, BadShape, CallRevoke, Drop, VaultRevokes,
       RevokeFails, RevokeReturns, Tick, Restart, vault
  <2> QED
    BY <2>1 DEF VaultReads, Usable, LInv, Known, Exclusive, Issuing, Unused, TypeOK, Step
<1> QED
  BY <1>1, <1>2, <1>3, Invariant, PTL DEF Spec, ReadKeepsToken

-----------------------------------------------------------------------------
(* The contract.                                                           *)

grantOf == [i \in Ids |-> IF i \notin given THEN "none"
                          ELSE IF token[i] = "live" THEN "active" ELSE "ended"]
heldOf == held \cap given
SameContract == grantOf' = grantOf /\ heldOf' = heldOf

(* What is done with a token that has not been given out is no step of the *)
(* contract.                                                               *)
LEMMA Unseen ==
    ASSUME LInv, NEW t \in Threads,
           \/ CallMint(t) \/ VaultMints(t) \/ MintFails(t) \/ MintReturns(t) \/ VaultReads(t)
           \/ ReadFails(t) \/ QuietRevoke(t) \/ Hold(t) \/ BadShape(t)
           \/ (\E i \in Ids : CallRevoke(t, i)) \/ RevokeFails(t)
    PROVE  SameContract
<1> USE DEF LInv, Known, Unborn, Exclusive, InHand, Issuing, TypeOK, Step, Done, vault, broker,
        SameContract, grantOf, heldOf
<1>1. CASE VaultMints(t)
  BY <1>1 DEF VaultMints
<1>2. CASE VaultReads(t)
  BY <1>2 DEF VaultReads
<1>3. CASE QuietRevoke(t)
  BY <1>3 DEF QuietRevoke, SelfRevoke
<1>4. CASE Hold(t)
  BY <1>4 DEF Hold
<1>5. CASE UNCHANGED <<token, given, held>>
  BY <1>5
<1> QED
  BY <1>1, <1>2, <1>3, <1>4, <1>5 DEF CallMint, MintFails, MintReturns, ReadFails, BadShape,
     CallRevoke, RevokeFails

(* A token that is dropped from the table is dead.                         *)
LEMMA Released ==
    ASSUME LInv, NEW t \in Threads, Drop(t) \/ RevokeReturns(t)
    PROVE  \E i \in Ids : Contract!RevokeReturns(i)
<1>a. at[t] \in Ids
  BY DEF LInv, Known, InHand, TypeOK, Step, Done, Drop, RevokeReturns
<1>b. PICK i \in Ids : i = at[t]
  BY <1>a
<1>1. /\ token[i] = "dead"
      /\ held' = held \ {i}
      /\ UNCHANGED <<token, given>>
  BY <1>b, LeaseAssumption DEF LInv, Known, Unborn, InHand, OnTime, Leaving, TypeOK, Step, Done, Drop,
     RevokeReturns, vault
<1>2. grantOf' = grantOf /\ heldOf' = heldOf \ {i}
  BY <1>1 DEF grantOf, heldOf
<1>3. i \in heldOf => grantOf = [grantOf EXCEPT ![i] = "ended"]
  BY <1>1 DEF grantOf, heldOf
<1> QED
  BY <1>1, <1>2, <1>3 DEF Contract!RevokeReturns, grantOf, heldOf

LEMMA IsContractStep ==
    ASSUME NEW i \in Ids,
           \/ Contract!Mint(i, TRUE) \/ Contract!RevokeReturns(i)
           \/ Contract!RevokeRaises(i)
    PROVE  Contract!ContractNext
  BY Zenon DEF Contract!ContractNext

LEMMA IsLapse ==
    ASSUME NEW ids \in SUBSET Ids, Contract!Lapse(ids)
    PROVE  Contract!ContractNext
  BY Zenon DEF Contract!ContractNext

(* What CheckoutRegistry takes for granted of an issuer, ChildTokenLeases  *)
(* gives it: a grant is minted once and only ever moves towards its end,   *)
(* and a revoke that returns has ended it (Issuer.issue, Issuer.revoke).   *)
THEOREM LeasesImplementContract == Spec => ImplementsContract
<1>1. Init => Contract!ContractInit
  BY DEF Init, Contract!ContractInit
<1>2. LInv /\ [Next]_vars => [Contract!ContractNext]_(Contract!contractVars)
  <2> SUFFICES ASSUME LInv, [Next]_vars
               PROVE  Contract!ContractNext \/ SameContract
    BY DEF SameContract, Contract!contractVars, grantOf, heldOf
  <2>1. ASSUME NEW t \in Threads, HandOver(t) PROVE Contract!ContractNext
    <3>a. at[t] \in Ids
      BY <2>1 DEF HandOver, LInv, Known, Exclusive, Issuing, Step, Done
    <3>b. PICK i \in Ids : i = at[t]
      BY <3>a
    <3>1. /\ i \notin given /\ i \in held
          /\ given' = given \cup {i} /\ UNCHANGED <<token, held>>
      BY <3>b, <2>1 DEF HandOver, LInv, Known, InHand, Exclusive, Issuing, TypeOK, Step, Done, vault
    <3>2. heldOf' = heldOf \cup {i} /\ grantOf[i] = "none"
      BY <3>1 DEF heldOf, grantOf
    <3>3. \/ grantOf' = [grantOf EXCEPT ![i] = "active"]
          \/ grantOf' = [grantOf EXCEPT ![i] = "ended"]
      BY <3>1 DEF grantOf
    <3>4. Contract!Mint(i, TRUE)
      BY <3>2, <3>3 DEF Contract!Mint, grantOf, heldOf
    <3> QED
      BY <3>4, IsContractStep
  <2>2. ASSUME NEW t \in Threads, Drop(t) \/ RevokeReturns(t) PROVE Contract!ContractNext
    BY <2>2, Released, IsContractStep
  <2>3. ASSUME NEW t \in Threads, VaultRevokes(t) PROVE Contract!ContractNext \/ SameContract
    <3>a. at[t] \in Ids
      BY <2>3 DEF VaultRevokes, LInv, Known, InHand, Step
    <3>b. PICK i \in Ids : i = at[t]
      BY <3>a
    <3>1. /\ token' = [token EXCEPT ![i] = "dead"]
          /\ UNCHANGED <<given, held>>
      BY <3>b, <2>3 DEF VaultRevokes, SelfRevoke, broker
    <3>2. CASE i \notin given
      BY <3>1, <3>2 DEF SameContract, grantOf, heldOf
    <3>3. CASE i \in given
      <4>1. grantOf[i] # "none" /\ heldOf' = heldOf
        BY <3>1, <3>3 DEF grantOf, heldOf
      <4>2. grantOf' = [grantOf EXCEPT ![i] = "ended"]
        BY <3>1, <3>3 DEF grantOf, LInv, TypeOK
      <4>3. Contract!RevokeRaises(i)
        BY <4>1, <4>2 DEF Contract!RevokeRaises, grantOf, heldOf
      <4> QED
        BY <4>3, IsContractStep
    <3> QED
      BY <3>2, <3>3
  <2>4. ASSUME Tick PROVE Contract!ContractNext
    <3>a. PICK ids \in SUBSET Ids : ids = {i \in Ids : dies[i] <= now + 1}
      OBVIOUS
    <3>1. UNCHANGED <<given, held>>
      BY <2>4 DEF Tick, broker
    <3>2. \A i \in Ids : (token'[i] = "live") <=> (token[i] = "live" /\ i \notin ids)
      BY <3>a, <2>4 DEF Tick, LInv, TypeOK
    <3>3. grantOf' = [i \in Ids |-> IF i \in ids /\ grantOf[i] = "active"
                                    THEN "ended" ELSE grantOf[i]]
      BY <3>1, <3>2 DEF grantOf
    <3>4. Contract!Lapse(ids)
      BY <3>1, <3>3 DEF Contract!Lapse, grantOf, heldOf
    <3> QED
      BY <3>4, IsLapse
  <2>5. ASSUME Restart PROVE Contract!ContractNext
    <3>1. Contract!Forget
      BY <2>5 DEF Restart, Contract!Forget, vault
    <3> QED
      BY <3>1 DEF Contract!ContractNext
  <2>6. CASE UNCHANGED vars
    BY <2>6 DEF vars, vault, broker, SameContract, grantOf, heldOf
  <2>7. ASSUME NEW t \in Threads,
               \/ CallMint(t) \/ VaultMints(t) \/ MintFails(t) \/ MintReturns(t)
               \/ VaultReads(t) \/ ReadFails(t) \/ QuietRevoke(t) \/ Hold(t) \/ BadShape(t)
               \/ (\E i \in Ids : CallRevoke(t, i)) \/ RevokeFails(t)
        PROVE  SameContract
    BY <2>7, Unseen
  <2> QED
    BY <2>1, <2>2, <2>3, <2>4, <2>5, <2>6, <2>7 DEF Next, IssueStep, RevokeStep
<1> QED
  BY <1>1, <1>2, Invariant, PTL DEF Spec, ImplementsContract, Contract!ContractSpec
=============================================================================
