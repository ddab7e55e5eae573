-------------------------- MODULE ChildTokenLeases --------------------------
(***************************************************************************)
(* Token-bound leases (broker/issuers.py, ChildTokenLeases and             *)
(* VaultK8sTokenIssuer): every checkout gets a child token of its own, its *)
(* credential is read with that token, and revoking means the child token  *)
(* revoking itself.  Vault is external: a token there dies when its ttl is *)
(* over, when it revokes itself, or with its last use, and the credential  *)
(* dies with it.  Any call may be lost on the way there or back, and       *)
(* several broker threads issue and revoke at once, the same handle too.   *)
(*                                                                         *)
(* A child token is named by its accessor, the revocation handle.          *)
(***************************************************************************)
EXTENDS Integers, FiniteSets

CONSTANTS
    Ids,          \* accessors
    Threads,      \* broker threads that call the issuer
    Ttls,         \* the lifetimes Vault may give a child token
    NumUses,      \* CHILD_TOKEN_NUM_USES
    NoId,         \* "no token"
    MaxTime,      \* bounds: the clock,
    MaxRestarts   \*   and the restarts of the broker

ASSUME LeaseAssumption ==
    /\ Ttls \subseteq Nat \ {0}
    /\ NumUses \in Nat \ {0}
    /\ NoId \notin Ids
    /\ MaxTime \in Nat /\ MaxRestarts \in Nat

VARIABLES
    now,
    token,   \* Vault: [Ids -> {"none", "live", "dead"}]
    span,    \* Vault: the lifetime it gave a token,
    dies,    \* Vault:   and when that is over
    uses,    \* Vault: the uses a token has left
    lease,   \* Vault: tokens with which a credential was read
    held,    \* ChildTokenLeases._held: the tokens in memory
    expires, \* _Child.expires_at: when the broker takes a token to be over
    given,   \* handles that issue has returned to the registry
    lost,    \* handles given out by a process that is gone
    pc,      \* where each thread is: see Places
    at,      \* the token the thread is working on
    restarts

vault == <<token, span, dies, uses, lease>>
broker == <<held, expires, given, lost>>
vars == <<now, vault, broker, pc, at, restarts>>

Places == {"idle",
           "minting", "minted", "reading", "read", "shape", "quiet",
           "dropping", "revoking", "revoked"}

TypeOK ==
    /\ now \in 0..MaxTime
    /\ token \in [Ids -> {"none", "live", "dead"}]
    /\ span \in [Ids -> Ttls \cup {0}]
    /\ dies \in [Ids -> Nat]
    /\ uses \in [Ids -> 0..NumUses]
    /\ lease \in SUBSET Ids
    /\ held \in SUBSET Ids
    /\ expires \in [Ids -> Nat]
    /\ given \in SUBSET Ids
    /\ lost \in SUBSET Ids
    /\ pc \in [Threads -> Places]
    /\ at \in [Threads -> Ids \cup {NoId}]
    /\ restarts \in 0..MaxRestarts

Init ==
    /\ now = 0
    /\ token = [i \in Ids |-> "none"]
    /\ span = [i \in Ids |-> 0]
    /\ dies = [i \in Ids |-> 0]
    /\ uses = [i \in Ids |-> 0]
    /\ lease = {} /\ held = {} /\ given = {} /\ lost = {}
    /\ expires = [i \in Ids |-> 0]
    /\ pc = [t \in Threads |-> "idle"]
    /\ at = [t \in Threads |-> NoId]
    /\ restarts = 0

Step(t, from, to) == pc[t] = from /\ pc' = [pc EXCEPT ![t] = to]

\* The thread is through with its call, with a result or an IssuerError.
Done(t, from) == Step(t, from, "idle") /\ at' = [at EXCEPT ![t] = NoId]

-----------------------------------------------------------------------------
(* Vault, external.  A use is counted when the request arrives; the last    *)
(* one takes the token with it, as does a token revoking itself.            *)

Usable(i) == token[i] = "live" /\ uses[i] > 0

\* Variant for the mutation runs: num_uses of 1.
VaultMints_OneUse(t) ==
    /\ \E i \in Ids, ttl \in Ttls :
          /\ token[i] = "none"
          /\ token' = [token EXCEPT ![i] = "live"]
          /\ span' = [span EXCEPT ![i] = ttl]
          /\ dies' = [dies EXCEPT ![i] = now + ttl]
          /\ uses' = [uses EXCEPT ![i] = 1]
          /\ at' = [at EXCEPT ![t] = i]
    /\ Step(t, "minting", "minted")
    /\ UNCHANGED <<now, lease, broker, restarts>>

VaultMints(t) ==
    /\ \E i \in Ids, ttl \in Ttls :
          /\ token[i] = "none"
          /\ token' = [token EXCEPT ![i] = "live"]
          /\ span' = [span EXCEPT ![i] = ttl]
          /\ dies' = [dies EXCEPT ![i] = now + ttl]
          /\ uses' = [uses EXCEPT ![i] = NumUses]
          /\ at' = [at EXCEPT ![t] = i]
    /\ Step(t, "minting", "minted")
    /\ UNCHANGED <<now, lease, broker, restarts>>

VaultReads(t) ==
    /\ Step(t, "reading", "read")
    /\ Usable(at[t])
    /\ uses' = [uses EXCEPT ![at[t]] = @ - 1]
    /\ token' = [token EXCEPT ![at[t]] = IF uses[at[t]] = 1 THEN "dead" ELSE @]
    /\ lease' = lease \cup {at[t]}
    /\ UNCHANGED <<now, span, dies, broker, at, restarts>>

\* A request auth/token/revoke-self with the token i.
SelfRevoke(i) ==
    /\ Usable(i)
    /\ token' = [token EXCEPT ![i] = "dead"]
    /\ uses' = [uses EXCEPT ![i] = @ - 1]
    /\ UNCHANGED <<span, dies, lease>>

-----------------------------------------------------------------------------
(* ChildTokenLeases.issue, then the end of VaultK8sTokenIssuer.issue.       *)

CallMint(t) ==
    /\ Step(t, "idle", "minting")
    /\ UNCHANGED <<now, vault, broker, at, restarts>>

\* The mint raised or was answered in an unexpected shape.  If Vault had served
\* it, a token nobody knows lives on until its ttl is over.
MintFails(t) ==
    /\ Done(t, "minting") \/ Done(t, "minted")
    /\ UNCHANGED <<now, vault, broker, restarts>>

\* Variant for the mutation runs: a safety margin on the wrong side.
MintReturns_Margin(t) ==
    /\ Step(t, "minted", "reading")
    /\ expires' = [expires EXCEPT ![at[t]] = now + span[at[t]] - 1]
    /\ UNCHANGED <<now, vault, held, given, lost, at, restarts>>

\* The reply names the lifetime; for the broker it counts from now on.
MintReturns(t) ==
    /\ Step(t, "minted", "reading")
    /\ expires' = [expires EXCEPT ![at[t]] = now + span[at[t]]]
    /\ UNCHANGED <<now, vault, held, given, lost, at, restarts>>

\* The read raised, whether or not Vault had served it: the token nobody will
\* use is revoked, once, and the outcome ignored (_revoke_quietly).
ReadFails(t) ==
    /\ Step(t, "reading", "quiet") \/ Step(t, "read", "quiet")
    /\ UNCHANGED <<now, vault, broker, at, restarts>>

QuietRevoke(t) ==
    /\ Done(t, "quiet")
    /\ SelfRevoke(at[t]) \/ UNCHANGED vault
    /\ UNCHANGED <<now, broker, restarts>>

\* The credential is here: the token is kept, under its accessor.
Hold(t) ==
    /\ Step(t, "read", "shape")
    /\ held' = held \cup {at[t]}
    /\ UNCHANGED <<now, vault, expires, given, lost, at, restarts>>

\* The handle goes back to the registry,
HandOver(t) ==
    /\ Done(t, "shape")
    /\ given' = given \cup {at[t]}
    /\ UNCHANGED <<now, vault, held, expires, lost, restarts>>

\* or the credential had an unexpected shape and the lease is revoked at once.
BadShape(t) ==
    /\ pc[t] = "shape"
    /\ pc' = [pc EXCEPT ![t] = IF now >= expires[at[t]] THEN "dropping" ELSE "revoking"]
    /\ UNCHANGED <<now, vault, broker, at, restarts>>

-----------------------------------------------------------------------------
(* ChildTokenLeases.revoke, by any thread, for a handle it was given.  A    *)
(* handle that is not held is an accessor of a token lost with an earlier   *)
(* process, or revoked meanwhile: the call returns and nothing changes.     *)

CallRevoke(t, i) ==
    /\ i \in given \cap held
    /\ pc[t] = "idle"
    /\ pc' = [pc EXCEPT ![t] = IF now >= expires[i] THEN "dropping" ELSE "revoking"]
    /\ at' = [at EXCEPT ![t] = i]
    /\ UNCHANGED <<now, vault, broker, restarts>>

\* Past its time the token is dropped without a call.
Drop(t) ==
    /\ Done(t, "dropping")
    /\ held' = held \ {at[t]}
    /\ UNCHANGED <<now, vault, expires, given, lost, restarts>>

VaultRevokes(t) ==
    /\ Step(t, "revoking", "revoked")
    /\ SelfRevoke(at[t])
    /\ UNCHANGED <<now, broker, at, restarts>>

\* Variant for the mutation runs: the table forgets a token it failed to revoke.
RevokeFails_Forgets(t) ==
    /\ Done(t, "revoking") \/ Done(t, "revoked")
    /\ held' = held \ {at[t]}
    /\ UNCHANGED <<now, vault, expires, given, lost, restarts>>

\* The call raised: lost on the way, refused by Vault, or its reply lost.  The
\* token stays in the table.
RevokeFails(t) ==
    /\ Done(t, "revoking") \/ Done(t, "revoked")
    /\ UNCHANGED <<now, vault, broker, restarts>>

RevokeReturns(t) ==
    /\ Done(t, "revoked")
    /\ held' = held \ {at[t]}
    /\ UNCHANGED <<now, vault, expires, given, lost, restarts>>

-----------------------------------------------------------------------------
Tick ==
    /\ now < MaxTime
    /\ now' = now + 1
    /\ token' = [i \in Ids |-> IF token[i] = "live" /\ dies[i] <= now + 1
                               THEN "dead" ELSE token[i]]
    /\ UNCHANGED <<span, dies, uses, lease, broker, pc, at, restarts>>

\* The broker restarts: tokens and threads are gone, handles and Vault are not.
Restart ==
    /\ restarts < MaxRestarts
    /\ restarts' = restarts + 1
    /\ held' = {}
    /\ lost' = lost \cup (given \cap held)
    /\ pc' = [t \in Threads |-> "idle"]
    /\ at' = [t \in Threads |-> NoId]
    /\ UNCHANGED <<now, vault, expires, given>>

IssueStep(t) ==
    \/ VaultMints(t) \/ MintFails(t) \/ MintReturns(t)
    \/ VaultReads(t) \/ ReadFails(t) \/ QuietRevoke(t)
    \/ Hold(t) \/ HandOver(t) \/ BadShape(t)

RevokeStep(t) == Drop(t) \/ VaultRevokes(t) \/ RevokeFails(t) \/ RevokeReturns(t)

Next ==
    \/ \E t \in Threads : \/ CallMint(t) \/ IssueStep(t)
                          \/ (\E i \in Ids : CallRevoke(t, i)) \/ RevokeStep(t)
    \/ Tick
    \/ Restart

Spec == Init /\ [][Next]_vars

-----------------------------------------------------------------------------
(* Properties.                                                              *)

\* A handle that was given out and is held no more stands for a dead token: the
\* table lets go of a token only when Vault has killed it, by revoke-self or
\* because its time was up there too, however calls are lost or two threads
\* revoke the same handle.  Only a restart lets go of a live one.
ReleasedMeansDead ==
    \A i \in (given \ held) \ lost : token[i] = "dead"

\* Reading the credential is never a token's last use, which would kill the
\* credential while the broker hands it out (CHILD_TOKEN_NUM_USES, comment).
ReadKeepsToken ==
    [][\A i \in Ids : i \in lease' \ lease => token'[i] = "live"]_vars

\* What the registry relies on: a grant exists once its handle is given out.  A
\* token whose handle never got that far is no grant.
Contract == INSTANCE IssuerContract WITH
    grant <- [i \in Ids |-> IF i \notin given THEN "none"
                            ELSE IF token[i] = "live" THEN "active" ELSE "ended"],
    held <- held \cap given

ImplementsContract == Contract!ContractSpec
=============================================================================
