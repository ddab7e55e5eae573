---------------------------- MODULE VaultIdentity ----------------------------
(***************************************************************************)
(* Which identity ACB presents to Vault (cred_vault.py): the variables of  *)
(* one plane file and of the process, merged; then Kubernetes, AppRole and *)
(* token, in that order.  Pure operators over a host, a record of          *)
(*   k8s    - is there a service-account token?                            *)
(*   planes - the candidate plane files in order: whether each is "absent",*)
(*            "unreadable" or "read", and the variables it sets            *)
(*   proc   - the variables the process environment sets                   *)
(*   sound  - the variables whose credential file exists and holds a value *)
(* A variable set to the empty string counts as unset, as in the code.     *)
(***************************************************************************)
EXTENDS Naturals, Sequences

AppRoleVars == {"VAULT_ROLE_ID", "VAULT_ROLE_ID_FILE",
                "VAULT_SECRET_ID", "VAULT_SECRET_ID_FILE"}
VaultVars == AppRoleVars \cup {"VAULT_ADDR", "VAULT_TOKEN", "VAULT_K8S_ROLE",
                               "VAULT_SECRET_ID_RESPONSE_WRAPPED"}

Methods == {"k8s", "approle", "token"}
Refused == "refused"

NoPlane == [state |-> "absent", vars |-> {}]

(* _load_env_file: the first candidate that exists is the plane file. *)
PlaneFile(planes) ==
    LET there == {i \in DOMAIN planes : planes[i].state # "absent"}
    IN  IF there = {} THEN NoPlane
        ELSE planes[CHOOSE i \in there : \A j \in there : i <= j]

(* _vault_env: an explicit plane is authoritative; otherwise the process   *)
(* environment is merged over the file.                                    *)
VaultEnv(h, explicit) ==
    PlaneFile(h.planes).vars \cup (IF explicit THEN {} ELSE h.proc)

DeclaresAppRole(env) == env \cap AppRoleVars # {}

(* _approle_material: half a role, a wrapped SecretID or a credential file *)
(* that cannot be used refuses; the *_FILE form wins over the inline one.  *)
UsableMaterial(env, sound) ==
    /\ env \cap {"VAULT_ROLE_ID", "VAULT_ROLE_ID_FILE"} # {}
    /\ env \cap {"VAULT_SECRET_ID", "VAULT_SECRET_ID_FILE"} # {}
    /\ "VAULT_SECRET_ID_RESPONSE_WRAPPED" \notin env
    /\ env \cap {"VAULT_ROLE_ID_FILE", "VAULT_SECRET_ID_FILE"} \subseteq sound

K8sLogin(h, env) == h.k8s /\ "VAULT_K8S_ROLE" \in env

TokenOrNothing(env) == IF "VAULT_TOKEN" \in env THEN "token" ELSE Refused

(* Plausible bug: an AppRole that cannot be used falls through to the token. *)
Authenticate_FallsThrough(h, env) ==
    IF K8sLogin(h, env) THEN "k8s"
    ELSE IF UsableMaterial(env, h.sound) THEN "approle" ELSE TokenOrNothing(env)

(* _authenticate: the method a client is logged in by, or Refused. *)
Authenticate(h, env) ==
    IF K8sLogin(h, env) THEN "k8s"
    ELSE IF ~DeclaresAppRole(env) THEN TokenOrNothing(env)
    ELSE IF UsableMaterial(env, h.sound) THEN "approle" ELSE Refused

(* resolve, reachable and authenticated_client: a plane file that can be   *)
(* read or none, an address, an identity - and for the broker no token.    *)
Identity(h, explicit, allowToken) ==
    LET env == VaultEnv(h, explicit)
        how == Authenticate(h, env)
    IN  IF \/ PlaneFile(h.planes).state = "unreadable"
           \/ "VAULT_ADDR" \notin env
           \/ how = "token" /\ ~allowToken
        THEN Refused
        ELSE how
=============================================================================
