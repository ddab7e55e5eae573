--------------------------- MODULE MCExecCheckout ---------------------------
(***************************************************************************)
(* Small instances of ExecCheckout for TLC: a few manifest entries of each *)
(* kind, and hosts with every mixture of complete, half and file-borne     *)
(* AppRole material, tokens and Kubernetes roles.                          *)
(***************************************************************************)
EXTENDS ExecCheckout

CONSTANTS f, g, h, c, p, q

Sound == [source |-> "vault", naming |-> "declared", list |-> "all", single |-> "absent",
          target |-> f :> "A" @@ g :> "B" @@ h :> "C",
          qualified |-> TRUE, receiptId |-> TRUE, usable |-> TRUE]

OneField == [Sound EXCEPT !.list = "absent", !.single = "one"]

(* Two fields that are equal up to case, and one named like the receipt. *)
SomeBareNames == f :> "A" @@ g :> "A" @@ h :> Receipt

SomeDecls ==
    {Sound, OneField,
     [Sound EXCEPT !.naming = "bare"],
     [Sound EXCEPT !.naming = "malformed"],
     [Sound EXCEPT !.single = "malformed"],
     [Sound EXCEPT !.qualified = FALSE],
     [Sound EXCEPT !.source = "suite"],
     [Sound EXCEPT !.source = "e2e"],
     [OneField EXCEPT !.target[f] = "B"],
     [OneField EXCEPT !.target[f] = "LANG"],
     [OneField EXCEPT !.source = "suite", !.target[f] = Receipt],
     [OneField EXCEPT !.source = "env", !.naming = "bare", !.target[f] = "9"]}

SomeHosts ==
    LET approle == {{}, {"VAULT_ROLE_ID"}, {"VAULT_ROLE_ID", "VAULT_SECRET_ID"},
                    {"VAULT_ROLE_ID", "VAULT_SECRET_ID_FILE"}}
        plane == {[state |-> "read", vars |-> s \cup {"VAULT_ADDR"}] : s \in approle}
                    \cup {NoPlane, [state |-> "unreadable", vars |-> {}]}
    IN  [k8s : BOOLEAN, planes : {<<a, b>> : a, b \in plane},
         proc : {{}, {"VAULT_TOKEN", "VAULT_ADDR"}, {"VAULT_K8S_ROLE"}, {"VAULT_SECRET_ID"},
                 {"VAULT_TOKEN", "VAULT_SECRET_ID_RESPONSE_WRAPPED"}},
         sound : {{}, {"VAULT_SECRET_ID_FILE"}}]
=============================================================================
