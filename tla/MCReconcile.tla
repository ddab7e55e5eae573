----------------------------- MODULE MCReconcile -----------------------------
(* Small instance of Reconcile for TLC: four harnesses, of which one or two *)
(* are installed, credentials and browsers declared soundly and otherwise:  *)
(* two that share a shim, one whose shim Codex does not list, a pin that is *)
(* a version and one that is a tag.                                         *)
EXTENDS Reconcile

Credential ==
    [id |-> "cred:a", provider |-> "cred", harnesses |-> {"opencode", "zcode", "hermes"},
     shim |-> "cred-a", plane |-> "vault.env", sound |-> TRUE, source |-> "vault",
     pin |-> "none", rung |-> "env", issues |-> FALSE, floor |-> "none"]

Other == [Credential EXCEPT !.id = "cred:b", !.plane = "b.env",
                            !.harnesses = {"codex", "hermes"}]
Hidden == [Other EXCEPT !.id = "cred:d", !.shim = ".hidden", !.harnesses = {"codex", "zcode"}]

Browser == [Credential EXCEPT !.id = "e2e:c", !.provider = "e2e", !.shim = "e2e-c",
                              !.harnesses = Harnesses, !.pin = "1.0"]

SomeManifests ==
    {<<Credential, Browser>>,
     <<[Other EXCEPT !.source = "suite"], [Browser EXCEPT !.pin = "next"],
       [Hidden EXCEPT !.sound = FALSE, !.harnesses = {"zcode"}]>>,
     <<Hidden, Credential, [Other EXCEPT !.floor = "D1", !.issues = TRUE]>>,
     <<[Other EXCEPT !.floor = "H1"]>>}

SomeCapabilities == UNION {ToSet(m) : m \in SomeManifests}

SomeUnlisted == {<<"codex", ".hidden">>, <<"zcode", ".hidden">>}

Npx(tag) == [kind |-> "runs", at |-> tag, on |-> TRUE]

SomeConfigs ==
    {<<>>, "other" :> Npx("latest") @@ Wired :> [Npx("latest") EXCEPT !.on = FALSE]}

SomeAnswers ==
    {"vault.env" :> "present_ok" @@ "b.env" :> b : b \in {"present_broken", "unknown"}}

SomeInstalls == {{"opencode", "codex"}, {"zcode"}, {"hermes"}}
=============================================================================
