------------------------------- MODULE Reconcile -------------------------------
(***************************************************************************)
(* The act path over the harnesses of one machine (cli.py reconcile        *)
(* --apply, install-harness and register, the providers' plan_reconcile    *)
(* and apply, adapters.py) and what acb doctor says of the result          *)
(* (inspect, surface.py, the assurance report).  A run plans from what it  *)
(* reads, then applies one action at a time; meanwhile the harness writes  *)
(* its own configuration and the operator edits files, and the run may be  *)
(* killed.                                                                 *)
(*                                                                         *)
(* A configuration file holds MCP servers, name to launcher; one that does *)
(* not parse still holds them.  A shim is the set of capabilities its text *)
(* has "acb exec" for, the plane file it names, and if it can be read.     *)
(***************************************************************************)
EXTENDS Naturals, SequencesExt

CONSTANTS
    Harnesses,      \* the known harnesses,
    Opencode,       \*   the one whose launchers can be pinned,
    Addable,        \*   those a server can be added to,
    RootOnly,       \*   those that need no configuration file to be there,
    YamlConfig,     \*   those whose file only parses with an optional package
    Capabilities,   \* what a manifest may declare: see Declarations
    Manifests,      \* what an operator may write: sequences of capabilities
    Configs,        \* what a harness may write: servers, by name
    Versions, Tags, \* what a package can be fixed at, and left floating at
    Unlisted,       \* the shims a harness has and does not list: <<harness, name>>
    Planes,         \* Vault plane files,
    Answers,        \*   and what a token self-lookup by each may say
    Installs,       \* the sets of harnesses a machine may have
    MaxEdits, MaxRuns, MaxFaults    \* bounds

Wired == "playwright"       \* the name ACB gives the server it adds

(* What a server is launched with: nothing of Playwright; Playwright, at a *)
(* version or a tag; the same, but a package other than the one that gets  *)
(* pinned floats.  A tag is what npx resolves on every start: "@latest",   *)
(* "@next", or no version at all.                                          *)
Launchers ==
    [kind : {"plain", "runs", "elsewhere"}, at : Versions \cup Tags, on : BOOLEAN]
Playwright(l) == l.kind # "plain"
Floats(l) == l.kind = "elsewhere" \/ (l.kind = "runs" /\ l.at \in Tags)

Rungs == {"helper", "proxy", "remote-op", "env"}
Levels == <<"D0", "D1", "H1", "H1+D1">>
Undeclared == "none"
NoPin == "none"

(* options.pin is any text, a tag as well.                                 *)
Declarations ==
    [id : STRING, provider : {"cred", "e2e"}, harnesses : SUBSET Harnesses,
     shim : STRING, plane : Planes, sound : BOOLEAN, source : {"vault", "suite"},
     pin : {NoPin} \cup Versions \cup Tags, rung : Rungs, issues : BOOLEAN,
     floor : ToSet(Levels) \cup {Undeclared}]

(* The ids of a manifest are the keys of a table, so each is there once.   *)
(* Codex and ZCode do not list a shim whose name begins with a dot, and no *)
(* harness one with a slash in it.                                         *)
ASSUME ReconcileAssumption ==
    /\ IsFiniteSet(Harnesses)
    /\ Opencode \in Addable /\ Addable \cup RootOnly \cup YamlConfig \subseteq Harnesses
    /\ Installs \subseteq SUBSET Harnesses
    /\ Unlisted \subseteq Harnesses \X STRING
    /\ Capabilities \subseteq Declarations
    /\ Manifests \subseteq Seq(Capabilities)
    /\ \A m \in Manifests : \A i, j \in DOMAIN m : m[i].id = m[j].id => i = j
    /\ Answers \subseteq [Planes -> {"present_ok", "present_broken", "unknown"}]
    /\ {MaxEdits, MaxRuns, MaxFaults} \subseteq Nat

VARIABLES
    manifest,   \* capabilities.toml: does it parse, and what it declares
    config,     \* for each harness its configuration file
    backups,    \*   and what the backups beside it hold
    shims,      \* for each harness its shims, by name
    hosts,      \* the harnesses installed here
    browsers, yaml,     \* are browsers there? is the YAML package?
    reach,      \* for each plane: what a token self-lookup says
    mode, scope, pc,    \* the run, its harnesses, and where it is: see Places
    entry,      \* the id that is being registered
    plan,       \* its actions
    data,       \* the servers it has loaded from a file
    results,    \* of the actions so far
    code,       \* its exit code
    since,      \* the number of edits by others when it began
    edits, runs, faults,    \* counted (bounds)
    theirs,     \* history: entries the harness wrote, and not ACB
    raced,      \*   and those it wrote between a backup and the write
    between,    \* history: shims others wrote since ACB looked for one
    replaned    \* history: was the manifest edited?

files == <<config, backups, shims>>
host == <<hosts, browsers, yaml, reach>>
run == <<mode, scope, pc, entry, plan, data, results, code, since>>
bounds == <<edits, runs, faults>>
history == <<theirs, raced, between, replaned>>
vars == <<manifest, files, host, run, bounds, history>>

Places == {"idle", "next", "render", "load", "backup", "write", "emit"}
NoEntry == "none"
Modes == {"none", "reconcile", "install", "register"}
Codes == {"none", "0", "1", "2", "killed", "internal"}

Entries(servers) == {<<n, servers[n]>> : n \in DOMAIN servers}
NoServers == <<>>
NoFile == [state |-> "absent", servers |-> NoServers]
Sound(servers) == [state |-> "sound", servers |-> servers]
Truncated == [state |-> "corrupt", servers |-> NoServers]

(* One more entry, or another content for it. *)
Put(entries, n, what) ==
    [x \in DOMAIN entries \cup {n} |-> IF x = n THEN what ELSE entries[x]]

(* What ACB renders; a text that brokers nothing, or is cut short; and one *)
(* that cannot be read, or is too long to be.                              *)
Body(c) == [ids |-> {c.id}, plane |-> c.plane, readable |-> TRUE]
NoBody == [ids |-> {}, plane |-> "none", readable |-> TRUE]
Unreadable == [NoBody EXCEPT !.readable = FALSE]

-----------------------------------------------------------------------------
(* The manifest and the assurance of a capability (model.py). *)

Rank(l) == CHOOSE i \in DOMAIN Levels : Levels[i] = l

Effective(c) ==
    CASE c.rung = "remote-op" -> IF c.issues THEN "H1+D1" ELSE "H1"
      [] OTHER -> IF c.issues THEN "D1" ELSE "D0"

(* hidden_floor_problem. *)
Unattainable(c) == c.floor \in {"H1", "H1+D1"} /\ c.rung # "remote-op"

Parses(caps) == caps # <<>> /\ \A i \in DOMAIN caps : ~Unattainable(caps[i])

Declared == ToSet(manifest.caps)

-----------------------------------------------------------------------------
(* Reading a harness. *)

Available(h) == h \in hosts /\ (h \in RootOnly \/ config[h].state # "absent")

(* A file that is missing or does not parse reads as empty. *)
Read(h) ==
    IF config[h].state = "sound" /\ (h \in YamlConfig => yaml)
    THEN config[h].servers ELSE NoServers

(* The dictionary has an order; any fixed one will do. *)
Found(h) == {n \in DOMAIN Read(h) : Playwright(Read(h)[n])}
FirstFound(h) == CHOOSE n \in Found(h) : TRUE
First(h) == Read(h)[FirstFound(h)]

(* command_shims. *)
Listed(h) == {s \in DOMAIN shims[h] : <<h, s>> \notin Unlisted}

(* Plausible bug: the probe asks by the default plane of the harness. *)
ProbePlane_Default(c) == "vault.env"

(* vault_env_path: the plane rendered into the shim, and the one probed. *)
ProbePlane(c) == c.plane

Reachability(c) ==
    IF ~c.sound THEN "present_broken"
    ELSE IF c.source = "suite" THEN "unknown"
    ELSE reach[ProbePlane(c)]

(* Provider.inspect. *)
Inspect(c, h) ==
    IF c.provider = "cred"
    THEN IF ~c.sound THEN "present_broken"
         ELSE IF c.shim \notin Listed(h) THEN "absent"
         ELSE Reachability(c)
    ELSE IF Found(h) = {} THEN "absent"
         ELSE IF First(h).on /\ browsers /\ ~Floats(First(h)) THEN "present_ok"
         ELSE "present_broken"

Verdict(c, h) ==
    IF h \notin c.harnesses THEN "not_applicable"
    ELSE IF ~Available(h) THEN "unknown"
    ELSE Inspect(c, h)

-----------------------------------------------------------------------------
(* Planning: none or one action for a capability and a harness. *)

Action(kind, h, target, what) ==
    [kind |-> kind, harness |-> h, target |-> target, what |-> what]
Manual(h) == Action("manual", h, "none", "none")

PlanCred(c, h) ==
    IF ~c.sound THEN <<Manual(h)>>
    ELSE IF c.shim \notin Listed(h)
         THEN <<Action("add_cred_shim", h, c.shim, Body(c))>>
    ELSE IF Reachability(c) = "present_broken" THEN <<Manual(h)>>
    ELSE <<>>

(* _pin_argv: the first package named after Playwright. *)
Pinned(l, pin) == [kind |-> l.kind, at |-> pin, on |-> l.on]
Wiring(pin) == [kind |-> "runs", at |-> pin, on |-> TRUE]

PlanE2e(c, h) ==
    IF Inspect(c, h) = "present_ok" THEN <<>>
    ELSE IF c.pin # NoPin /\ Found(h) # {} /\ First(h).on /\ Floats(First(h))
         THEN <<Action("pin_npx_version", h, FirstFound(h), Pinned(First(h), c.pin))>>
    ELSE IF c.pin # NoPin /\ Found(h) = {} /\ browsers
         THEN <<Action("add_mcp", h, Wired, Wiring(c.pin))>>
    ELSE <<Manual(h)>>

Plan(c, h) == IF c.provider = "cred" THEN PlanCred(c, h) ELSE PlanE2e(c, h)

(* _plan_all, _plan_for_harness: in the order of the manifest. *)
PlanOver(caps, hs) ==
    FlattenSeq([i \in DOMAIN caps |->
        FlattenSeq([j \in 1..Len(SetToSeq(hs)) |->
            LET h == SetToSeq(hs)[j]
            IN  IF h \in caps[i].harnesses /\ Available(h)
                THEN Plan(caps[i], h) ELSE <<>>])])

-----------------------------------------------------------------------------
(* A run. *)

Begins(m, hs, e, steps) ==
    /\ pc = "idle" /\ runs < MaxRuns
    /\ runs' = runs + 1
    /\ mode' = m /\ scope' = hs /\ entry' = e /\ plan' = steps
    /\ results' = <<>> /\ data' = NoServers /\ code' = "none"
    /\ since' = edits
    /\ pc' = "next"
    /\ UNCHANGED <<files, host, edits, faults, history>>

(* The process ends, and what it had in memory with it. *)
Ends(how) ==
    /\ pc' = "idle" /\ code' = how
    /\ scope' = {} /\ entry' = NoEntry
    /\ plan' = <<>> /\ results' = <<>> /\ data' = NoServers

StartReconcile ==
    /\ manifest.parses
    /\ Begins("reconcile", Harnesses, NoEntry, PlanOver(manifest.caps, Harnesses))
    /\ UNCHANGED manifest

StartInstall ==
    /\ manifest.parses
    /\ \E h \in Harnesses :
        Begins("install", {h}, NoEntry, PlanOver(manifest.caps, {h}))
    /\ UNCHANGED manifest

(* _cmd_register: a new entry at the end of the manifest; nothing is       *)
(* planned yet.                                                            *)
Register ==
    /\ manifest.parses
    /\ \E c \in Capabilities :
        /\ c.provider = "cred" /\ c.sound /\ c.floor = Undeclared
        /\ \A d \in Declared : d.id # c.id
        /\ manifest' = [manifest EXCEPT !.caps = Append(@, c)]
        /\ Begins("register", c.harnesses, c.id, <<>>)

(* Killed while it appends: half an entry. *)
RegisterTorn ==
    /\ manifest.parses
    /\ pc = "idle" /\ runs < MaxRuns /\ faults < MaxFaults
    /\ runs' = runs + 1 /\ faults' = faults + 1
    /\ manifest' = [manifest EXCEPT !.parses = FALSE]
    /\ mode' = "register" /\ code' = "killed"
    /\ UNCHANGED <<files, host, scope, pc, entry, plan, data, results, since, edits,
                   history>>

(* install-harness leaves it to main, which reports any exception.         *)
ManifestError ==
    /\ ~manifest.parses
    /\ pc = "idle" /\ runs < MaxRuns
    /\ runs' = runs + 1
    /\ \E m \in Modes \ {"none"} :
        mode' = m /\ code' = IF m = "install" THEN "internal" ELSE "2"
    /\ UNCHANGED <<manifest, files, host, scope, pc, entry, plan, data, results, since,
                   edits, faults, history>>

Applied == Len(results) = Len(plan)

(* One more harness of those given to register: what the manifest, read    *)
(* again, has of the entry is planned there as it is by now.               *)
RegisterNext ==
    /\ pc = "next" /\ mode = "register" /\ Applied
    /\ \E h \in scope :
        IF Available(h) /\ ~manifest.parses
        THEN Ends("internal")
        ELSE /\ scope' = scope \ {h}
             /\ plan' = IF Available(h) /\ \E c \in Declared : c.id = entry
                        THEN plan \o Plan(CHOOSE c \in Declared : c.id = entry, h)
                        ELSE plan
             /\ UNCHANGED <<pc, entry, data, results, code>>
    /\ UNCHANGED <<manifest, files, host, mode, since, bounds, history>>

Act == plan[Len(results) + 1]
Applying(place) == pc = place /\ Len(results) < Len(plan)

Conclude(status) == results' = Append(results, status) /\ pc' = "emit"
Fails == faults < MaxFaults /\ faults' = faults + 1 /\ Conclude("failed")

(* Plausible bug: the launcher is pinned in whatever harness has it. *)
Skips_AnyHarness ==
    \/ Act.kind = "manual"
    \/ Act.kind = "add_cred_shim" /\ Act.target \in Listed(Act.harness)
    \/ Act.kind = "add_mcp" /\ Act.target \in DOMAIN Read(Act.harness)

(* Nothing to write: the harness is gone, the action is manual, no writer  *)
(* exists for it, or what it adds is there.                                *)
Skips ==
    \/ Act.kind = "manual"
    \/ Act.kind = "add_cred_shim" /\ Act.target \in Listed(Act.harness)
    \/ Act.kind = "pin_npx_version" /\ Act.harness # Opencode
    \/ Act.kind = "add_mcp" /\ \/ Act.harness \notin Addable
                               \/ Act.target \in DOMAIN Read(Act.harness)

Unavailable ==
    /\ Applying("next")
    /\ mode # "register" /\ ~Available(Act.harness)
    /\ results' = Append(results, "unavailable")
    /\ UNCHANGED <<manifest, files, host, mode, scope, pc, entry, plan, data, code, since,
                   bounds, history>>

Skip ==
    /\ Applying("next")
    /\ mode = "register" \/ Available(Act.harness)
    /\ Skips
    /\ Conclude("skipped")
    /\ UNCHANGED <<manifest, files, host, mode, scope, entry, plan, data, code, since,
                   bounds, history>>

ToRender ==
    /\ Applying("next") /\ Act.kind = "add_cred_shim"
    /\ mode = "register" \/ Available(Act.harness)
    /\ UNCHANGED <<manifest, files, host, mode, scope, entry, plan, data, code, since,
                   bounds, theirs, raced, replaned>>

(* Plausible bug: the shim that was missing from the plan is written.      *)
Check_Planned == ToRender /\ pc' = "render" /\ between' = {} /\ UNCHANGED results

(* _create_file looks, also for a shim the harness does not list,          *)
Check ==
    /\ ToRender /\ ~Skips
    /\ IF Act.target \in DOMAIN shims[Act.harness]
       THEN Conclude("failed") /\ UNCHANGED between
       ELSE pc' = "render" /\ between' = {} /\ UNCHANGED results

Shim(body) == shims' = [shims EXCEPT ![Act.harness] = Put(@, Act.target, body)]
Torn == {NoBody, Act.what}

(* then writes, whatever is there by now; what fails may be cut short.     *)
Render ==
    /\ Applying("render")
    /\ \/ Shim(Act.what) /\ Conclude("applied") /\ UNCHANGED faults
       \/ Fails /\ UNCHANGED shims
       \/ Fails /\ \E body \in Torn : Shim(body)
    /\ UNCHANGED <<manifest, config, backups, host, mode, scope, entry, plan, data, code,
                   since, edits, runs, history>>

Step(place) ==
    /\ pc' = place
    /\ UNCHANGED <<results, faults>>

ToConfig ==
    /\ Applying("next") /\ Act.kind \in {"add_mcp", "pin_npx_version"} /\ ~Skips
    /\ Available(Act.harness)
    /\ Step("load")
    /\ UNCHANGED <<manifest, files, host, mode, scope, entry, plan, data, code, since,
                   edits, runs, history>>

(* write_command: another command; whether the server is on stays.         *)
Relaunched(servers) ==
    [kind |-> Act.what.kind, at |-> Act.what.at, on |-> servers[Act.target].on]

(* _load_json: the target is there already, or no longer (KeyError); or    *)
(* the launcher is what it should be.                                      *)
Loaded ==
    LET servers == Read(Act.harness)
        there == Act.target \in DOMAIN servers
    IN  IF there # (Act.kind = "pin_npx_version") THEN "failed"
        ELSE IF there /\ Relaunched(servers) = servers[Act.target] THEN "skipped"
        ELSE "fit"

Load ==
    /\ Applying("load")
    /\ ~(Act.harness \in YamlConfig /\ ~yaml)
    /\ data' = Read(Act.harness)
    /\ IF Loaded = "fit"
       THEN pc' = "backup" /\ UNCHANGED results
       ELSE Conclude(Loaded)
    /\ UNCHANGED <<manifest, files, host, mode, scope, entry, plan, code, since, bounds,
                   history>>

(* Without the package the write raises what no caller expects. *)
Raises ==
    /\ Applying("load")
    /\ Act.harness \in YamlConfig /\ ~yaml
    /\ Ends("internal")
    /\ UNCHANGED <<manifest, files, host, mode, since, bounds, history>>

(* Plausible bug: no backup of a file that could not be read. *)
Backup_IfRead ==
    /\ Applying("backup")
    /\ backups' = IF data = NoServers THEN backups
                  ELSE [backups EXCEPT ![Act.harness] =
                            @ \cup Entries(config[Act.harness].servers)]
    /\ Step("write")
    /\ UNCHANGED <<manifest, config, shims, host, mode, scope, entry, plan, data, code,
                   since, edits, runs, history>>

(* _backup: the file as it is now, whatever was loaded; to pin, there has  *)
(* to be one.                                                              *)
Backup ==
    /\ Applying("backup")
    /\ \/ /\ Act.kind = "pin_npx_version" => config[Act.harness].state # "absent"
          /\ backups' = [backups EXCEPT ![Act.harness] =
                            @ \cup Entries(config[Act.harness].servers)]
          /\ Step("write")
       \/ Fails /\ UNCHANGED backups
    /\ UNCHANGED <<manifest, config, shims, host, mode, scope, entry, plan, data, code,
                   since, edits, runs, history>>

Writes ==
    Put(data, Act.target,
        IF Act.kind = "pin_npx_version" THEN Relaunched(data) ELSE Act.what)

(* The run goes on after a write that failed, and may have left the file   *)
(* cut short.                                                              *)
WriteConfig ==
    /\ Applying("write")
    /\ \/ /\ config' = [config EXCEPT ![Act.harness] = Sound(Writes)]
          /\ Conclude("applied") /\ UNCHANGED faults
       \/ /\ Fails
          /\ \E f \in {config[Act.harness], Truncated} :
                config' = [config EXCEPT ![Act.harness] = f]
    /\ UNCHANGED <<manifest, backups, shims, host, mode, scope, entry, plan, data, code,
                   since, edits, runs, history>>

(* The record of the action; register reports a failure without one, and   *)
(* takes a sink that fails for a failed apply.                             *)
Emit ==
    /\ pc = "emit"
    /\ \/ Step("next") /\ UNCHANGED <<scope, entry, plan, data, code>>
       \/ /\ faults < MaxFaults /\ faults' = faults + 1
          /\ ~(mode = "register" /\ Last(results) = "failed")
          /\ IF mode = "register"
             THEN pc' = "next" /\ UNCHANGED <<scope, entry, plan, data, results, code>>
             ELSE Ends("internal")
    /\ UNCHANGED <<manifest, files, host, mode, since, edits, runs, history>>

Unapplied ==
    \E i \in DOMAIN results : \/ results[i] = "unavailable"
                              \/ results[i] # "applied" /\ plan[i].kind # "manual"

(* Plausible bug: a skipped action is as good as an applied one. *)
ExitCode_SkippedCounts(verdicts) ==
    CASE mode = "reconcile" -> IF "failed" \in ToSet(results) THEN "1" ELSE "0"
      [] OTHER -> "0"

(* install-harness inspects once more; register reports success. *)
ExitCode(verdicts) ==
    CASE mode = "reconcile" -> IF Unapplied THEN "1" ELSE "0"
      [] mode = "install" ->
            IF \/ verdicts \cap {"present_broken", "absent", "unknown"} # {}
               \/ "failed" \in ToSet(results)
            THEN "1" ELSE "0"
      [] OTHER -> "0"

Finish ==
    /\ pc = "next" /\ Applied
    /\ mode = "register" => scope = {}
    /\ Ends(ExitCode({Verdict(c, h) : c \in Declared, h \in scope}))
    /\ UNCHANGED <<manifest, files, host, mode, since, bounds, history>>

-----------------------------------------------------------------------------
(* A kill, also in the middle of a write: the file is cut short. *)
Kill ==
    /\ pc # "idle" /\ faults < MaxFaults
    /\ faults' = faults + 1
    /\ Ends("killed")
    /\ \/ UNCHANGED <<config, shims>>
       \/ /\ Applying("write")
          /\ config' = [config EXCEPT ![Act.harness] = Truncated]
          /\ UNCHANGED shims
       \/ /\ Applying("render")
          /\ \E body \in Torn : Shim(body)
          /\ UNCHANGED config
    /\ UNCHANGED <<manifest, backups, host, mode, since, edits, runs, history>>

(* The others: the harness, and the operator. *)
Edit == edits < MaxEdits /\ edits' = edits + 1

HarnessWrites ==
    /\ Edit
    /\ \E h \in hosts, f \in {NoFile} \cup {Sound(s) : s \in Configs} :
        /\ config' = [config EXCEPT ![h] = f]
        /\ theirs' = [theirs EXCEPT ![h] = Entries(f.servers)]
        /\ raced' = [raced EXCEPT ![h] =
                        IF Applying("write") /\ Act.harness = h
                        THEN @ \cup Entries(f.servers) ELSE @]
    /\ UNCHANGED <<manifest, backups, shims, host, run, runs, faults, between, replaned>>

Misedit ==
    /\ Edit
    /\ \E h \in hosts :
        /\ config[h].state = "sound"
        /\ config' = [config EXCEPT ![h].state = "corrupt"]
    /\ UNCHANGED <<manifest, backups, shims, host, run, runs, faults, history>>

EditShim ==
    /\ Edit
    /\ \E h \in hosts, c \in Capabilities, body \in {NoBody, Unreadable} :
        /\ c.provider = "cred"
        /\ shims' = [shims EXCEPT ![h] = Put(@, c.shim, body)]
        /\ between' = IF pc = "render" THEN between \cup {<<h, c.shim>>} ELSE between
    /\ UNCHANGED <<manifest, config, backups, host, run, runs, faults, theirs, raced,
                   replaned>>

EditManifest ==
    /\ Edit
    /\ \E m \in Manifests : manifest' = [parses |-> Parses(m), caps |-> m]
    /\ replaned' = TRUE
    /\ UNCHANGED <<files, host, run, runs, faults, theirs, raced, between>>

-----------------------------------------------------------------------------
Init ==
    /\ \E m \in Manifests : manifest = [parses |-> Parses(m), caps |-> m]
    /\ hosts \in Installs
    /\ config \in [Harnesses -> {NoFile} \cup {Sound(s) : s \in Configs}]
    /\ \A h \in Harnesses \ hosts : config[h] = NoFile
    /\ backups = [h \in Harnesses |-> {}]
    /\ shims = [h \in Harnesses |-> <<>>]
    /\ browsers \in BOOLEAN
    /\ yaml \in (IF hosts \cap YamlConfig = {} THEN {FALSE} ELSE BOOLEAN)
    /\ reach \in Answers
    /\ mode = "none" /\ scope = {} /\ pc = "idle" /\ entry = NoEntry
    /\ plan = <<>> /\ data = NoServers
    /\ results = <<>> /\ code = "none" /\ since = 0
    /\ edits = 0 /\ runs = 0 /\ faults = 0
    /\ theirs = [h \in Harnesses |-> Entries(config[h].servers)]
    /\ raced = [h \in Harnesses |-> {}]
    /\ between = {} /\ replaned = FALSE

Acb ==
    \/ StartReconcile \/ StartInstall \/ Register \/ RegisterNext \/ ManifestError
    \/ Unavailable \/ Skip \/ Check \/ Render \/ ToConfig \/ Load \/ Raises \/ Backup
    \/ WriteConfig \/ Emit \/ Finish

Others == HarnessWrites \/ Misedit \/ EditShim \/ EditManifest

Next == Acb \/ RegisterTorn \/ Kill \/ Others

Spec == Init /\ [][Next]_vars

-----------------------------------------------------------------------------
(* What acb doctor says, at any time. *)

(* audit_surface: a declared shim that is there, can be read, and brokers  *)
(* something else.  Of capabilities with one shim the last one counts.     *)
Audited(h) ==
    LET caps == manifest.caps
        cred == {i \in DOMAIN caps : caps[i].provider = "cred" /\ h \in caps[i].harnesses}
    IN  {caps[i] : i \in {i \in cred : \A j \in cred : caps[j].shim = caps[i].shim => j <= i}}

Clobbered(h) ==
    {c \in Audited(h) : /\ c.shim \in Listed(h)
                        /\ shims[h][c.shim].readable
                        /\ c.id \notin shims[h][c.shim].ids}

BelowFloor(c) ==
    \/ Unattainable(c)
    \/ c.floor # Undeclared /\ Rank(Effective(c)) < Rank(c.floor)

(* _classify_health: no check fails. *)
DoctorOk ==
    /\ manifest.parses
    /\ \A c \in Declared :
        /\ \A h \in Harnesses : Verdict(c, h) \notin {"present_broken", "absent"}
        /\ ~BelowFloor(c)
    /\ \A h \in Harnesses : Available(h) => Clobbered(h) = {}

-----------------------------------------------------------------------------
TypeOK ==
    /\ pc \in Places /\ mode \in Modes /\ code \in Codes
    /\ ToSet(manifest.caps) \subseteq Capabilities
    /\ \A h \in Harnesses : config[h].state \in {"absent", "sound", "corrupt"}
    /\ Len(results) <= Len(plan)
    /\ ToSet(results) \subseteq {"applied", "skipped", "failed", "unavailable"}
    /\ pc \in {"load", "backup", "write"} =>
            Act.kind \in {"add_mcp", "pin_npx_version"} /\ Act.harness \in Addable
    /\ pc = "render" => Act.kind = "add_cred_shim"

(* What a harness wrote into its configuration is still there or in a      *)
(* backup, through every write, failed write and kill of ACB, and although *)
(* a file that does not parse is replaced; except for what it wrote after  *)
(* the backup was taken (adapters.py: backup-first, no-secret-clobber).    *)
NothingLost ==
    \A h \in Harnesses :
        theirs[h] \subseteq Entries(config[h].servers) \cup backups[h] \cup raced[h]

(* A shim that is there is never touched by ACB, also when it came to be   *)
(* after the plan was made; except for one somebody wrote after ACB had    *)
(* looked for it (_create_file: refuses to overwrite a hand-edited shim).  *)
NeverClobbers ==
    [][edits' = edits =>
        \A h \in Harnesses : \A s \in DOMAIN shims[h] :
            \/ <<h, s>> \in between
            \/ s \in DOMAIN shims'[h] /\ shims'[h][s] = shims[h][s]]_vars

(* What reconcile cannot get done, though it says that it did: a launcher  *)
(* that floats by a package other than the one it pins, or that a declared *)
(* pin leaves floating, and a shim the harness does not list.              *)
TagPinned(h) ==
    \E c \in Declared : c.provider = "e2e" /\ h \in c.harnesses /\ c.pin \in Tags
Endless(a) ==
    CASE a.kind = "pin_npx_version" -> a.what.kind = "elsewhere" \/ TagPinned(a.harness)
      [] a.kind = "add_cred_shim" -> <<a.harness, a.target>> \in Unlisted
      [] OTHER -> FALSE

(* If reconcile --apply ends with 0 and nobody else touched anything       *)
(* meanwhile, a second one finds nothing it could do, but what it never    *)
(* gets done (_cmd_reconcile: non-zero while automatically fixable actions *)
(* remain).                                                                *)
Converges ==
    mode = "reconcile" /\ code = "0" /\ pc = "idle" /\ edits = since =>
        \A i \in DOMAIN PlanOver(manifest.caps, Harnesses) :
            LET a == PlanOver(manifest.caps, Harnesses)[i]
            IN  a.kind = "manual" \/ Endless(a)

(* When doctor passes, each declared credential has a shim wherever it     *)
(* should, and if it is the last one of that shim and the shim can be read *)
(* that one brokers it; a shim ACB rendered for the manifest as it is names *)
(* a plane file that was not found broken; and no capability is further    *)
(* from hidden or issued than its floor says (surface.py, vault_env_path,  *)
(* hidden_floor_problem: parser and doctor cannot disagree).               *)
DoctorHonest ==
    DoctorOk => \A c \in Declared :
        /\ c.provider = "cred" => \A h \in c.harnesses : Available(h) =>
            /\ c.shim \in Listed(h)
            /\ c \in Audited(h) /\ shims[h][c.shim].readable =>
                /\ c.id \in shims[h][c.shim].ids
                /\ c.source = "vault" /\ ~replaned =>
                        reach[shims[h][c.shim].plane] # "present_broken"
        /\ c.floor \in {"H1", "H1+D1"} => c.rung = "remote-op"
        /\ c.floor = "D1" => c.issues \/ c.rung = "remote-op"
        /\ c.floor = "H1+D1" => c.issues
=============================================================================
