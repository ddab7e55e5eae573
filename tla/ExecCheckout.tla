----------------------------- MODULE ExecCheckout -----------------------------
(***************************************************************************)
(* acb exec (cli._cmd_exec_raw, providers.exec): the tokens of the command *)
(* line become capabilities and a command, every capability is validated,  *)
(* the checkout is put on record, the values are resolved, and one child   *)
(* runs with them in its environment; at the end ACB clears what it holds  *)
(* and records the outcome.  The four ways to run a child are the bare,    *)
(* the strict (declared names, or several capabilities), the suite and the *)
(* e2e one.  A suite child is bounded by a timeout and its process group   *)
(* is terminated; the processes of the tree fork, leave the group and exit *)
(* as they please.  The user may interrupt ACB, and the provenance sink    *)
(* may fail.                                                               *)
(*                                                                         *)
(* A value is named by the capability and field it is of.  Names fold to   *)
(* upper case, so one name stands for its spellings, and two fields may    *)
(* fold to one name.  SIGTERM asks: it changes nothing a process does not  *)
(* do by itself; SIGKILL to the group ends every member at once.           *)
(***************************************************************************)
EXTENDS Integers, FiniteSets, SequencesExt, VaultIdentity

CONSTANTS
    Names,          \* environment names a field may be injected under,
    Reserved,       \*   those the process needs (PATH, HOME, ...),
    Malformed,      \*   those that are not names,
    Allowlisted,    \*   and those a suite child inherits
    Fields,         \* fields of a secret
    BareName,       \*   and the name each has in upper case
    Decls,          \* what a manifest may say of a capability
    CapTokens,      \* tokens shaped like a capability id
    Hosts,          \* what Vault variables and files a host may have
    Procs, Child,   \* processes of the suite child's tree; the child itself
    MaxTokens, MaxInterrupts, MaxSinkFaults     \* bounds

Receipt == "ACB_CHECKOUT_RECEIPT"
Env == Names \cup {Receipt}
Tokens == CapTokens \cup {"--", "--json", "-m", "-h", "-x", "word"}
Platforms == {"posix", "nt"}

(* source, naming and selection are what the manifest declares; target is  *)
(* the name inject or env_prefix gives a field; qualified: trusted_argv is *)
(* sound and is the command; receiptId: the id fits a receipt; usable: the *)
(* source's own settings (suite refs, browser, environment variable) hold. *)
Declarations ==
    [source : {"vault", "env", "suite", "e2e"},
     naming : {"bare", "declared", "malformed"},
     list : {"absent", "malformed", "all"},     \* options.fields
     single : {"absent", "malformed", "one"},   \* options.field
     target : [Fields -> Env],
     qualified : BOOLEAN, receiptId : BOOLEAN, usable : BOOLEAN]

ASSUME ExecAssumption ==
    /\ Fields # {} /\ BareName \in [Fields -> Env] /\ Receipt \notin Names
    /\ Malformed \cup Allowlisted \subseteq Names
    /\ Receipt \in Reserved /\ Reserved \subseteq Env
    /\ Decls \subseteq Declarations
    /\ Hosts \subseteq
            [k8s : BOOLEAN, proc : SUBSET VaultVars, sound : SUBSET VaultVars,
             planes : Seq([state : {"absent", "unreadable", "read"},
                           vars : SUBSET VaultVars])]
    /\ Child \in Procs
    /\ {MaxTokens, MaxInterrupts, MaxSinkFaults} \subseteq Nat

VARIABLES
    raw,        \* the tokens after "exec",
    ids, command,   \*   and what they were parsed into
    caps,       \* the declarations of the capabilities named
    path,       \* how the child is run: see Paths
    inherited,  \* the environment names of ACB itself
    platform,
    pc,         \* where ACB is: see Places
    got,        \* how many capabilities are resolved
    fields,     \* values in the mapping the resolver returned last
    env,        \* the environment built for the child
    code,       \* the child as ACB knows it: see Codes
    log,        \* provenance of this run
    verdict,    \* what the terminal record will say
    outcome,    \* how acb ends, or will
    used,       \* history: the identity last presented to Vault
    tree,       \* processes of the owned group that run
    born,       \*   and those there have been
    reaped,     \* has ACB collected the child?
    cause,      \* why the tree is terminated
    hits,       \* history: the places where an interrupt fell
    interrupts, sinkFaults  \* counted (bounds)

parsed == <<raw, ids, command>>
request == <<parsed, caps, path, inherited, platform>>
held == <<got, fields, env>>
ended == <<verdict, outcome>>
procs == <<tree, born, reaped>>
contain == <<procs, cause>>
falls == <<hits, interrupts>>
bounds == <<falls, sinkFaults>>
vars == <<request, pc, held, code, log, ended, used, contain, bounds>>

Paths == {"none", "bare", "strict", "suite", "e2e"}
Places == {"parse", "lookup", "check", "begun", "resolve", "launch", "run", "forked",
           "wait", "probe", "term", "loop", "reap", "raise", "over", "emit", "exit"}
Codes == {"none", "running", "zero", "other"}
Outcomes == {"none", "help", "usage", "refused", "internal", "interrupted",
             "zero", "other"}
NoIdentity == [method |-> Refused, approle |-> FALSE]
Absent == <<>>
Inherited == <<"inherited">>
Cleared == <<"cleared">>
Receipts == <<"receipt">>
Value(k, f) == <<k, f>>

-----------------------------------------------------------------------------
(* Fields and names. *)

SomeField == CHOOSE f \in Fields : TRUE

(* _declared_fields: what is planned for, before anything is read. *)
Selectable(d) ==
    \/ d.source = "env"
    \/ d.list = "all"
    \/ d.list = "absent" /\ d.single = "one"
DeclaredFields(d) ==
    IF d.source # "env" /\ d.list = "all" THEN Fields ELSE {SomeField}

(* cred_vault.resolve: what is read, and when the selection is refused; it *)
(* looks at a malformed options.field although options.fields is a list.   *)
Readable(d) ==
    /\ {d.list, d.single} \cap {"malformed"} = {}
    /\ d.list = "all" \/ d.single = "one"
WantedFields(d) ==
    IF d.source # "env" /\ d.list = "all" THEN Fields ELSE {SomeField}

(* _inject_var: the declared name, else the field's own. *)
Target(d, f) == IF d.naming = "declared" THEN d.target[f] ELSE BareName[f]

Targets(k) == {Target(caps[k], f) : f \in DeclaredFields(caps[k])}
TakenBefore(k) == UNION {Targets(j) : j \in 1..(k - 1)}

(* Plausible bug: each plan is checked against its own names only. *)
Plannable_Alone(k) ==
    /\ Receipt \notin inherited
    /\ \A f, g \in DeclaredFields(caps[k]) :
            Target(caps[k], f) = Target(caps[k], g) => f = g
    /\ Targets(k) \cap (Malformed \cup Reserved \cup inherited) = {}

(* _injection_plan: valid names, none reserved, none taken by this or an   *)
(* earlier capability, none inherited, and no checkout around this one.    *)
Plannable(k) ==
    /\ Receipt \notin inherited
    /\ \A f, g \in DeclaredFields(caps[k]) :
            Target(caps[k], f) = Target(caps[k], g) => f = g
    /\ Targets(k) \cap (Malformed \cup Reserved \cup inherited \cup TakenBefore(k)) = {}

(* The receipt names what each capability injects, by field. *)
ReceiptText ==
    [k \in 1..Len(caps) |->
        [f \in DeclaredFields(caps[k]) |->
            IF path = "bare" THEN BareName[f] ELSE Target(caps[k], f)]]

-----------------------------------------------------------------------------
(* The command line. *)

(* The first "--" ends what ACB reads. *)
Boundary(s) ==
    IF \A i \in DOMAIN s : s[i] # "--" THEN Len(s) + 1
    ELSE CHOOSE i \in DOMAIN s : s[i] = "--" /\ \A j \in 1..(i - 1) : s[j] # "--"

Composed(s) == \E i \in DOMAIN s : s[i] = "--"

(* One turn of the loop over the head; "rest" is where the historical form *)
(* hands over to the child's command, 0 if nowhere.                        *)
ReadToken(head, composed, acc, i) ==
    IF acc.rest # 0 \/ acc.bad THEN acc
    ELSE IF acc.value THEN [acc EXCEPT !.value = FALSE]
    ELSE IF head[i] = "--json" THEN acc
    ELSE IF head[i] = "-m" THEN [acc EXCEPT !.value = TRUE, !.bad = i = Len(head)]
    ELSE IF ~composed /\ acc.ids # <<>> THEN [acc EXCEPT !.rest = i]
    ELSE IF head[i] = "-x" \/ (composed /\ head[i] \notin CapTokens)
    THEN [acc EXCEPT !.bad = TRUE]
    ELSE [acc EXCEPT !.ids = Append(@, head[i])]

(* Plausible bug: every token shaped like a capability asks for one. *)
ReadHead_Anywhere(s) ==
    [ids |-> SelectSeq(s, LAMBDA x : x \in CapTokens),
     value |-> FALSE, bad |-> FALSE, rest |-> 0]

ReadHead(s) ==
    LET head == SubSeq(s, 1, Boundary(s) - 1)
    IN  FoldLeft(LAMBDA acc, i : ReadToken(head, Composed(s), acc, i),
                 [ids |-> <<>>, value |-> FALSE, bad |-> FALSE, rest |-> 0],
                 [i \in 1..Len(head) |-> i])

CommandOf(s) ==
    IF Composed(s) THEN SubSeq(s, Boundary(s) + 1, Len(s))
    ELSE IF ReadHead(s).rest = 0 THEN <<>> ELSE SubSeq(s, ReadHead(s).rest, Len(s))

Finish(how) == pc' = "exit" /\ outcome' = how

(* _cmd_exec_raw up to the manifest: help, a usage error, or a request. *)
Asks ==
    /\ pc = "parse"
    /\ LET head == ReadHead(raw)
           help == \E i \in 1..(Boundary(raw) - 1) : raw[i] = "-h"
           bad == \/ head.bad
                  \/ head.ids = <<>>
                  \/ CommandOf(raw) = <<>>
                  \/ ~IsInjective(head.ids)
       IN  IF help \/ bad
           THEN /\ Finish(IF help THEN "help" ELSE "usage")
                /\ UNCHANGED <<ids, command>>
           ELSE /\ ids' = head.ids
                /\ command' = CommandOf(raw)
                /\ pc' = "lookup"
                /\ UNCHANGED outcome
    /\ raw' = <<>>
    /\ UNCHANGED <<caps, path, inherited, platform, held, code, log, verdict, used,
                   contain, bounds>>

(* The manifest, and the environment and platform ACB runs in. *)
Lookup ==
    /\ pc = "lookup"
    /\ ids' = <<>> /\ command' = <<>>
    /\ \/ Finish("usage") /\ UNCHANGED <<caps, inherited, platform>>
       \/ /\ ids \in Seq(CapTokens)
          /\ caps' \in [1..Len(ids) -> Decls]
          /\ inherited' \in SUBSET ((Names \ Malformed) \cup {Receipt})
          /\ platform' \in Platforms
          /\ pc' = "check"
          /\ UNCHANGED outcome
    /\ UNCHANGED <<raw, path, held, code, log, verdict, used, contain, bounds>>

-----------------------------------------------------------------------------
(* Validation, before anything is put on record. *)

Single == Len(caps) = 1

(* exec_composed, CredProvider.exec and E2eProvider.exec. *)
MayRun ==
    \A k \in DOMAIN caps :
        \/ Single /\ caps[k].source = "e2e" /\ caps[k].usable
        \/ Single /\ caps[k].source = "suite" /\ caps[k].qualified
        \/ caps[k].source \in {"vault", "env"} /\ caps[k].qualified

PathTaken ==
    IF Single /\ caps[1].source \in {"e2e", "suite"} THEN caps[1].source
    ELSE IF Single /\ caps[1].naming = "bare" THEN "bare" ELSE "strict"

(* _exec_checkout and the suite branch, up to the record of the start. *)
PlansHold ==
    /\ PathTaken = "strict" =>
            \A k \in DOMAIN caps :
                /\ caps[k].naming # "malformed"
                /\ caps[k].receiptId
                /\ Selectable(caps[k])
                /\ Plannable(k)
    /\ PathTaken = "suite" => caps[1].usable /\ Plannable(1)

Refuse ==
    /\ pc = "check"
    /\ ~(MayRun /\ PlansHold)
    /\ Finish("refused")
    /\ UNCHANGED <<request, held, code, log, verdict, used, contain, bounds>>

(* Plausible bug: the start is not recorded. *)
Begin_Unrecorded ==
    /\ pc = "check"
    /\ MayRun /\ PlansHold
    /\ path' = PathTaken
    /\ pc' = "begun"
    /\ UNCHANGED <<parsed, caps, inherited, platform, held, code, log, ended, used,
                   contain, bounds>>

(* The start is recorded before any value is resolved; a sink that fails   *)
(* ends the run there, through the last boundary of main.                  *)
Begin ==
    /\ pc = "check"
    /\ MayRun /\ PlansHold
    /\ path' = PathTaken
    /\ \/ /\ log' = <<"started">>
          /\ pc' = "begun"
          /\ UNCHANGED <<outcome, sinkFaults>>
       \/ /\ sinkFaults < MaxSinkFaults
          /\ sinkFaults' = sinkFaults + 1
          /\ Finish("internal")
          /\ UNCHANGED log
    /\ UNCHANGED <<parsed, caps, inherited, platform, held, code, verdict, used,
                   contain, falls>>

(* The try is entered only after the record of the start. *)
Enter ==
    /\ pc = "begun"
    /\ pc' = IF path = "e2e" THEN "launch" ELSE "resolve"
    /\ env' = [n \in Env |->
                    IF n \in (IF path = "suite" THEN inherited \cap Allowlisted
                              ELSE inherited)
                    THEN Inherited ELSE Absent]
    /\ UNCHANGED <<request, got, fields, code, log, ended, used, contain, bounds>>

-----------------------------------------------------------------------------
(* Resolution. *)

Planned == IF path = "e2e" THEN {} ELSE UNION {Targets(k) : k \in DOMAIN caps}

ToOver(v, how) == pc' = "over" /\ verdict' = v /\ outcome' = how

(* _resolve and resolve_suite of the next capability, with Vault asked by  *)
(* the identity the host has then.                                         *)
Resolves(k) ==
    LET d == caps[k]
    IN  \/ /\ d.source = "vault" /\ Readable(d)
           /\ \E h \in Hosts :
                /\ Identity(h, FALSE, TRUE) # Refused
                /\ used' = [method |-> Identity(h, FALSE, TRUE),
                            approle |-> DeclaresAppRole(VaultEnv(h, FALSE))]
        \/ /\ d.source # "vault" /\ (d.source = "env" => d.usable)
           /\ UNCHANGED used

(* The fields are written one after the other, so the last one of a name   *)
(* stays; the receipt comes after all values.  The mapping of fields is    *)
(* bound anew by each capability.                                          *)
ResolveNext ==
    /\ pc = "resolve"
    /\ LET k == got + 1
           wanted == WantedFields(caps[k])
           names == {Target(caps[k], f) : f \in wanted}
       IN  /\ Resolves(k)
           /\ got' = k
           /\ fields' = {Value(k, f) : f \in wanted}
           /\ \E last \in [names -> wanted] :
                /\ \A n \in names : Target(caps[k], last[n]) = n
                /\ env' = [n \in Env |->
                            IF n = Receipt /\ k = Len(caps) THEN Receipts
                            ELSE IF n \in names THEN Value(k, last[n])
                            ELSE env[n]]
           /\ pc' = IF k = Len(caps) THEN "launch" ELSE "resolve"
    /\ UNCHANGED <<request, code, log, ended, contain, bounds>>

(* The source refuses, the backend fails, a field is missing or no text;   *)
(* resolve_suite has emptied what it had resolved.                         *)
ResolveFails ==
    /\ pc = "resolve"
    /\ ToOver("failed", "refused")
    /\ UNCHANGED <<request, held, code, log, used, contain, bounds>>

-----------------------------------------------------------------------------
(* The child. *)

AtLaunch == pc = "launch"

(* The command cannot be started, or on the bare path the receipt is too   *)
(* long for the contract (the strict path looks before it begins).         *)
LaunchFails ==
    /\ AtLaunch
    /\ ToOver("failed", "refused")
    /\ UNCHANGED <<request, held, code, log, used, contain, bounds>>

(* The suite child runs from here on; the try around its wait is entered   *)
(* only when Popen has returned (_run_contained).                          *)
Launch ==
    /\ AtLaunch
    /\ code' = "running"
    /\ IF path = "suite"
       THEN pc' = "forked" /\ tree' = {Child} /\ born' = {Child}
       ELSE pc' = "run" /\ UNCHANGED <<tree, born>>
    /\ UNCHANGED <<request, held, log, ended, used, reaped, cause, bounds>>

Guard ==
    /\ pc = "forked"
    /\ pc' = "wait"
    /\ UNCHANGED <<request, held, code, log, ended, used, contain, bounds>>

(* Plausible bug: a child that finishes counts as applied. *)
Exited_Applied(c) == code' = c /\ ToOver("applied", c)

Exited(c) == code' = c /\ ToOver(IF c = "zero" THEN "applied" ELSE "failed", c)

(* subprocess.run waits as long as the child runs. *)
RunReturns ==
    /\ pc = "run"
    /\ \E c \in {"zero", "other"} : Exited(c)
    /\ UNCHANGED <<request, held, log, used, contain, bounds>>

(* A process of the tree forks, or exits or leaves the group; ACB reaches  *)
(* only what is in the group.                                              *)
Fork ==
    /\ tree # {}
    /\ \E q \in Procs \ born : tree' = tree \cup {q} /\ born' = born \cup {q}
    /\ UNCHANGED <<request, pc, held, code, log, ended, used, reaped, cause, bounds>>

ProcessEnds ==
    /\ \E p \in tree : tree' = tree \ {p}
    /\ UNCHANGED <<request, pc, held, code, log, ended, used, born, reaped, cause,
                   bounds>>

-----------------------------------------------------------------------------
(* _run_contained and _terminate_process_tree. *)

WaitReturns ==
    /\ pc = "wait"
    /\ Child \notin tree
    /\ code' \in {"zero", "other"}
    /\ reaped' = TRUE
    /\ pc' = IF platform = "posix" THEN "probe" ELSE "raise"
    /\ UNCHANGED <<request, held, log, ended, used, tree, born, cause, bounds>>

TimesOut ==
    /\ pc = "wait"
    /\ pc' = "term" /\ cause' = "timeout"
    /\ UNCHANGED <<request, held, code, log, ended, used, procs, bounds>>

(* After a normal exit, whatever is left in the group is terminated. *)
Probe ==
    /\ pc = "probe"
    /\ IF tree = {}
       THEN pc' = "raise" /\ UNCHANGED cause
       ELSE pc' = "term" /\ cause' = "stragglers"
    /\ UNCHANGED <<request, held, code, log, ended, used, procs, bounds>>

GroupEmpty == tree = {} /\ reaped

(* killpg SIGTERM; there may be nobody left to get it. *)
Terminate ==
    /\ pc = "term" /\ platform = "posix"
    /\ pc' = IF GroupEmpty THEN "raise" ELSE "loop"
    /\ UNCHANGED <<request, held, code, log, ended, used, contain, bounds>>

LoopEnds ==
    /\ pc = "loop" /\ tree = {}
    /\ pc' = "raise" /\ reaped' = TRUE
    /\ UNCHANGED <<request, held, code, log, ended, used, tree, born, cause, bounds>>

(* Plausible bug: only the child is killed at the deadline. *)
LoopKills_Child ==
    /\ pc = "loop" /\ tree # {}
    /\ tree' = tree \ {Child}
    /\ pc' = "reap"
    /\ UNCHANGED <<request, held, code, log, ended, used, born, reaped, cause, bounds>>

(* Plausible bug: the loop has no deadline. *)
LoopKills_Never ==
    /\ pc = "loop" /\ tree # {}
    /\ reaped' = (Child \notin tree)
    /\ UNCHANGED <<request, pc, held, code, log, ended, used, tree, born, cause, bounds>>

(* The grace period is over: SIGKILL to the group. *)
LoopKills ==
    /\ pc = "loop" /\ tree # {}
    /\ tree' = {}
    /\ pc' = "reap"
    /\ UNCHANGED <<request, held, code, log, ended, used, born, reaped, cause, bounds>>

Reap ==
    /\ pc = "reap"
    /\ reaped' = TRUE
    /\ pc' = "raise"
    /\ UNCHANGED <<request, held, code, log, ended, used, tree, born, cause, bounds>>

TaskkillWorks ==
    /\ pc = "term" /\ platform = "nt"
    /\ tree' = {}
    /\ pc' = "reap"
    /\ UNCHANGED <<request, held, code, log, ended, used, born, reaped, cause, bounds>>

(* The child alone is killed, and the failure is reported. *)
TaskkillFails ==
    /\ pc = "term" /\ platform = "nt"
    /\ tree' = tree \ {Child} /\ reaped' = TRUE
    /\ cause' = "uncontained"
    /\ ToOver("failed", "refused")
    /\ UNCHANGED <<request, held, code, log, used, born, bounds>>

Raise ==
    /\ pc = "raise"
    /\ \/ cause = "timeout" /\ ToOver("failed", "refused")
       \/ cause = "interrupt" /\ ToOver("failed", "interrupted")
       \/ /\ cause \in {"none", "stragglers"}
          /\ ToOver(IF code = "zero" THEN "applied" ELSE "failed", code)
    /\ UNCHANGED <<request, held, code, log, used, contain, bounds>>

-----------------------------------------------------------------------------
(* The finally clause: the mappings are emptied, then the end is recorded. *)
Wiped == IF path \in {"bare", "suite"} THEN Planned \cup {Receipt} ELSE Planned

Wipe(names) ==
    env' = [n \in Env |-> IF n \in names /\ env[n] # Absent THEN Cleared ELSE env[n]]

(* Plausible bug: the record comes first, and the values stay when the     *)
(* sink fails.                                                             *)
CloseOut_RecordsFirst ==
    /\ pc = "over"
    /\ \/ /\ pc' = "emit"
          /\ fields' = {}
          /\ Wipe(Wiped)
          /\ UNCHANGED <<outcome, sinkFaults>>
       \/ /\ sinkFaults < MaxSinkFaults
          /\ sinkFaults' = sinkFaults + 1
          /\ Finish("internal")
          /\ UNCHANGED <<fields, env>>
    /\ UNCHANGED <<request, got, code, log, verdict, used, contain, falls>>

CloseOut ==
    /\ pc = "over"
    /\ pc' = "emit"
    /\ fields' = {}
    /\ Wipe(Wiped)
    /\ UNCHANGED <<request, got, code, log, ended, used, contain, bounds>>

Record ==
    /\ pc = "emit"
    /\ pc' = "exit"
    /\ \/ /\ log' = Append(log, verdict)
          /\ UNCHANGED <<outcome, sinkFaults>>
       \/ /\ sinkFaults < MaxSinkFaults
          /\ sinkFaults' = sinkFaults + 1
          /\ outcome' = "internal"
          /\ UNCHANGED log
    /\ UNCHANGED <<request, held, code, verdict, used, contain, falls>>

-----------------------------------------------------------------------------
(* KeyboardInterrupt may fall between any two steps.  main does not catch  *)
(* it, so outside the try blocks it ends the run, in the finally clause    *)
(* too.                                                                    *)
Strikes ==
    /\ interrupts < MaxInterrupts
    /\ interrupts' = interrupts + 1
    /\ hits' = hits \cup {pc}

(* Nothing has been resolved, or the finally clause is at its end. *)
InterruptEnds ==
    /\ Strikes
    /\ pc \in {"parse", "lookup", "check", "begun", "emit"}
    /\ Finish("interrupted")
    /\ \/ log' = log
       \/ pc = "emit" /\ log' = Append(log, verdict)
    /\ UNCHANGED <<request, held, code, verdict, used, contain, sinkFaults>>

(* The mappings are emptied one entry after the other. *)
InterruptWipe ==
    /\ Strikes
    /\ pc = "over"
    /\ Finish("interrupted")
    /\ \/ fields' \in SUBSET fields /\ UNCHANGED env
       \/ fields' = {} /\ \E names \in SUBSET Wiped : Wipe(names)
    /\ UNCHANGED <<request, got, code, log, verdict, used, contain, sinkFaults>>

(* Inside the try, straight to the finally clause: a suite child that runs *)
(* is not terminated, or not to the end.                                   *)
InterruptTry ==
    /\ Strikes
    /\ pc \in {"resolve", "launch", "run", "forked", "probe", "term", "loop", "reap",
               "raise"}
    /\ code' = IF pc = "run" THEN "other" ELSE code
    /\ ToOver("failed", "interrupted")
    /\ UNCHANGED <<request, held, log, used, contain, sinkFaults>>

(* In the wait of the suite child it starts the termination. *)
InterruptWait ==
    /\ Strikes
    /\ pc = "wait"
    /\ pc' = "term" /\ cause' = "interrupt"
    /\ UNCHANGED <<request, held, code, log, ended, used, procs, sinkFaults>>

Interrupt == InterruptEnds \/ InterruptWipe \/ InterruptTry \/ InterruptWait

-----------------------------------------------------------------------------
Init ==
    /\ raw \in UNION {[1..n -> Tokens] : n \in 0..MaxTokens}
    /\ ids = <<>> /\ command = <<>> /\ caps = <<>>
    /\ path = "none" /\ inherited = {} /\ platform = "posix"
    /\ pc = "parse"
    /\ got = 0 /\ fields = {} /\ env = [n \in Env |-> Absent]
    /\ code = "none" /\ log = <<>>
    /\ verdict = "failed" /\ outcome = "none"
    /\ used = NoIdentity
    /\ tree = {} /\ born = {} /\ reaped = FALSE
    /\ cause = "none" /\ hits = {}
    /\ interrupts = 0 /\ sinkFaults = 0

Acb ==
    \/ Asks \/ Lookup \/ Refuse \/ Begin \/ Enter
    \/ ResolveNext \/ ResolveFails \/ LaunchFails \/ Launch \/ Guard
    \/ WaitReturns \/ TimesOut \/ Probe
    \/ Terminate \/ LoopEnds \/ LoopKills \/ Reap
    \/ TaskkillWorks \/ TaskkillFails \/ Raise \/ CloseOut \/ Record

Children == RunReturns \/ Fork \/ ProcessEnds

Next == Acb \/ Children \/ Interrupt

Spec == Init /\ [][Next]_vars

(* ACB runs on; the wait and the grace period have deadlines.  Nothing is  *)
(* assumed of the processes of the tree or of the user.                    *)
FairSpec == Spec /\ WF_vars(Acb)

-----------------------------------------------------------------------------
TypeOK ==
    /\ pc \in Places /\ path \in Paths /\ code \in Codes
    /\ outcome \in Outcomes /\ verdict \in {"applied", "failed"}
    /\ log \in {<<>>, <<"started">>, <<"started", "applied">>, <<"started", "failed">>}
    /\ caps \in UNION {[1..n -> Decls] : n \in 0..Len(caps)}
    /\ inherited \subseteq Env /\ platform \in Platforms
    /\ got \in 0..Len(caps)
    /\ DOMAIN env = Env
    /\ hits \subseteq Places
    /\ tree \subseteq born /\ born \subseteq Procs
    /\ used \in [method : Methods \cup {Refused}, approle : BOOLEAN]

(* What follows the first "--" is the child's and is handed to it whole;   *)
(* no capability is taken from there (cli._cmd_exec_raw: a child argument  *)
(* shaped like a capability id never triggers a checkout).  Without "--"   *)
(* there is one capability, and its command is the end of the line.        *)
BoundaryHolds ==
    [][pc = "parse" /\ pc' = "lookup" =>
        LET b == SelectInSeq(raw, LAMBDA x : x = "--")
            end == IF b = 0 THEN Len(raw) - Len(command') ELSE b - 1
        IN  /\ b # 0 => command' = SubSeq(raw, b + 1, Len(raw))
            /\ b = 0 => Len(ids') = 1 /\ IsSuffix(command', raw)
            /\ \A j \in DOMAIN ids' :
                    \E i \in 1..end : raw[i] = ids'[j] /\ (i = 1 \/ raw[i - 1] # "-m"
                                                          \/ (i > 2 /\ raw[i - 2] = "-m"))
      ]_vars

(* While the child starts, its environment is what the receipt says, with  *)
(* every value of every capability in it, and nothing ACB inherited has    *)
(* been replaced (_injection_plan, _exec_checkout: no silent clobber       *)
(* across the whole checkout).  On the bare path, which checks no name,    *)
(* each name of the receipt has the value of a field the receipt gives     *)
(* that name to, or is the receipt's own.                                  *)
EnvSound ==
    pc \in {"run", "forked", "wait"} /\ path # "e2e" =>
        /\ env[Receipt] = Receipts
        /\ \A k \in DOMAIN caps : \A f \in DOMAIN ReceiptText[k] :
                LET n == ReceiptText[k][f]
                IN  \/ env[n] = Value(k, f)
                    \/ /\ path = "bare"
                       /\ \/ n = Receipt
                          \/ \E g \in DOMAIN ReceiptText[k] :
                                ReceiptText[k][g] = n /\ env[n] = Value(k, g)
        /\ path # "bare" =>
                /\ Receipt \notin inherited
                /\ \A n \in inherited :
                        \/ env[n] = Inherited
                        \/ path = "suite" /\ env[n] = Absent

(* A host that declares an AppRole is never taken in on a token            *)
(* (cred_vault: declared material that is incomplete or unreadable fails   *)
(* closed).                                                                *)
NoDowngrade == used.approle => used.method # "token"

(* Nothing is resolved or run off the record; a run that began has one     *)
(* terminal record, which says "applied" exactly when acb reports the      *)
(* child's success, unless the sink failed or the user's interrupt fell    *)
(* outside the try: before it, or in its finally clause.  "applied" always *)
(* means that the child did succeed.                                       *)
RecordTruthful ==
    /\ (got > 0 \/ code # "none") => log # <<>>
    /\ /\ pc = "exit" /\ log # <<>> /\ outcome # "internal"
       /\ hits \cap {"begun", "over", "emit"} = {}
       => /\ Len(log) = 2
          /\ (Last(log) = "applied") <=> (outcome = "zero")
    /\ log # <<>> /\ Last(log) = "applied" => code = "zero"

(* When acb ends, however it ends, no mapping of its own holds a value,    *)
(* unless the emptying itself was interrupted.                             *)
ValuesGone ==
    pc = "exit" /\ "over" \notin hits =>
        /\ fields = {}
        /\ \A n \in Env : env[n] \notin {Value(k, f) : k \in DOMAIN caps, f \in Fields}

(* When the suite runner is through, nothing is left in the child's group, *)
(* unless the failure to contain it is reported, or the user's interrupt   *)
(* fell between the launch and the try, or in the termination itself; on   *)
(* Windows a child that exits may leave others behind.                     *)
NothingOutlives ==
    /\ pc \in {"over", "emit", "exit"} /\ path = "suite"
    /\ hits \cap {"forked", "probe", "term", "loop", "reap"} = {}
    => \/ tree = {}
       \/ platform = "nt" /\ cause \in {"none", "uncontained"}

(* The suite child is contained on every interruption (_run_contained):    *)
(* after the first interrupt, when acb is through, the group is empty.     *)
EveryInterruptContained ==
    /\ pc \in {"over", "emit", "exit"} /\ path = "suite" /\ platform = "posix"
    /\ interrupts = 1
    => tree = {}

(* The suite runner is bounded: whatever the tree does, it ends. *)
SuiteEnds == pc = "wait" ~> pc = "exit"
=============================================================================
