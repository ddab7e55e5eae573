# Agent capability broker: specification and proofs

TLA+ models of `agent_capability_broker` (the Python package under
`src/agent_capability_broker/` of the repository), the TLC configurations that
check them on small instances, and TLAPS proofs of what matters most for every
instance. File names below are relative to that package; `docs/` is the
repository's.

## 1. The system

The package hands credentials to agent harnesses. Its resident part, the
**broker**, is one process per user that listens on a Unix socket, has
short-lived credentials issued by Vault, keeps them in memory only, lends them
to callers and sees to it that each of them is revoked. Around it is the command
line **acb**: it runs one child process with credentials in its environment
(`exec`), brings harness configurations and shims into the state a manifest
declares (`reconcile`, `install-harness`, `register`) and says what is wrong with
them (`doctor`), and onboards capabilities into Vault (`onboard`).

| Component | State | Operations | What makes it correct |
|---|---|---|---|
| checkout registry (`broker/registry.py`) | `_live`: checkouts, each with value or without, `revoke_pending`, anchor; the state file | `add`, `find_reusable`, `select`, `revoke`, `reap`, `recover`, `revoke_all`, `write_state`, `read_state` | every credential is revoked in the end; none is lent once its revocation has begun; the file is enough to recover after a crash; an answered revoke stands |
| service (`broker/service.py`) | none of its own; threads | `checkout`, `revoke`, `list`, `status` | a loan fits its request; errors leave nothing behind |
| issuers (`broker/issuers.py`) | `ChildTokenLeases._held` | `issue`, `revoke` | a token is let go only when it is dead; the read does not use the token up |
| server (`broker/server.py`) | worker slots and threads, socket path, stop flag | accept, worker, reaper, drain, bind, probe, close, `main` | slots balance; shutdown ends and revokes; one broker per socket |
| attribution (`broker/harness.py`) | none (reads `/proc`) | who is calling, does its harness still run | only a live harness anchors a checkout |
| protocol, config, paths, client, git/kube helpers (`broker/`) | none | framing, validation, one request per connection | what is malformed is refused |
| exec (`providers.py`, `cli.py`) | the values and the environment in memory, a process tree, two provenance records | parse, validate, plan names, record, resolve, launch, wait, terminate, clear | the child gets what its receipt says; no silent fallback between identities; the tree is gone when exec ends; the record is truthful; values are cleared |
| credential resolution (`cred_vault.py`, `secret_sources.py`) | none | which plane file, which variables, which authentication method | precedence; declared AppRole material that cannot be used fails closed |
| reconcile (`adapters.py`, `providers.py`, `cli.py`) | harness configuration files, their backups, shims | inspect, plan, apply act by act, compensate, verdict | nothing a harness wrote is lost; no shim is clobbered; success means nothing is left to do; doctor does not pass what is not so |
| onboarding (`onboard.py`) | Vault policy, AppRole, SecretIDs, KV value; plane files | plan, check, apply, unwind | never overwrites; a failed run takes back what it made; re-runs add nothing |
| manifest and assurance (`model.py`), audits (`boundary.py`, `surface.py`), launchers, provenance | none, or append-only | parsing, derivations, read-only checks | parser and doctor agree |

How they interact. In the broker a client connects; the server's main thread
takes a slot and starts a worker thread; the worker attributes the peer, and the
service runs the request: it looks for a checkout to reuse, or calls an issuer
(which calls Vault) and registers the result. The registry's lock protects memory
and the state file; issuer calls are made outside it. The reaper thread sweeps
for checkouts that have expired, lost their session or failed to be revoked.
`main` recovers the state file before it binds the socket and revokes everything
at shutdown. Issuer tokens live in memory only: after a crash the next process
knows handles it cannot revoke, and the Vault ttl has to end them.
`acb exec` does not use the broker: it resolves from Vault (or a suite secret
source) by itself, with the identity a plane file and its environment give it.
The shims that `reconcile` writes call `acb exec`, and name the plane file that
`onboard` writes. The files that `reconcile` edits belong to the harnesses, which
rewrite them at any time.

The hard behaviours, and where they bite, are the `hazards` of `PROJECT.json`:
a checkout being revoked, reaped and lent by several threads at once; issuer
calls that fail, or succeed and lose the reply; a failing write of the state file
after memory has changed; a kill between any two steps, and in recovery itself;
a worker that outlives the drain; two broker processes on one socket and one
state file; slots and threads under exhaustion; a child whose tree forks, leaves
its group or ignores termination; an interrupt at any point of it; names that
collide across capabilities; configurations edited between plan, backup and write;
onboarding steps that fail with some of their predecessors' effects known and some
not.

## 2. The modules

| Module | Models | Abstract specification it implements |
|---|---|---|
| `IssuerContract` | what the registry relies on from an issuer (operators, and a specification) | |
| `CheckoutLifecycle` | the life of a checkout as promised | |
| `CheckoutRegistry` | registry, service, reaper, `main` around one issuer; uses the operators of `IssuerContract` | `CheckoutLifecycle` |
| `ChildTokenLeases` | `ChildTokenLeases` and `VaultK8sTokenIssuer` against an external Vault | `IssuerContract` |
| `BrokerServer` | accept loop, slots, workers, drain, shutdown | |
| `BrokerStartup` | several broker processes on one socket path and one state file | |
| `VaultIdentity` | plane files, merging, choice of the authentication method (operators) | |
| `ExecCheckout` | `acb exec` from the tokens of the command line to the exit code; uses `VaultIdentity` | |
| `Reconcile` | reconcile, install-harness, register and doctor over the harnesses of a machine | |
| `Onboarding` | `acb onboard --apply`, run after run | |
| `CheckoutRegistryProofs`, `ChildTokenLeasesProofs`, `BrokerServerProofs`, `BrokerStartupProofs`, `ExecCheckoutProofs`, `ReconcileProofs`, `OnboardingProofs` | the theorems | |
| `Induction` | induction over the numbers, and what it says of `FlattenSeq` and `SetToSeq` | |
| `MC*` | instances for TLC | |

The composition is by contract: `CheckoutRegistry` drives an issuer through
`Mint`, `RevokeReturns`, `RevokeRaises`, `Lapse` and `Forget`, and
`ChildTokenLeases` is checked, and proved, to implement the specification made of
the same operators.

### CheckoutRegistry

One action is what the code does under one acquisition of `Registry._lock`, or
between two calls that leave the process; the lock itself is not a variable.
`live`, `value`, `pending` and `anchored` are the checkouts in `_live` with the
fields that the properties tell apart (is there a value, is it
`revoke_pending`, does it have an `anchor_pid`); `co` is the rest of the record;
`file` the ids in the state file. `pc` says where a thread is.

* *checkout* (`Broker._checkout`): `CheckoutReuses` (find_reusable; the copy of
  the value leaves the lock, `Answer` is the reply after it) or
  `CheckoutIssues`, then `IssueReturns` or `IssueRaises`, `Add` (memory and file)
  or `AddWriteFails` (memory only; the client gets an error), and `Emit` (the event
  outside the lock, then the reply).
* *revoke* (`Registry.revoke`, by workers, reaper and `main`): `Mark` drops the
  values under the lock, `CallIssuer` takes one target, `IssuerReturns` or
  `IssuerRaises` deals with it under the lock, `Write` rewrites the file, or
  `WriteFails`, or `MainWriteFails` ends the process.
* *callers of revoke*: `AskRevoke` (by id, capability, session or all),
  `ReapScan` and `ReapGroup` (three groups, one call each, in order), `Start`
  (recovery), `Close` (`revoke_all`).
* *process*: `Start`, `Serve`, `Stop`, `Close`, `Exit`, and `Crash` at any point.
* *world*: `Tick` (Vault ends what is over), `SessionEnds`.

A caller is a pair of session and harness label, which `find_reusable` compares
both; `Session` gives the first of the two, which is all that `select` compares. A
worker whose connection was accepted before the stop may still read its request
and be served while the drain lasts: `Stop` leaves some of the idle workers
"reading", and such a worker asks, or gets nothing to do (`Dismiss`). The expiry
that `IssueReturns` records is stamped after the grant and is at least a second
away, so it may lie one unit after the token's own end. Requests that only read (list, status, dry run) are left out; an
empty selection of a revoke is answered at once and changes nothing, so it is no
step. The order in which a set of targets is revoked is left open: the code
takes dictionary order. Static KV values (a capability outside `RevocableCaps`)
are never held by the issuer and their `revoke` returns without a call.

### ChildTokenLeases

Vault's side of a token (`token`, `dies`, `uses`, `lease`) and the broker's
(`held`, `expires`) are separate, a call and its reply are two actions with
every loss in between, and the clock that decides `now >= expires_at` starts
when the reply arrives, hence after Vault's. Two threads may issue and revoke at
once, the same handle too. `QuietRevoke` is `_revoke_quietly`, once and ignored.

### BrokerServer

`slots` and `workers` are `_slots` and `_workers`. Each connection goes through
reading, handling and replying in its worker, then gives back its slot and leaves
the set, in this order. `close` takes a snapshot of the workers and joins each
until it ends or the deadline has passed; joining a thread that was never started
raises (`JoinFails`), as Python does.

### BrokerStartup

Three processes around one path and one file, each in the order of `main`:
recover the file, probe the path, unlink what is stale, bind, listen, serve, and
at the end close, revoke, unlink. The probe of a listener that lives may fail (a
timeout, a full backlog); the process that probes then takes the path for stale and
unlinks it, which can only happen to lives that overlap. `overlapped` records whether a process was ever
launched while another ran; `SoundInTurn` is what holds if none was, whatever
crashed, and `OneOwner` what holds even then.

### VaultIdentity and ExecCheckout

`VaultIdentity` has the decisions of `cred_vault.py` as operators over a host:
`PlaneFile` (the first candidate that exists), `VaultEnv` (an explicit plane is
authoritative, otherwise the process environment wins), `UsableMaterial` (half a
role, a wrapped SecretID or an unusable credential file refuses) and
`Authenticate` (Kubernetes, AppRole, token). `Identity` composes them.

`ExecCheckout` follows `acb exec` through its places:

* *parse* (`Asks`): `ReadHead` and `CommandOf` are `_cmd_exec_raw`'s scan, token
  by token: options, `-m` and its operand, ids, `--`. A single capability may do
  without `--`, several may not.
* *lookup* and *check* (`Lookup`, `Refuse`, `Begin`): the manifest, the host's
  platform and the inherited environment are whatever they may be; `MayRun` and
  `PathTaken` are the validation and the choice among the four ways to run a
  child; `Plannable` is `_injection_plan` for every capability before the first
  value is read; then the checkout is recorded, or the sink fails and nothing
  runs. The `try` is entered only after the record (`Enter`).
* *resolve* (`ResolveNext`, `ResolveFails`): capability by capability, each with
  the identity `VaultIdentity` gives it; the mapping is copied into the
  environment, and its name is bound to the mapping of the next capability
  (`providers.py:776`; nothing is emptied in between). On the bare path a name is
  the field in capitals, whatever it is: two fields may have one name, of which the
  one that is written last stays, or the name of the receipt.
* *launch*, *run* and *wait*: a plain child runs to its end (`RunReturns`); a suite
  child runs in a group of its own from the moment it is forked, and `Guard` is the
  entry into the `try` around its wait, which has a timeout (`WaitReturns`,
  `TimesOut`). Its processes fork and end as they please (`Fork`, `ProcessEnds`).
* *termination* (`Probe`, `Terminate`, `LoopEnds`, `LoopKills`, `Reap`, and the
  `taskkill` branch): SIGTERM, a loop over the grace period that collects the child
  and asks whether the group is empty, SIGKILL, the last wait, and
  `uncontained` if the group is not gone.
* *the end* (`CloseOut`, `Record`): the `finally` clause empties the mappings,
  then emits the terminal record.
* `Interrupt`: KeyboardInterrupt between any two steps. Before the `try`, the window
  between the record of the start and the `try` included, and in the terminal emit it
  ends the run (`InterruptEnds`); in the emptying it also leaves some values where
  they are (`InterruptWipe`); in the wait it starts the termination
  (`InterruptWait`); anywhere else in the `try`, after the fork and during the
  termination too, it goes straight to the `finally` clause (`InterruptTry`).

`used` and `hits` are history variables: the identity last presented to Vault, and
the places where interrupts fell. Three properties exempt what such an interrupt does
by the code's own order, and each names the places: `RecordTruthful` those outside the
`try`, `ValuesGone` the emptying itself, `NothingOutlives` the moment between fork and
wait and the termination. A value is named by its capability and field; SIGTERM asks
and changes nothing by itself, and leaving the group is the same as ending, as the
code looks at the group only. SIGKILL is sent once to the group; the kernel delivers
it to every member, and a process that never leaves a system call is out of scope.

### Reconcile

A configuration file holds launchers by name, and may be absent or not parse. A
launcher says if it runs Playwright, at which version or tag, whether it floats by a
package other than the one that gets pinned, and whether it is on. A pin is any text,
so a tag as well (`Tags`). `backups` is what was ever copied beside the file. A shim
is the set of ids its text brokers, the plane file it names, and whether it can be
read at all (it may be too long or not be text). A shim may have a name that the
harness does not list (`Unlisted`: a leading dot, a slash). `Read`, `Inspect`,
`Verdict` and `Plan` are what adapters and providers read, conclude and plan, for both
providers (`cred` and `e2e`) and each kind of harness (one that needs no file, one
whose file needs an optional package, one that only reports); `Installs` are the
sets of harnesses a machine may have. `Audited` and `Clobbered` are the audit of the
surface: it looks at shims by name, so of several capabilities with one shim at the
last one, and only warns of a shim that cannot be read.

`reconcile` and `install-harness` plan from one reading (`StartReconcile`,
`StartInstall`); `register` appends to the manifest (`Register`) and then, harness by
harness, reads the manifest again and plans there (`RegisterNext`). `ManifestError` is
what becomes of any of them when the manifest does not parse. A run takes the actions
of its plan in order (`Skip`, `Unavailable`, `Check` and `Render`, or `ToConfig`,
`Load`, `Backup`, `WriteConfig`), each of them emits a provenance event (`Emit`), and
`Finish` computes the exit code, for `install-harness` from a second inspection. The
look for a shim and its write are two steps, and so are load, backup and write of a
file: between any two of them the harness may write its file (`HarnessWrites`) and the
operator may spoil a file, edit a shim or the manifest (`Misedit`, `EditShim`,
`EditManifest`). A write may fail, leave the file or the shim cut short, and the run
goes on; `register` may leave a torn manifest (`RegisterTorn`), and a run may be
killed. `theirs`, `raced`, `between` and `replaned` are history: what a harness wrote,
what of it came between a backup and the write, which shims others wrote between the
look and the write, and whether the manifest was edited.

A capability's id carries its provider (`cred:`, `e2e:`); an id without one, which
`apply` skips, is left out.

### Onboarding

A run walks through policy, AppRole, plane files and value with the probe and the
write of each as two steps, keeps its undo list as the code does (only what was
seen to be absent is undone, a SecretID before its plane file), stops at the first
failure and unwinds backwards. Every call may be refused or served with its reply
lost; each undo may fail; the run may be killed anywhere and the next one starts
from what is left. `stray`, `blind`, `left`, `torn` and `before` are history
variables: they record what a report named, what was written without knowing it
was new, whether an undo failed, and what there was before.
The `.bak` of a harness is read only by the run that made it, so its content is in
the undo list. SecretIDs that plane files name at first are taken to be different
ones, runs follow one another, and replies of an unexpected shape are left out.

## 3. What the runs check

Every property stands in its module with a comment that says what it means.

| Run | Instance | Result |
|---|---|---|
| `reg_crash` | 2 workers, reaper, main; 2 checkouts; 2 unattributed callers, one session under two harness labels; 1 stop or kill; disk sound (2.4 million states) | `TypeOK`, `DiskCoversMemory`, `LentOnRecord`, `ValueOnlyWhileUsable`, `NothingStranded`, `HeldIsRegistered`, `RevokedMeansEnded`, `LentFitsRequest`, `NoRevival` hold; `CheckoutLifecycle` is implemented |
| `reg_live` | 1 worker, 1 checkout, a revocable and a static capability, attributed caller, ttl 2, clock to 2, 1 stop or kill, 1 failing write, fair | `DueIsRevoked`, `RequestsAnswered`, `StopsAndStarts` hold |
| `reg_shutdown` | one worker | `ShutdownRevokesAll` violated (below) |
| `leases` | 2 threads, 2 tokens, ttl 1 and 2, clock to 3, 1 restart | `ReleasedMeansDead`, `ReadKeepsToken` hold; `IssuerContract` is implemented |
| `startup` | 3 processes, 2 checkouts | `OneOwner`, `SoundInTurn` hold |
| `startup_records` | the same | `RecordedWhileServing` violated |
| `server` | 3 connections, 2 slots, threads may fail to start, fair | `SlotsBalance`, `DrainIsComplete`, `ShutdownEnds` hold |
| `exec` | command lines of up to 4 tokens, 2 of them ids; 12 declarations; names that fold together; a tree of 3 processes; 2 interrupts anywhere; 1 sink fault; fair | `TypeOK`, `EnvSound`, `NoDowngrade`, `RecordTruthful`, `ValuesGone`, `NothingOutlives`, `BoundaryHolds`, `SuiteEnds` hold |
| `exec_contained` | the same, 1 interrupt | `EveryInterruptContained` violated |
| `reconcile` | 4 kinds of harness, of which one or two are installed; 4 manifests; 2 runs, 1 edit, 1 failure or kill (2.8 million states) | `TypeOK`, `NothingLost`, `Converges`, `DoctorHonest`, `NeverClobbers` hold |
| `onboard` | 2 harnesses, 2 runs, any initial state (15.5 million states) | `TypeOK`, `NeverOverwrites`, `SuccessIsUsable`, `UnwoundClean`, `NoStraySecretIds`, `Idempotent` hold |
| `onboard_kept` | the same | `PreexistingKept` violated |

**Bounds.** `MaxTime` (the clock), `MaxExits`, `MaxRestarts` and `MaxRuns` (process
lives), `MaxDiskFaults`, `MaxSinkFaults` and `MaxFaults` (things that fail once in
a while), `MaxInterrupts`, `MaxEdits` and `MaxTokens` (length of a command line)
are the only bounds and appear in guards; `Horizon` in `CheckoutRegistry` keeps
expiry within the clock. What they have to allow for:

* *Registry*: two checkouts, two workers and the reaper are what the races need:
  one thread revokes or lends what another revokes, while a second checkout keeps
  the sets and the file from being all or nothing. One exit gives a crash or a
  stop, the recovery, and a second life that issues on top of it. Two threads and a
  restart do the same for the leases.
* *Startup*: three processes are one that serves, one that interferes, and one
  that follows.
* *Exec*: two capabilities are what a collision of names or a value left over from
  another capability needs, and of three fields two fold to one name and one to the
  receipt's; four tokens hold an id, an option with an operand and
  a separator in any order; three processes give a child, a descendant and one
  forked during the termination; the second interrupt is the one that cuts the
  handling of the first.
* *Reconcile*: one edit and one failure, each at any point of two runs: the second
  run starts from whatever the first left. The manifests have two capabilities with
  one shim, a shim that is not listed, a pin that is a version and one that is a tag,
  and a floor that cannot be had; two harnesses installed together are one that can be
  given a launcher and one that cannot.
* *Onboarding*: two runs are one that failed or was killed and the one that finds
  what it left; two harnesses, since the second may fail when the first is done.

The theorems of the next section hold without any of them. Symmetry sets are used
only in runs without liveness properties. Deadlock is checked except in
`BrokerServer`, `Onboarding`, `ExecCheckout` and `Reconcile`, which come to an end.

**Fairness.** `CheckoutRegistry`: weak fairness of each worker, the reaper, main
and the clock. It rests on timeouts in the code: a worker in an issuer call gets
a reply or a timeout of the HTTP client, the reaper waits at most
`reap_interval`, `close` gives up after its drain deadline. Clients, starts,
stops and kills are not fair. An issuer may fail for ever: `DueIsRevoked` holds
because a token past its ttl is dropped without a call. `BrokerServer`: the main
thread and the socket work of each worker are fair (all have timeouts), the
handling of a request (`Respond`) is not: `ShutdownEnds` may not depend on it.
`ExecCheckout`: weak fairness of acb's own steps only. Its waits have deadlines
(the suite timeout, the grace period); nothing is assumed of the child, its tree
or the user, so `SuiteEnds` holds for a tree that never ends by itself. A plain
child has no timeout, and nothing is claimed of its end.

**What the violated properties say.**

* `EveryInterruptContained`: the `try` that terminates the tree of a suite child is
  entered only after `Popen` has returned; an interrupt after the fork and before that
  leaves the child and its group running, with the values (`providers.py:986`;
  `providers.py:967`: "contain on every interruption").
* `ShutdownRevokesAll`: a worker that outlives the drain may register a checkout
  after `revoke_all` (`broker/server.py:238`). The record is on disk, and the next
  start takes it out.
* `RecordedWhileServing`: `main` recovers before it binds, so a second broker
  empties the state file of the one that runs, and only then fails
  (`broker/server.py:397`).
* `PreexistingKept`: a run that replaced a plane file has destroyed the SecretID in
  it; if a later step fails the file comes back, its SecretID does not
  (`onboard.py:1183`).

Observed while modelling, without a run of their own:

* `find_reusable` does not look at the requested ttl, so a request for a short ttl
  may be lent a checkout that lives longer (`broker/service.py:202`;
  `docs/broker.md:89` says that a request may only shorten).
* The threshold for reuse is `min(60 s, ttl / 4)` where `docs/broker.md:89` says
  60 s (`Reusable`; against expiry it is sound, `LentFitsRequest`).
* A checkout whose write failed in `Registry.add` may be lent later without a
  `broker_checkout` event (`LentOnRecord` is stated for a sound disk).
* When a worker thread cannot be started, `close` joins it all the same and fails
  before `revoke_all` (`broker/server.py:221` and `235`; `JoinFails`).
* A listener that is too busy to accept the probe in time loses its socket path to a
  second broker (`broker/server.py:133-137`). `OneOwner` and `SoundInTurn` hold
  nonetheless, the second of lives that do not overlap.
* On the bare path of `exec` two fields that are equal up to case overwrite one
  another, and a field may overwrite the receipt, while the receipt names both fields
  (`providers.py:540` and `1344-1351`): `EnvSound` says of that path what is true of it.
* A second interrupt abandons the termination of a suite's tree, one in the `finally`
  clause leaves values in memory or the terminal record unwritten, and one right after
  the record of the start leaves it without a terminal record: `NothingOutlives`,
  `ValuesGone` and `RecordTruthful` exempt them by the place they fall (`hits`).
* An onboarding run takes a plane file for a match without asking whether its
  SecretID still works, so a file that an undo could not put right is never
  repaired (`torn` in `SuccessIsUsable`).
* The text of a shim says that `acb reconcile` re-renders it, but an existing shim
  is never rendered again (`NeverClobbers`), so an outdated one stays.
* `_create_file` asks whether the file exists and then writes with truncation
  (`adapters.py:75` and `78`): a shim that somebody writes in between is overwritten.
  `NeverClobbers` exempts that moment (`between`) and no other.
* A pin may be a tag: `pin = "latest"` is applied, `reconcile` exits 0, and the next
  run plans it again (`providers.py:386` and `415`). So it is with a shim that has a name
  the harness does not list, which is written once and planned for ever. `Endless`
  names these cases in `Converges`.
* The audit of the surface keeps one capability per shim name, the last, and only warns
  of a shim that is not text or longer than 256 KiB (`surface.py:94-98`, `121-125`,
  `200-209`), so `doctor` may pass where a declared credential is not brokered.
  `DoctorHonest` claims what is left: of the last capability, if the shim can be read.
* `install-harness` ends in failure for every suite capability, as its verdict is
  UNKNOWN; `reconcile` prints that all capabilities are present and working when
  some are UNKNOWN or unavailable and there is nothing it could do; a `codex`
  harness may be given an `add_mcp` action that can never be applied; `register`
  exits 0 when the apply after it failed. `Converges` and `DoctorHonest` are stated
  of what the exit codes and verdicts do promise.

## 4. What is proved

Each theorem holds for every value of the constants that the named `ASSUME`s of
its component allow: any number of threads, processes, checkouts, capabilities and
harnesses, any set of them installed, and any bound.

| Module | Theorem | States |
|---|---|---|
| `CheckoutRegistryProofs` | `TypeCorrect` | `[]TypeOK` |
| | `ValuesDropped`, `NoneStranded`, `TokensRegistered`, `RevokedForGood` | `ValueOnlyWhileUsable`, `NothingStranded`, `HeldIsRegistered`, `RevokedMeansEnded` |
| | `NeverRevived`, `LoansFit` | the action properties `NoRevival`, `LentFitsRequest` |
| | `FileCoversMemory`, `LoansOnRecord` | `DiskCoversMemory`, `LentOnRecord`, if `MaxDiskFaults = 0` |
| | `BrokerImplementsLifecycle` | `ImplementsLifecycle`, if `MaxDiskFaults = 0` |
| `ChildTokenLeasesProofs` | `ReleasedAreDead`, `ReadIsNeverLast` | `ReleasedMeansDead`; `ReadKeepsToken`, if `NumUses > 1` (the code grants 3) |
| | `LeasesImplementContract` | `ImplementsContract` |
| `BrokerStartupProofs` | `NeverTwoOwners`, `SoundOneAfterAnother` | `OneOwner`, `SoundInTurn` |
| `BrokerServerProofs` | `SlotsAlwaysBalance`, `DrainComplete` | `SlotsBalance`, `DrainIsComplete` |
| `ExecCheckoutProofs` | `NeverDowngraded`, `RecordIsTruthful`, `ValuesCleared`, `ChildGetsItsReceipt`, `NothingLeftBehind` | `NoDowngrade`, `RecordTruthful`, `ValuesGone`, `EnvSound`, `NothingOutlives` |
| | `TypeCorrect`, `BoundaryIsKept` | `[]TypeOK`; the action property `BoundaryHolds` |
| `ReconcileProofs` | `TypeCorrect` | `[]TypeOK` |
| | `NothingEverLost`, `ShimsAreNeverClobbered` | `NothingLost`, `NeverClobbers` |
| | `DoctorNeverLies`, `ReconcileConverges` | `DoctorHonest`, `Converges` |
| `OnboardingProofs` | `TypeCorrect` | `[]TypeOK` |
| | `ValueNeverOverwritten`, `CleanRunsChangeNothing` | the action property `NeverOverwrites`; `Idempotent` |
| | `FailedRunsLeaveNoTrace`, `NoSecretIdIsForgotten`, `SuccessMeansUsable` | `UnwoundClean`, `NoStraySecretIds`, `SuccessIsUsable` |

The three theorems about the state file assume a disk that takes every write,
because after a failed write the file does not cover memory and the statements are
false. `ReconcileAssumption` takes a manifest to be a sequence of capabilities no two
of which have one id, as the ids are the keys of a TOML table (`model.py:307`), and the
known harnesses to be finitely many, which is what makes a plan over all of them a
sequence; capabilities may share a shim, and a pin may be any text. `ExecAssumption`
takes names and hosts to be of their types and assumes nothing of how fields fold to
names. `StartupTypes`, `ServerTypes` and `LeaseTypes` prove the type invariants
that `BrokerStartup`, `BrokerServer` and `ChildTokenLeases` do not list in a run.

**The registry.** `TypeInv` is inductive. None of the safety properties is, since
each could be broken by a thread that holds an id it should not hold. `Fresh`
rules that out: nothing knows a checkout that has not been issued (`Unborn`), a
worker that is about to register one is the only one to know it (`InHandFresh`),
a process that is down has no memory (`DownEmpty`), and the main thread revokes
only while it starts or closes (`MainQuiet`). With `Fresh`, the conjunction `Safe`
(`pending \subseteq live` and the three state properties) is inductive, and
`NoRevival` follows because the registration of a fresh checkout is the only step
that adds a value. For `RevokedForGood` the invariant `Told` adds that what is
registered after recovery is held by the issuer, ended, or not revocable
(`WorkSettled`), that what a thread has revoked is gone (`DoneGone`) and that
recovery leaves nothing registered (`RecoveryComplete`): otherwise an answer could
be given for a token of an earlier process. `Recorded` relates memory, file and
events. The refinement maps a checkout to usable, closing, closed or absent
(`stageOf`); its step lemma goes through the actions and shows that each moves
each checkout along `Moves` or not at all.

**The leases.** `Known` (what a thread works on has been minted, and is worked on by
one thread while it is issued), `OnTime` (the broker takes a token to be over no
earlier than Vault does) and `Leaving` (what is on its way out of the table is dead
already) make `ReleasedMeansDead` inductive; `Unused` says that the read finds its
token with all its uses. The refinement closes the composition with `CheckoutRegistry`, which is
proved from `IssuerContract` alone.

**Startup and server.** `Idle` says that a process that is not there owns nothing,
`InTurn` what the file, the path and the process must be while processes do not
overlap. `Balance` counts the slots that are free and those that connections
hold, given that the main thread has at most one connection in hand (`InHand`);
`Waited` says that every started thread is tracked and that `close`, until its
deadline, still waits for every one that is at a request.

**Exec.** `Contained` says at which places the tree may have members, from the
launch to the end of the termination, and which interrupts can have left one
behind. `OnRecord` says what the log holds at each
place, and `Agrees` ties the terminal record to the exit code; `Outside` are the
interrupts that no `try` catches. `Planful` says that
outside the planned names the environment never holds a value, and that before the
`try` and after the emptying it holds none. `Built` relates the environment to what has
been resolved so far: `Apart` is what validation established of the names (apart
within a capability, between two, and from what is inherited; of the bare path only
that it is a single bare capability), `Filled` that every value is where its name says,
or, on the bare path, that another field of that name is there (`Written`). `Typed` adds to the types what keeps them: what the
record and the cause are at each place, and that an exit is reported of a child
that has ended.

`BoundaryIsKept` is about a fold over the tokens of the line. Its invariant is over
the fold, not over the behaviour: `ReadSoFar` says of the record after `m` tokens that
an option waits for its operand only right after `-m`, that each id read stands among
the first `m` tokens, before the command if that has begun, and is no operand.
`ReadTokenSound` is one turn of the loop, `TurnByTurn` unfolds the fold by one token,
and `SetInduction` takes the two to the end of a line of any length.

**Reconcile.** `Kept` says that what a file held when the run began is in the file,
or in a backup, and `BackedUp` that when the write comes the backup alone is enough,
but for what came after it (`raced`). `NeverClobbers` needs `Shelved`: from the look
to the write the name is free, or somebody else took it meanwhile (`between`). `Typed` needs to know that
each action of a plan is one that the planner gives for some capability and harness
(`PlanOverIs`), through the concatenation of the plans of all of them (`FlattenHas`).

For `DoctorNeverLies`, `Doctored` says that a shim with something in it, and one that
is planned, is that of a declared capability until the manifest is edited; half a shim,
from a run that was killed or a write that failed, names nothing and so does not pass. `PlanAsks` lists what
an action of the planner presupposes. For `ReconcileConverges`, `Due` is what the
planner would plan now, in whatever state a run is in. `PlanFits` says that the plan
still suits the files, `ActFits` that what was loaded is what the file says, and
`Pending` that what is due is settled, or still to come in the plan, or the run has
failed already. `Meant` keeps the launchers that are written apart from those that
float: one that floats was asked for by a tag (`TagPinned`), which `Endless` admits.
`RenderSettles` and `WriteSettles` are the two steps that take something
off what is due: a shim settles its own capability, and one launcher settles every
capability that asks for it, which is why a second action for it may be skipped. All
other steps of an undisturbed run leave what is due alone (`QuietStep`, `QuietAct`).

**Onboarding.** For `TypeCorrect`, `Counted` sets aside the AppRole and the SecretIDs that
a run may still make: their numbers stay within the ids there are because a run passes
each harness once. `Whole` says that a plane file, in place or in an undo, names both an
AppRole and a SecretID. `Known` and `Typed` confine what is held and undone, `Stacked` the
shape of the undo list. `PolicyBack`, `RoleBack` and `PlanesBack` say of each thing
that it is as before or that an undo on the list makes it so: that they are kept
while the list is walked backwards is `UnwoundClean`. `Paired` and `Covered` say
that every live SecretID is named by a file, by an undo or by a report. For
`SuccessIsUsable`, `Apart` keeps the SecretIDs of the run younger than those before
it, `Achieved` says what the steps done so far have established, and `Sound` that no
file that a later run would take for a match names a dead SecretID.

**Induction over data.** The library states induction with an operator as a parameter,
which the provers here cannot instantiate. `Induction` states it of a set instead: a
set that has 0 and, with each number, the next, has all of them (`SetInduction`, from
`NatLessThanWellFounded`). What a fold or a recursive function computes is then proved by taking
the set of the lengths for which it holds. `FlattenIs` and `FlattenHas` do so for the
plan over all harnesses, `TurnByTurn` and `ReadHeadSound` for the command line.

**Only model-checked.** Liveness: `DueIsRevoked`, `RequestsAnswered`,
`StopsAndStarts`, `ShutdownEnds` and `SuiteEnds`, which is out of this prover's
reach. Every safety property that a passing run checks is a theorem.

## 5. What is not modelled

* *No state that a property is about*: peer credentials, process hardening,
  argument parsing beyond `exec`'s, text formatting and logging, `broker/paths.py`,
  the launchers, scripts, tests and build files; dry runs; `boundary.py`, a
  read-only report of file modes.
* *Taken as one step*: the readings a plan is made from; `install-harness all`,
  which is the installs one after the other.
* *Left out of a module*: a state file that cannot be parsed, which the code
  treats like an empty one; what a process does on SIGTERM other than to end or
  not; issuers of a remote mint.
* *Not yet modelled*: the re-authentication of `VaultSession`, framing and
  validation of the wire protocol, the configuration file, the client with its
  timeout and the helpers that use it, the walk of `broker/harness.py` through
  `/proc`, two onboarding runs at the same time. `PROJECT.json` gives the status of
  every component.

## 6. Plan

Done, in this order: the registry with its issuer contract and lifecycle; the
leases under the contract; the processes around the socket; the server; onboarding;
the identity of the command line and `acb exec`; reconcile; proofs about each.

Next:

1. `VaultSession`: one re-authentication on 403, shared by the threads of a broker
   and by a renewal that races it.
2. `HarnessAttribution`: the walk up `/proc` with exits and reuse of pids between
   two reads; composed with `CheckoutRegistry` through `anchored` and `SessionEnds`.
3. `BrokerProtocol`, `BrokerConfig`: framing, request and response validation,
   ttl syntax and match rules as operators, checked against reference definitions
   over bounded inputs, in one module for TLC.
4. What `revoke` answers about ids that another thread dealt with, and the client's
   timeout: a checkout that nobody received.
5. Two onboarding runs of one capability at the same time.
