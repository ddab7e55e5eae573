------------------------------ MODULE Onboarding ------------------------------
(***************************************************************************)
(* acb onboard --apply (onboard.py): a run provisions a capability step by *)
(* step (policy, AppRole, one plane file per harness with a SecretID of    *)
(* its own, and the value), stops at the first step that fails and unwinds *)
(* what it created, in reverse.  Every call to Vault may be refused, or be *)
(* served and its reply lost; the process may be killed between any two    *)
(* steps; and the capability is onboarded again and again, one run at a    *)
(* time, from whatever the runs before it left.                            *)
(*                                                                         *)
(* Vault is external: a SecretID works while its AppRole exists, and a     *)
(* deleted AppRole that is created again has another role_id.  Names, HCL  *)
(* and values are abstracted to whether they are the derived ones; the     *)
(* address and the file mode of a plane file to whether both are right.    *)
(* The harnesses are taken in any order, the code sorts them.              *)
(***************************************************************************)
EXTENDS Integers, Sequences, FiniteSets

CONSTANTS
    Harnesses,  \* the harnesses the capability declares
    NoHarness,
    MaxRuns     \* bound: how often the capability is onboarded

ASSUME OnboardingAssumption ==
    /\ IsFiniteSet(Harnesses) /\ NoHarness \notin Harnesses
    /\ MaxRuns \in Nat

VARIABLES
    policy,     \* Vault: "none", "ours" or "other" (another scope)
    role,       \* Vault: the role_id of the AppRole, 0 if there is none,
    bound,      \*   whether it is bound and configured as derived,
    roles,      \*   and the role_ids given out so far
    live,       \* Vault: the SecretIDs that work,
    issued,     \*   and how many there have been
    kv,         \* Vault: "empty", "ours" or "theirs" (somebody else's value)
    plane,      \* the plane file of each harness
    pc,         \* where the run is: see Places
    probe,      \* what its last probe said
    roleId,     \* the role_id it has read
    todo,       \* the harnesses it has still to provision,
    here,       \*   the one it is at,
    seen,       \*   the plane file it found there,
    sid,        \*   and the SecretID it has minted for it
    undo,       \* what it will undo if a step fails
    values,     \* was it given values to write?
    before,     \* history: what Vault and the files were when it began
    result,     \* history: how the last run ended
    left,       \* history: did it report an undo that failed?
    stray,      \* history: SecretIDs a report named as not destroyed, or whose
                \*   minting no run knows of (a lost reply, a killed process)
    blind,      \* history: what this run wrote without knowing it was new
    torn,       \* history: has a plane file not been put in place, or not back?
    runs        \* runs so far (bound)

vault == <<policy, role, bound, roles, live, issued, kv>>
work == <<probe, roleId, todo, here, seen, sid, values>>
history == <<before, result, left, stray, blind, torn, runs>>
vars == <<vault, plane, work, pc, undo, history>>

MaxIds == (MaxRuns + 1) * (Cardinality(Harnesses) + 1)
RoleIds == 1..MaxIds
SecretIds == 1..MaxIds
NoPlane == [role |-> 0, sid |-> 0, right |-> FALSE]
Planes == [role : RoleIds, sid : SecretIds, right : BOOLEAN] \cup {NoPlane}
UndoSteps == {<<"policy">>, <<"role">>} \cup ({"secret"} \X SecretIds)
               \cup ({"plane"} \X Harnesses \X Planes)
Places == {"idle", "policy", "policyWrite", "role", "roleWrite", "roleId", "planes",
           "mint", "stage", "aside", "place", "stale", "kv", "kvWrite", "unwind"}

TypeOK ==
    /\ policy \in {"none", "ours", "other"}
    /\ role \in 0..MaxIds /\ roles \in 0..MaxIds /\ bound \in BOOLEAN
    /\ live \in SUBSET SecretIds /\ issued \in 0..MaxIds
    /\ kv \in {"empty", "ours", "theirs"}
    /\ plane \in [Harnesses -> Planes]
    /\ pc \in Places
    /\ probe \in {"none", "absent", "same", "differs", "unknown"}
    /\ roleId \in 0..MaxIds
    /\ todo \in SUBSET Harnesses /\ here \in Harnesses \cup {NoHarness}
    /\ seen \in Planes /\ sid \in 0..MaxIds
    /\ \A i \in 1..Len(undo) : undo[i] \in UndoSteps
    /\ values \in BOOLEAN
    /\ result \in {"none", "ok", "failed", "killed"}
    /\ left \in BOOLEAN /\ torn \in BOOLEAN
    /\ stray \in SUBSET SecretIds
    /\ before \in [policy : {"none", "ours", "other"}, role : 0..MaxIds, clean : BOOLEAN,
                   live : SUBSET SecretIds, plane : [Harnesses -> Planes]]
    /\ blind \in SUBSET {"policy", "role"}
    /\ runs \in 0..MaxRuns

\* check_onboard with an admin plane that may read everything: every row is "ok".
CheckClean ==
    /\ policy = "ours" /\ role # 0 /\ bound
    /\ \A h \in Harnesses : plane[h].role = role /\ plane[h].right
    /\ kv # "empty"

Nothing == [policy |-> "none", role |-> 0, plane |-> [h \in Harnesses |-> NoPlane],
            live |-> {}, clean |-> FALSE]
Snapshot == [policy |-> policy, role |-> role, plane |-> plane, live |-> live,
             clean |-> CheckClean]

\* Whatever the operator, or an earlier program, has set up; a SecretID that a plane
\* file names is its own, and works if its AppRole still exists.
Init ==
    /\ policy \in {"none", "ours", "other"}
    /\ role \in {0, 1} /\ roles = 1 /\ bound \in {role = 1, FALSE}
    /\ \E given \in SUBSET Harnesses, right \in BOOLEAN :
          \E number \in [given -> 1..Cardinality(given)] :
             /\ \A g, h \in given : number[g] = number[h] => g = h
             /\ plane = [h \in Harnesses |->
                           IF h \in given THEN [role |-> 1, sid |-> number[h], right |-> right]
                           ELSE NoPlane]
             /\ issued = Cardinality(given)
             /\ live = IF role = 0 THEN {} ELSE 1..Cardinality(given)
    /\ kv \in {"empty", "theirs"}
    /\ pc = "idle" /\ probe = "none" /\ roleId = 0
    /\ todo = {} /\ here = NoHarness /\ seen = NoPlane /\ sid = 0
    /\ undo = <<>> /\ values = FALSE
    /\ before = Nothing
    /\ result = "none" /\ left = FALSE /\ stray = {} /\ blind = {} /\ torn = FALSE
    /\ runs = 0

\* The run begins: the declaration is valid and the admin plane authenticates.
Begin ==
    /\ pc = "idle"
    /\ runs < MaxRuns
    /\ runs' = runs + 1
    /\ pc' = "policy"
    /\ values' \in BOOLEAN
    /\ todo' = Harnesses /\ undo' = <<>>
    /\ before' = Snapshot
    /\ result' = "none" /\ left' = FALSE /\ blind' = {}
    /\ UNCHANGED <<vault, plane, probe, roleId, here, seen, sid, stray, torn>>

\* The first step that fails ends the walk; nothing later is attempted.
Fail == pc' = "unwind"

-----------------------------------------------------------------------------
(* The policy.                                                              *)

\* A probe may not find out: denied, or Vault cannot be reached.
Sees(state) == probe' \in {state, "unknown"}

ProbePolicy ==
    /\ pc = "policy"
    /\ Sees(CASE policy = "none" -> "absent" [] policy = "ours" -> "same" [] OTHER -> "differs")
    /\ pc' = IF probe' = "same" THEN "role" ELSE "policyWrite"
    /\ UNCHANGED <<vault, plane, roleId, todo, here, seen, sid, values, undo, history>>

\* Only a policy that was seen to be absent is undone later.
WritePolicy ==
    /\ pc = "policyWrite"
    /\ policy' = "ours"
    /\ \/ /\ pc' = "role"
          /\ undo' = IF probe = "absent" THEN Append(undo, <<"policy">>) ELSE undo
          /\ blind' = IF probe = "unknown" THEN blind \cup {"policy"} ELSE blind
       \/ Fail /\ blind' = blind \cup {"policy"} /\ UNCHANGED undo
    /\ UNCHANGED <<role, bound, roles, live, issued, kv, plane, work, before, result, left,
                   stray, torn, runs>>

-----------------------------------------------------------------------------
(* The AppRole.                                                             *)

ProbeRole ==
    /\ pc = "role"
    /\ Sees(CASE role = 0 -> "absent" [] role # 0 /\ bound -> "same" [] OTHER -> "differs")
    /\ pc' = IF probe' = "same" THEN "roleId" ELSE "roleWrite"
    /\ UNCHANGED <<vault, plane, roleId, todo, here, seen, sid, values, undo, history>>

\* Variant for the mutation runs: an AppRole that was only converged is undone too.
WriteRole_UndoesAlways ==
    /\ pc = "roleWrite"
    /\ bound' = TRUE
    /\ IF role = 0 THEN role' = roles + 1 /\ roles' = roles + 1 ELSE UNCHANGED <<role, roles>>
    /\ \/ /\ pc' = "roleId"
          /\ undo' = Append(undo, <<"role">>)
          /\ blind' = IF probe = "unknown" THEN blind \cup {"role"} ELSE blind
       \/ Fail /\ blind' = blind \cup {"role"} /\ UNCHANGED undo
    /\ UNCHANGED <<policy, live, issued, kv, plane, work, before, result, left, stray, torn, runs>>

\* create_or_update_approle keeps the role_id of an AppRole that exists.
WriteRole ==
    /\ pc = "roleWrite"
    /\ bound' = TRUE
    /\ IF role = 0 THEN role' = roles + 1 /\ roles' = roles + 1 ELSE UNCHANGED <<role, roles>>
    /\ \/ /\ pc' = "roleId"
          /\ undo' = IF probe = "absent" THEN Append(undo, <<"role">>) ELSE undo
          /\ blind' = IF probe = "unknown" THEN blind \cup {"role"} ELSE blind
       \/ Fail /\ blind' = blind \cup {"role"} /\ UNCHANGED undo
    /\ UNCHANGED <<policy, live, issued, kv, plane, work, before, result, left, stray, torn, runs>>

\* Variant for the mutation runs: an unreadable role_id does not stop the run.
ReadRoleId_GoesOn ==
    /\ pc = "roleId"
    /\ roleId' \in {role, 0} /\ probe' = "none"
    /\ pc' = "planes"
    /\ UNCHANGED <<vault, plane, todo, here, seen, sid, values, undo, history>>

ReadRoleId ==
    /\ pc = "roleId"
    /\ roleId' \in {role, 0} /\ probe' = "none"
    /\ IF roleId' = 0 THEN Fail ELSE pc' = "planes"
    /\ UNCHANGED <<vault, plane, todo, here, seen, sid, values, undo, history>>

-----------------------------------------------------------------------------
(* The plane files.                                                         *)

\* Variant for the mutation runs: the comparison never succeeds.
Matches_Never(file) == file # file

\* A file that names this AppRole and some SecretID, at this address, mode 0600.
Matches(file) == file # NoPlane /\ file.role = roleId /\ file.right

\* A harness whose file matches is done, a file that cannot be read is an error.
ReadPlane(h) ==
    /\ pc = "planes" /\ h \in todo
    /\ todo' = todo \ {h}
    /\ \/ Matches(plane[h]) /\ UNCHANGED <<pc, here, seen>>
       \/ ~Matches(plane[h]) /\ pc' = "mint" /\ here' = h /\ seen' = plane[h]
       \/ plane[h] # NoPlane /\ Fail /\ UNCHANGED <<here, seen>>
    /\ UNCHANGED <<vault, plane, probe, roleId, sid, values, undo, history>>

\* Variant for the mutation runs: the SecretID is not entered in the undo list.
MintSecret_NoUndo ==
    /\ pc = "mint"
    /\ issued' = issued + 1 /\ live' = live \cup {issued'}
    /\ sid' = issued' /\ pc' = "stage"
    /\ UNCHANGED <<policy, role, bound, roles, kv, plane, probe, roleId, todo, here, seen,
                   values, undo, before, result, left, stray, blind, torn, runs>>

MintSecret ==
    /\ pc = "mint"
    /\ issued' = issued + 1 /\ live' = live \cup {issued'}
    /\ \/ /\ sid' = issued' /\ pc' = "stage"
          /\ undo' = Append(undo, <<"secret", issued'>>)
          /\ UNCHANGED stray
       \/ Fail /\ stray' = stray \cup {issued'} /\ UNCHANGED <<sid, undo>>
    /\ UNCHANGED <<policy, role, bound, roles, kv, plane, probe, roleId, todo, here, seen,
                   values, before, result, left, blind, torn, runs>>

\* _write_plane_file: the new file is written beside the old one ...
Stage ==
    /\ pc = "stage"
    /\ pc' = "aside" \/ Fail
    /\ UNCHANGED <<vault, plane, work, undo, history>>

\* ... which moves to .bak, over the one that may be there (only the run that made
\* a .bak ever reads it, so it is kept with the undo list) ...
MoveAside ==
    /\ pc = "aside"
    /\ \/ pc' = "place" /\ plane' = [plane EXCEPT ![here] = NoPlane]
       \/ seen # NoPlane /\ Fail /\ UNCHANGED plane
    /\ UNCHANGED <<vault, work, undo, history>>

\* ... and the new one takes its place.  From here on it can be undone.
Place ==
    /\ pc = "place"
    /\ plane' = [plane EXCEPT ![here] = [role |-> roleId, sid |-> sid, right |-> TRUE]]
    /\ undo' = Append(undo, <<"plane", here, seen>>)
    /\ pc' = "stale"
    /\ UNCHANGED <<vault, work, history>>

\* If that fails (the second os.replace, or the chmod after it), the old file stays
\* in .bak, and nothing has been entered in the undo list for it.
PlaceFails ==
    /\ pc = "place"
    /\ \/ UNCHANGED plane
       \/ plane' = [plane EXCEPT ![here] = [role |-> roleId, sid |-> sid, right |-> TRUE]]
    /\ Fail
    /\ torn' = TRUE
    /\ UNCHANGED <<vault, work, undo, before, result, left, stray, blind, runs>>

\* The locals of the step for one harness go out of scope.
Leave == here' = NoHarness /\ seen' = NoPlane /\ sid' = 0

\* The SecretID of the replaced file is destroyed, if Vault resolves it and takes the
\* call; if not, the report says so.
RevokeStale ==
    /\ pc = "stale"
    /\ \/ live' = live \ {seen.sid} /\ UNCHANGED stray
       \/ stray' = stray \cup ({seen.sid} \cap live) /\ UNCHANGED live
    /\ pc' = "planes" /\ Leave
    /\ UNCHANGED <<policy, role, bound, roles, issued, kv, plane, probe, roleId, todo, values,
                   undo, before, result, left, blind, torn, runs>>

PlanesDone ==
    /\ pc = "planes" /\ todo = {}
    /\ pc' = "kv"
    /\ UNCHANGED <<vault, plane, work, undo, history>>

-----------------------------------------------------------------------------
(* The value, and the end of a run that succeeds.                           *)

\* Nothing of the run's own state is left; what it found is compared if it failed.
Over(how) ==
    /\ pc' = "idle" /\ result' = how
    /\ probe' = "none" /\ roleId' = 0 /\ todo' = {} /\ values' = FALSE /\ undo' = <<>>
    /\ Leave
    /\ stray' = IF how = "killed" THEN live ELSE stray \cap live
    /\ IF how = "failed" THEN UNCHANGED <<before, left, blind>>
       ELSE before' = Nothing /\ left' = FALSE /\ blind' = {}

\* No values to write, or the probe sees that there is one: skipped.
SkipKv ==
    /\ pc = "kv"
    /\ ~values \/ kv # "empty"
    /\ Over("ok")
    /\ UNCHANGED <<vault, plane, torn, runs>>

\* The probe sees nothing there, or cannot tell.
ProbeKv ==
    /\ pc = "kv"
    /\ values
    /\ pc' = "kvWrite"
    /\ UNCHANGED <<vault, plane, work, undo, history>>

\* Variant for the mutation runs: the write relies on the probe.
WriteKv_NoCas ==
    /\ pc = "kvWrite"
    /\ kv' = "ours"
    /\ Over("ok")
    /\ UNCHANGED <<policy, role, bound, roles, live, issued, plane, torn, runs>>

\* The write carries cas=0: Vault takes it only if there is no value yet, and a
\* conflict counts as skipped.
WriteKv ==
    /\ pc = "kvWrite"
    /\ kv' = IF kv = "empty" THEN "ours" ELSE kv
    /\ Over("ok") \/ (Fail /\ UNCHANGED <<work, undo, before, result, left, stray, blind>>)
    /\ UNCHANGED <<policy, role, bound, roles, live, issued, plane, torn, runs>>

\* Any write or mint may also be refused, or not reach Vault at all.
Refused ==
    /\ pc \in {"policyWrite", "roleWrite", "mint", "kvWrite"}
    /\ Fail
    /\ UNCHANGED <<vault, plane, work, undo, history>>

-----------------------------------------------------------------------------
(* _unwind: what this run has created, in reverse.                          *)

\* What undoing a step does.
Undone(step) ==
    CASE step[1] = "policy" ->
            policy' = "none" /\ UNCHANGED <<role, live, plane>>
      [] step[1] = "role" ->
            role' = 0 /\ live' = {} /\ UNCHANGED <<policy, plane>>
      [] step[1] = "secret" ->
            live' = live \ {step[2]} /\ UNCHANGED <<policy, role, plane>>
      [] step[1] = "plane" ->
            plane' = [plane EXCEPT ![step[2]] = step[3]] /\ UNCHANGED <<policy, role, live>>

\* Variant for the mutation runs: in the order of creation.
Unwind_Forward ==
    /\ pc = "unwind" /\ undo # <<>>
    /\ Undone(undo[1])
    /\ undo' = Tail(undo)
    /\ UNCHANGED <<bound, roles, issued, kv, pc, work, history>>

Unwind ==
    /\ pc = "unwind" /\ undo # <<>>
    /\ Undone(undo[Len(undo)])
    /\ undo' = SubSeq(undo, 1, Len(undo) - 1)
    /\ UNCHANGED <<bound, roles, issued, kv, pc, work, history>>

\* An undo step that fails is reported (rollback_failed) and the others go on.  A
\* call to Vault may have been served all the same.
UnwindFails ==
    /\ pc = "unwind" /\ undo # <<>>
    /\ LET step == undo[Len(undo)] IN
       /\ \/ UNCHANGED <<policy, role, live, plane>>
          \/ step[1] # "plane" /\ Undone(step)
       /\ stray' = IF step[1] = "secret" THEN stray \cup ({step[2]} \cap live') ELSE stray
    /\ undo' = SubSeq(undo, 1, Len(undo) - 1)
    /\ torn' = (torn \/ undo[Len(undo)][1] = "plane")
    /\ left' = TRUE
    /\ UNCHANGED <<bound, roles, issued, kv, pc, work, before, result, blind, runs>>

EndFailed ==
    /\ pc = "unwind" /\ undo = <<>>
    /\ Over("failed")
    /\ UNCHANGED <<vault, plane, torn, runs>>

-----------------------------------------------------------------------------
(* The world.                                                               *)

\* The process is killed.
Kill ==
    /\ pc # "idle"
    /\ Over("killed")
    /\ UNCHANGED <<vault, plane, torn, runs>>

\* Somebody else stores a value at the path: before or between the runs, or while
\* this run looks at it (at other times it makes no difference to the run).
StoreTheirs ==
    /\ pc \in {"idle", "kv", "kvWrite"}
    /\ kv = "empty"
    /\ kv' = "theirs"
    /\ UNCHANGED <<policy, role, bound, roles, live, issued, plane, pc, work, undo, history>>

\* Between two runs: the mode of a plane file, or the address in it, is changed.
Loosen(h) ==
    /\ pc = "idle"
    /\ plane[h] # NoPlane /\ plane[h].right
    /\ plane' = [plane EXCEPT ![h].right = FALSE]
    /\ UNCHANGED <<vault, pc, work, undo, history>>

Next ==
    \/ Begin
    \/ ProbePolicy \/ WritePolicy \/ ProbeRole \/ WriteRole \/ ReadRoleId
    \/ (\E h \in Harnesses : ReadPlane(h)) \/ MintSecret \/ Stage \/ MoveAside \/ Place
    \/ PlaceFails \/ RevokeStale \/ PlanesDone
    \/ SkipKv \/ ProbeKv \/ WriteKv \/ Refused
    \/ Unwind \/ UnwindFails \/ EndFailed
    \/ Kill \/ StoreTheirs \/ (\E h \in Harnesses : Loosen(h))

Spec == Init /\ [][Next]_vars

-----------------------------------------------------------------------------
(* Properties.                                                              *)

\* A value that is at the path is never replaced, whoever stores one between the
\* probe and the write ("a value is never overwritten", cas=0).
NeverOverwrites == [][kv # "empty" => kv' = kv]_vars

Named == {plane[h].sid : h \in Harnesses}

\* After a run that succeeded, every harness has a plane file that names the AppRole
\* there is and a SecretID that works, whatever earlier runs failed or were killed
\* half way.  (Not repaired is a plane file that an undo failed to put back, or that
\* failed between its two renames: a later run takes it for a match, although the
\* SecretID it names was destroyed.)
SuccessIsUsable ==
    (pc = "idle" /\ result = "ok" /\ ~torn) =>
        /\ policy = "ours" /\ role # 0 /\ bound
        /\ \A h \in Harnesses : plane[h].role = role /\ plane[h].sid \in live

\* A run that failed, and reported no undo that failed, has taken back what it knew to
\* be new and has left alone what was there: policy, AppRole and plane files.
UnwoundClean ==
    (pc = "idle" /\ result = "failed" /\ ~left /\ ~torn) =>
        /\ "policy" \in blind \/ (policy = "none" <=> before.policy = "none")
        /\ "role" \in blind \/ role = before.role
        /\ \A h \in Harnesses : /\ plane[h].role = before.plane[h].role
                                /\ plane[h].sid = before.plane[h].sid

\* No SecretID outlives the run that minted it unless a plane file names it or a report
\* has said that it is left ("Reruns do not accumulate live SecretIDs").
NoStraySecretIds == pc = "idle" => torn \/ live \subseteq Named \cup stray

\* A run on what --check calls clean changes nothing, whatever its probes can see and
\* whichever of its calls fail.
Idempotent ==
    (before.clean /\ runs > 0 /\ pc # "idle") =>
        /\ policy = before.policy /\ role = before.role /\ live = before.live
        /\ plane = before.plane /\ undo = <<>>

\* "Pre-existing objects are left alone": a run that failed and unwound completely
\* leaves the SecretIDs working that the plane files named before it.
PreexistingKept ==
    (pc = "idle" /\ result = "failed" /\ ~left /\ ~torn) =>
        \A h \in Harnesses : before.plane[h].sid \in before.live => plane[h].sid \in live
=============================================================================
