--------------------------- MODULE OnboardingProofs ---------------------------
(***************************************************************************)
(* Theorems about onboarding, for every set of harnesses, every number of  *)
(* runs and every way a call, an undo step or a whole run may fail.        *)
(***************************************************************************)
EXTENDS Onboarding, SequenceTheorems, FiniteSetTheorems, TLAPS

-----------------------------------------------------------------------------
(* The value. *)

(* A value at the path is never replaced: the write carries cas=0.         *)
THEOREM ValueNeverOverwritten == Spec => NeverOverwrites
<1>1. [Next]_vars => [kv # "empty" => kv' = kv]_vars
  <2> SUFFICES ASSUME Next, kv # "empty" PROVE kv' = kv
    OBVIOUS
  <2> USE DEF vault
  <2>1. CASE WriteKv
    BY <2>1 DEF WriteKv
  <2>2. CASE StoreTheirs
    BY <2>2 DEF StoreTheirs
  <2>3. CASE ~WriteKv /\ ~StoreTheirs
    BY <2>3 DEF Next, Begin, ProbePolicy, WritePolicy, ProbeRole, WriteRole, ReadRoleId,
           ReadPlane, MintSecret, Stage, MoveAside, Place, PlaceFails, RevokeStale,
           PlanesDone, SkipKv, ProbeKv, Refused, Unwind, UnwindFails, EndFailed, Kill,
           Loosen
  <2> QED
    BY <2>1, <2>2, <2>3
<1> QED
  BY <1>1, PTL DEF Spec, NeverOverwrites

-----------------------------------------------------------------------------
(* Runs on what is clean. *)

(* While a run works on what --check calls clean: nothing is undone or     *)
(* made, and what is written is what is there, because only a probe that   *)
(* could not see leads to a write.                                         *)
Still ==
    before.clean /\ pc # "idle" =>
        /\ policy = "ours" /\ role # 0 /\ bound /\ kv # "empty"
        /\ \A h \in Harnesses : plane[h].role = role /\ plane[h].right
        /\ policy = before.policy /\ role = before.role /\ live = before.live
        /\ plane = before.plane /\ undo = <<>>
        /\ pc \in {"policy", "policyWrite", "role", "roleWrite", "roleId", "planes", "kv",
                   "kvWrite", "unwind"}
        /\ pc \in {"policyWrite", "roleWrite"} => probe = "unknown"
        /\ pc = "planes" => roleId = role

(* A run on what is clean changes nothing, whatever its probes see and     *)
(* whichever of its calls fail (apply_onboard).                            *)
THEOREM CleanRunsChangeNothing == Spec => []Idempotent
<1>1. Init => Still
  BY DEF Init, Still
<1>2. Still /\ [Next]_vars => Still'
  <2> SUFFICES ASSUME Still, [Next]_vars PROVE Still'
    OBVIOUS
  <2> USE DEF Still, vault, work, history, Fail
  <2>1. CASE Begin
    BY <2>1 DEF Begin, Snapshot, CheckClean
  <2>2. CASE ProbePolicy
    BY <2>2 DEF ProbePolicy, Sees
  <2>3. CASE WritePolicy
    BY <2>3 DEF WritePolicy
  <2>4. CASE ProbeRole
    BY <2>4 DEF ProbeRole, Sees
  <2>5. CASE WriteRole
    BY <2>5 DEF WriteRole
  <2>6. CASE ReadRoleId
    BY <2>6 DEF ReadRoleId
  <2>7. ASSUME NEW h \in Harnesses, ReadPlane(h) PROVE Still'
    BY <2>7 DEF ReadPlane, Matches, NoPlane
  <2>8. CASE MintSecret \/ Stage \/ MoveAside \/ Place \/ PlaceFails \/ RevokeStale
    BY <2>8 DEF MintSecret, Stage, MoveAside, Place, PlaceFails, RevokeStale
  <2>9. CASE PlanesDone
    BY <2>9 DEF PlanesDone
  <2>10. CASE SkipKv
    BY <2>10 DEF SkipKv, Over
  <2>11. CASE ProbeKv
    BY <2>11 DEF ProbeKv
  <2>12. CASE WriteKv
    BY <2>12 DEF WriteKv, Over
  <2>13. CASE Refused
    BY <2>13 DEF Refused
  <2>14. CASE Unwind
    BY <2>14 DEF Unwind
  <2>15. CASE UnwindFails
    BY <2>15 DEF UnwindFails
  <2>16. CASE EndFailed
    BY <2>16 DEF EndFailed, Over
  <2>17. CASE Kill
    BY <2>17 DEF Kill, Over
  <2>18. CASE StoreTheirs
    BY <2>18 DEF StoreTheirs
  <2>19. ASSUME NEW h \in Harnesses, Loosen(h) PROVE Still'
    BY <2>19 DEF Loosen
  <2>20. CASE UNCHANGED vars
    BY <2>20 DEF vars
  <2> QED
    BY <2>1, <2>2, <2>3, <2>4, <2>5, <2>6, <2>7, <2>8, <2>9, <2>10, <2>11, <2>12,
       <2>13, <2>14, <2>15, <2>16, <2>17, <2>18, <2>19, <2>20 DEF Next
<1>3. Still => Idempotent
  BY DEF Still, Idempotent
<1> QED
  BY <1>1, <1>2, <1>3, PTL DEF Spec

-----------------------------------------------------------------------------
(* Where a run is, and its undo list. *)

Files == [role : Nat, sid : Nat, right : BOOLEAN]
Steps == {<<"policy">>, <<"role">>} \cup ({"secret"} \X Nat)
            \cup ({"plane"} \X Harnesses \X Files)

\* The places of the step for one harness: before the new file is in place, and after.
Mid == {"mint", "stage", "aside", "place"}
AtHarness == Mid \cup {"stale"}

Typed ==
    /\ pc \in Places
    /\ role \in Nat /\ roles \in Nat /\ role <= roles /\ roleId \in Nat
    /\ issued \in Nat /\ live \subseteq 1..issued
    /\ plane \in [Harnesses -> Files]
    /\ undo \in Seq(Steps)
    /\ seen \in Files /\ sid \in Nat
    /\ todo \subseteq Harnesses
    /\ pc = "idle" => undo = <<>> /\ todo = {}
    /\ pc \in AtHarness => here \in Harnesses \ todo
    /\ pc \in {"mint", "stage", "aside"} => seen = plane[here]
    /\ pc = "place" => plane[here] = NoPlane

IsStep(i, kind) == i \in 1..Len(undo) /\ undo[i][1] = kind

\* Nothing names an AppRole or a SecretID that Vault has not given out yet.
Known ==
    /\ roleId <= roles /\ sid <= issued
    /\ \A h \in Harnesses : plane[h].role <= roles /\ plane[h].sid <= issued
    /\ seen.role <= roles /\ seen.sid <= issued
    /\ \A i \in 1..Len(undo) :
            /\ IsStep(i, "secret") => undo[i][2] \in 1..issued
            /\ IsStep(i, "plane") => undo[i][3].role <= roles /\ undo[i][3].sid <= issued

\* The undo list is a policy, then an AppRole, then for each harness that is done the
\* SecretID and the plane file; every file is undone at most once.
Stacked ==
    /\ \A i \in 1..Len(undo) : IsStep(i, "policy") => i = 1
    /\ \A i \in 1..Len(undo) : IsStep(i, "role") => i = 1 \/ (i = 2 /\ IsStep(1, "policy"))
    /\ \A i, j \in 1..Len(undo) : IsStep(i, "plane") /\ IsStep(j, "plane") /\ undo[i][2] = undo[j][2] => i = j
    /\ \A i \in 1..Len(undo) : IsStep(i, "plane") =>
            /\ i > 1 /\ IsStep(i - 1, "secret")
            /\ undo[i][2] \notin todo
            /\ pc \in Mid => undo[i][2] # here
    /\ pc \in {"policy", "policyWrite"} => undo = <<>>
    /\ pc \in {"role", "roleWrite"} => \A i \in 1..Len(undo) : IsStep(i, "policy")
    /\ pc \in {"stage", "aside", "place"} => undo # <<>> /\ undo[Len(undo)] = <<"secret", sid>>

\* A run that has reported no undo that failed and torn no file has, for the policy, the
\* AppRole and every plane file, either the means to bring it back or it as it was.
Open == pc # "idle" /\ ~left /\ ~torn

Has(kind) == \E i \in 1..Len(undo) : IsStep(i, kind)

PolicyBack ==
    Open =>
        /\ pc = "policy" => blind = {} /\ policy = before.policy
        /\ pc = "policyWrite" => /\ policy = before.policy
                                 /\ probe \in {"absent", "differs", "unknown"}
                                 /\ probe = "absent" => policy = "none"
                                 /\ probe = "differs" => policy # "none"
        /\ \/ "policy" \in blind
           \/ Has("policy") /\ before.policy = "none"
           \/ ~Has("policy") /\ (policy = "none" <=> before.policy = "none")

RoleBack ==
    Open =>
        /\ pc \in {"policy", "policyWrite", "role", "roleWrite"} => role = before.role
        /\ pc = "roleWrite" => /\ probe \in {"absent", "differs", "unknown"}
                               /\ probe = "absent" => role = 0
                               /\ probe = "differs" => role # 0
        /\ \/ "role" \in blind
           \/ Has("role") /\ before.role = 0
           \/ ~Has("role") /\ role = before.role

PlanesBack ==
    pc # "idle" /\ ~torn =>
        /\ pc \in AtHarness => seen = before.plane[here]
        /\ \A i \in 1..Len(undo) : IsStep(i, "plane") => undo[i][3] = before.plane[undo[i][2]]
        /\ \A h \in Harnesses :
                \/ \E i \in 1..Len(undo) : IsStep(i, "plane") /\ undo[i][2] = h
                \/ pc = "place" /\ here = h
                \/ plane[h] = before.plane[h]

\* A SecretID of this run is named by the plane file written after it; it is the last
\* step if that file is not there yet, or the run unwinds.
Paired ==
    ~torn =>
        /\ \A i \in 1..Len(undo) : IsStep(i, "plane") =>
                undo[i - 1][2] = plane[undo[i][2]].sid
        /\ \A i \in 1..Len(undo) : IsStep(i, "secret") =>
                \/ pc \in {"stage", "aside", "place"} /\ i = Len(undo)
                \/ i < Len(undo) /\ IsStep(i + 1, "plane")
                \/ pc = "unwind"

\* Every SecretID that works is named by a file, by a report or by the undo list.
Covered ==
    ~torn =>
        \A s \in live :
            \/ s \in Named \cup stray
            \/ \E i \in 1..Len(undo) : undo[i] = <<"secret", s>>
            \/ pc \in {"place", "stale"} /\ seen.sid = s

\* No two plane files name one SecretID; those of this run are younger than those the
\* files named when it began, and than one another.
Differ(files) == \A g, h \in Harnesses : files[g].sid = files[h].sid => g = h \/ files[g].sid = 0

Apart ==
    /\ pc = "idle" /\ ~torn => Differ(plane)
    /\ pc # "idle" =>
        /\ before.plane \in [Harnesses -> Files]
        /\ ~torn => Differ(before.plane)
        /\ \A h \in Harnesses : before.plane[h].sid <= issued
        /\ \A i \in 1..Len(undo) : IsStep(i, "secret") =>
                /\ \A h \in Harnesses : before.plane[h].sid < undo[i][2]
                /\ \A j \in 1..Len(undo) : IsStep(j, "secret") /\ i < j => undo[i][2] < undo[j][2]

Matching(file) == role # 0 /\ file.role = role /\ file.right

\* A file that a later run would take for a match names a SecretID that works.
Sound ==
    ~torn =>
        /\ \A h \in Harnesses : Matching(plane[h]) => plane[h].sid \in live
        /\ \A i \in 1..Len(undo) : IsStep(i, "plane") => ~Matching(undo[i][3])
        /\ pc \in AtHarness => ~Matching(seen)
        /\ pc \in {"stage", "aside", "place"} => sid \in live

\* What a run has achieved at each of its places.
Achieved ==
    /\ pc \in {"policy", "policyWrite", "role", "roleWrite", "roleId"} => todo = Harnesses
    /\ pc \in Places \ {"idle", "policy", "policyWrite", "unwind"} => policy = "ours"
    /\ pc \in AtHarness \cup {"roleId", "planes", "kv", "kvWrite"} => role # 0 /\ bound
    /\ pc \in AtHarness \cup {"planes"} => roleId = role
    /\ pc \in AtHarness \cup {"planes"} => \A h \in Harnesses \ todo :
            (pc \in Mid /\ h = here) \/ Matching(plane[h])
    /\ pc \in {"kv", "kvWrite"} => \A h \in Harnesses : Matching(plane[h])



-----------------------------------------------------------------------------
(* The undo list as a sequence. *)

\* What an appended step leaves in place.
LEMMA Pushes ==
    ASSUME undo \in Seq(Steps), NEW step \in Steps, undo' = Append(undo, step)
    PROVE  /\ undo' \in Seq(Steps) /\ Len(undo') = Len(undo) + 1
           /\ undo'[Len(undo) + 1] = step
           /\ \A i \in 1..Len(undo) : undo'[i] = undo[i]
  OBVIOUS

\* A step that may have been appended leaves a list of steps.
LEMMA StaysTyped ==
    ASSUME undo \in Seq(Steps), NEW step \in Steps, undo' = Append(undo, step) \/ undo' = undo
    PROVE  undo' \in Seq(Steps)
  BY AppendProperties

\* What is left when the last step is taken off.
LEMMA Pops ==
    ASSUME undo \in Seq(Steps), undo # <<>>, undo' = SubSeq(undo, 1, Len(undo) - 1)
    PROVE  /\ undo' \in Seq(Steps) /\ Len(undo') = Len(undo) - 1 /\ Len(undo) \in 1..Len(undo)
           /\ \A i \in 1..Len(undo') : undo'[i] = undo[i] /\ i \in 1..Len(undo)
<1>1. Len(undo) \in Nat /\ Len(undo) # 0
  OBVIOUS
<1>2. \A i \in 1..(Len(undo) - 1) : undo[i] \in Steps /\ i \in 1..Len(undo)
  BY <1>1
<1>3. /\ undo' \in Seq(Steps)
      /\ Len(undo') = IF 1 <= Len(undo) - 1 THEN Len(undo) - 1 - 1 + 1 ELSE 0
      /\ \A i \in 1..(Len(undo) - 1 - 1 + 1) : undo'[i] = undo[1 + i - 1]
  BY <1>1, <1>2, SubSeqProperties
<1>4. Len(undo') = Len(undo) - 1
  <2> PICK n \in Nat : n = Len(undo)
    BY <1>1
  <2>1. (IF 1 <= n - 1 THEN n - 1 - 1 + 1 ELSE 0) = n - 1
    BY <1>1
  <2> QED
    BY <1>3, <2>1
<1>5. \A i \in 1..(Len(undo) - 1) : undo'[i] = undo[i]
  <2> SUFFICES ASSUME NEW i \in 1..(Len(undo) - 1) PROVE undo'[i] = undo[i]
    OBVIOUS
  <2>1. 1 + i - 1 = i /\ i \in 1..(Len(undo) - 1 - 1 + 1)
    BY <1>1
  <2>2. undo'[i] = undo[1 + i - 1]
    BY <1>3, <2>1
  <2> QED
    BY <2>1, <2>2
<1> QED
  BY <1>1, <1>2, <1>3, <1>4, <1>5

\* A step is of one of four kinds.
LEMMA Kinds ==
    ASSUME NEW step \in Steps
    PROVE  \/ step = <<"policy">> /\ step[1] = "policy"
           \/ step = <<"role">> /\ step[1] = "role"
           \/ step[1] = "secret" /\ step[2] \in Nat /\ step = <<"secret", step[2]>>
           \/ step[1] = "plane" /\ step[2] \in Harnesses /\ step[3] \in Files
  BY DEF Steps

\* What undoing a step changes, by its kind.
LEMMA Undoing ==
    ASSUME NEW step \in Steps, Undone(step)
    PROVE  \/ step[1] = "policy" /\ policy' = "none" /\ UNCHANGED <<role, live, plane>>
           \/ step[1] = "role" /\ role' = 0 /\ live' = {} /\ UNCHANGED <<policy, plane>>
           \/ step[1] = "secret" /\ live' = live \ {step[2]} /\ UNCHANGED <<policy, role, plane>>
           \/ step[1] = "plane" /\ plane' = [plane EXCEPT ![step[2]] = step[3]]
              /\ UNCHANGED <<policy, role, live>>
  BY Kinds DEF Undone


LEMMA UndoneTyped ==
    ASSUME Typed, NEW step \in Steps, Undone(step)
    PROVE  /\ role' \in Nat /\ role' <= roles /\ live' \subseteq live
           /\ plane' \in [Harnesses -> Files]
<1>1. CASE plane' = [plane EXCEPT ![step[2]] = step[3]] /\ UNCHANGED <<role, live>>
           /\ step[2] \in Harnesses /\ step[3] \in Files
  BY <1>1 DEF Typed
<1> QED
  BY <1>1, Undoing, Kinds DEF Typed

\* Types, and where a run is.
LEMMA NextTyped ==
    ASSUME Typed, [Next]_vars
    PROVE  Typed'
<1> USE DEF Typed, Places, Files, Mid, AtHarness, NoPlane, vault, work, history, Fail
<1>1. CASE Begin
  BY <1>1 DEF Begin
<1>2. CASE ProbePolicy
  BY <1>2 DEF ProbePolicy
<1>3. CASE WritePolicy
  <2>1. undo' \in Seq(Steps)
    <3>1. <<"policy">> \in Steps
      BY DEF Steps
    <3>2. undo' = Append(undo, <<"policy">>) \/ undo' = undo
      BY <1>3 DEF WritePolicy
    <3> QED
      BY <3>1, <3>2, StaysTyped
  <2> QED
    BY <1>3, <2>1 DEF WritePolicy
<1>4. CASE ProbeRole
  BY <1>4 DEF ProbeRole
<1>5. CASE WriteRole
  <2>1. undo' \in Seq(Steps)
    <3>1. <<"role">> \in Steps
      BY DEF Steps
    <3>2. undo' = Append(undo, <<"role">>) \/ undo' = undo
      BY <1>5 DEF WriteRole
    <3> QED
      BY <3>1, <3>2, StaysTyped
  <2> QED
    BY <1>5, <2>1 DEF WriteRole
<1>6. CASE ReadRoleId
  BY <1>6 DEF ReadRoleId
<1>7. ASSUME NEW h \in Harnesses, ReadPlane(h) PROVE Typed'
  BY <1>7 DEF ReadPlane
<1>8. CASE MintSecret
  <2>1. issued' = issued + 1 /\ issued' \in Nat /\ live' \subseteq 1..issued'
    BY <1>8 DEF MintSecret
  <2>2. undo' \in Seq(Steps)
    <3>1. PICK n \in Nat : n = issued'
      BY <2>1
    <3>2. <<"secret", n>> \in Steps
      BY DEF Steps
    <3>3. undo' = Append(undo, <<"secret", n>>) \/ undo' = undo
      BY <1>8, <3>1 DEF MintSecret
    <3> QED
      BY <3>2, <3>3, StaysTyped
  <2> QED
    BY <1>8, <2>1, <2>2 DEF MintSecret
<1>9. CASE Stage
  BY <1>9 DEF Stage
<1>10. CASE MoveAside
  <2>1. CASE plane' = [plane EXCEPT ![here] = NoPlane] /\ pc' = "place"
    BY <1>10, <2>1 DEF MoveAside
  <2>2. CASE UNCHANGED plane /\ pc' = "unwind"
    BY <1>10, <2>2 DEF MoveAside
  <2> QED
    BY <1>10, <2>1, <2>2 DEF MoveAside
<1>11. CASE Place
  <2>1. here \in Harnesses /\ seen \in Files
    BY <1>11 DEF Place
  <2>2. undo' \in Seq(Steps)
    <3>1. <<"plane", here, seen>> \in Steps
      BY <2>1 DEF Steps
    <3>2. undo' = Append(undo, <<"plane", here, seen>>)
      BY <1>11 DEF Place
    <3> QED
      BY <3>1, <3>2, StaysTyped
  <2>3. PICK h \in Harnesses : h = here
    BY <2>1
  <2>4. [role |-> roleId, sid |-> sid, right |-> TRUE] \in Files
    OBVIOUS
  <2> QED
    BY <1>11, <2>2, <2>3, <2>4 DEF Place
<1>12. CASE PlaceFails
  <2>1. here \in Harnesses
    BY <1>12 DEF PlaceFails
  <2>2. [role |-> roleId, sid |-> sid, right |-> TRUE] \in Files
    OBVIOUS
  <2>3. CASE UNCHANGED plane
    BY <1>12, <2>3 DEF PlaceFails
  <2>4. CASE plane' = [plane EXCEPT ![here] = [role |-> roleId, sid |-> sid, right |-> TRUE]]
    BY <1>12, <2>1, <2>2, <2>4 DEF PlaceFails
  <2> QED
    BY <1>12, <2>3, <2>4 DEF PlaceFails
<1>13. CASE RevokeStale
  <2>1. live' \subseteq 1..issued /\ pc = "stale"
    BY <1>13 DEF RevokeStale
  <2>2. seen' = NoPlane /\ seen'.role = 0 /\ seen'.sid = 0 /\ NoPlane \in Files
    BY <1>13 DEF RevokeStale, Leave
  <2> QED
    BY <1>13, <2>1, <2>2 DEF RevokeStale, Leave
<1>14. CASE PlanesDone
  BY <1>14 DEF PlanesDone
<1>15. CASE SkipKv
  BY <1>15 DEF SkipKv, Over, Leave
<1>16. CASE ProbeKv
  BY <1>16 DEF ProbeKv
<1>17. CASE WriteKv
  <2>1. CASE Over("ok")
    BY <1>17, <2>1 DEF WriteKv, Over, Leave
  <2>2. CASE Fail /\ UNCHANGED <<work, undo, before, result, left, stray, blind>>
    BY <1>17, <2>2 DEF WriteKv
  <2> QED
    BY <1>17, <2>1, <2>2 DEF WriteKv
<1>18. CASE Refused
  BY <1>18 DEF Refused
<1>19. CASE Unwind
  <2>1. pc = "unwind" /\ pc' = "unwind" /\ undo' \in Seq(Steps) /\ undo[Len(undo)] \in Steps
    BY <1>19, Pops DEF Unwind
  <2>2. Undone(undo[Len(undo)])
    BY <1>19 DEF Unwind
  <2> QED
    BY <1>19, <2>1, <2>2, UndoneTyped DEF Unwind
<1>20. CASE UnwindFails
  <2>1. pc = "unwind" /\ pc' = "unwind" /\ undo' \in Seq(Steps) /\ undo[Len(undo)] \in Steps
    BY <1>20, Pops DEF UnwindFails
  <2>2. CASE UNCHANGED <<policy, role, live, plane>>
    BY <1>20, <2>1, <2>2 DEF UnwindFails
  <2>3. CASE Undone(undo[Len(undo)])
    BY <1>20, <2>1, <2>3, UndoneTyped DEF UnwindFails
  <2> QED
    BY <1>20, <2>2, <2>3 DEF UnwindFails
<1>21. CASE EndFailed
  BY <1>21 DEF EndFailed, Over, Leave
<1>22. CASE Kill
  BY <1>22 DEF Kill, Over, Leave
<1>23. CASE StoreTheirs
  BY <1>23 DEF StoreTheirs
<1>24. ASSUME NEW h \in Harnesses, Loosen(h) PROVE Typed'
  BY <1>24 DEF Loosen
<1>25. CASE UNCHANGED vars
  BY <1>25 DEF vars
<1> QED
  BY <1>1, <1>2, <1>3, <1>4, <1>5, <1>6, <1>7, <1>8, <1>9, <1>10, <1>11, <1>12, <1>13,
     <1>14, <1>15, <1>16, <1>17, <1>18, <1>19, <1>20, <1>21, <1>22, <1>23, <1>24, <1>25 DEF Next

-----------------------------------------------------------------------------
(* The undo list, step by step. *)

\* An undo list that stays, has the same steps.
LEMMA SameSteps ==
    ASSUME undo' = undo
    PROVE  /\ \A i, kind : IsStep(i, kind)' <=> IsStep(i, kind)
           /\ undo' = undo /\ Len(undo') = Len(undo)
  BY DEF IsStep

\* An empty one has none.
LEMMA NoSteps ==
    ASSUME undo' = <<>>
    PROVE  /\ \A i, kind : ~IsStep(i, kind)'
           /\ undo' = <<>> /\ Len(undo') = 0
  BY DEF IsStep

\* One that grows keeps its steps, and has one more.
LEMMA MoreSteps ==
    ASSUME undo \in Seq(Steps), NEW step \in Steps, undo' = Append(undo, step)
    PROVE  /\ Len(undo) \in Nat /\ Len(undo') = Len(undo) + 1 /\ undo' # <<>>
           /\ undo'[Len(undo) + 1] = step
           /\ \A i, kind : IsStep(i, kind) => /\ IsStep(i, kind)' /\ undo'[i] = undo[i]
                                              /\ i \in 1..Len(undo) /\ i < Len(undo')
           /\ \A i, kind : IsStep(i, kind)' => \/ IsStep(i, kind)
                                               \/ i = Len(undo) + 1 /\ step[1] = kind
           /\ \A i : i = Len(undo) + 1 => IsStep(i, step[1])'
<1>1. /\ Len(undo) \in Nat /\ Len(undo') = Len(undo) + 1 /\ undo' # <<>>
      /\ undo'[Len(undo) + 1] = step
      /\ \A i \in 1..Len(undo) : undo'[i] = undo[i]
  BY Pushes
<1> QED
  BY <1>1 DEF IsStep

\* One that shrinks keeps all but the last.
LEMMA FewerSteps ==
    ASSUME undo \in Seq(Steps), undo # <<>>, undo' = SubSeq(undo, 1, Len(undo) - 1)
    PROVE  /\ Len(undo) \in Nat /\ Len(undo) > 0 /\ Len(undo') = Len(undo) - 1
           /\ undo[Len(undo)] \in Steps /\ IsStep(Len(undo), undo[Len(undo)][1])
           /\ \A i, kind : IsStep(i, kind)' => /\ IsStep(i, kind) /\ undo'[i] = undo[i]
                                               /\ i < Len(undo) /\ i \in 1..Len(undo)
           /\ \A i, kind : IsStep(i, kind) => IsStep(i, kind)' \/ i = Len(undo)
<1>1. /\ Len(undo) \in Nat /\ Len(undo) > 0 /\ Len(undo') = Len(undo) - 1
      /\ undo[Len(undo)] \in Steps
      /\ \A i \in 1..Len(undo') : undo'[i] = undo[i]
  BY Pops
<1> QED
  BY <1>1 DEF IsStep

\* Steps by their kind.
LEMMA StepKinds ==
    ASSUME undo \in Seq(Steps), NEW i
    PROVE  /\ IsStep(i, "secret") => undo[i][2] \in Nat /\ undo[i] = <<"secret", undo[i][2]>>
           /\ IsStep(i, "plane") => undo[i][2] \in Harnesses /\ undo[i][3] \in Files
<1> SUFFICES ASSUME i \in 1..Len(undo) PROVE
        /\ IsStep(i, "secret") => undo[i][2] \in Nat /\ undo[i] = <<"secret", undo[i][2]>>
        /\ IsStep(i, "plane") => undo[i][2] \in Harnesses /\ undo[i][3] \in Files
  BY DEF IsStep
<1>1. undo[i] \in Steps
  OBVIOUS
<1> QED
  BY <1>1, Kinds DEF IsStep


LEMMA StepForms ==
    /\ <<"policy">> \in Steps /\ <<"role">> \in Steps
    /\ \A n \in Nat : <<"secret", n>> \in Steps
    /\ \A h \in Harnesses, f \in Files : <<"plane", h, f>> \in Steps
  BY DEF Steps

\* What Vault has given out only grows.
LEMMA NextKnown ==
    ASSUME Typed, Known, [Next]_vars
    PROVE  Known'
<1> USE DEF Known, NoPlane, vault, work, history, Fail
<1>1. CASE Begin
  BY <1>1, SameSteps, NoSteps DEF Begin, Typed
<1>2. CASE ProbePolicy
  BY <1>2, SameSteps, NoSteps DEF ProbePolicy
<1>3. CASE WritePolicy
  <2>1. CASE undo' = Append(undo, <<"policy">>)
    BY <1>3, <2>1, MoreSteps, StepForms DEF WritePolicy, Typed
  <2>2. CASE undo' = undo
    BY <1>3, <2>2, SameSteps DEF WritePolicy
  <2> QED
    BY <1>3, <2>1, <2>2 DEF WritePolicy
<1>4. CASE ProbeRole
  BY <1>4, SameSteps, NoSteps DEF ProbeRole
<1>5. CASE WriteRole
  <2>1. roles' \in Nat /\ roles <= roles'
    BY <1>5 DEF WriteRole, Typed
  <2>2. CASE undo' = Append(undo, <<"role">>)
    BY <1>5, <2>1, <2>2, MoreSteps, StepForms, StepKinds, SMTT(40) DEF WriteRole, Typed, Files
  <2>3. CASE undo' = undo
    BY <1>5, <2>1, <2>3, SameSteps, StepKinds DEF WriteRole, Typed, Files
  <2> QED
    BY <1>5, <2>2, <2>3 DEF WriteRole
<1>6. CASE ReadRoleId
  BY <1>6, SameSteps, NoSteps DEF ReadRoleId, Typed
<1>7. ASSUME NEW h \in Harnesses, ReadPlane(h) PROVE Known'
  BY <1>7, SameSteps, NoSteps DEF ReadPlane
<1>8. CASE MintSecret
  <2>1. issued' = issued + 1 /\ issued \in Nat
    BY <1>8 DEF MintSecret, Typed
  <2>2. PICK n \in Nat : n = issued'
    BY <2>1
  <2>3. CASE undo' = Append(undo, <<"secret", n>>) /\ sid' = n
    BY <1>8, <2>1, <2>2, <2>3, MoreSteps, StepForms, StepKinds, SMTT(40) DEF MintSecret, Typed, Files
  <2>4. CASE undo' = undo /\ sid' = sid
    BY <1>8, <2>1, <2>4, SameSteps, StepKinds DEF MintSecret, Typed, Files
  <2> QED
    BY <1>8, <2>2, <2>3, <2>4 DEF MintSecret
<1>9. CASE Stage
  BY <1>9, SameSteps, NoSteps DEF Stage
<1>10. CASE MoveAside
  BY <1>10, SameSteps, NoSteps DEF MoveAside, Typed
<1>11. CASE Place
  <2>1. PICK h \in Harnesses : h = here
    BY <1>11 DEF Place, Typed, AtHarness, Mid
  <2>2. PICK f \in Files : f = seen
    BY DEF Typed
  <2>3. undo' = Append(undo, <<"plane", h, f>>)
    BY <1>11, <2>1, <2>2 DEF Place
  <2> QED
    BY <1>11, <2>1, <2>2, <2>3, MoreSteps, StepForms DEF Place, Typed
<1>12. CASE PlaceFails
  BY <1>12, SameSteps, NoSteps DEF PlaceFails, Typed, AtHarness
<1>13. CASE RevokeStale
  BY <1>13, SameSteps, NoSteps DEF RevokeStale, Leave, Typed
<1>14. CASE PlanesDone
  BY <1>14, SameSteps, NoSteps DEF PlanesDone
<1>15. CASE SkipKv
  BY <1>15, SameSteps, NoSteps DEF SkipKv, Over, Leave, Typed
<1>16. CASE ProbeKv
  BY <1>16, SameSteps, NoSteps DEF ProbeKv
<1>17. CASE WriteKv
  BY <1>17, SameSteps, NoSteps DEF WriteKv, Over, Leave, Typed
<1>18. CASE Refused
  BY <1>18, SameSteps, NoSteps DEF Refused
<1>19. CASE Unwind
  <2>1. Undone(undo[Len(undo)]) /\ undo[Len(undo)] \in Steps
    BY <1>19, FewerSteps DEF Unwind, Typed
  <2>2. ASSUME NEW h \in Harnesses
        PROVE  plane'[h].role <= roles /\ plane'[h].sid <= issued
    <3> DEFINE step == undo[Len(undo)]
    <3>1. CASE plane' = plane
      BY <3>1
    <3>2. CASE step[1] = "plane" /\ plane' = [plane EXCEPT ![step[2]] = step[3]]
      <4>1. IsStep(Len(undo), "plane") /\ Len(undo) \in 1..Len(undo)
        BY <1>19, <3>2, FewerSteps DEF Unwind, Typed
      <4>2. step[3].role <= roles /\ step[3].sid <= issued
        BY <4>1
      <4> HIDE DEF step
      <4>3. plane'[h] = (IF h = step[2] THEN step[3] ELSE plane[h])
        BY <3>2 DEF Typed
      <4> QED
        BY <4>2, <4>3
    <3> QED
      BY <2>1, <3>1, <3>2, Undoing
  <2> QED
    BY <1>19, <2>2, FewerSteps DEF Unwind, Typed
<1>20. CASE UnwindFails
  <2>1. plane' = plane
    BY <1>20, FewerSteps, Undoing DEF UnwindFails, Typed
  <2> QED
    BY <1>20, <2>1, FewerSteps DEF UnwindFails, Typed
<1>21. CASE EndFailed
  BY <1>21, SameSteps, NoSteps DEF EndFailed, Over, Leave, Typed
<1>22. CASE Kill
  BY <1>22, SameSteps, NoSteps DEF Kill, Over, Leave, Typed
<1>23. CASE StoreTheirs
  BY <1>23, SameSteps, NoSteps DEF StoreTheirs
<1>24. ASSUME NEW h \in Harnesses, Loosen(h) PROVE Known'
  BY <1>24, SameSteps, NoSteps DEF Loosen, Typed, Files
<1>25. CASE UNCHANGED vars
  BY <1>25, SameSteps, NoSteps DEF vars
<1> QED
  BY <1>1, <1>2, <1>3, <1>4, <1>5, <1>6, <1>7, <1>8, <1>9, <1>10, <1>11, <1>12, <1>13,
     <1>14, <1>15, <1>16, <1>17, <1>18, <1>19, <1>20, <1>21, <1>22, <1>23, <1>24, <1>25 DEF Next
\* What the undo list looks like.
LEMMA NextStacked ==
    ASSUME Typed, Stacked, [Next]_vars
    PROVE  Stacked'
<1> USE DEF NoPlane, vault, work, history, Fail
<1>1. CASE Begin
  BY <1>1, SameSteps, NoSteps DEF Begin, Stacked, Mid, IsStep
<1>2. CASE ProbePolicy
  BY <1>2, SameSteps, NoSteps DEF ProbePolicy, Stacked, Mid, IsStep
<1>3. CASE WritePolicy
  <2>1. CASE undo' = Append(undo, <<"policy">>)
    <3>1. undo = <<>> /\ Len(undo) = 0
      BY <1>3 DEF Stacked, WritePolicy
    <3>2. undo' = <<<<"policy">>>>
      BY <2>1, <3>1
    <3> QED
      BY <1>3, <3>2 DEF Stacked, IsStep, WritePolicy, Mid
  <2>2. CASE undo' = undo
    BY <1>3, <2>2, SameSteps DEF Stacked, WritePolicy, Mid, IsStep
  <2> QED
    BY <1>3, <2>1, <2>2 DEF WritePolicy
<1>4. CASE ProbeRole
  BY <1>4, SameSteps, NoSteps DEF ProbeRole, Stacked, Mid, IsStep
<1>5. CASE WriteRole
  <2>1. CASE undo' = Append(undo, <<"role">>) /\ pc' = "roleId"
    <3>1. \/ undo = <<>>
          \/ Len(undo) = 1 /\ IsStep(1, "policy")
      <4> SUFFICES ASSUME undo # <<>> PROVE Len(undo) = 1 /\ IsStep(1, "policy")
        OBVIOUS
      <4>1. Len(undo) \in Nat /\ Len(undo) > 0
        BY DEF Typed
      <4>2. \A i \in 1..Len(undo) : IsStep(i, "policy") /\ i = 1
        BY <1>5 DEF Stacked, WriteRole
      <4>3. PICK n \in Nat : n = Len(undo)
        BY <4>1
      <4>4. n \in 1..Len(undo) /\ 1 \in 1..Len(undo)
        BY <4>1, <4>3
      <4> QED
        BY <4>2, <4>3, <4>4
    <3>2. \A i : ~IsStep(i, "plane")'
      <4>1. \A i : ~IsStep(i, "plane")
        BY <1>5 DEF Stacked, IsStep, WriteRole
      <4> QED
        BY <2>1, <4>1, MoreSteps, StepForms DEF Typed
    <3>3. /\ \A i : IsStep(i, "role")' => i = Len(undo) + 1
          /\ \A i : IsStep(i, "policy")' => IsStep(i, "policy")
          /\ IsStep(1, "policy") => IsStep(1, "policy")'
      <4>1. \A i : ~IsStep(i, "role")
        BY <1>5 DEF Stacked, IsStep, WriteRole
      <4> QED
        BY <2>1, <4>1, MoreSteps, StepForms DEF Typed
    <3>4. Len(undo) = 0 \/ (Len(undo) = 1 /\ IsStep(1, "policy")')
      BY <3>1, <3>3
    <3>5. \A i : IsStep(i, "role")' => i = 1 \/ (i = 2 /\ IsStep(1, "policy")')
      BY <3>3, <3>4
    <3>6. \A i : IsStep(i, "policy")' => i = 1
      BY <3>3 DEF Stacked, IsStep
    <3> QED
      BY <2>1, <3>2, <3>5, <3>6 DEF Stacked, Mid
  <2>2. CASE undo' = undo
    BY <1>5, <2>2, SameSteps DEF Stacked, WriteRole, Mid, IsStep
  <2> QED
    BY <1>5, <2>1, <2>2 DEF WriteRole
<1>6. CASE ReadRoleId
  BY <1>6, SameSteps, NoSteps DEF ReadRoleId, Stacked, Mid, IsStep
<1>7. ASSUME NEW h \in Harnesses, ReadPlane(h) PROVE Stacked'
  BY <1>7, SameSteps, NoSteps DEF ReadPlane, Stacked, Mid, IsStep
<1>8. CASE MintSecret
  <2>1. issued' = issued + 1 /\ issued \in Nat
    BY <1>8 DEF MintSecret, Typed
  <2>2. PICK n \in Nat : n = issued'
    BY <2>1
  <2>3. CASE undo' = Append(undo, <<"secret", n>>) /\ sid' = n /\ pc' = "stage"
    <3>1. /\ Len(undo) \in Nat /\ Len(undo') = Len(undo) + 1 /\ undo' # <<>>
          /\ undo'[Len(undo) + 1] = <<"secret", n>>
      BY <2>3, MoreSteps, StepForms DEF Typed
    <3>2. \A i, kind : kind # "secret" => /\ IsStep(i, kind)' => IsStep(i, kind) /\ undo'[i] = undo[i]
                                          /\ IsStep(i, kind) => IsStep(i, kind)'
      BY <2>3, MoreSteps, StepForms DEF Typed
    <3>3. \A i : IsStep(i, "secret") => IsStep(i, "secret")'
      BY <2>3, MoreSteps, StepForms DEF Typed
    <3>4. \A i : IsStep(i, "plane") => undo[i][2] # here
      BY <1>8 DEF Stacked, IsStep, MintSecret, Mid
    <3>5. todo' = todo /\ here' = here
      BY <1>8 DEF MintSecret
    <3>6. \A i, kind : IsStep(i, kind)' => i \in 1..Len(undo')
      BY DEF IsStep
    <3>7. \A i, kind : IsStep(i, kind) => i \in 1..Len(undo)
      BY DEF IsStep
    <3> QED
      BY <2>3, <3>1, <3>2, <3>3, <3>4, <3>5, <3>6, <3>7, SMTT(40) DEF Stacked, Mid
  <2>4. CASE undo' = undo /\ pc' = "unwind"
    BY <1>8, <2>4, SameSteps DEF MintSecret, Stacked, Mid
  <2> QED
    BY <1>8, <2>2, <2>3, <2>4 DEF MintSecret
<1>9. CASE Stage
  BY <1>9, SameSteps, NoSteps DEF Stage, Stacked, Mid, IsStep
<1>10. CASE MoveAside
  BY <1>10, SameSteps, NoSteps DEF MoveAside, Stacked, Mid, IsStep
<1>11. CASE Place
  <2>1. PICK h \in Harnesses : h = here
    BY <1>11 DEF Place, Typed, AtHarness, Mid
  <2>2. PICK f \in Files : f = seen
    BY DEF Typed
  <2>3. undo' = Append(undo, <<"plane", h, f>>) /\ pc' = "stale" /\ todo' = todo
    BY <1>11, <2>1, <2>2 DEF Place
  <2>4. /\ Len(undo) \in Nat /\ Len(undo) > 0 /\ Len(undo') = Len(undo) + 1 /\ undo' # <<>>
        /\ undo'[Len(undo) + 1] = <<"plane", h, f>>
        /\ IsStep(Len(undo), "secret")
    BY <1>11, <2>3, MoreSteps, StepForms DEF Typed, Stacked, Place, IsStep
  <2>5. \A i, kind : kind # "plane" => /\ IsStep(i, kind)' => IsStep(i, kind) /\ undo'[i] = undo[i]
                                       /\ IsStep(i, kind) => IsStep(i, kind)'
    BY <2>3, MoreSteps, StepForms DEF Typed
  <2>6. \A i : IsStep(i, "plane")' => \/ i = Len(undo) + 1
                                      \/ IsStep(i, "plane") /\ undo'[i] = undo[i]
    BY <2>3, MoreSteps, StepForms DEF Typed
  <2>7. \A i : IsStep(i, "plane") => undo[i][2] # h /\ undo[i][2] \notin todo
    BY <1>11, <2>1 DEF Stacked, IsStep, Place, Mid
  <2>8. h \notin todo
    BY <1>11, <2>1 DEF Typed, Place, AtHarness, Mid
  <2>9. \A i, kind : IsStep(i, kind) => i \in 1..Len(undo)
    BY DEF IsStep
  <2>10. \A i : IsStep(i, "plane")' => /\ i > 1 /\ IsStep(i - 1, "secret")'
                                       /\ undo'[i][2] \notin todo'
    BY <2>3, <2>4, <2>5, <2>6, <2>7, <2>8, <2>9 DEF Stacked
  <2>11. \A i, j : IsStep(i, "plane")' /\ IsStep(j, "plane")' /\ undo'[i][2] = undo'[j][2] => i = j
    BY <2>3, <2>4, <2>6, <2>7, <2>9 DEF Stacked
  <2> QED
    BY <2>3, <2>4, <2>5, <2>9, <2>10, <2>11 DEF Stacked, Mid
<1>12. CASE PlaceFails
  BY <1>12, SameSteps, NoSteps DEF PlaceFails, Stacked, Mid, IsStep
<1>13. CASE RevokeStale
  BY <1>13, SameSteps, NoSteps DEF RevokeStale, Leave, Stacked, Mid, IsStep
<1>14. CASE PlanesDone
  BY <1>14, SameSteps, NoSteps DEF PlanesDone, Stacked, Mid, IsStep
<1>15. CASE SkipKv
  BY <1>15, SameSteps, NoSteps DEF SkipKv, Over, Leave, Stacked, Mid, IsStep
<1>16. CASE ProbeKv
  BY <1>16, SameSteps, NoSteps DEF ProbeKv, Stacked, Mid, IsStep
<1>17. CASE WriteKv
  BY <1>17, SameSteps, NoSteps DEF WriteKv, Over, Leave, Stacked, Mid, IsStep
<1>18. CASE Refused
  BY <1>18, SameSteps, NoSteps DEF Refused, Stacked, Mid, IsStep
<1>19. CASE Unwind
  <2>1. undo' = SubSeq(undo, 1, Len(undo) - 1) /\ undo # <<>> /\ undo \in Seq(Steps)
    BY <1>19 DEF Typed, Unwind
  <2>2. pc' = "unwind" /\ todo' = todo
    BY <1>19 DEF Unwind
  <2>3. \A i, kind : /\ IsStep(i, kind)' => IsStep(i, kind) /\ undo'[i] = undo[i] /\ i < Len(undo)
                     /\ IsStep(i, kind) => IsStep(i, kind)' \/ i = Len(undo)
    BY <2>1, FewerSteps
  <2>4. \A i, kind : IsStep(i, kind) => i \in 1..Len(undo)
    BY DEF IsStep
  <2>5. Len(undo) \in Nat
    BY <2>1
  <2>6. \A i : IsStep(i, "plane")' => i > 1 /\ IsStep(i - 1, "secret")' /\ undo'[i][2] \notin todo'
    BY <2>2, <2>3, <2>4, <2>5 DEF Stacked
  <2>7. \A i : IsStep(i, "role")' => i = 1 \/ (i = 2 /\ IsStep(1, "policy")')
    BY <2>3, <2>4, <2>5 DEF Stacked
  <2> QED
    BY <2>2, <2>3, <2>4, <2>6, <2>7 DEF Stacked, Mid
<1>20. CASE UnwindFails
  <2>1. undo' = SubSeq(undo, 1, Len(undo) - 1) /\ undo # <<>> /\ undo \in Seq(Steps)
    BY <1>20 DEF Typed, UnwindFails
  <2>2. pc' = "unwind" /\ todo' = todo
    BY <1>20 DEF UnwindFails
  <2>3. \A i, kind : /\ IsStep(i, kind)' => IsStep(i, kind) /\ undo'[i] = undo[i] /\ i < Len(undo)
                     /\ IsStep(i, kind) => IsStep(i, kind)' \/ i = Len(undo)
    BY <2>1, FewerSteps
  <2>4. \A i, kind : IsStep(i, kind) => i \in 1..Len(undo)
    BY DEF IsStep
  <2>5. Len(undo) \in Nat
    BY <2>1
  <2>6. \A i : IsStep(i, "plane")' => i > 1 /\ IsStep(i - 1, "secret")' /\ undo'[i][2] \notin todo'
    BY <2>2, <2>3, <2>4, <2>5 DEF Stacked
  <2>7. \A i : IsStep(i, "role")' => i = 1 \/ (i = 2 /\ IsStep(1, "policy")')
    BY <2>3, <2>4, <2>5 DEF Stacked
  <2> QED
    BY <2>2, <2>3, <2>4, <2>6, <2>7 DEF Stacked, Mid
<1>21. CASE EndFailed
  BY <1>21, SameSteps, NoSteps DEF EndFailed, Over, Leave, Stacked, Mid, IsStep
<1>22. CASE Kill
  BY <1>22, SameSteps, NoSteps DEF Kill, Over, Leave, Stacked, Mid, IsStep
<1>23. CASE StoreTheirs
  BY <1>23, SameSteps, NoSteps DEF StoreTheirs, Stacked, Mid, IsStep
<1>24. ASSUME NEW h \in Harnesses, Loosen(h) PROVE Stacked'
  BY <1>24, SameSteps, NoSteps DEF Loosen, Stacked, Mid, IsStep
<1>25. CASE UNCHANGED vars
  BY <1>25, SameSteps, NoSteps DEF vars, Stacked, Mid, IsStep
<1> QED
  BY <1>1, <1>2, <1>3, <1>4, <1>5, <1>6, <1>7, <1>8, <1>9, <1>10, <1>11, <1>12, <1>13,
     <1>14, <1>15, <1>16, <1>17, <1>18, <1>19, <1>20, <1>21, <1>22, <1>23, <1>24, <1>25 DEF Next

\* A kind of step in the undo list, before and after.
LEMMA HasSame ==
    ASSUME undo' = undo
    PROVE  \A kind : Has(kind)' <=> Has(kind)
  BY SameSteps DEF Has

LEMMA HasMore ==
    ASSUME undo \in Seq(Steps), NEW step \in Steps, undo' = Append(undo, step)
    PROVE  \A kind : Has(kind)' <=> Has(kind) \/ step[1] = kind
<1>1. \A i, kind : IsStep(i, kind)' <=> IsStep(i, kind) \/ (i = Len(undo) + 1 /\ step[1] = kind)
  BY MoreSteps
<1>2. Len(undo') = Len(undo) + 1 /\ Len(undo) \in Nat
  BY Pushes
<1>3. \A i, kind : IsStep(i, kind) => i \in 1..Len(undo)
  BY DEF IsStep
<1> QED
  BY <1>1, <1>2, <1>3 DEF Has

\* The policy and the AppRole are undone once.
LEMMA HasFewer ==
    ASSUME Typed, Stacked, undo # <<>>, undo' = SubSeq(undo, 1, Len(undo) - 1)
    PROVE  /\ \A kind : Has(kind)' => Has(kind)
           /\ \A kind : Has(kind) => Has(kind)' \/ undo[Len(undo)][1] = kind
           /\ undo[Len(undo)][1] = "policy" => ~Has("policy")'
           /\ undo[Len(undo)][1] = "role" => ~Has("role")'
           /\ undo[Len(undo)] \in Steps /\ Has(undo[Len(undo)][1])
<1>1. undo \in Seq(Steps)
  BY DEF Typed
<1>2. /\ Len(undo) \in Nat /\ Len(undo) > 0 /\ Len(undo') = Len(undo) - 1
      /\ undo[Len(undo)] \in Steps /\ IsStep(Len(undo), undo[Len(undo)][1])
      /\ \A i, kind : IsStep(i, kind)' => /\ IsStep(i, kind) /\ undo'[i] = undo[i]
                                          /\ i < Len(undo) /\ i \in 1..Len(undo)
      /\ \A i, kind : IsStep(i, kind) => IsStep(i, kind)' \/ i = Len(undo)
  BY <1>1, FewerSteps
<1>3. \A i, kind : /\ IsStep(i, kind) => i \in 1..Len(undo) /\ undo[i][1] = kind
                   /\ IsStep(i, kind)' => i \in 1..Len(undo')
  BY DEF IsStep
<1>4. \A kind : Has(kind)' => Has(kind)
  BY <1>2, <1>3 DEF Has
<1>5. \A kind : Has(kind) => Has(kind)' \/ undo[Len(undo)][1] = kind
  BY <1>2, <1>3 DEF Has
<1>6. undo[Len(undo)][1] = "policy" => ~Has("policy")'
  BY <1>2, <1>3 DEF Has, Stacked
<1>7. undo[Len(undo)][1] = "role" => ~Has("role")'
  <2> SUFFICES ASSUME undo[Len(undo)][1] = "role", NEW i, IsStep(i, "role")' PROVE FALSE
    BY DEF Has
  <2>1. IsStep(Len(undo), "role") /\ IsStep(i, "role") /\ i < Len(undo) /\ i \in 1..Len(undo)
    BY <1>2
  <2>2. i = 1 \/ (i = 2 /\ IsStep(1, "policy"))
    BY <2>1 DEF Stacked
  <2>3. PICK n \in Nat : n = Len(undo)
    BY <1>2
  <2>5. n = 1 \/ (n = 2 /\ IsStep(1, "policy"))
    BY <1>3, <2>1, <2>3 DEF Stacked
  <2>4. i = 1 /\ IsStep(1, "policy")
    BY <2>1, <2>2, <2>3, <2>5
  <2> QED
    BY <2>1, <2>4, <1>3
<1>8. Has(undo[Len(undo)][1])
  BY <1>2, <1>3 DEF Has
<1> QED
  BY <1>2, <1>4, <1>5, <1>6, <1>7, <1>8

\* The policy.
LEMMA NextPolicyBack ==
    ASSUME Typed, Stacked, PolicyBack, [Next]_vars
    PROVE  PolicyBack'
<1> USE DEF NoPlane, vault, work, history, Fail
<1>1. CASE Begin
  BY <1>1, HasSame DEF Begin, PolicyBack, Open, Snapshot, Has, IsStep
<1>2. CASE ProbePolicy
  BY <1>2, HasSame DEF ProbePolicy, PolicyBack, Open, Sees
<1>3. CASE WritePolicy
  <2>1. CASE undo' = Append(undo, <<"policy">>)
    <3>1. ~Has("policy")
      BY <1>3 DEF Stacked, Has, WritePolicy, IsStep
    <3> QED
      BY <1>3, <2>1, <3>1, HasMore, StepForms DEF WritePolicy, PolicyBack, Open, Typed
  <2>2. CASE undo' = undo
    BY <1>3, <2>2, HasSame DEF WritePolicy, PolicyBack, Open, Typed
  <2> QED
    BY <1>3, <2>1, <2>2 DEF WritePolicy
<1>4. CASE ProbeRole
  BY <1>4, HasSame DEF ProbeRole, PolicyBack, Open, Sees
<1>5. CASE WriteRole
  <2>1. CASE undo' = Append(undo, <<"role">>)
    BY <1>5, <2>1, HasMore, StepForms DEF WriteRole, PolicyBack, Open, Typed
  <2>2. CASE undo' = undo
    BY <1>5, <2>2, HasSame DEF WriteRole, PolicyBack, Open
  <2> QED
    BY <1>5, <2>1, <2>2 DEF WriteRole
<1>6. CASE ReadRoleId
  BY <1>6, HasSame DEF ReadRoleId, PolicyBack, Open
<1>7. ASSUME NEW h \in Harnesses, ReadPlane(h) PROVE PolicyBack'
  BY <1>7, HasSame DEF ReadPlane, PolicyBack, Open
<1>8. CASE MintSecret
  <2>1. issued' \in Nat
    BY <1>8 DEF MintSecret, Typed
  <2>2. CASE undo' = Append(undo, <<"secret", issued'>>)
    <3> PICK n \in Nat : n = issued'
      BY <2>1
    <3> QED
      BY <1>8, <2>2, HasMore, StepForms DEF MintSecret, PolicyBack, Open, Typed
  <2>3. CASE undo' = undo
    BY <1>8, <2>3, HasSame DEF MintSecret, PolicyBack, Open
  <2> QED
    BY <1>8, <2>2, <2>3 DEF MintSecret
<1>9. CASE Stage
  BY <1>9, HasSame DEF Stage, PolicyBack, Open
<1>10. CASE MoveAside
  BY <1>10, HasSame DEF MoveAside, PolicyBack, Open
<1>11. CASE Place
  <2>1. PICK h \in Harnesses : h = here
    BY <1>11 DEF Place, Typed, AtHarness, Mid
  <2>2. PICK f \in Files : f = seen
    BY DEF Typed
  <2>3. undo' = Append(undo, <<"plane", h, f>>)
    BY <1>11, <2>1, <2>2 DEF Place
  <2> QED
    BY <1>11, <2>3, HasMore, StepForms DEF Place, PolicyBack, Open, Typed
<1>12. CASE PlaceFails
  BY <1>12, HasSame DEF PlaceFails, PolicyBack, Open
<1>13. CASE RevokeStale
  BY <1>13, HasSame DEF RevokeStale, Leave, PolicyBack, Open
<1>14. CASE PlanesDone
  BY <1>14, HasSame DEF PlanesDone, PolicyBack, Open
<1>15. CASE SkipKv
  BY <1>15, HasSame DEF SkipKv, Over, Leave, PolicyBack, Open
<1>16. CASE ProbeKv
  BY <1>16, HasSame DEF ProbeKv, PolicyBack, Open
<1>17. CASE WriteKv
  BY <1>17, HasSame DEF WriteKv, Over, Leave, PolicyBack, Open
<1>18. CASE Refused
  BY <1>18, HasSame DEF Refused, PolicyBack, Open
<1>19. CASE Unwind
  <2>1. undo' = SubSeq(undo, 1, Len(undo) - 1) /\ undo # <<>> /\ Undone(undo[Len(undo)])
    BY <1>19 DEF Unwind
  <2>2. undo[Len(undo)] \in Steps
    BY <2>1, HasFewer
  <2> QED
    BY <1>19, <2>1, <2>2, HasFewer, Undoing DEF Unwind, PolicyBack, Open
<1>20. CASE UnwindFails
  BY <1>20 DEF UnwindFails, Open, PolicyBack
<1>21. CASE EndFailed
  BY <1>21, HasSame DEF EndFailed, Over, Leave, PolicyBack, Open
<1>22. CASE Kill
  BY <1>22, HasSame DEF Kill, Over, Leave, PolicyBack, Open
<1>23. CASE StoreTheirs
  BY <1>23, HasSame DEF StoreTheirs, PolicyBack, Open
<1>24. ASSUME NEW h \in Harnesses, Loosen(h) PROVE PolicyBack'
  BY <1>24, HasSame DEF Loosen, PolicyBack, Open
<1>25. CASE UNCHANGED vars
  BY <1>25, HasSame DEF vars, PolicyBack, Open
<1> QED
  BY <1>1, <1>2, <1>3, <1>4, <1>5, <1>6, <1>7, <1>8, <1>9, <1>10, <1>11, <1>12, <1>13,
     <1>14, <1>15, <1>16, <1>17, <1>18, <1>19, <1>20, <1>21, <1>22, <1>23, <1>24, <1>25 DEF Next
\* The AppRole.
LEMMA NextRoleBack ==
    ASSUME Typed, Stacked, RoleBack, [Next]_vars
    PROVE  RoleBack'
<1> USE DEF NoPlane, vault, work, history, Fail
<1>1. CASE Begin
  BY <1>1, HasSame DEF Begin, RoleBack, Open, Snapshot, Has, IsStep
<1>2. CASE ProbePolicy
  BY <1>2, HasSame DEF ProbePolicy, RoleBack, Open, Sees
<1>3. CASE WritePolicy
  <2>1. CASE undo' = Append(undo, <<"policy">>)
    BY <1>3, <2>1, HasMore, StepForms DEF WritePolicy, RoleBack, Open, Typed
  <2>2. CASE undo' = undo
    BY <1>3, <2>2, HasSame DEF WritePolicy, RoleBack, Open, Typed
  <2> QED
    BY <1>3, <2>1, <2>2 DEF WritePolicy
<1>4. CASE ProbeRole
  BY <1>4, HasSame DEF ProbeRole, RoleBack, Open, Sees
<1>5. CASE WriteRole
  <2>1. ~Has("role")
    BY <1>5 DEF Stacked, Has, WriteRole, IsStep
  <2>2. CASE undo' = Append(undo, <<"role">>)
    BY <1>5, <2>1, <2>2, HasMore, StepForms DEF WriteRole, RoleBack, Open, Typed
  <2>3. CASE undo' = undo
    BY <1>5, <2>1, <2>3, HasSame DEF WriteRole, RoleBack, Open, Typed
  <2> QED
    BY <1>5, <2>2, <2>3 DEF WriteRole
<1>6. CASE ReadRoleId
  BY <1>6, HasSame DEF ReadRoleId, RoleBack, Open
<1>7. ASSUME NEW h \in Harnesses, ReadPlane(h) PROVE RoleBack'
  BY <1>7, HasSame DEF ReadPlane, RoleBack, Open
<1>8. CASE MintSecret
  <2>1. issued' \in Nat
    BY <1>8 DEF MintSecret, Typed
  <2>2. CASE undo' = Append(undo, <<"secret", issued'>>)
    <3> PICK n \in Nat : n = issued'
      BY <2>1
    <3> QED
      BY <1>8, <2>2, HasMore, StepForms DEF MintSecret, RoleBack, Open, Typed
  <2>3. CASE undo' = undo
    BY <1>8, <2>3, HasSame DEF MintSecret, RoleBack, Open
  <2> QED
    BY <1>8, <2>2, <2>3 DEF MintSecret
<1>9. CASE Stage
  BY <1>9, HasSame DEF Stage, RoleBack, Open
<1>10. CASE MoveAside
  BY <1>10, HasSame DEF MoveAside, RoleBack, Open
<1>11. CASE Place
  <2>1. PICK h \in Harnesses : h = here
    BY <1>11 DEF Place, Typed, AtHarness, Mid
  <2>2. PICK f \in Files : f = seen
    BY DEF Typed
  <2>3. undo' = Append(undo, <<"plane", h, f>>)
    BY <1>11, <2>1, <2>2 DEF Place
  <2> QED
    BY <1>11, <2>3, HasMore, StepForms DEF Place, RoleBack, Open, Typed
<1>12. CASE PlaceFails
  BY <1>12, HasSame DEF PlaceFails, RoleBack, Open
<1>13. CASE RevokeStale
  BY <1>13, HasSame DEF RevokeStale, Leave, RoleBack, Open
<1>14. CASE PlanesDone
  BY <1>14, HasSame DEF PlanesDone, RoleBack, Open
<1>15. CASE SkipKv
  BY <1>15, HasSame DEF SkipKv, Over, Leave, RoleBack, Open
<1>16. CASE ProbeKv
  BY <1>16, HasSame DEF ProbeKv, RoleBack, Open
<1>17. CASE WriteKv
  BY <1>17, HasSame DEF WriteKv, Over, Leave, RoleBack, Open
<1>18. CASE Refused
  BY <1>18, HasSame DEF Refused, RoleBack, Open
<1>19. CASE Unwind
  <2>1. undo' = SubSeq(undo, 1, Len(undo) - 1) /\ undo # <<>> /\ Undone(undo[Len(undo)])
    BY <1>19 DEF Unwind
  <2>2. undo[Len(undo)] \in Steps
    BY <2>1, HasFewer
  <2> QED
    BY <1>19, <2>1, <2>2, HasFewer, Undoing DEF Unwind, RoleBack, Open
<1>20. CASE UnwindFails
  BY <1>20 DEF UnwindFails, Open, RoleBack
<1>21. CASE EndFailed
  BY <1>21, HasSame DEF EndFailed, Over, Leave, RoleBack, Open
<1>22. CASE Kill
  BY <1>22, HasSame DEF Kill, Over, Leave, RoleBack, Open
<1>23. CASE StoreTheirs
  BY <1>23, HasSame DEF StoreTheirs, RoleBack, Open
<1>24. ASSUME NEW h \in Harnesses, Loosen(h) PROVE RoleBack'
  BY <1>24, HasSame DEF Loosen, RoleBack, Open
<1>25. CASE UNCHANGED vars
  BY <1>25, HasSame DEF vars, RoleBack, Open
<1> QED
  BY <1>1, <1>2, <1>3, <1>4, <1>5, <1>6, <1>7, <1>8, <1>9, <1>10, <1>11, <1>12, <1>13,
     <1>14, <1>15, <1>16, <1>17, <1>18, <1>19, <1>20, <1>21, <1>22, <1>23, <1>24, <1>25 DEF Next
\* The plane files.
LEMMA NextPlanesBack ==
    ASSUME Typed, Stacked, PlanesBack, [Next]_vars
    PROVE  PlanesBack'
<1> USE DEF NoPlane, vault, work, history, Fail
<1>1. CASE Begin
  BY <1>1, NoSteps DEF Begin, PlanesBack, Snapshot, AtHarness, Mid
<1>2. CASE ProbePolicy
  BY <1>2, SameSteps DEF ProbePolicy, PlanesBack, AtHarness, Mid
<1>3. CASE WritePolicy
  <2>1. CASE undo' = Append(undo, <<"policy">>)
    <3>1. /\ \A i, kind : IsStep(i, kind) => /\ IsStep(i, kind)' /\ undo'[i] = undo[i]
                                             /\ i \in 1..Len(undo')
          /\ \A i : IsStep(i, "plane")' => IsStep(i, "plane") /\ i \in 1..Len(undo)
      BY <2>1, MoreSteps, StepForms DEF Typed, IsStep
    <3> QED
      BY <1>3, <3>1 DEF WritePolicy, PlanesBack, AtHarness, Mid
  <2>2. CASE undo' = undo
    BY <1>3, <2>2, SameSteps DEF WritePolicy, PlanesBack, AtHarness, Mid
  <2> QED
    BY <1>3, <2>1, <2>2 DEF WritePolicy
<1>4. CASE ProbeRole
  BY <1>4, SameSteps DEF ProbeRole, PlanesBack, AtHarness, Mid
<1>5. CASE WriteRole
  <2>1. CASE undo' = Append(undo, <<"role">>)
    <3>1. /\ \A i, kind : IsStep(i, kind) => /\ IsStep(i, kind)' /\ undo'[i] = undo[i]
                                             /\ i \in 1..Len(undo')
          /\ \A i : IsStep(i, "plane")' => IsStep(i, "plane") /\ i \in 1..Len(undo)
      BY <2>1, MoreSteps, StepForms DEF Typed, IsStep
    <3> QED
      BY <1>5, <3>1 DEF WriteRole, PlanesBack, AtHarness, Mid
  <2>2. CASE undo' = undo
    BY <1>5, <2>2, SameSteps DEF WriteRole, PlanesBack, AtHarness, Mid
  <2> QED
    BY <1>5, <2>1, <2>2 DEF WriteRole
<1>6. CASE ReadRoleId
  BY <1>6, SameSteps DEF ReadRoleId, PlanesBack, AtHarness, Mid
<1>7. ASSUME NEW h \in Harnesses, ReadPlane(h) PROVE PlanesBack'
  <2> PICK g \in Harnesses : g = h /\ plane[g] = plane[h]
    BY <1>7
  <2>1. CASE pc' = "mint" /\ here' = g /\ seen' = plane[g]
    <3>1. pc # "idle" /\ ~torn => plane[g] = before.plane[g]
      BY <1>7 DEF ReadPlane, PlanesBack, Stacked, IsStep
    <3> QED
      BY <1>7, <2>1, <3>1, SameSteps DEF ReadPlane, PlanesBack, AtHarness, Mid
  <2>2. CASE UNCHANGED <<pc, here, seen>> \/ pc' = "unwind"
    BY <1>7, <2>2, SameSteps DEF ReadPlane, PlanesBack, AtHarness, Mid
  <2> QED
    BY <1>7, <2>1, <2>2 DEF ReadPlane
<1>8. CASE MintSecret
  <2>0. issued' \in Nat
    BY <1>8 DEF MintSecret, Typed
  <2> PICK n \in Nat : n = issued'
    BY <2>0
  <2>1. CASE undo' = Append(undo, <<"secret", n>>)
    <3>1. /\ \A i, kind : IsStep(i, kind) => /\ IsStep(i, kind)' /\ undo'[i] = undo[i]
                                             /\ i \in 1..Len(undo')
          /\ \A i : IsStep(i, "plane")' => IsStep(i, "plane") /\ i \in 1..Len(undo)
      BY <2>1, MoreSteps, StepForms DEF Typed, IsStep
    <3> QED
      BY <1>8, <3>1 DEF MintSecret, PlanesBack, AtHarness, Mid
  <2>2. CASE undo' = undo
    BY <1>8, <2>2, SameSteps DEF MintSecret, PlanesBack, AtHarness, Mid
  <2> QED
    BY <1>8, <2>1, <2>2 DEF MintSecret
<1>9. CASE Stage
  BY <1>9, SameSteps DEF Stage, PlanesBack, AtHarness, Mid
<1>10. CASE MoveAside
  <2>1. here \in Harnesses
    BY <1>10 DEF MoveAside, Typed, AtHarness, Mid
  <2>2. \A h \in Harnesses : h # here \/ pc' = "unwind" => plane'[h] = plane[h]
    BY <1>10, <2>1 DEF MoveAside, Typed
  <2> QED
    BY <1>10, <2>1, <2>2, SameSteps DEF MoveAside, PlanesBack, AtHarness, Mid
<1>11. CASE Place
  <2>1. PICK h \in Harnesses : h = here
    BY <1>11 DEF Place, Typed, AtHarness, Mid
  <2>2. PICK f \in Files : f = seen
    BY DEF Typed
  <2>3. undo' = Append(undo, <<"plane", h, f>>) /\ \A g \in Harnesses : g # h => plane'[g] = plane[g]
    BY <1>11, <2>1, <2>2 DEF Place, Typed
  <2>4. /\ \A i, kind : IsStep(i, kind) => IsStep(i, kind)' /\ undo'[i] = undo[i] /\ i \in 1..Len(undo')
        /\ \A i : IsStep(i, "plane")' => \/ IsStep(i, "plane") /\ i \in 1..Len(undo)
                                         \/ undo'[i] = <<"plane", h, f>>
        /\ \A i : i = Len(undo) + 1 => IsStep(i, "plane")' /\ undo'[i] = <<"plane", h, f>> /\ i \in 1..Len(undo')
    BY <2>3, MoreSteps, StepForms DEF Typed, IsStep
  <2>5. pc # "idle" /\ ~torn => f = before.plane[h]
    BY <1>11, <2>1, <2>2 DEF Place, PlanesBack, AtHarness, Mid
  <2>6. pc' # "idle" /\ ~torn' => pc # "idle" /\ ~torn /\ before' = before /\ here' = here /\ seen' = seen /\ pc' = "stale"
    BY <1>11 DEF Place
  <2>7. pc' # "idle" /\ ~torn' => \A i \in 1..Len(undo') : IsStep(i, "plane")' => undo'[i][3] = before'.plane[undo'[i][2]]
    BY <2>4, <2>5, <2>6 DEF PlanesBack
  <2>8. \E i \in 1..Len(undo') : IsStep(i, "plane")' /\ undo'[i][2] = h
    <3> PICK i : i = Len(undo) + 1
      OBVIOUS
    <3> QED
      BY <2>4
  <2>9. ASSUME pc' # "idle", ~torn', NEW g \in Harnesses
        PROVE (\E i \in 1..Len(undo') : IsStep(i, "plane")' /\ undo'[i][2] = g) \/ plane'[g] = before'.plane[g]
    <3>1. CASE g = h
      BY <3>1, <2>8
    <3>2. CASE g # h /\ \E i \in 1..Len(undo) : IsStep(i, "plane") /\ undo[i][2] = g
      BY <3>2, <2>4
    <3>3. CASE g # h /\ plane[g] = before.plane[g]
      BY <3>3, <2>3, <2>6, <2>9
    <3> QED
      BY <2>1, <2>6, <2>9, <3>1, <3>2, <3>3 DEF PlanesBack
  <2> QED
    BY <1>11, <2>1, <2>2, <2>5, <2>6, <2>7, <2>9 DEF PlanesBack
<1>12. CASE PlaceFails
  BY <1>12 DEF PlaceFails, PlanesBack
<1>13. CASE RevokeStale
  BY <1>13, SameSteps DEF RevokeStale, Leave, PlanesBack, AtHarness, Mid
<1>14. CASE PlanesDone
  BY <1>14, SameSteps DEF PlanesDone, PlanesBack, AtHarness, Mid
<1>15. CASE SkipKv
  BY <1>15, SameSteps DEF SkipKv, Over, Leave, PlanesBack
<1>16. CASE ProbeKv
  BY <1>16, SameSteps DEF ProbeKv, PlanesBack, AtHarness, Mid
<1>17. CASE WriteKv
  BY <1>17, SameSteps DEF WriteKv, Over, PlanesBack, AtHarness, Mid
<1>18. CASE Refused
  BY <1>18, SameSteps DEF Refused, PlanesBack, AtHarness, Mid
<1>19. CASE Unwind
  <2>1. undo' = SubSeq(undo, 1, Len(undo) - 1) /\ undo # <<>> /\ Undone(undo[Len(undo)])
        /\ undo \in Seq(Steps) /\ plane \in [Harnesses -> Files]
    BY <1>19 DEF Unwind, Typed
  <2> PICK last \in Steps : last = undo[Len(undo)]
    BY <2>1, FewerSteps
  <2>2. /\ \A i, kind : IsStep(i, kind)' => IsStep(i, kind) /\ undo'[i] = undo[i] /\ i \in 1..Len(undo)
        /\ \A i, kind : IsStep(i, kind) => /\ i \in 1..Len(undo)
                                           /\ (IsStep(i, kind)' /\ i \in 1..Len(undo')) \/ undo[i] = last
        /\ IsStep(Len(undo), last[1]) /\ Len(undo) \in 1..Len(undo)
    BY <2>1, FewerSteps DEF IsStep
  <2>3. \/ last[1] = "plane" /\ last[2] \in Harnesses /\ plane' = [plane EXCEPT ![last[2]] = last[3]]
        \/ last[1] # "plane" /\ plane' = plane
    BY <2>1, Undoing, Kinds
  <2>4. pc' # "idle" /\ ~torn' => pc # "idle" /\ ~torn /\ before' = before /\ pc' = "unwind" /\ pc = "unwind"
    BY <1>19 DEF Unwind
  <2>5. ASSUME pc' # "idle", ~torn', NEW h \in Harnesses
        PROVE (\E i \in 1..Len(undo') : IsStep(i, "plane")' /\ undo'[i][2] = h) \/ plane'[h] = before'.plane[h]
    <3>1. CASE last[1] = "plane" /\ last[2] = h
      <4>1. plane'[h] = last[3]
        BY <2>1, <2>3, <3>1
      <4>2. last[3] = before.plane[h]
        BY <2>2, <2>4, <2>5, <3>1 DEF PlanesBack
      <4> QED
        BY <4>1, <4>2, <2>4, <2>5
    <3>2. CASE last[1] # "plane" \/ last[2] # h
      <4>1. plane'[h] = plane[h]
        BY <2>1, <2>3, <3>2
      <4>2. CASE plane[h] = before.plane[h]
        BY <4>1, <4>2, <2>4, <2>5
      <4>3. ASSUME NEW i \in 1..Len(undo), IsStep(i, "plane") /\ undo[i][2] = h
            PROVE IsStep(i, "plane")' /\ undo'[i][2] = h /\ i \in 1..Len(undo')
        BY <4>3, <2>2, <3>2 DEF IsStep
      <4> QED
        BY <2>4, <2>5, <4>2, <4>3 DEF PlanesBack
    <3> QED
      BY <3>1, <3>2
  <2>6. pc' # "idle" /\ ~torn' => \A i \in 1..Len(undo') : IsStep(i, "plane")' => undo'[i][3] = before'.plane[undo'[i][2]]
    BY <2>2, <2>4 DEF PlanesBack
  <2> QED
    BY <2>4, <2>5, <2>6 DEF PlanesBack, AtHarness, Mid
<1>20. CASE UnwindFails
  <2>1. undo' = SubSeq(undo, 1, Len(undo) - 1) /\ undo # <<>> /\ undo \in Seq(Steps)
        /\ pc' = pc /\ pc = "unwind" /\ before' = before
    BY <1>20 DEF UnwindFails, Typed
  <2>2. /\ \A i, kind : IsStep(i, kind)' => IsStep(i, kind) /\ undo'[i] = undo[i] /\ i \in 1..Len(undo)
        /\ \A i, kind : IsStep(i, kind) => (IsStep(i, kind)' /\ i \in 1..Len(undo')) \/ i = Len(undo)
        /\ undo[Len(undo)] \in Steps
    BY <2>1, FewerSteps DEF IsStep
  <2>3. ~torn' => ~torn /\ plane' = plane /\ ~IsStep(Len(undo), "plane")
    BY <1>20, <2>2, Undoing DEF UnwindFails, IsStep
  <2> QED
    BY <2>1, <2>2, <2>3 DEF PlanesBack, AtHarness, Mid
<1>21. CASE EndFailed
  BY <1>21, SameSteps DEF EndFailed, Over, Leave, PlanesBack
<1>22. CASE Kill
  BY <1>22, SameSteps DEF Kill, Over, Leave, PlanesBack
<1>23. CASE StoreTheirs
  BY <1>23, SameSteps DEF StoreTheirs, PlanesBack, AtHarness, Mid
<1>24. ASSUME NEW h \in Harnesses, Loosen(h) PROVE PlanesBack'
  BY <1>24 DEF Loosen, PlanesBack
<1>25. CASE UNCHANGED vars
  BY <1>25, SameSteps DEF vars, PlanesBack, AtHarness, Mid
<1> QED
  BY <1>1, <1>2, <1>3, <1>4, <1>5, <1>6, <1>7, <1>8, <1>9, <1>10, <1>11, <1>12, <1>13,
     <1>14, <1>15, <1>16, <1>17, <1>18, <1>19, <1>20, <1>21, <1>22, <1>23, <1>24, <1>25 DEF Next

-----------------------------------------------------------------------------
(* Runs that failed. *)

\* What a run that failed and unwound has left.
LEMMA NextUnwoundClean ==
    ASSUME Typed, PolicyBack, RoleBack, PlanesBack, UnwoundClean, [Next]_vars
    PROVE  UnwoundClean'
<1> USE DEF vault, work, history, Fail
<1>1. CASE Begin
  BY <1>1 DEF Begin, UnwoundClean
<1>2. CASE ProbePolicy
  BY <1>2 DEF ProbePolicy, UnwoundClean
<1>3. CASE WritePolicy
  BY <1>3 DEF WritePolicy, UnwoundClean
<1>4. CASE ProbeRole
  BY <1>4 DEF ProbeRole, UnwoundClean
<1>5. CASE WriteRole
  BY <1>5 DEF WriteRole, UnwoundClean
<1>6. CASE ReadRoleId
  BY <1>6 DEF ReadRoleId, UnwoundClean
<1>7. ASSUME NEW h \in Harnesses, ReadPlane(h) PROVE UnwoundClean'
  BY <1>7 DEF ReadPlane, UnwoundClean
<1>8. CASE MintSecret
  BY <1>8 DEF MintSecret, UnwoundClean
<1>9. CASE Stage
  BY <1>9 DEF Stage, UnwoundClean
<1>10. CASE MoveAside
  BY <1>10 DEF MoveAside, UnwoundClean
<1>11. CASE Place
  BY <1>11 DEF Place, UnwoundClean
<1>12. CASE PlaceFails
  BY <1>12 DEF PlaceFails, UnwoundClean
<1>13. CASE RevokeStale
  BY <1>13 DEF RevokeStale, UnwoundClean
<1>14. CASE PlanesDone
  BY <1>14 DEF PlanesDone, UnwoundClean
<1>15. CASE SkipKv
  BY <1>15 DEF SkipKv, Over, UnwoundClean
<1>16. CASE ProbeKv
  BY <1>16 DEF ProbeKv, UnwoundClean
<1>17. CASE WriteKv
  BY <1>17 DEF WriteKv, Over, UnwoundClean
<1>18. CASE Refused
  BY <1>18 DEF Refused, UnwoundClean
<1>19. CASE Unwind
  BY <1>19 DEF Unwind, UnwoundClean
<1>20. CASE UnwindFails
  BY <1>20 DEF UnwindFails, UnwoundClean
<1>21. CASE EndFailed
  <2>1. pc # "idle" /\ undo = <<>> /\ pc = "unwind"
    BY <1>21 DEF EndFailed
  <2>2. \A i : i \notin 1..Len(undo)
    BY <2>1
  <2>3. ~left /\ ~torn => /\ "policy" \in blind \/ (policy = "none" <=> before.policy = "none")
                          /\ "role" \in blind \/ role = before.role
                          /\ \A h \in Harnesses : plane[h] = before.plane[h]
    BY <2>1, <2>2 DEF PolicyBack, RoleBack, PlanesBack, Open, Has
  <2> QED
    BY <1>21, <2>3 DEF EndFailed, Over, UnwoundClean
<1>22. CASE Kill
  BY <1>22 DEF Kill, Over, UnwoundClean
<1>23. CASE StoreTheirs
  BY <1>23 DEF StoreTheirs, UnwoundClean
<1>24. ASSUME NEW h \in Harnesses, Loosen(h) PROVE UnwoundClean'
  <2>1. \A g \in Harnesses : plane'[g].role = plane[g].role /\ plane'[g].sid = plane[g].sid
    BY <1>24 DEF Loosen, Typed, Files
  <2> QED
    BY <1>24, <2>1 DEF Loosen, UnwoundClean
<1>25. CASE UNCHANGED vars
  BY <1>25 DEF vars, UnwoundClean
<1> QED
  BY <1>1, <1>2, <1>3, <1>4, <1>5, <1>6, <1>7, <1>8, <1>9, <1>10, <1>11, <1>12, <1>13,
     <1>14, <1>15, <1>16, <1>17, <1>18, <1>19, <1>20, <1>21, <1>22, <1>23, <1>24, <1>25 DEF Next
LEMMA InitTyped == Init => Typed
<1> SUFFICES ASSUME Init PROVE Typed
  OBVIOUS
<1>1. IsFiniteSet(Harnesses)
  BY OnboardingAssumption
<1>2. PICK given \in SUBSET Harnesses : \E right \in BOOLEAN : \E number \in [given -> 1..Cardinality(given)] :
        /\ plane = [h \in Harnesses |->
                      IF h \in given THEN [role |-> 1, sid |-> number[h], right |-> right]
                      ELSE NoPlane]
        /\ issued = Cardinality(given)
        /\ live = IF role = 0 THEN {} ELSE 1..Cardinality(given)
  BY DEF Init
<1>3. Cardinality(given) \in Nat
  BY <1>1, FS_Subset, FS_CardinalityType
<1>4. issued \in Nat /\ live \subseteq 1..issued /\ plane \in [Harnesses -> Files]
  BY <1>2, <1>3 DEF Files, NoPlane
<1> QED
  BY <1>4 DEF Init, Typed, Places, AtHarness, Mid, Files, NoPlane

LEMMA InitRest == Init => Stacked /\ PolicyBack /\ RoleBack /\ PlanesBack /\ UnwoundClean
  BY DEF Init, Stacked, PolicyBack, RoleBack, PlanesBack, UnwoundClean, Open, Mid

(* A run that failed, and reported no undo that failed, has taken back what *)
(* it knew to be new and left alone what was there (_unwind).               *)
THEOREM FailedRunsLeaveNoTrace == Spec => []UnwoundClean
<1> DEFINE Inv == /\ Typed /\ Stacked /\ PolicyBack /\ RoleBack /\ PlanesBack
                  /\ UnwoundClean
<1>1. Init => Inv
  BY InitTyped, InitRest
<1>2. Inv /\ [Next]_vars => Inv'
  BY NextTyped, NextStacked, NextPolicyBack, NextRoleBack, NextPlanesBack, NextUnwoundClean
<1>3. Inv => UnwoundClean
  OBVIOUS
<1> QED
  BY <1>1, <1>2, <1>3, PTL DEF Spec


-----------------------------------------------------------------------------
(* The SecretIDs. *)

\* Each SecretID of the run and the file that names it.
LEMMA NextPaired ==
    ASSUME Typed, Stacked, Paired, [Next]_vars
    PROVE  Paired'
<1> USE DEF NoPlane, vault, work, history, Fail
<1>1. CASE Begin
  BY <1>1, NoSteps DEF Begin, Paired
<1>2. CASE ProbePolicy
  BY <1>2, SameSteps DEF ProbePolicy, Paired, Mid
<1>3. CASE WritePolicy
  <2>1. CASE undo' = Append(undo, <<"policy">>)
    <3>1. /\ \A i, kind : IsStep(i, kind) => /\ IsStep(i, kind)' /\ undo'[i] = undo[i]
                                             /\ i \in 1..Len(undo) /\ i < Len(undo')
          /\ \A i : IsStep(i, "plane")' => IsStep(i, "plane")
          /\ \A i : IsStep(i, "secret")' => IsStep(i, "secret")
          /\ Len(undo) \in Nat /\ Len(undo') = Len(undo) + 1
      BY <2>1, MoreSteps, StepForms DEF Typed
    <3>2. \A i : IsStep(i, "plane") => IsStep(i - 1, "secret") /\ undo'[i - 1] = undo[i - 1]
      BY <3>1 DEF Stacked
    <3> QED
      BY <1>3, <3>1, <3>2 DEF WritePolicy, Paired
  <2>2. CASE undo' = undo
    BY <1>3, <2>2, SameSteps DEF WritePolicy, Paired
  <2> QED
    BY <1>3, <2>1, <2>2 DEF WritePolicy
<1>4. CASE ProbeRole
  BY <1>4, SameSteps DEF ProbeRole, Paired, Mid
<1>5. CASE WriteRole
  <2>1. CASE undo' = Append(undo, <<"role">>)
    <3>1. /\ \A i, kind : IsStep(i, kind) => /\ IsStep(i, kind)' /\ undo'[i] = undo[i]
                                             /\ i \in 1..Len(undo) /\ i < Len(undo')
          /\ \A i : IsStep(i, "plane")' => IsStep(i, "plane")
          /\ \A i : IsStep(i, "secret")' => IsStep(i, "secret")
          /\ Len(undo) \in Nat /\ Len(undo') = Len(undo) + 1
      BY <2>1, MoreSteps, StepForms DEF Typed
    <3>2. \A i : IsStep(i, "plane") => IsStep(i - 1, "secret") /\ undo'[i - 1] = undo[i - 1]
      BY <3>1 DEF Stacked
    <3> QED
      BY <1>5, <3>1, <3>2 DEF WriteRole, Paired
  <2>2. CASE undo' = undo
    BY <1>5, <2>2, SameSteps DEF WriteRole, Paired
  <2> QED
    BY <1>5, <2>1, <2>2 DEF WriteRole
<1>6. CASE ReadRoleId
  BY <1>6, SameSteps DEF ReadRoleId, Paired, Mid
<1>7. ASSUME NEW h \in Harnesses, ReadPlane(h) PROVE Paired'
  BY <1>7, SameSteps DEF ReadPlane, Paired, Mid
<1>8. CASE MintSecret
  <2>0. issued' \in Nat
    BY <1>8 DEF MintSecret, Typed
  <2> PICK n \in Nat : n = issued'
    BY <2>0
  <2>1. CASE undo' = Append(undo, <<"secret", n>>)
    <3>1. /\ \A i, kind : IsStep(i, kind) => /\ IsStep(i, kind)' /\ undo'[i] = undo[i]
                                             /\ i \in 1..Len(undo) /\ i < Len(undo')
          /\ \A i : IsStep(i, "plane")' => IsStep(i, "plane") /\ i \in 1..Len(undo) /\ undo'[i] = undo[i]
          /\ \A i : IsStep(i, "secret")' => IsStep(i, "secret") \/ i = Len(undo')
          /\ Len(undo) \in Nat /\ Len(undo') = Len(undo) + 1
      BY <2>1, MoreSteps, StepForms DEF Typed, IsStep
    <3>2. \A i : IsStep(i, "plane") => IsStep(i - 1, "secret") /\ undo'[i - 1] = undo[i - 1]
      BY <3>1 DEF Stacked
    <3> QED
      BY <1>8, <3>1, <3>2 DEF MintSecret, Paired
  <2>2. CASE undo' = undo
    BY <1>8, <2>2, SameSteps DEF MintSecret, Paired
  <2> QED
    BY <1>8, <2>1, <2>2 DEF MintSecret
<1>9. CASE Stage
  BY <1>9, SameSteps DEF Stage, Paired, Mid
<1>10. CASE MoveAside
  <2>1. here \in Harnesses
    BY <1>10 DEF MoveAside, Typed, AtHarness, Mid
  <2>2. \A h \in Harnesses : h # here => plane'[h] = plane[h]
    BY <1>10, <2>1 DEF MoveAside, Typed
  <2>3. \A i : IsStep(i, "plane") => undo[i][2] # here /\ undo[i][2] \in Harnesses
    BY <1>10, StepKinds DEF MoveAside, Stacked, Mid, IsStep, Typed
  <2> QED
    BY <1>10, <2>2, <2>3, SameSteps DEF MoveAside, Paired
<1>11. CASE Place
  <2>1. PICK h \in Harnesses : h = here
    BY <1>11 DEF Place, Typed, AtHarness, Mid
  <2>2. PICK f \in Files : f = seen
    BY DEF Typed
  <2>3. /\ undo' = Append(undo, <<"plane", h, f>>) /\ pc' = "stale" /\ torn' = torn
        /\ plane'[h].sid = sid /\ \A g \in Harnesses : g # h => plane'[g] = plane[g]
    BY <1>11, <2>1, <2>2 DEF Place, Typed
  <2>4. /\ \A i, kind : IsStep(i, kind) => /\ IsStep(i, kind)' /\ undo'[i] = undo[i]
                                           /\ i \in 1..Len(undo) /\ i < Len(undo')
        /\ \A i : IsStep(i, "plane")' => \/ IsStep(i, "plane") /\ undo'[i] = undo[i]
                                         \/ i = Len(undo) + 1 /\ undo'[i] = <<"plane", h, f>>
        /\ \A i : IsStep(i, "secret")' => IsStep(i, "secret")
        /\ \A i : i = Len(undo) + 1 => IsStep(i, "plane")'
        /\ Len(undo) \in Nat /\ Len(undo') = Len(undo) + 1
    BY <2>3, MoreSteps, StepForms DEF Typed
  <2>5. IsStep(Len(undo), "secret") /\ undo[Len(undo)] = <<"secret", sid>>
    BY <1>11 DEF Place, Stacked, IsStep, Typed
  <2>6. \A i : IsStep(i, "plane") => /\ undo[i][2] # h /\ undo[i][2] \in Harnesses
                                     /\ IsStep(i - 1, "secret") /\ undo'[i - 1] = undo[i - 1]
    BY <1>11, <2>1, <2>4, StepKinds DEF Place, Stacked, Mid, Typed
  <2>7. ASSUME ~torn, NEW i \in 1..Len(undo'), IsStep(i, "plane")'
        PROVE undo'[i - 1][2] = plane'[undo'[i][2]].sid
    <3>1. CASE IsStep(i, "plane") /\ undo'[i] = undo[i]
      BY <3>1, <2>3, <2>4, <2>6, <2>7 DEF Paired
    <3>2. CASE i = Len(undo) + 1 /\ undo'[i] = <<"plane", h, f>>
      <4>1. PICK n \in Nat : n = Len(undo)
        BY <2>4
      <4>2. i - 1 = n
        BY <3>2, <4>1
      <4>3. undo'[n] = <<"secret", sid>>
        BY <2>4, <2>5, <4>1
      <4>4. undo'[i - 1][2] = sid
        BY <4>2, <4>3
      <4>5. undo'[i][2] = h
        BY <3>2
      <4> QED
        BY <4>4, <4>5, <2>3
    <3> QED
      BY <2>4, <2>7, <3>1, <3>2
  <2>8. ASSUME ~torn, NEW i \in 1..Len(undo'), IsStep(i, "secret")'
        PROVE i < Len(undo') /\ IsStep(i + 1, "plane")'
    <3>1. IsStep(i, "secret") /\ i \in 1..Len(undo)
      BY <2>4, <2>8
    <3>2. i = Len(undo) \/ IsStep(i + 1, "plane")
      BY <1>11, <2>8, <3>1 DEF Paired, Place
    <3>3. IsStep(i + 1, "plane")'
      BY <2>4, <3>2
    <3> QED
      BY <2>4, <3>1, <3>3
  <2> QED
    BY <2>3, <2>7, <2>8 DEF Paired
<1>12. CASE PlaceFails
  BY <1>12 DEF PlaceFails, Paired
<1>13. CASE RevokeStale
  BY <1>13, SameSteps DEF RevokeStale, Paired
<1>14. CASE PlanesDone
  BY <1>14, SameSteps DEF PlanesDone, Paired, Mid
<1>15. CASE SkipKv
  BY <1>15, NoSteps DEF SkipKv, Over, Paired
<1>16. CASE ProbeKv
  BY <1>16, SameSteps DEF ProbeKv, Paired, Mid
<1>17. CASE WriteKv
  <2>1. CASE undo' = <<>>
    BY <1>17, <2>1, NoSteps DEF Paired
  <2>2. CASE undo' = undo /\ pc' = "unwind"
    BY <1>17, <2>2, SameSteps DEF WriteKv, Paired
  <2> QED
    BY <1>17, <2>1, <2>2 DEF WriteKv, Over
<1>18. CASE Refused
  BY <1>18, SameSteps DEF Refused, Paired, Mid
<1>19. CASE Unwind
  <2>1. undo' = SubSeq(undo, 1, Len(undo) - 1) /\ undo # <<>> /\ Undone(undo[Len(undo)])
        /\ undo \in Seq(Steps) /\ plane \in [Harnesses -> Files] /\ pc' = "unwind" /\ torn' = torn
    BY <1>19 DEF Unwind, Typed
  <2> PICK last \in Steps : last = undo[Len(undo)]
    BY <2>1, FewerSteps
  <2>2. /\ \A i, kind : IsStep(i, kind)' => IsStep(i, kind) /\ undo'[i] = undo[i]
                                            /\ i \in 1..Len(undo) /\ i < Len(undo)
        /\ IsStep(Len(undo), last[1]) /\ Len(undo) \in 1..Len(undo)
    BY <2>1, FewerSteps
  <2>3. \/ last[1] = "plane" /\ last[2] \in Harnesses /\ plane' = [plane EXCEPT ![last[2]] = last[3]]
        \/ last[1] # "plane" /\ plane' = plane
    BY <2>1, Undoing, Kinds
  <2>4. ASSUME ~torn, NEW i \in 1..Len(undo'), IsStep(i, "plane")'
        PROVE undo'[i - 1][2] = plane'[undo'[i][2]].sid
    <3>1. IsStep(i, "plane") /\ undo'[i] = undo[i] /\ i \in 1..Len(undo) /\ i # Len(undo)
      BY <2>2, <2>4
    <3>2. undo[i][2] \in Harnesses /\ ~(last[1] = "plane" /\ last[2] = undo[i][2])
      BY <2>1, <2>2, <3>1, StepKinds DEF Stacked
    <3>3. plane'[undo[i][2]] = plane[undo[i][2]]
      BY <2>1, <2>3, <3>2
    <3>4. undo'[i - 1] = undo[i - 1]
      <4> PICK j : j = i - 1
        OBVIOUS
      <4>1. i > 1
        BY <3>1 DEF Stacked
      <4>2. j \in 1..Len(undo')
        BY <2>4, <4>1
      <4> QED
        BY <2>1, <4>2, Pops
    <3> QED
      BY <3>1, <3>3, <3>4, <2>4 DEF Paired
  <2> QED
    BY <2>1, <2>4 DEF Paired
<1>20. CASE UnwindFails
  <2>1. undo' = SubSeq(undo, 1, Len(undo) - 1) /\ undo # <<>> /\ pc' = "unwind"
        /\ undo \in Seq(Steps) /\ plane \in [Harnesses -> Files]
    BY <1>20 DEF UnwindFails, Typed
  <2>2. /\ \A i, kind : IsStep(i, kind)' => IsStep(i, kind) /\ undo'[i] = undo[i] /\ i \in 1..Len(undo)
        /\ undo[Len(undo)] \in Steps
    BY <2>1, FewerSteps
  <2>3. ~torn' => ~torn /\ plane' = plane
    BY <1>20, <2>2, Undoing DEF UnwindFails
  <2>4. ASSUME ~torn', NEW i \in 1..Len(undo'), IsStep(i, "plane")'
        PROVE undo'[i - 1][2] = plane'[undo'[i][2]].sid
    <3>1. IsStep(i, "plane") /\ undo'[i] = undo[i] /\ i \in 1..Len(undo)
      BY <2>2, <2>4
    <3>4. undo'[i - 1] = undo[i - 1]
      <4> PICK j : j = i - 1
        OBVIOUS
      <4>1. i > 1
        BY <3>1 DEF Stacked
      <4>2. j \in 1..Len(undo')
        BY <2>4, <4>1
      <4> QED
        BY <2>1, <4>2, Pops
    <3> QED
      BY <3>1, <3>4, <2>3, <2>4 DEF Paired
  <2> QED
    BY <2>1, <2>4 DEF Paired
<1>21. CASE EndFailed
  BY <1>21, NoSteps DEF EndFailed, Over, Paired
<1>22. CASE Kill
  BY <1>22, NoSteps DEF Kill, Over, Paired
<1>23. CASE StoreTheirs
  BY <1>23, SameSteps DEF StoreTheirs, Paired, Mid
<1>24. ASSUME NEW h \in Harnesses, Loosen(h) PROVE Paired'
  <2>1. \A g \in Harnesses : plane'[g].sid = plane[g].sid
    BY <1>24 DEF Loosen, Typed, Files
  <2>2. \A i : ~IsStep(i, "plane") /\ ~IsStep(i, "secret")
    BY <1>24 DEF Loosen, Typed, IsStep
  <2> QED
    BY <1>24, <2>2, SameSteps DEF Loosen, Paired
<1>25. CASE UNCHANGED vars
  BY <1>25, SameSteps DEF vars, Paired
<1> QED
  BY <1>1, <1>2, <1>3, <1>4, <1>5, <1>6, <1>7, <1>8, <1>9, <1>10, <1>11, <1>12, <1>13,
     <1>14, <1>15, <1>16, <1>17, <1>18, <1>19, <1>20, <1>21, <1>22, <1>23, <1>24, <1>25 DEF Next
\* At the end of the walk every SecretID of the run is in a plane file.
LEMMA Filed ==
    ASSUME Typed, Stacked, Paired, ~torn, pc \in {"kv", "kvWrite"},
           NEW s, NEW i \in 1..Len(undo), undo[i] = <<"secret", s>>
    PROVE  s \in Named
<1>1. IsStep(i, "secret")
  BY DEF IsStep
<1>2. PICK j : j = i + 1
  OBVIOUS
<1>3. i < Len(undo) /\ IsStep(j, "plane") /\ i = j - 1 /\ j \in 1..Len(undo)
  BY <1>1, <1>2 DEF Paired, IsStep
<1>4. undo[i][2] = plane[undo[j][2]].sid /\ undo[j][2] \in Harnesses
  BY <1>3, StepKinds DEF Paired, Typed
<1> QED
  BY <1>4 DEF Named

\* Every SecretID that works is accounted for.
LEMMA NextCovered ==
    ASSUME Typed, Stacked, Paired, Covered, [Next]_vars
    PROVE  Covered'
<1> USE DEF NoPlane, vault, work, history, Fail
<1>1. CASE Begin
  <2>1. \A i : i \notin 1..Len(undo)
    BY <1>1 DEF Begin, Typed
  <2> QED
    BY <1>1, <2>1 DEF Begin, Covered, Named
<1>2. CASE ProbePolicy
  BY <1>2, SameSteps DEF ProbePolicy, Covered, Named
<1>3. CASE WritePolicy
  <2>1. CASE undo' = Append(undo, <<"policy">>)
    <3>1. \A i \in 1..Len(undo) : undo'[i] = undo[i] /\ i \in 1..Len(undo')
      BY <2>1, Pushes, StepForms DEF Typed
    <3> QED
      BY <1>3, <3>1 DEF WritePolicy, Covered, Named
  <2>2. CASE undo' = undo
    BY <1>3, <2>2 DEF WritePolicy, Covered, Named
  <2> QED
    BY <1>3, <2>1, <2>2 DEF WritePolicy
<1>4. CASE ProbeRole
  BY <1>4, SameSteps DEF ProbeRole, Covered, Named
<1>5. CASE WriteRole
  <2>1. CASE undo' = Append(undo, <<"role">>)
    <3>1. \A i \in 1..Len(undo) : undo'[i] = undo[i] /\ i \in 1..Len(undo')
      BY <2>1, Pushes, StepForms DEF Typed
    <3> QED
      BY <1>5, <3>1 DEF WriteRole, Covered, Named
  <2>2. CASE undo' = undo
    BY <1>5, <2>2 DEF WriteRole, Covered, Named
  <2> QED
    BY <1>5, <2>1, <2>2 DEF WriteRole
<1>6. CASE ReadRoleId
  BY <1>6, SameSteps DEF ReadRoleId, Covered, Named
<1>7. ASSUME NEW h \in Harnesses, ReadPlane(h) PROVE Covered'
  BY <1>7 DEF ReadPlane, Covered, Named
<1>8. CASE MintSecret
  <2>1. issued' \in Nat
    BY <1>8 DEF MintSecret, Typed
  <2> PICK n \in Nat : n = issued'
    BY <2>1
  <2>2. live' = live \cup {n} /\ plane' = plane /\ seen' = seen /\ torn' = torn /\ pc = "mint"
    BY <1>8 DEF MintSecret
  <2>3. CASE undo' = Append(undo, <<"secret", n>>) /\ stray' = stray
    <3>1. \A i \in 1..Len(undo) : undo'[i] = undo[i] /\ i \in 1..Len(undo')
      BY <2>3, Pushes, StepForms DEF Typed
    <3>2. \E i \in 1..Len(undo') : undo'[i] = <<"secret", n>>
      <4>1. Len(undo) \in Nat /\ Len(undo') = Len(undo) + 1 /\ undo'[Len(undo) + 1] = <<"secret", n>>
        BY <2>3, Pushes, StepForms DEF Typed
      <4> QED
        BY <4>1
    <3> QED
      BY <2>2, <2>3, <3>1, <3>2, ZenonT(60) DEF Covered, Named
  <2>4. CASE undo' = undo /\ stray' = stray \cup {n}
    BY <2>2, <2>4 DEF Covered, Named
  <2> QED
    BY <1>8, <2>3, <2>4 DEF MintSecret
<1>9. CASE Stage
  BY <1>9, SameSteps DEF Stage, Covered, Named
<1>10. CASE MoveAside
  <2>1. here \in Harnesses /\ seen = plane[here]
    BY <1>10 DEF MoveAside, Typed, AtHarness, Mid
  <2>2. \A h \in Harnesses : h # here => plane'[h] = plane[h]
    BY <1>10, <2>1 DEF MoveAside, Typed
  <2>3. CASE pc' = "place"
    BY <1>10, <2>1, <2>2, <2>3 DEF MoveAside, Covered, Named
  <2>4. CASE plane' = plane
    BY <1>10, <2>4 DEF MoveAside, Covered, Named
  <2> QED
    BY <1>10, <2>3, <2>4 DEF MoveAside
<1>11. CASE Place
  <2>1. PICK h \in Harnesses : h = here
    BY <1>11 DEF Place, Typed, AtHarness, Mid
  <2>2. PICK f \in Files : f = seen
    BY DEF Typed
  <2>3. /\ undo' = Append(undo, <<"plane", h, f>>) /\ pc' = "stale" /\ torn' = torn
        /\ live' = live /\ stray' = stray /\ seen' = seen /\ plane[h].sid = 0
        /\ \A g \in Harnesses : g # h => plane'[g] = plane[g]
    BY <1>11, <2>1, <2>2 DEF Place, Typed
  <2>4. \A i \in 1..Len(undo) : undo'[i] = undo[i] /\ i \in 1..Len(undo')
    BY <2>3, Pushes, StepForms DEF Typed
  <2>5. \A s \in live : s # 0
    BY DEF Typed
  <2>6. \A s \in live : s \in Named => s \in Named'
    BY <2>3, <2>5 DEF Named
  <2>7. SUFFICES ASSUME ~torn, NEW s \in live PROVE
            s \in Named' \cup stray \/ (\E i \in 1..Len(undo') : undo'[i] = <<"secret", s>>) \/ seen.sid = s
    BY <2>3 DEF Covered
  <2>8. s \in Named \cup stray \/ (\E i \in 1..Len(undo) : undo[i] = <<"secret", s>>) \/ seen.sid = s
    BY <2>7 DEF Covered
  <2> QED
    BY <2>4, <2>6, <2>7, <2>8
<1>12. CASE PlaceFails
  BY <1>12 DEF PlaceFails, Covered
<1>13. CASE RevokeStale
  <2>1. /\ live' \subseteq live
        /\ seen.sid \in live' => seen.sid \in stray'
        /\ stray \subseteq stray' /\ plane' = plane /\ undo' = undo /\ torn' = torn
    BY <1>13 DEF RevokeStale
  <2>2. SUFFICES ASSUME ~torn, NEW s, s \in live' PROVE
            s \in Named \cup stray' \/ \E i \in 1..Len(undo) : undo[i] = <<"secret", s>>
    BY <2>1 DEF Covered, Named
  <2>4. s \in live
    BY <2>1, <2>2
  <2>5. seen.sid = s => s \in stray'
    BY <2>1, <2>2
  <2>3. s \in Named \cup stray \/ (\E i \in 1..Len(undo) : undo[i] = <<"secret", s>>) \/ seen.sid = s
    BY <2>2, <2>4 DEF Covered
  <2> QED
    BY <2>1, <2>3, <2>5
<1>14. CASE PlanesDone
  BY <1>14, SameSteps DEF PlanesDone, Covered, Named
<1>15. CASE SkipKv
  <2>1. pc = "kv" /\ live' = live /\ plane' = plane /\ torn' = torn /\ stray' = stray \cap live
    BY <1>15 DEF SkipKv, Over
  <2> QED
    BY <2>1, Filed DEF Covered, Named
<1>16. CASE ProbeKv
  BY <1>16, SameSteps DEF ProbeKv, Covered, Named
<1>17. CASE WriteKv
  <2>1. CASE undo' = <<>> /\ stray' = stray \cap live
    <3>1. pc = "kvWrite" /\ live' = live /\ plane' = plane /\ torn' = torn
      BY <1>17 DEF WriteKv
    <3> QED
      BY <2>1, <3>1, Filed DEF Covered, Named
  <2>2. CASE undo' = undo /\ stray' = stray
    BY <1>17, <2>2 DEF WriteKv, Covered, Named
  <2> QED
    BY <1>17, <2>1, <2>2 DEF WriteKv, Over
<1>18. CASE Refused
  BY <1>18, SameSteps DEF Refused, Covered, Named
<1>19. CASE Unwind
  <2>1. undo' = SubSeq(undo, 1, Len(undo) - 1) /\ undo # <<>> /\ Undone(undo[Len(undo)])
        /\ undo \in Seq(Steps) /\ plane \in [Harnesses -> Files] /\ pc = "unwind" /\ torn' = torn
        /\ stray' = stray
    BY <1>19 DEF Unwind, Typed
  <2> PICK last \in Steps : last = undo[Len(undo)]
    BY <2>1, FewerSteps
  <2>2. /\ \A i \in 1..Len(undo') : undo'[i] = undo[i]
        /\ \A i \in 1..Len(undo) : i \in 1..Len(undo') \/ undo[i] = last
        /\ IsStep(Len(undo), last[1]) /\ Len(undo) \in 1..Len(undo) /\ Len(undo) \in Nat
        /\ Len(undo') = Len(undo) - 1
    BY <2>1, FewerSteps, Pops
  <2>3. SUFFICES ASSUME ~torn, NEW s \in live' PROVE
            \/ s \in Named' \cup stray
            \/ \E i \in 1..Len(undo') : undo'[i] = <<"secret", s>>
    BY <2>1 DEF Covered
  <2>4. s \in live /\ (last[1] = "secret" => s # last[2])
    BY <2>1, <2>3, Undoing
  <2>5. \/ s \in Named \cup stray
        \/ \E i \in 1..Len(undo') : undo'[i] = <<"secret", s>>
    <3>1. ASSUME NEW i \in 1..Len(undo), undo[i] = <<"secret", s>>
          PROVE i \in 1..Len(undo') /\ undo'[i] = <<"secret", s>>
      <4>1. undo[i] # last
        BY <2>4, <3>1
      <4> QED
        BY <2>2, <3>1, <4>1
    <3> QED
      BY <2>1, <2>3, <2>4, <3>1 DEF Covered
  <2>6. ASSUME NEW h \in Harnesses, s = plane[h].sid
        PROVE s \in Named' \/ \E i \in 1..Len(undo') : undo'[i] = <<"secret", s>>
    <3>1. CASE plane'[h] = plane[h]
      BY <2>6, <3>1 DEF Named
    <3>2. CASE last[1] = "plane" /\ last[2] = h
      <4>1. PICK j : j = Len(undo) - 1
        OBVIOUS
      <4>2. Len(undo) > 1 /\ IsStep(j, "secret") /\ undo[j][2] = plane[h].sid
        BY <2>2, <2>3, <3>2, <4>1 DEF Stacked, Paired
      <4>3. undo[j] = <<"secret", s>>
        BY <2>1, <2>6, <4>2, StepKinds
      <4>4. j \in 1..Len(undo')
        BY <2>2, <4>1, <4>2
      <4> QED
        BY <2>2, <4>3, <4>4
    <3>3. plane'[h] = plane[h] \/ (last[1] = "plane" /\ last[2] = h)
      BY <2>1, Undoing, Kinds
    <3> QED
      BY <3>1, <3>2, <3>3
  <2> QED
    BY <2>5, <2>6 DEF Named
<1>20. CASE UnwindFails
  <2>1. undo' = SubSeq(undo, 1, Len(undo) - 1) /\ undo # <<>> /\ undo \in Seq(Steps)
        /\ pc = "unwind"
    BY <1>20 DEF UnwindFails, Typed
  <2> PICK last \in Steps : last = undo[Len(undo)]
    BY <2>1, FewerSteps
  <2>2. /\ \A i \in 1..Len(undo') : undo'[i] = undo[i]
        /\ \A i \in 1..Len(undo) : i \in 1..Len(undo') \/ undo[i] = last
    BY <2>1, FewerSteps, Pops
  <2>3. SUFFICES ASSUME ~torn', NEW s \in live' PROVE
            \/ s \in Named' \cup stray'
            \/ \E i \in 1..Len(undo') : undo'[i] = <<"secret", s>>
    BY <2>1 DEF Covered
  <2>4. /\ ~torn /\ last[1] # "plane" /\ plane' = plane
        /\ s \in live /\ (last[1] = "secret" /\ s = last[2] => s \in stray') /\ stray \subseteq stray'
    BY <1>20, <2>3, Undoing DEF UnwindFails
  <2>5. ASSUME NEW i \in 1..Len(undo), undo[i] = <<"secret", s>>
        PROVE s \in stray' \/ (i \in 1..Len(undo') /\ undo'[i] = <<"secret", s>>)
    <3>1. CASE undo[i] = last
      BY <2>4, <2>5, <3>1
    <3>2. CASE undo[i] # last
      BY <2>2, <2>5, <3>2
    <3> QED
      BY <3>1, <3>2
  <2> QED
    BY <2>1, <2>4, <2>5 DEF Covered, Named
<1>21. CASE EndFailed
  <2>1. \A i : i \notin 1..Len(undo)
    BY <1>21 DEF EndFailed
  <2> QED
    BY <1>21, <2>1 DEF EndFailed, Over, Covered, Named
<1>22. CASE Kill
  BY <1>22 DEF Kill, Over, Covered
<1>23. CASE StoreTheirs
  BY <1>23, SameSteps DEF StoreTheirs, Covered, Named
<1>24. ASSUME NEW h \in Harnesses, Loosen(h) PROVE Covered'
  <2>1. \A g \in Harnesses : plane'[g].sid = plane[g].sid
    BY <1>24 DEF Loosen, Typed, Files
  <2> QED
    BY <1>24, <2>1 DEF Loosen, Covered, Named
<1>25. CASE UNCHANGED vars
  BY <1>25 DEF vars, Covered, Named
<1> QED
  BY <1>1, <1>2, <1>3, <1>4, <1>5, <1>6, <1>7, <1>8, <1>9, <1>10, <1>11, <1>12, <1>13,
     <1>14, <1>15, <1>16, <1>17, <1>18, <1>19, <1>20, <1>21, <1>22, <1>23, <1>24, <1>25 DEF Next
\* To begin with, as many SecretIDs are out as there are files, and each names its own.
LEMMA InitCovered == Init => Covered
<1> SUFFICES ASSUME Init PROVE live \subseteq Named
  BY DEF Covered
<1>1. IsFiniteSet(Harnesses)
  BY OnboardingAssumption
<1>2. PICK given \in SUBSET Harnesses : \E right \in BOOLEAN : \E number \in [given -> 1..Cardinality(given)] :
        /\ \A g, h \in given : number[g] = number[h] => g = h
        /\ plane = [h \in Harnesses |->
                      IF h \in given THEN [role |-> 1, sid |-> number[h], right |-> right]
                      ELSE NoPlane]
        /\ live = IF role = 0 THEN {} ELSE 1..Cardinality(given)
  BY DEF Init
<1>3. PICK number \in [given -> 1..Cardinality(given)] :
        /\ \A g, h \in given : number[g] = number[h] => g = h
        /\ \A h \in given : plane[h].sid = number[h]
  BY <1>2
<1>4. IsFiniteSet(given) /\ Cardinality(given) \in Nat
  BY <1>1, FS_Subset, FS_CardinalityType
<1>5. number \in Injection(given, 1..Cardinality(given))
  BY <1>3 DEF Injection, IsInjective
<1>6. IsFiniteSet(1..Cardinality(given)) /\ Cardinality(1..Cardinality(given)) = Cardinality(given)
  <2> PICK n \in Nat : n = Cardinality(given)
    BY <1>4
  <2> PICK a \in Int, b \in Int : a = 1 /\ b = n
    OBVIOUS
  <2>1. IsFiniteSet(a..b) /\ Cardinality(a..b) = IF a > b THEN 0 ELSE b - a + 1
    BY FS_Interval
  <2>2. (IF a > b THEN 0 ELSE b - a + 1) = n
    OBVIOUS
  <2> QED
    BY <2>1, <2>2
<1>7. number \in Surjection(given, 1..Cardinality(given))
  BY <1>5, <1>6, FS_Injection
<1>8. \A s \in 1..Cardinality(given) : \E h \in given : number[h] = s
  BY <1>7 DEF Surjection
<1>9. 1..Cardinality(given) \subseteq Named
  BY <1>3, <1>8 DEF Named
<1> QED
  BY <1>2, <1>9

(* No SecretID outlives the run that minted it unless a plane file names it *)
(* or a report has said that it is left ("Reruns do not accumulate live     *)
(* SecretIDs").                                                             *)
THEOREM NoSecretIdIsForgotten == Spec => []NoStraySecretIds
<1> DEFINE Inv == Typed /\ Stacked /\ Paired /\ Covered
<1>1. Init => Inv
  <2>1. Init => Paired
    BY DEF Init, Paired
  <2>2. Init => Covered
    BY InitCovered
  <2> QED
    BY <2>1, <2>2, InitTyped, InitRest
<1>2. Inv /\ [Next]_vars => Inv'
  BY NextTyped, NextStacked, NextPaired, NextCovered
<1>3. Inv => NoStraySecretIds
  <2> SUFFICES ASSUME Inv, pc = "idle", ~torn, NEW s \in live PROVE s \in Named \cup stray
    BY DEF NoStraySecretIds
  <2>1. \A i : i \notin 1..Len(undo)
    BY DEF Typed
  <2> QED
    BY <2>1 DEF Covered
<1> QED
  BY <1>1, <1>2, <1>3, PTL DEF Spec


-----------------------------------------------------------------------------
(* What a run that succeeded has set up. *)

\* What a plane file holds in the course of a run.
LEMMA Whose ==
    ASSUME Typed, Stacked, Paired, PlanesBack, pc # "idle", ~torn, NEW h \in Harnesses
    PROVE  \/ \E i, j \in 1..Len(undo) : /\ j = i - 1 /\ IsStep(i, "plane") /\ IsStep(j, "secret")
                                         /\ undo[i][2] = h /\ plane[h].sid = undo[j][2]
           \/ plane[h].sid = 0 /\ pc = "place" /\ here = h
           \/ plane[h] = before.plane[h]
<1>1. CASE \E i \in 1..Len(undo) : IsStep(i, "plane") /\ undo[i][2] = h
  <2>1. PICK i \in 1..Len(undo) : IsStep(i, "plane") /\ undo[i][2] = h
    BY <1>1
  <2>2. PICK j : j = i - 1
    OBVIOUS
  <2>3. i > 1 /\ IsStep(j, "secret") /\ plane[h].sid = undo[j][2]
    BY <2>1, <2>2 DEF Stacked, Paired
  <2>4. j \in 1..Len(undo)
    BY <2>3 DEF IsStep
  <2> QED
    BY <2>1, <2>2, <2>3, <2>4
<1>2. CASE pc = "place" /\ here = h
  BY <1>2 DEF Typed, NoPlane
<1> QED
  BY <1>1, <1>2 DEF PlanesBack

LEMMA RunsApart ==
    ASSUME Typed, Known, Stacked, Paired, PlanesBack, Apart, pc # "idle", ~torn
    PROVE  Differ(plane)
<1> SUFFICES ASSUME NEW g \in Harnesses, NEW h \in Harnesses,
                    plane[g].sid = plane[h].sid, plane[g].sid # 0
             PROVE  g = h
  BY DEF Differ
<1>1. /\ \A f \in Harnesses : before.plane[f].sid \in Nat
      /\ Differ(before.plane)
      /\ \A i \in 1..Len(undo) : IsStep(i, "secret") =>
            /\ undo[i][2] \in Nat
            /\ \A f \in Harnesses : before.plane[f].sid < undo[i][2]
            /\ \A j \in 1..Len(undo) : IsStep(j, "secret") /\ i < j => undo[i][2] < undo[j][2]
  BY StepKinds DEF Apart, Typed, Files
<1>2. \A f \in Harnesses :
        \/ \E i, j \in 1..Len(undo) : /\ j = i - 1 /\ IsStep(i, "plane") /\ IsStep(j, "secret")
                                      /\ undo[i][2] = f /\ plane[f].sid = undo[j][2]
        \/ plane[f].sid = 0
        \/ plane[f] = before.plane[f]
  BY Whose
<1>3. CASE plane[g] = before.plane[g] /\ plane[h] = before.plane[h]
  BY <1>1, <1>3 DEF Differ
<1>4. ASSUME NEW f \in Harnesses, NEW e \in Harnesses, plane[f] = before.plane[f],
             plane[e].sid = plane[f].sid,
             NEW j \in 1..Len(undo), IsStep(j, "secret"), plane[e].sid = undo[j][2]
      PROVE  FALSE
  <2>1. before.plane[f].sid < undo[j][2] /\ before.plane[f].sid \in Nat /\ undo[j][2] \in Nat
    BY <1>1, <1>4
  <2> QED
    BY <1>4, <2>1
<1>5. ASSUME NEW i \in 1..Len(undo), NEW j \in 1..Len(undo), j = i - 1, IsStep(i, "plane"), IsStep(j, "secret"),
             undo[i][2] = g, plane[g].sid = undo[j][2],
             NEW k \in 1..Len(undo), NEW l \in 1..Len(undo), l = k - 1, IsStep(k, "plane"), IsStep(l, "secret"),
             undo[k][2] = h, plane[h].sid = undo[l][2]
      PROVE  g = h
  <2>1. undo[j][2] = undo[l][2] /\ undo[j][2] \in Nat
    BY <1>1, <1>5
  <2>2. /\ j < l => undo[j][2] < undo[l][2]
        /\ l < j => undo[l][2] < undo[j][2]
    BY <1>1, <1>5
  <2>3. ~(j < l) /\ ~(l < j)
    BY <2>1, <2>2
  <2>4. i = k
    BY <1>5, <2>3
  <2> QED
    BY <1>5, <2>4
<1> QED
  BY <1>2, <1>3, <1>4, <1>5


\* A step of the run that makes no SecretID.
LEMMA StaysApart ==
    ASSUME Apart, pc # "idle", pc' # "idle", before' = before, issued' = issued, torn => torn',
           \A i : IsStep(i, "secret")' => IsStep(i, "secret") /\ undo'[i] = undo[i]
    PROVE  Apart'
<1>1. \A i : IsStep(i, "secret") => i \in 1..Len(undo)
  BY DEF IsStep
<1> QED
  BY <1>1 DEF Apart

\* No two plane files share a SecretID.
LEMMA NextApart ==
    ASSUME Typed, Known, Stacked, Paired, PlanesBack, Apart, [Next]_vars
    PROVE  Apart'
<1> USE DEF vault, work, history, Fail
<1>1. CASE Begin
  <2>1. /\ before'.plane = plane /\ issued' = issued /\ torn' = torn
        /\ pc = "idle" /\ pc' # "idle"
    BY <1>1 DEF Begin, Snapshot
  <2>3. \A i : ~IsStep(i, "secret")'
    BY <1>1, NoSteps DEF Begin
  <2>4. \A h \in Harnesses : plane[h].sid <= issued
    BY DEF Known
  <2> QED
    BY <2>1, <2>3, <2>4 DEF Apart, Typed, Differ
<1>2. CASE ProbePolicy
  <2>1. pc # "idle" /\ pc' # "idle" /\ before' = before /\ issued' = issued /\ undo' = undo /\ (torn => torn')
    BY <1>2 DEF ProbePolicy
  <2> QED
    BY <2>1, SameSteps, StaysApart
<1>3. CASE WritePolicy
  <2>1. pc # "idle" /\ pc' # "idle" /\ before' = before /\ issued' = issued /\ torn' = torn
    BY <1>3 DEF WritePolicy
  <2>2. CASE undo' = Append(undo, <<"policy">>)
    <3>1. \A i : IsStep(i, "secret")' => IsStep(i, "secret") /\ undo'[i] = undo[i]
      BY <2>2, MoreSteps, StepForms DEF Typed
    <3> QED
      BY <2>1, <3>1, StaysApart
  <2>3. CASE undo' = undo
    BY <2>1, <2>3, SameSteps, StaysApart
  <2> QED
    BY <1>3, <2>2, <2>3 DEF WritePolicy
<1>4. CASE ProbeRole
  <2>1. pc # "idle" /\ pc' # "idle" /\ before' = before /\ issued' = issued /\ undo' = undo /\ (torn => torn')
    BY <1>4 DEF ProbeRole
  <2> QED
    BY <2>1, SameSteps, StaysApart
<1>5. CASE WriteRole
  <2>1. pc # "idle" /\ pc' # "idle" /\ before' = before /\ issued' = issued /\ torn' = torn
    BY <1>5 DEF WriteRole
  <2>2. CASE undo' = Append(undo, <<"role">>)
    <3>1. \A i : IsStep(i, "secret")' => IsStep(i, "secret") /\ undo'[i] = undo[i]
      BY <2>2, MoreSteps, StepForms DEF Typed
    <3> QED
      BY <2>1, <3>1, StaysApart
  <2>3. CASE undo' = undo
    BY <2>1, <2>3, SameSteps, StaysApart
  <2> QED
    BY <1>5, <2>2, <2>3 DEF WriteRole
<1>6. CASE ReadRoleId
  <2>1. pc # "idle" /\ pc' # "idle" /\ before' = before /\ issued' = issued /\ undo' = undo /\ (torn => torn')
    BY <1>6 DEF ReadRoleId
  <2> QED
    BY <2>1, SameSteps, StaysApart
<1>7. ASSUME NEW h \in Harnesses, ReadPlane(h) PROVE Apart'
  <2>1. pc # "idle" /\ pc' # "idle" /\ before' = before /\ issued' = issued /\ undo' = undo /\ (torn => torn')
    BY <1>7 DEF ReadPlane
  <2> QED
    BY <2>1, SameSteps, StaysApart
<1>8. CASE MintSecret
  <2>1. issued' = issued + 1 /\ issued \in Nat
    BY <1>8 DEF MintSecret, Typed
  <2> PICK n \in Nat : n = issued'
    BY <2>1
  <2>2. pc = "mint" /\ pc' # "idle" /\ before' = before /\ torn' = torn
    BY <1>8 DEF MintSecret
  <2>3. /\ \A h \in Harnesses : before.plane[h].sid < n /\ before.plane[h].sid <= n
        /\ \A i : IsStep(i, "secret") => undo[i][2] < n
    <3>1. \A i : IsStep(i, "secret") => i \in 1..Len(undo)
      BY DEF IsStep
    <3>2. \A h \in Harnesses : before.plane[h].sid \in Nat
      BY <2>2 DEF Apart, Files
    <3> QED
      BY <2>1, <2>2, <3>1, <3>2 DEF Apart, Known
  <2>4. CASE undo' = undo
    BY <2>1, <2>2, <2>3, <2>4, SameSteps DEF Apart
  <2>5. CASE undo' = Append(undo, <<"secret", n>>)
    <3>1. /\ \A i : IsStep(i, "secret")' => \/ IsStep(i, "secret") /\ undo'[i] = undo[i] /\ i \in 1..Len(undo)
                                            \/ i = Len(undo') /\ undo'[i] = <<"secret", n>>
          /\ Len(undo) \in Nat /\ Len(undo') = Len(undo) + 1
      <4>1. \A i, kind : IsStep(i, kind) => undo'[i] = undo[i] /\ i \in 1..Len(undo)
        BY <2>5, MoreSteps, StepForms DEF Typed
      <4>2. /\ Len(undo) \in Nat /\ Len(undo') = Len(undo) + 1
            /\ undo'[Len(undo) + 1] = <<"secret", n>>
        BY <2>5, MoreSteps, StepForms DEF Typed
      <4>3. \A i : IsStep(i, "secret")' => IsStep(i, "secret") \/ i = Len(undo) + 1
        BY <2>5, MoreSteps, StepForms DEF Typed
      <4> QED
        BY <4>1, <4>2, <4>3
    <3>2. \A i : IsStep(i, "secret")' => \A h \in Harnesses : before.plane[h].sid < undo'[i][2]
      BY <2>2, <2>3, <3>1 DEF Apart
    <3>3. \A i, j : IsStep(i, "secret")' /\ IsStep(j, "secret")' /\ i < j => undo'[i][2] < undo'[j][2]
      <4> SUFFICES ASSUME NEW i, NEW j, IsStep(i, "secret")', IsStep(j, "secret")', i < j
                   PROVE undo'[i][2] < undo'[j][2]
        OBVIOUS
      <4>1. i \in 1..Len(undo') /\ j \in 1..Len(undo')
        BY DEF IsStep
      <4>2. IsStep(i, "secret") /\ undo'[i] = undo[i] /\ i \in 1..Len(undo)
        BY <3>1, <4>1
      <4>3. CASE IsStep(j, "secret") /\ undo'[j] = undo[j] /\ j \in 1..Len(undo)
        BY <2>2, <4>2, <4>3 DEF Apart
      <4>4. CASE undo'[j] = <<"secret", n>>
        BY <2>3, <4>2, <4>4
      <4> QED
        BY <3>1, <4>3, <4>4
    <3> QED
      BY <2>1, <2>2, <2>3, <3>2, <3>3 DEF Apart
  <2> QED
    BY <1>8, <2>4, <2>5 DEF MintSecret
<1>9. CASE Stage
  <2>1. pc # "idle" /\ pc' # "idle" /\ before' = before /\ issued' = issued /\ undo' = undo /\ (torn => torn')
    BY <1>9 DEF Stage
  <2> QED
    BY <2>1, SameSteps, StaysApart
<1>10. CASE MoveAside
  <2>1. pc # "idle" /\ pc' # "idle" /\ before' = before /\ issued' = issued /\ undo' = undo /\ (torn => torn')
    BY <1>10 DEF MoveAside
  <2> QED
    BY <2>1, SameSteps, StaysApart
<1>11. CASE Place
  <2>1. PICK h \in Harnesses : h = here
    BY <1>11 DEF Place, Typed, AtHarness, Mid
  <2>2. PICK f \in Files : f = seen
    BY DEF Typed
  <2>3. /\ undo' = Append(undo, <<"plane", h, f>>)
        /\ pc # "idle" /\ pc' # "idle" /\ before' = before /\ issued' = issued /\ torn' = torn
    BY <1>11, <2>1, <2>2 DEF Place
  <2>4. \A i : IsStep(i, "secret")' => IsStep(i, "secret") /\ undo'[i] = undo[i]
    BY <2>3, MoreSteps, StepForms DEF Typed
  <2> QED
    BY <2>3, <2>4, StaysApart
<1>12. CASE PlaceFails
  <2>1. pc # "idle" /\ pc' # "idle" /\ before' = before /\ issued' = issued /\ undo' = undo /\ (torn => torn')
    BY <1>12 DEF PlaceFails
  <2> QED
    BY <2>1, SameSteps, StaysApart
<1>13. CASE RevokeStale
  <2>1. pc # "idle" /\ pc' # "idle" /\ before' = before /\ issued' = issued /\ undo' = undo /\ (torn => torn')
    BY <1>13 DEF RevokeStale
  <2> QED
    BY <2>1, SameSteps, StaysApart
<1>14. CASE PlanesDone
  <2>1. pc # "idle" /\ pc' # "idle" /\ before' = before /\ issued' = issued /\ undo' = undo /\ (torn => torn')
    BY <1>14 DEF PlanesDone
  <2> QED
    BY <2>1, SameSteps, StaysApart
<1>15. CASE SkipKv
  <2>1. pc # "idle" /\ pc' = "idle" /\ plane' = plane /\ torn' = torn
    BY <1>15 DEF SkipKv, Over
  <2> QED
    BY <2>1, RunsApart DEF Apart, Differ
<1>16. CASE ProbeKv
  <2>1. pc # "idle" /\ pc' # "idle" /\ before' = before /\ issued' = issued /\ undo' = undo /\ (torn => torn')
    BY <1>16 DEF ProbeKv
  <2> QED
    BY <2>1, SameSteps, StaysApart
<1>17. CASE WriteKv
  <2>1. pc # "idle" /\ plane' = plane /\ torn' = torn /\ issued' = issued
    BY <1>17 DEF WriteKv
  <2>2. CASE pc' = "idle"
    BY <2>1, <2>2, RunsApart DEF Apart, Differ
  <2>3. CASE pc' # "idle" /\ undo' = undo /\ before' = before
    BY <2>1, <2>3, SameSteps, StaysApart
  <2> QED
    BY <1>17, <2>2, <2>3 DEF WriteKv, Over
<1>18. CASE Refused
  <2>1. pc # "idle" /\ pc' # "idle" /\ before' = before /\ issued' = issued /\ undo' = undo /\ (torn => torn')
    BY <1>18 DEF Refused
  <2> QED
    BY <2>1, SameSteps, StaysApart
<1>19. CASE Unwind
  <2>1. /\ undo' = SubSeq(undo, 1, Len(undo) - 1) /\ undo # <<>> /\ undo \in Seq(Steps)
        /\ pc # "idle" /\ pc' # "idle" /\ before' = before /\ issued' = issued /\ (torn => torn')
    BY <1>19 DEF Unwind, Typed
  <2>2. \A i : IsStep(i, "secret")' => IsStep(i, "secret") /\ undo'[i] = undo[i]
    BY <2>1, FewerSteps
  <2> QED
    BY <2>1, <2>2, StaysApart
<1>20. CASE UnwindFails
  <2>1. /\ undo' = SubSeq(undo, 1, Len(undo) - 1) /\ undo # <<>> /\ undo \in Seq(Steps)
        /\ pc # "idle" /\ pc' # "idle" /\ before' = before /\ issued' = issued /\ (torn => torn')
    BY <1>20 DEF UnwindFails, Typed
  <2>2. \A i : IsStep(i, "secret")' => IsStep(i, "secret") /\ undo'[i] = undo[i]
    BY <2>1, FewerSteps
  <2> QED
    BY <2>1, <2>2, StaysApart
<1>21. CASE EndFailed
  <2>1. pc # "idle" /\ pc' = "idle" /\ plane' = plane /\ torn' = torn
    BY <1>21 DEF EndFailed, Over
  <2> QED
    BY <2>1, RunsApart DEF Apart, Differ
<1>22. CASE Kill
  <2>1. pc # "idle" /\ pc' = "idle" /\ plane' = plane /\ torn' = torn
    BY <1>22 DEF Kill, Over
  <2> QED
    BY <2>1, RunsApart DEF Apart, Differ
<1>23. CASE StoreTheirs
  BY <1>23, SameSteps DEF StoreTheirs, Apart, Differ
<1>24. ASSUME NEW h \in Harnesses, Loosen(h) PROVE Apart'
  <2>1. \A g \in Harnesses : plane'[g].sid = plane[g].sid
    BY <1>24 DEF Loosen, Typed, Files
  <2> QED
    BY <1>24, <2>1 DEF Loosen, Apart, Differ
<1>25. CASE UNCHANGED vars
  BY <1>25, SameSteps DEF vars, Apart, Differ
<1> QED
  BY <1>1, <1>2, <1>3, <1>4, <1>5, <1>6, <1>7, <1>8, <1>9, <1>10, <1>11, <1>12, <1>13,
     <1>14, <1>15, <1>16, <1>17, <1>18, <1>19, <1>20, <1>21, <1>22, <1>23, <1>24, <1>25 DEF Next
\* What the run has achieved so far.
LEMMA NextAchieved ==
    ASSUME Typed, Achieved, [Next]_vars
    PROVE  Achieved'
<1> USE DEF vault, work, history, Fail
<1>1. CASE Begin
  BY <1>1 DEF Begin, Achieved, Matching, Mid, AtHarness, Places
<1>2. CASE ProbePolicy
  BY <1>2 DEF ProbePolicy, Achieved, Matching, Mid, AtHarness, Places, Sees
<1>3. CASE WritePolicy
  BY <1>3 DEF WritePolicy, Achieved, Matching, Mid, AtHarness, Places
<1>4. CASE ProbeRole
  BY <1>4 DEF ProbeRole, Achieved, Matching, Mid, AtHarness, Places, Sees
<1>5. CASE WriteRole
  BY <1>5 DEF WriteRole, Achieved, Matching, Mid, AtHarness, Places, Typed
<1>6. CASE ReadRoleId
  BY <1>6 DEF ReadRoleId, Achieved, Matching, Mid, AtHarness, Places
<1>7. ASSUME NEW h \in Harnesses, ReadPlane(h) PROVE Achieved'
  <2> PICK g \in Harnesses : g = h /\ plane[g] = plane[h]
    BY <1>7
  <2>1. UNCHANGED <<policy, role, bound, roleId, plane>> /\ todo' = todo \ {g} /\ pc = "planes"
    BY <1>7 DEF ReadPlane
  <2>2. CASE Matches(plane[g]) /\ UNCHANGED <<pc, here, seen>>
    BY <2>1, <2>2 DEF Achieved, Matches, Matching, Mid, AtHarness, Places
  <2>3. CASE pc' = "mint" /\ here' = g
    BY <2>1, <2>3 DEF Achieved, Matching, Mid, AtHarness, Places
  <2>4. CASE pc' = "unwind"
    BY <2>1, <2>4 DEF Achieved, Mid, AtHarness
  <2> QED
    BY <1>7, <2>2, <2>3, <2>4 DEF ReadPlane
<1>8. CASE MintSecret
  BY <1>8 DEF MintSecret, Achieved, Matching, Mid, AtHarness, Places
<1>9. CASE Stage
  BY <1>9 DEF Stage, Achieved, Matching, Mid, AtHarness, Places
<1>10. CASE MoveAside
  <2>1. here \in Harnesses /\ here \notin todo
    BY <1>10 DEF MoveAside, Typed, AtHarness, Mid
  <2>2. \A h \in Harnesses : h # here => plane'[h] = plane[h]
    BY <1>10, <2>1 DEF MoveAside, Typed
  <2> QED
    BY <1>10, <2>1, <2>2 DEF MoveAside, Achieved, Matching, Mid, AtHarness, Places
<1>11. CASE Place
  <2>1. here \in Harnesses /\ here \notin todo
    BY <1>11 DEF Place, Typed, AtHarness, Mid
  <2>2. /\ \A h \in Harnesses : h # here => plane'[h] = plane[h]
        /\ plane'[here] = [role |-> roleId, sid |-> sid, right |-> TRUE]
    BY <1>11, <2>1 DEF Place, Typed
  <2> QED
    BY <1>11, <2>1, <2>2 DEF Place, Achieved, Matching, Mid, AtHarness, Places
<1>12. CASE PlaceFails
  BY <1>12 DEF PlaceFails, Achieved, Matching, Mid, AtHarness, Places
<1>13. CASE RevokeStale
  BY <1>13 DEF RevokeStale, Leave, Achieved, Matching, Mid, AtHarness, Places
<1>14. CASE PlanesDone
  BY <1>14 DEF PlanesDone, Achieved, Matching, Mid, AtHarness, Places, Typed
<1>15. CASE SkipKv
  BY <1>15 DEF SkipKv, Over, Leave, Achieved, Matching, Mid, AtHarness, Places
<1>16. CASE ProbeKv
  BY <1>16 DEF ProbeKv, Achieved, Matching, Mid, AtHarness, Places
<1>17. CASE WriteKv
  BY <1>17 DEF WriteKv, Over, Leave, Achieved, Matching, Mid, AtHarness, Places
<1>18. CASE Refused
  BY <1>18 DEF Refused, Achieved, Matching, Mid, AtHarness, Places
<1>19. CASE Unwind
  BY <1>19 DEF Unwind, Achieved, Mid, AtHarness
<1>20. CASE UnwindFails
  BY <1>20 DEF UnwindFails, Achieved, Mid, AtHarness
<1>21. CASE EndFailed
  BY <1>21 DEF EndFailed, Over, Leave, Achieved, Matching, Mid, AtHarness, Places
<1>22. CASE Kill
  BY <1>22 DEF Kill, Over, Leave, Achieved, Matching, Mid, AtHarness, Places
<1>23. CASE StoreTheirs
  BY <1>23 DEF StoreTheirs, Achieved, Matching, Mid, AtHarness, Places
<1>24. ASSUME NEW h \in Harnesses, Loosen(h) PROVE Achieved'
  BY <1>24 DEF Loosen, Achieved, Matching, Mid, AtHarness, Places
<1>25. CASE UNCHANGED vars
  BY <1>25 DEF vars, Achieved, Matching, Mid, AtHarness, Places
<1> QED
  BY <1>1, <1>2, <1>3, <1>4, <1>5, <1>6, <1>7, <1>8, <1>9, <1>10, <1>11, <1>12, <1>13,
     <1>14, <1>15, <1>16, <1>17, <1>18, <1>19, <1>20, <1>21, <1>22, <1>23, <1>24, <1>25 DEF Next

\* A SecretID that one of this run's files names, or that a file named before it, is
\* named by no other.
LEMMA Owned ==
    ASSUME Typed, Known, Stacked, Paired, PlanesBack, Apart, pc # "idle", ~torn,
           NEW h \in Harnesses, plane[h].sid # 0
    PROVE  /\ \A i : IsStep(i, "secret") /\ undo[i][2] = plane[h].sid =>
                        \E j \in 1..Len(undo) : j = i + 1 /\ IsStep(j, "plane") /\ undo[j][2] = h
           /\ \A g \in Harnesses : before.plane[g].sid = plane[h].sid => plane[h] = before.plane[h] /\ g = h
<1>1. /\ \A f \in Harnesses : before.plane[f].sid \in Nat
      /\ Differ(before.plane)
      /\ \A i : IsStep(i, "secret") =>
            /\ i \in 1..Len(undo) /\ undo[i][2] \in Nat
            /\ \A f \in Harnesses : before.plane[f].sid < undo[i][2]
            /\ \A j : IsStep(j, "secret") /\ i < j => undo[i][2] < undo[j][2]
  <2>1. \A i, kind : IsStep(i, kind) => i \in 1..Len(undo)
    BY DEF IsStep
  <2> QED
    BY <2>1, StepKinds DEF Apart, Typed, Files
<1>2. CASE plane[h] = before.plane[h]
  <2>1. ASSUME NEW i, IsStep(i, "secret"), undo[i][2] = plane[h].sid PROVE FALSE
    <3>1. before.plane[h].sid < undo[i][2] /\ undo[i][2] \in Nat /\ before.plane[h].sid \in Nat
      BY <1>1, <2>1
    <3> QED
      BY <1>2, <2>1, <3>1
  <2> QED
    BY <1>1, <1>2, <2>1 DEF Differ
<1>3. ASSUME NEW k \in 1..Len(undo), NEW l \in 1..Len(undo), l = k - 1, IsStep(k, "plane"), IsStep(l, "secret"),
             undo[k][2] = h, plane[h].sid = undo[l][2]
      PROVE  /\ \A i : IsStep(i, "secret") /\ undo[i][2] = plane[h].sid =>
                          \E j \in 1..Len(undo) : j = i + 1 /\ IsStep(j, "plane") /\ undo[j][2] = h
             /\ \A g \in Harnesses : before.plane[g].sid # plane[h].sid
  <2>1. ASSUME NEW i, IsStep(i, "secret"), undo[i][2] = plane[h].sid PROVE k = i + 1
    <3>1. i \in 1..Len(undo) /\ undo[i][2] = undo[l][2] /\ undo[i][2] \in Nat
      BY <1>1, <1>3, <2>1
    <3>2. (i < l => undo[i][2] < undo[l][2]) /\ (l < i => undo[l][2] < undo[i][2])
      BY <1>1, <1>3, <2>1
    <3>3. ~(i < l) /\ ~(l < i)
      BY <3>1, <3>2
    <3> QED
      BY <1>3, <3>1, <3>3
  <2>2. ASSUME NEW g \in Harnesses, before.plane[g].sid = plane[h].sid PROVE FALSE
    <3>1. before.plane[g].sid < undo[l][2] /\ undo[l][2] \in Nat /\ before.plane[g].sid \in Nat
      BY <1>1, <1>3
    <3> QED
      BY <1>3, <2>2, <3>1
  <2> QED
    BY <1>3, <2>1, <2>2
<1> QED
  BY <1>2, <1>3, Whose

\* A SecretID that is the last step of the undo list is in no file.
LEMMA SecretLast ==
    ASSUME Typed, Known, Stacked, Paired, PlanesBack, Apart, pc # "idle", ~torn,
           IsStep(Len(undo), "secret"), NEW h \in Harnesses, plane[h].sid # 0
    PROVE  plane[h].sid # undo[Len(undo)][2]
<1>1. PICK n \in Nat : n = Len(undo)
  BY DEF Typed
<1>2. \A j \in 1..n : j # n + 1
  BY <1>1
<1> QED
  BY <1>1, <1>2, Owned

\* What a later run would take for a match.
LEMMA NextSound ==
    ASSUME Typed, Known, Stacked, Paired, PlanesBack, Apart, Achieved, Sound, [Next]_vars
    PROVE  Sound'
<1> USE DEF NoPlane, vault, work, history, Fail
<1>1. CASE Begin
  BY <1>1, NoSteps DEF Begin, Sound, Matching, AtHarness, Mid
<1>2. CASE ProbePolicy
  BY <1>2, SameSteps DEF ProbePolicy, Sound, Matching, AtHarness, Mid
<1>3. CASE WritePolicy
  <2>1. CASE undo' = Append(undo, <<"policy">>)
    BY <1>3, <2>1, MoreSteps, StepForms DEF WritePolicy, Sound, Matching, AtHarness, Mid, Typed
  <2>2. CASE undo' = undo
    BY <1>3, <2>2, SameSteps DEF WritePolicy, Sound, Matching, AtHarness, Mid
  <2> QED
    BY <1>3, <2>1, <2>2 DEF WritePolicy
<1>4. CASE ProbeRole
  BY <1>4, SameSteps DEF ProbeRole, Sound, Matching, AtHarness, Mid
<1>5. CASE WriteRole
  <2>1. /\ \A f : Matching(f)' => f.role = role' /\ f.right
        /\ role' = role \/ (role' = roles + 1 /\ roles \in Nat)
        /\ UNCHANGED <<plane, live, torn>> /\ pc' \in {"roleId", "unwind"}
    BY <1>5 DEF WriteRole, Matching, Typed
  <2>2. \A f : Matching(f)' => Matching(f) \/ f.role = roles + 1
    BY <1>5 DEF WriteRole, Matching
  <2>3. \A h \in Harnesses : plane[h].role # roles + 1
    BY <2>1 DEF Known, Typed, Files
  <2>4. \A i : IsStep(i, "plane") => i \in 1..Len(undo) /\ undo[i][3].role # roles + 1
    <3>1. \A i : IsStep(i, "plane") => i \in 1..Len(undo) /\ undo[i][3].role \in Nat
      BY StepKinds DEF IsStep, Typed, Files
    <3> QED
      BY <3>1 DEF Known, Typed
  <2>5. \A i : IsStep(i, "plane")' => IsStep(i, "plane") /\ undo'[i] = undo[i]
    <3>1. CASE undo' = Append(undo, <<"role">>)
      BY <3>1, MoreSteps, StepForms DEF Typed
    <3>2. CASE undo' = undo
      BY <3>2, SameSteps
    <3> QED
      BY <1>5, <3>1, <3>2 DEF WriteRole
  <2>6. \A h \in Harnesses : Matching(plane[h])' => Matching(plane[h])
    BY <1>5, <2>2, <2>3 DEF WriteRole, Matching
  <2>7. ASSUME ~torn, NEW i \in 1..Len(undo'), IsStep(i, "plane")' PROVE ~Matching(undo[i][3])'
    BY <1>5, <2>2, <2>4, <2>5, <2>7 DEF Sound, Matching, WriteRole
  <2> QED
    BY <2>1, <2>5, <2>6, <2>7 DEF Sound, AtHarness, Mid
<1>6. CASE ReadRoleId
  BY <1>6, SameSteps DEF ReadRoleId, Sound, Matching, AtHarness, Mid
<1>7. ASSUME NEW h \in Harnesses, ReadPlane(h) PROVE Sound'
  <2> PICK g \in Harnesses : g = h /\ plane[g] = plane[h]
    BY <1>7
  <2>1. UNCHANGED <<role, live, torn, roleId, undo, plane>> /\ pc = "planes"
    BY <1>7 DEF ReadPlane
  <2>2. CASE UNCHANGED <<pc, here, seen>> \/ pc' = "unwind"
    BY <2>1, <2>2, SameSteps DEF Sound, Matching, AtHarness, Mid
  <2>3. CASE pc' = "mint" /\ seen' = plane[g] /\ ~Matches(plane[g])
    <3>1. roleId = role /\ role # 0
      BY <2>1 DEF Achieved
    <3>2. ~Matching(plane[g])
      BY <2>3, <3>1 DEF Matches, Matching
    <3> QED
      BY <2>1, <2>3, <3>2, SameSteps DEF Sound, Matching, AtHarness, Mid
  <2> QED
    BY <1>7, <2>2, <2>3 DEF ReadPlane
<1>8. CASE MintSecret
  <2>1. issued' \in Nat
    BY <1>8 DEF MintSecret, Typed
  <2> PICK n \in Nat : n = issued'
    BY <2>1
  <2>2. UNCHANGED <<role, torn, plane, seen>> /\ live' = live \cup {n} /\ pc = "mint"
    BY <1>8 DEF MintSecret
  <2>3. CASE undo' = Append(undo, <<"secret", n>>) /\ pc' = "stage" /\ sid' = n
    BY <2>2, <2>3, MoreSteps, StepForms DEF Sound, Matching, AtHarness, Mid, Typed
  <2>4. CASE undo' = undo /\ pc' = "unwind"
    BY <2>2, <2>4, SameSteps DEF Sound, Matching, AtHarness, Mid
  <2> QED
    BY <1>8, <2>3, <2>4 DEF MintSecret
<1>9. CASE Stage
  BY <1>9, SameSteps DEF Stage, Sound, Matching, AtHarness, Mid
<1>10. CASE MoveAside
  <2>1. here \in Harnesses /\ UNCHANGED <<role, live, torn, sid, seen, undo>>
        /\ pc = "aside" /\ pc' \in {"place", "unwind"}
    BY <1>10 DEF MoveAside, Typed, AtHarness, Mid
  <2>2. \A h \in Harnesses : plane'[h] = plane[h] \/ plane'[h] = NoPlane
    BY <1>10, <2>1 DEF MoveAside, Typed
  <2>3. ~Matching(NoPlane)
    BY DEF Matching
  <2> QED
    BY <2>1, <2>2, <2>3, SameSteps DEF Sound, Matching, AtHarness, Mid
<1>11. CASE Place
  <2>1. PICK h \in Harnesses : h = here
    BY <1>11 DEF Place, Typed, AtHarness, Mid
  <2>2. PICK f \in Files : f = seen
    BY DEF Typed
  <2>3. /\ undo' = Append(undo, <<"plane", h, f>>)
        /\ UNCHANGED <<role, live, torn, sid, seen>> /\ pc = "place" /\ pc' = "stale"
        /\ plane'[h].sid = sid /\ \A g \in Harnesses : g # h => plane'[g] = plane[g]
    BY <1>11, <2>1, <2>2 DEF Place, Typed
  <2>4. /\ \A i : IsStep(i, "plane")' => \/ IsStep(i, "plane") /\ undo'[i] = undo[i] /\ i \in 1..Len(undo)
                                         \/ undo'[i] = <<"plane", h, f>>
    BY <2>3, MoreSteps, StepForms DEF Typed
  <2>5. ~torn => ~Matching(f) /\ sid \in live
    BY <2>2, <2>3 DEF Sound, AtHarness, Mid
  <2>6. \A g : Matching(g)' <=> Matching(g)
    BY <2>3 DEF Matching
  <2>7. ASSUME ~torn, NEW i \in 1..Len(undo'), IsStep(i, "plane")' PROVE ~Matching(undo'[i][3])
    BY <2>4, <2>5, <2>7 DEF Sound
  <2>8. ASSUME ~torn, NEW g \in Harnesses, Matching(plane'[g]) PROVE plane'[g].sid \in live
    BY <2>3, <2>5, <2>8 DEF Sound
  <2> QED
    BY <2>2, <2>3, <2>5, <2>7, <2>8 DEF Sound, Matching, AtHarness, Mid
<1>12. CASE PlaceFails
  BY <1>12 DEF PlaceFails, Sound
<1>13. CASE RevokeStale
  <2>1. /\ UNCHANGED <<role, torn, plane, undo>> /\ pc = "stale" /\ pc' = "planes"
        /\ live \ {seen.sid} \subseteq live'
    BY <1>13 DEF RevokeStale
  <2>2. ASSUME ~torn, NEW h \in Harnesses, Matching(plane[h]) PROVE plane[h].sid \in live'
    <3>1. plane[h].sid \in live /\ plane[h].sid # 0
      BY <2>2 DEF Sound, Typed
    <3>2. here \in Harnesses /\ seen = before.plane[here] /\ ~Matching(seen)
      BY <2>1, <2>2 DEF PlanesBack, Typed, Sound, AtHarness
    <3>3. plane[h].sid # seen.sid
      BY <2>1, <2>2, <3>1, <3>2, Owned
    <3> QED
      BY <2>1, <3>1, <3>3
  <2> QED
    BY <2>1, <2>2, SameSteps DEF Sound, Matching, AtHarness, Mid
<1>14. CASE PlanesDone
  BY <1>14, SameSteps DEF PlanesDone, Sound, Matching, AtHarness, Mid
<1>15. CASE SkipKv
  BY <1>15, NoSteps DEF SkipKv, Over, Sound, Matching, AtHarness, Mid
<1>16. CASE ProbeKv
  BY <1>16, SameSteps DEF ProbeKv, Sound, Matching, AtHarness, Mid
<1>17. CASE WriteKv
  <2>1. CASE undo' = <<>> /\ pc' = "idle"
    BY <1>17, <2>1, NoSteps DEF WriteKv, Sound, Matching, AtHarness, Mid
  <2>2. CASE undo' = undo /\ pc' = "unwind"
    BY <1>17, <2>2, SameSteps DEF WriteKv, Sound, Matching, AtHarness, Mid
  <2> QED
    BY <1>17, <2>1, <2>2 DEF WriteKv, Over
<1>18. CASE Refused
  BY <1>18, SameSteps DEF Refused, Sound, Matching, AtHarness, Mid
<1>19. CASE Unwind
  <2>1. undo' = SubSeq(undo, 1, Len(undo) - 1) /\ undo # <<>> /\ Undone(undo[Len(undo)])
        /\ undo \in Seq(Steps) /\ plane \in [Harnesses -> Files] /\ pc = "unwind" /\ pc' = "unwind"
        /\ torn' = torn
    BY <1>19 DEF Unwind, Typed
  <2> PICK last \in Steps : last = undo[Len(undo)]
    BY <2>1, FewerSteps
  <2>2. /\ \A i, kind : IsStep(i, kind)' => IsStep(i, kind) /\ undo'[i] = undo[i] /\ i \in 1..Len(undo)
        /\ IsStep(Len(undo), last[1]) /\ Len(undo) \in 1..Len(undo)
    BY <2>1, FewerSteps
  <2>3. \/ last[1] = "policy" /\ UNCHANGED <<role, live, plane>>
        \/ role' = 0
        \/ last[1] = "secret" /\ live' = live \ {last[2]} /\ UNCHANGED <<role, plane>>
        \/ /\ last[1] = "plane" /\ last[2] \in Harnesses
           /\ plane' = [plane EXCEPT ![last[2]] = last[3]] /\ UNCHANGED <<role, live>>
    BY <2>1, Undoing, Kinds
  <2>4. CASE role' = 0
    BY <2>1, <2>4 DEF Sound, Matching, AtHarness, Mid
  <2>5. CASE last[1] = "policy" /\ UNCHANGED <<role, live, plane>>
    BY <2>1, <2>2, <2>5 DEF Sound, Matching, AtHarness, Mid
  <2>6. CASE last[1] = "secret" /\ live' = live \ {last[2]} /\ UNCHANGED <<role, plane>>
    <3>1. ASSUME ~torn, NEW h \in Harnesses, Matching(plane[h]) PROVE plane[h].sid \in live'
      <4>1. plane[h].sid \in live /\ plane[h].sid # 0
        BY <3>1 DEF Sound, Typed
      <4>2. plane[h].sid # undo[Len(undo)][2]
        BY <2>1, <2>2, <2>6, <3>1, <4>1, SecretLast
      <4> QED
        BY <2>6, <4>1, <4>2
    <3> QED
      BY <2>1, <2>2, <2>6, <3>1 DEF Sound, Matching, AtHarness, Mid
  <2>7. CASE /\ last[1] = "plane" /\ last[2] \in Harnesses
             /\ plane' = [plane EXCEPT ![last[2]] = last[3]] /\ UNCHANGED <<role, live>>
    <3>1. \A h \in Harnesses : plane'[h] = plane[h] \/ plane'[h] = last[3]
      BY <2>1, <2>7
    <3>2. ~torn => ~Matching(last[3])
      BY <2>2, <2>7 DEF Sound
    <3> QED
      BY <2>1, <2>2, <2>7, <3>1, <3>2 DEF Sound, Matching, AtHarness, Mid
  <2> QED
    BY <2>3, <2>4, <2>5, <2>6, <2>7
<1>20. CASE UnwindFails
  <2>1. undo' = SubSeq(undo, 1, Len(undo) - 1) /\ undo # <<>>
        /\ undo \in Seq(Steps) /\ pc = "unwind" /\ pc' = "unwind" /\ (torn => torn')
    BY <1>20 DEF UnwindFails, Typed
  <2> PICK last \in Steps : last = undo[Len(undo)]
    BY <2>1, FewerSteps
  <2>2. /\ \A i, kind : IsStep(i, kind)' => IsStep(i, kind) /\ undo'[i] = undo[i] /\ i \in 1..Len(undo)
        /\ IsStep(Len(undo), last[1])
    BY <2>1, FewerSteps
  <2>3. ~torn' => \/ UNCHANGED <<role, live, plane>>
                  \/ role' = 0
                  \/ last[1] = "secret" /\ live' = live \ {last[2]} /\ UNCHANGED <<role, plane>>
    BY <1>20, Undoing DEF UnwindFails
  <2>4. CASE role' = 0 \/ torn'
    BY <2>1, <2>4 DEF Sound, Matching, AtHarness, Mid
  <2>5. CASE UNCHANGED <<role, live, plane>>
    BY <2>1, <2>2, <2>5 DEF Sound, Matching, AtHarness, Mid
  <2>6. CASE last[1] = "secret" /\ live' = live \ {last[2]} /\ UNCHANGED <<role, plane>>
    <3>1. ASSUME ~torn, NEW h \in Harnesses, Matching(plane[h]) PROVE plane[h].sid \in live'
      <4>1. plane[h].sid \in live /\ plane[h].sid # 0
        BY <3>1 DEF Sound, Typed
      <4>2. plane[h].sid # undo[Len(undo)][2]
        BY <2>1, <2>2, <2>6, <3>1, <4>1, SecretLast
      <4> QED
        BY <2>6, <4>1, <4>2
    <3> QED
      BY <2>1, <2>2, <2>6, <3>1 DEF Sound, Matching, AtHarness, Mid
  <2> QED
    BY <2>3, <2>4, <2>5, <2>6
<1>21. CASE EndFailed
  BY <1>21, NoSteps DEF EndFailed, Over, Sound, Matching, AtHarness, Mid
<1>22. CASE Kill
  BY <1>22, NoSteps DEF Kill, Over, Sound, Matching, AtHarness, Mid
<1>23. CASE StoreTheirs
  BY <1>23, SameSteps DEF StoreTheirs, Sound, Matching, AtHarness, Mid
<1>24. ASSUME NEW h \in Harnesses, Loosen(h) PROVE Sound'
  <2>1. \A g \in Harnesses : plane'[g] = plane[g] \/ ~plane'[g].right
    BY <1>24 DEF Loosen, Typed, Files
  <2> QED
    BY <1>24, <2>1, SameSteps DEF Loosen, Sound, Matching, AtHarness, Mid
<1>25. CASE UNCHANGED vars
  BY <1>25, SameSteps DEF vars, Sound, Matching, AtHarness, Mid
<1> QED
  BY <1>1, <1>2, <1>3, <1>4, <1>5, <1>6, <1>7, <1>8, <1>9, <1>10, <1>11, <1>12, <1>13,
     <1>14, <1>15, <1>16, <1>17, <1>18, <1>19, <1>20, <1>21, <1>22, <1>23, <1>24, <1>25 DEF Next
\* What the run has achieved when it comes to the value.
LEMMA ReadyToUse ==
    ASSUME Achieved, Sound, ~torn, pc \in {"kv", "kvWrite"}
    PROVE  /\ policy = "ours" /\ role # 0 /\ bound
           /\ \A h \in Harnesses : plane[h].role = role /\ plane[h].sid \in live
  BY DEF Achieved, Sound, Places, Matching

\* What a run that succeeded has left.
LEMMA NextUsable ==
    ASSUME Typed, Achieved, Sound, SuccessIsUsable, [Next]_vars
    PROVE  SuccessIsUsable'
<1> USE DEF vault, work, history, Fail
<1>1. CASE Begin
  BY <1>1 DEF Begin, SuccessIsUsable
<1>2. CASE ProbePolicy
  BY <1>2 DEF ProbePolicy, SuccessIsUsable
<1>3. CASE WritePolicy
  BY <1>3 DEF WritePolicy, SuccessIsUsable
<1>4. CASE ProbeRole
  BY <1>4 DEF ProbeRole, SuccessIsUsable
<1>5. CASE WriteRole
  BY <1>5 DEF WriteRole, SuccessIsUsable
<1>6. CASE ReadRoleId
  BY <1>6 DEF ReadRoleId, SuccessIsUsable
<1>7. ASSUME NEW h \in Harnesses, ReadPlane(h) PROVE SuccessIsUsable'
  BY <1>7 DEF ReadPlane, SuccessIsUsable
<1>8. CASE MintSecret
  BY <1>8 DEF MintSecret, SuccessIsUsable
<1>9. CASE Stage
  BY <1>9 DEF Stage, SuccessIsUsable
<1>10. CASE MoveAside
  BY <1>10 DEF MoveAside, SuccessIsUsable
<1>11. CASE Place
  BY <1>11 DEF Place, SuccessIsUsable
<1>12. CASE PlaceFails
  BY <1>12 DEF PlaceFails, SuccessIsUsable
<1>13. CASE RevokeStale
  BY <1>13 DEF RevokeStale, SuccessIsUsable
<1>14. CASE PlanesDone
  BY <1>14 DEF PlanesDone, SuccessIsUsable
<1>15. CASE SkipKv
  <2>1. pc = "kv" /\ UNCHANGED <<policy, role, bound, live, plane, torn>>
    BY <1>15 DEF SkipKv
  <2> QED
    BY <2>1, ReadyToUse DEF SuccessIsUsable
<1>16. CASE ProbeKv
  BY <1>16 DEF ProbeKv, SuccessIsUsable
<1>17. CASE WriteKv
  <2>1. pc = "kvWrite" /\ UNCHANGED <<policy, role, bound, live, plane, torn>>
    BY <1>17 DEF WriteKv
  <2> QED
    BY <2>1, ReadyToUse DEF SuccessIsUsable
<1>18. CASE Refused
  BY <1>18 DEF Refused, SuccessIsUsable
<1>19. CASE Unwind
  BY <1>19 DEF Unwind, SuccessIsUsable
<1>20. CASE UnwindFails
  BY <1>20 DEF UnwindFails, SuccessIsUsable
<1>21. CASE EndFailed
  BY <1>21 DEF EndFailed, Over, SuccessIsUsable
<1>22. CASE Kill
  BY <1>22 DEF Kill, Over, SuccessIsUsable
<1>23. CASE StoreTheirs
  BY <1>23 DEF StoreTheirs, SuccessIsUsable
<1>24. ASSUME NEW h \in Harnesses, Loosen(h) PROVE SuccessIsUsable'
  <2>1. \A g \in Harnesses : plane'[g].role = plane[g].role /\ plane'[g].sid = plane[g].sid
    BY <1>24 DEF Loosen, Typed, Files
  <2> QED
    BY <1>24, <2>1 DEF Loosen, SuccessIsUsable
<1>25. CASE UNCHANGED vars
  BY <1>25 DEF vars, SuccessIsUsable
<1> QED
  BY <1>1, <1>2, <1>3, <1>4, <1>5, <1>6, <1>7, <1>8, <1>9, <1>10, <1>11, <1>12, <1>13,
     <1>14, <1>15, <1>16, <1>17, <1>18, <1>19, <1>20, <1>21, <1>22, <1>23, <1>24, <1>25 DEF Next
\* To begin with.
LEMMA InitUsable == Init => Known /\ Apart /\ Sound /\ Achieved /\ SuccessIsUsable
<1> SUFFICES ASSUME Init PROVE Known /\ Apart /\ Sound /\ Achieved /\ SuccessIsUsable
  OBVIOUS
<1>1. IsFiniteSet(Harnesses)
  BY OnboardingAssumption
<1>2. PICK given \in SUBSET Harnesses, right \in BOOLEAN :
        \E number \in [given -> 1..Cardinality(given)] :
            /\ \A g, h \in given : number[g] = number[h] => g = h
            /\ plane = [h \in Harnesses |->
                          IF h \in given THEN [role |-> 1, sid |-> number[h], right |-> right]
                          ELSE NoPlane]
            /\ issued = Cardinality(given)
            /\ live = IF role = 0 THEN {} ELSE 1..Cardinality(given)
  BY DEF Init
<1>3. PICK number \in [given -> 1..Cardinality(given)] :
        /\ \A g, h \in given : number[g] = number[h] => g = h
        /\ \A h \in Harnesses :
              \/ h \in given /\ plane[h] = [role |-> 1, sid |-> number[h], right |-> right]
              \/ h \notin given /\ plane[h] = NoPlane
  BY <1>2
<1>4. Cardinality(given) \in Nat
  BY <1>1, FS_Subset, FS_CardinalityType
<1>5. roles = 1 /\ roleId = 0 /\ sid = 0 /\ seen = NoPlane /\ undo = <<>> /\ pc = "idle"
      /\ result = "none" /\ role \in {0, 1}
  BY DEF Init
<1>6. \A i : ~IsStep(i, "secret") /\ ~IsStep(i, "plane") /\ i \notin 1..Len(undo)
  BY <1>5 DEF IsStep
<1>7. Known
  BY <1>2, <1>3, <1>4, <1>5, <1>6 DEF Known, NoPlane
<1>8. Apart
  <2>1. \A h \in Harnesses : \/ h \in given /\ plane[h].sid = number[h]
                             \/ plane[h].sid = 0
    <3> SUFFICES ASSUME NEW h \in Harnesses
                 PROVE  (h \in given /\ plane[h].sid = number[h]) \/ plane[h].sid = 0
      OBVIOUS
    <3>1. CASE h \in given /\ plane[h] = [role |-> 1, sid |-> number[h], right |-> right]
      BY <3>1
    <3>2. CASE h \notin given /\ plane[h] = NoPlane
      BY <3>2 DEF NoPlane
    <3> QED
      BY <1>3, <3>1, <3>2
  <2>2. Differ(plane)
    BY <1>3, <2>1 DEF Differ
  <2> QED
    BY <1>5, <2>2 DEF Apart
<1>9. Sound
  BY <1>2, <1>3, <1>5, <1>6 DEF Sound, Matching, NoPlane, AtHarness, Mid
<1>10. Achieved /\ SuccessIsUsable
  BY <1>5 DEF Achieved, SuccessIsUsable, AtHarness, Mid
<1> QED
  BY <1>7, <1>8, <1>9, <1>10

(* After a run that succeeded, every harness has a plane file that names    *)
(* the AppRole there is and a SecretID that works, whatever earlier runs    *)
(* failed or were killed half way (apply_onboard).                          *)
THEOREM SuccessMeansUsable == Spec => []SuccessIsUsable
<1> DEFINE Inv == /\ Typed /\ Known /\ Stacked /\ Paired /\ PlanesBack
                  /\ Apart /\ Achieved /\ Sound /\ SuccessIsUsable
<1>1. Init => Inv
  <2>1. Init => Paired
    BY DEF Init, Paired
  <2> QED
    BY <2>1, InitTyped, InitRest, InitUsable
<1>2. Inv /\ [Next]_vars => Inv'
  BY NextTyped, NextKnown, NextStacked, NextPaired, NextPlanesBack, NextApart,
     NextAchieved, NextSound, NextUsable
<1>3. Inv => SuccessIsUsable
  OBVIOUS
<1> QED
  BY <1>1, <1>2, <1>3, PTL DEF Spec

-----------------------------------------------------------------------------
(* Types and bounds. *)

\* A run makes one AppRole at most, and one SecretID for each harness: those it may
\* still make are set aside from the runs there have been.
Counted ==
    /\ runs \in 0..MaxRuns
    /\ roles + (IF pc \in {"policy", "policyWrite", "role", "roleWrite"} THEN 1 ELSE 0)
            <= runs + 1
    /\ issued + Cardinality(todo) + (IF pc = "mint" THEN 1 ELSE 0)
            <= Cardinality(Harnesses) * (runs + 1)

\* A plane file names an AppRole and a SecretID, or is not there.
IsPlane(file) == file = NoPlane \/ (file.role # 0 /\ file.sid # 0)

Whole ==
    /\ \A h \in Harnesses : IsPlane(plane[h])
    /\ IsPlane(seen)
    /\ \A i \in 1..Len(undo) : IsStep(i, "plane") => IsPlane(undo[i][3])
    /\ pc \in AtHarness \cup {"planes"} => roleId # 0
    /\ pc \in {"stage", "aside", "place"} => sid # 0

\* What a run may have found when it began.
Finds ==
    [policy : {"none", "ours", "other"}, role : 0..MaxIds, clean : BOOLEAN,
     live : SUBSET SecretIds, plane : [Harnesses -> Planes]]

\* What else a run keeps, in its types.
Others ==
    /\ policy \in {"none", "ours", "other"} /\ bound \in BOOLEAN
    /\ kv \in {"empty", "ours", "theirs"}
    /\ probe \in {"none", "absent", "same", "differs", "unknown"}
    /\ here \in Harnesses \cup {NoHarness}
    /\ values \in BOOLEAN
    /\ result \in {"none", "ok", "failed", "killed"}
    /\ left \in BOOLEAN /\ torn \in BOOLEAN
    /\ stray \subseteq 1..issued
    /\ before \in Finds
    /\ blind \subseteq {"policy", "role"}

\* The bound on the numbers given out covers every run.
LEMMA Ample ==
    ASSUME NEW m \in Nat, NEW c \in Nat, NEW r \in 0..m
    PROVE  c * (r + 1) <= (m + 1) * (c + 1) /\ r + 1 <= (m + 1) * (c + 1)
<1>1. c * (r + 1) <= c * (m + 1)
  OBVIOUS
<1>2. (m + 1) * (c + 1) = c * (m + 1) + (m + 1) /\ c * (m + 1) \in Nat
  OBVIOUS
<1> QED
  BY <1>1, <1>2

\* What is counted stays within the bound.
LEMMA WithinIds ==
    ASSUME Typed, Counted
    PROVE  MaxIds \in Nat /\ roles <= MaxIds /\ issued <= MaxIds
<1> PICK c : c = Cardinality(Harnesses)
  OBVIOUS
<1>1. c \in Nat /\ MaxRuns \in Nat
  BY OnboardingAssumption, FS_CardinalityType
<1>2. Cardinality(todo) \in Nat
  BY OnboardingAssumption, FS_Subset, FS_CardinalityType DEF Typed
<1>3. MaxIds = (MaxRuns + 1) * (c + 1) /\ MaxIds \in Nat
  BY <1>1 DEF MaxIds
<1>4. c * (runs + 1) <= MaxIds /\ runs + 1 <= MaxIds
  BY <1>1, <1>3, Ample DEF Counted
<1>5. /\ issued \in Nat /\ roles \in Nat /\ runs \in Nat
      /\ roles <= runs + 1 /\ issued <= c * (runs + 1) /\ c * (runs + 1) \in Nat
  <2>1. c * (runs + 1) \in Nat /\ runs \in Nat
    BY <1>1 DEF Counted
  <2>2. issued + Cardinality(todo) + (IF pc = "mint" THEN 1 ELSE 0) <= c * (runs + 1)
    BY DEF Counted
  <2> QED
    BY <1>2, <2>1, <2>2 DEF Typed, Counted
<1> QED
  BY ONLY <1>3, <1>4, <1>5

\* A harness less to do.
LEMMA OneLess ==
    ASSUME NEW h, todo \subseteq Harnesses, h \in todo
    PROVE  Cardinality(todo \ {h}) = Cardinality(todo) - 1
  BY OnboardingAssumption, FS_Subset, FS_RemoveElement

\* What is counted is never more than there are runs for.
LEMMA NextCounted ==
    ASSUME Typed, Counted, [Next]_vars
    PROVE  Counted'
<1> PICK c : c = Cardinality(Harnesses)
  OBVIOUS
<1>0. /\ c \in Nat /\ MaxRuns \in Nat
      /\ Cardinality(todo) \in Nat /\ runs \in Nat /\ roles \in Nat /\ issued \in Nat
      /\ c * (runs + 1) \in Nat
  <2>1. c \in Nat /\ MaxRuns \in Nat
    BY OnboardingAssumption, FS_CardinalityType
  <2>2. Cardinality(todo) \in Nat
    BY OnboardingAssumption, FS_Subset, FS_CardinalityType DEF Typed
  <2> QED
    BY <2>1, <2>2 DEF Typed, Counted
<1>1. CASE Begin
  <2>1. /\ runs' = runs + 1 /\ runs' \in 0..MaxRuns /\ pc' = "policy"
        /\ roles' = roles /\ issued' = issued /\ todo' = Harnesses
    BY <1>0, <1>1 DEF Begin, Counted, vault
  <2>2. c * (runs + 1 + 1) = c * (runs + 1) + c
    BY <1>0
  <2>3. issued <= c * (runs + 1) /\ roles <= runs + 1
    BY <1>0 DEF Counted
  <2>4. issued + c <= c * (runs + 1 + 1)
    BY <1>0, <2>2, <2>3
  <2> QED
    BY <1>0, <2>1, <2>3, <2>4 DEF Counted
<1>2. CASE WriteRole
  BY <1>0, <1>2 DEF WriteRole, Counted, work, Fail
<1>3. ASSUME NEW h \in Harnesses, ReadPlane(h) PROVE Counted'
  <2>1. /\ pc = "planes" /\ pc' \in {"planes", "mint", "unwind"}
        /\ Cardinality(todo') = Cardinality(todo) - 1
        /\ runs' = runs /\ roles' = roles /\ issued' = issued
    BY <1>3, OneLess DEF ReadPlane, Typed, vault, history, Fail
  <2> QED
    BY <1>0, <2>1 DEF Counted
<1>4. CASE MintSecret
  <2>1. /\ pc = "mint" /\ pc' \in {"stage", "unwind"} /\ issued' = issued + 1
        /\ runs' = runs /\ roles' = roles /\ todo' = todo
    BY <1>4 DEF MintSecret, Fail
  <2> QED
    BY <1>0, <2>1 DEF Counted
<1>5. ASSUME UNCHANGED <<roles, issued, runs>>, todo' = todo \/ todo' = {},
             pc' # "mint",
             pc' \in {"policy", "policyWrite", "role", "roleWrite"} =>
                pc \in {"policy", "policyWrite", "role", "roleWrite"}
      PROVE  Counted'
  <2>1. Cardinality(todo') \in Nat /\ Cardinality(todo') <= Cardinality(todo)
    <3>1. Cardinality({}) = 0
      BY FS_EmptySet
    <3>2. CASE todo' = todo
      BY <1>0, <3>2
    <3>3. CASE todo' = {}
      BY <1>0, <3>1, <3>3
    <3> QED
      BY <1>5, <3>2, <3>3
  <2> QED
    BY <1>0, <1>5, <2>1 DEF Counted
<1>6. CASE UNCHANGED vars
  BY <1>6 DEF vars, vault, work, history, Counted
<1>7. CASE \/ ProbePolicy \/ WritePolicy \/ ProbeRole \/ ReadRoleId \/ Stage \/ MoveAside
           \/ Place \/ PlaceFails \/ RevokeStale \/ PlanesDone \/ SkipKv \/ ProbeKv \/ WriteKv
           \/ Refused \/ Unwind \/ UnwindFails \/ EndFailed \/ Kill \/ StoreTheirs
           \/ \E h \in Harnesses : Loosen(h)
  <2> USE DEF vault, work, history, Fail
  <2>1. UNCHANGED <<roles, issued, runs>> /\ (todo' = todo \/ todo' = {})
    BY <1>7 DEF ProbePolicy, WritePolicy, ProbeRole, ReadRoleId, Stage, MoveAside, Place,
           PlaceFails, RevokeStale, Leave, PlanesDone, SkipKv, ProbeKv, WriteKv, Over, Refused,
           Unwind, UnwindFails, EndFailed, Kill, StoreTheirs, Loosen
  <2>2. /\ pc' # "mint"
        /\ pc' \in {"policy", "policyWrite", "role", "roleWrite"} =>
                pc \in {"policy", "policyWrite", "role", "roleWrite"}
    BY <1>7 DEF ProbePolicy, WritePolicy, ProbeRole, ReadRoleId, Stage, MoveAside, Place,
           PlaceFails, RevokeStale, Leave, PlanesDone, SkipKv, ProbeKv, WriteKv, Over, Refused,
           Unwind, UnwindFails, EndFailed, Kill, StoreTheirs, Loosen
  <2> QED
    BY <1>5, <2>1, <2>2
<1> QED
  BY <1>1, <1>2, <1>3, <1>4, <1>6, <1>7 DEF Next

\* A plane file, whatever it is made from.
LEMMA PlaneOf ==
    ASSUME NEW r, NEW s, NEW b, r # 0, s # 0
    PROVE  IsPlane([role |-> r, sid |-> s, right |-> b])
  BY DEF IsPlane

\* A plane file names what it should, or is not there.
LEMMA NextWhole ==
    ASSUME Typed, Whole, [Next]_vars
    PROVE  Whole'
<1> USE DEF Whole, vault, work, history, Fail, Mid, AtHarness
<1>0. IsPlane(NoPlane)
  BY DEF IsPlane
<1>1. CASE Begin
  BY <1>1, SameSteps, NoSteps DEF Begin, Typed
<1>2. CASE ProbePolicy
  BY <1>2, SameSteps, NoSteps DEF ProbePolicy
<1>3. CASE WritePolicy
  <2>1. CASE undo' = Append(undo, <<"policy">>)
    BY <1>3, <2>1, MoreSteps, StepForms DEF WritePolicy, Typed
  <2>2. CASE undo' = undo
    BY <1>3, <2>2, SameSteps DEF WritePolicy
  <2> QED
    BY <1>3, <2>1, <2>2 DEF WritePolicy
<1>4. CASE ProbeRole
  BY <1>4, SameSteps, NoSteps DEF ProbeRole
<1>5. CASE WriteRole
  <2>2. CASE undo' = Append(undo, <<"role">>)
    BY <1>5, <2>2, MoreSteps, StepForms DEF WriteRole, Typed
  <2>3. CASE undo' = undo
    BY <1>5, <2>3, SameSteps DEF WriteRole
  <2> QED
    BY <1>5, <2>2, <2>3 DEF WriteRole
<1>6. CASE ReadRoleId
  BY <1>6, SameSteps, NoSteps DEF ReadRoleId, Typed
<1>7. ASSUME NEW h \in Harnesses, ReadPlane(h) PROVE Whole'
  BY <1>7, SameSteps DEF ReadPlane
<1>8. CASE MintSecret
  <2>1. issued' \in Nat /\ issued' # 0
    BY <1>8 DEF MintSecret, Typed
  <2>2. CASE undo' = Append(undo, <<"secret", issued'>>)
    BY <1>8, <2>1, <2>2, MoreSteps, StepForms DEF MintSecret, Typed
  <2>3. CASE undo' = undo
    BY <1>8, <2>1, <2>3, SameSteps DEF MintSecret
  <2> QED
    BY <1>8, <2>2, <2>3 DEF MintSecret
<1>9. CASE Stage
  BY <1>9, SameSteps DEF Stage
<1>10. CASE MoveAside
  <2>1. \A h \in Harnesses : plane'[h] = plane[h] \/ plane'[h] = NoPlane
    BY <1>10 DEF MoveAside, Typed
  <2> QED
    BY <1>0, <1>10, <2>1, SameSteps DEF MoveAside
<1>11. CASE Place
  <2>1. /\ here \in Harnesses /\ seen \in Files /\ roleId # 0 /\ sid # 0
        /\ undo' = Append(undo, <<"plane", here, seen>>)
    BY <1>11 DEF Place, Typed
  <2>2. \A h \in Harnesses : plane'[h] = plane[h]
                \/ plane'[h] = [role |-> roleId, sid |-> sid, right |-> TRUE]
    BY <1>11 DEF Place, Typed
  <2>3. \A h \in Harnesses : IsPlane(plane'[h])
    BY <2>1, <2>2, PlaneOf
  <2>4. \A i \in 1..Len(undo') : (undo'[i][1] = "plane") => IsPlane(undo'[i][3])
    BY <2>1, MoreSteps, StepForms DEF Typed, IsStep
  <2> QED
    BY <1>11, <2>3, <2>4 DEF Place, IsStep
<1>12. CASE PlaceFails
  <2>1. roleId # 0 /\ sid # 0
    BY <1>12 DEF PlaceFails
  <2>2. \A h \in Harnesses : plane'[h] = plane[h]
                \/ plane'[h] = [role |-> roleId, sid |-> sid, right |-> TRUE]
    BY <1>12 DEF PlaceFails, Typed
  <2>3. \A h \in Harnesses : IsPlane(plane'[h])
    BY <2>1, <2>2, PlaneOf
  <2> QED
    BY <1>12, <2>3, SameSteps DEF PlaceFails
<1>13. CASE RevokeStale
  BY <1>0, <1>13, SameSteps DEF RevokeStale, Leave
<1>14. CASE PlanesDone
  BY <1>14, SameSteps DEF PlanesDone
<1>15. CASE Over("ok") /\ UNCHANGED plane
  BY <1>0, <1>15, NoSteps DEF Over, Leave
<1>16. CASE ProbeKv
  BY <1>16, SameSteps DEF ProbeKv
<1>17. CASE WriteKv
  <2>1. CASE Fail /\ UNCHANGED <<work, undo, before, result, left, stray, blind>>
    BY <1>17, <2>1, SameSteps DEF WriteKv
  <2> QED
    BY <1>15, <1>17, <2>1 DEF WriteKv
<1>18. CASE Refused
  BY <1>18, SameSteps DEF Refused
<1>19. CASE Unwind \/ UnwindFails
  <2>1. /\ undo \in Seq(Steps) /\ undo # <<>>
        /\ undo' = SubSeq(undo, 1, Len(undo) - 1)
        /\ pc = "unwind" /\ pc' = "unwind" /\ UNCHANGED <<roleId, sid, seen>>
    BY <1>19 DEF Unwind, UnwindFails, Typed
  <2>2. \A h \in Harnesses : IsPlane(plane'[h])
    <3>1. CASE UNCHANGED plane
      BY <3>1
    <3>2. CASE Undone(undo[Len(undo)])
      <4>1. Len(undo) \in 1..Len(undo) /\ undo[Len(undo)] \in Steps
        BY <2>1, Pops
      <4> PICK k \in 1..Len(undo) : k = Len(undo)
        BY <4>1
      <4> PICK step \in Steps : step = undo[k]
        BY <4>1
      <4>2. CASE step[1] = "plane" /\ plane' = [plane EXCEPT ![step[2]] = step[3]]
        <5>1. IsPlane(step[3])
          BY <4>2 DEF IsStep
        <5>2. \A h \in Harnesses : plane'[h] = plane[h] \/ plane'[h] = step[3]
          BY <4>2 DEF Typed
        <5> QED
          BY <5>1, <5>2
      <4>3. CASE UNCHANGED plane
        BY <4>3
      <4> QED
        BY <3>2, <4>2, <4>3, Undoing
    <3> QED
      BY <1>19, <3>1, <3>2 DEF Unwind, UnwindFails
  <2>3. \A i \in 1..Len(undo') : (undo'[i][1] = "plane") => IsPlane(undo'[i][3])
    BY <2>1, Pops DEF IsStep
  <2> QED
    BY <2>1, <2>2, <2>3 DEF IsStep
<1>20. CASE EndFailed
  BY <1>0, <1>20, NoSteps DEF EndFailed, Over, Leave
<1>21. CASE Kill
  BY <1>0, <1>21, NoSteps DEF Kill, Over, Leave
<1>22. CASE StoreTheirs
  BY <1>22, SameSteps DEF StoreTheirs
<1>23. ASSUME NEW h \in Harnesses, Loosen(h) PROVE Whole'
  <2>1. \A g \in Harnesses : plane'[g] = plane[g]
            \/ (plane'[g].role = plane[g].role /\ plane'[g].sid = plane[g].sid
                /\ plane[g] # NoPlane)
    BY <1>23 DEF Loosen, Typed, Files
  <2>2. \A g \in Harnesses : IsPlane(plane'[g])
    BY <2>1 DEF IsPlane
  <2> QED
    BY <1>23, <2>2, SameSteps DEF Loosen
<1>24. CASE UNCHANGED vars
  BY <1>24, SameSteps DEF vars
<1>25. SkipKv => Over("ok") /\ UNCHANGED plane
  BY DEF SkipKv
<1> QED
  BY <1>1, <1>2, <1>3, <1>4, <1>5, <1>6, <1>7, <1>8, <1>9, <1>10, <1>11, <1>12, <1>13,
     <1>14, <1>15, <1>16, <1>17, <1>18, <1>19, <1>20, <1>21, <1>22, <1>23, <1>24, <1>25 DEF Next

\* The numbers given out are those the types allow.
LEMMA FilesFit ==
    ASSUME Typed, Known, Counted, Whole
    PROVE  /\ plane \in [Harnesses -> Planes] /\ seen \in Planes
           /\ role \in 0..MaxIds /\ roles \in 0..MaxIds /\ roleId \in 0..MaxIds
           /\ issued \in 0..MaxIds /\ sid \in 0..MaxIds /\ live \subseteq SecretIds
           /\ 1..issued \subseteq SecretIds
           /\ \A i \in 1..Len(undo) : undo[i] \in UndoSteps
<1>1. MaxIds \in Nat /\ roles <= MaxIds /\ issued <= MaxIds
  BY WithinIds
<1>2. roles \in Nat /\ issued \in Nat
  BY DEF Typed
<1>3. 1..issued \subseteq SecretIds
  BY <1>1, <1>2 DEF SecretIds
<1>4. ASSUME NEW f \in Files, IsPlane(f), f.role <= roles, f.sid <= issued
      PROVE  f \in Planes
  <2>1. f.role # 0 /\ f.sid # 0 => f.role \in RoleIds /\ f.sid \in SecretIds
    BY <1>1, <1>2, <1>4 DEF Files, RoleIds, SecretIds
  <2> QED
    BY <1>4, <2>1 DEF Files, IsPlane, Planes
<1>5. \A h \in Harnesses : plane[h] \in Planes
  BY <1>4 DEF Typed, Known, Whole
<1>6. plane \in [Harnesses -> Planes] /\ seen \in Planes
  BY <1>4, <1>5 DEF Typed, Known, Whole
<1>7. ASSUME NEW i \in 1..Len(undo) PROVE undo[i] \in UndoSteps
  <2> PICK step \in Steps : step = undo[i]
    BY DEF Typed
  <2>1. CASE step = <<"policy">> \/ step = <<"role">>
    BY <2>1 DEF UndoSteps
  <2>2. CASE step[1] = "secret"
    <3>1. step[2] \in 1..issued /\ step = <<"secret", step[2]>>
      BY <2>2, StepKinds DEF Known, IsStep, Typed
    <3>2. \A s \in SecretIds : <<"secret", s>> \in {"secret"} \X SecretIds
      OBVIOUS
    <3>3. step \in {"secret"} \X SecretIds
      BY <1>3, <3>1, <3>2
    <3> QED
      BY <3>3 DEF UndoSteps
  <2>3. CASE step[1] = "plane"
    <3>1. /\ step[2] \in Harnesses /\ step[3] \in Files /\ IsPlane(step[3])
          /\ step[3].role <= roles /\ step[3].sid <= issued
      BY <2>3, StepKinds DEF Known, Whole, IsStep, Typed
    <3>2. step[3] \in Planes
      BY <1>4, <3>1
    <3>3. step \in {"plane"} \X Harnesses \X Planes
      BY <2>3, <3>1, <3>2 DEF Steps
    <3> QED
      BY <3>3 DEF UndoSteps
  <2> QED
    BY <2>1, <2>2, <2>3, Kinds
<1> QED
  BY <1>1, <1>2, <1>3, <1>6, <1>7 DEF Typed, Known, SecretIds

\* The rest of what a run keeps.
LEMMA NextOthers ==
    ASSUME Typed, Known, Counted, Whole, Others, [Next]_vars
    PROVE  Others'
<1> USE DEF Others, vault, work, history, Fail
<1>0. Nothing \in Finds
  <2>1. MaxIds \in Nat
    BY WithinIds
  <2>2. [h \in Harnesses |-> NoPlane] \in [Harnesses -> Planes]
    BY DEF Planes
  <2> QED
    BY <2>1, <2>2 DEF Nothing, Finds
<1>1. CASE Begin
  <2>1. Snapshot \in Finds
    <3>1. /\ policy \in {"none", "ours", "other"} /\ role \in 0..MaxIds
          /\ live \subseteq SecretIds /\ plane \in [Harnesses -> Planes]
      BY FilesFit
    <3>2. CheckClean \in BOOLEAN
      BY DEF CheckClean
    <3> QED
      BY <3>1, <3>2 DEF Snapshot, Finds
  <2> QED
    BY <1>1, <2>1 DEF Begin
<1>2. CASE ProbePolicy
  BY <1>2 DEF ProbePolicy, Sees
<1>3. CASE WritePolicy
  BY <1>3 DEF WritePolicy
<1>4. CASE ProbeRole
  BY <1>4 DEF ProbeRole, Sees
<1>5. CASE WriteRole
  BY <1>5, ZenonT(60) DEF WriteRole
<1>6. CASE ReadRoleId
  BY <1>6 DEF ReadRoleId
<1>7. ASSUME NEW h \in Harnesses, ReadPlane(h) PROVE Others'
  BY <1>7 DEF ReadPlane
<1>8. CASE MintSecret
  <2>1. stray' \subseteq 1..issued'
    <3>1. issued' = issued + 1 /\ stray' \subseteq stray \cup {issued'} /\ issued \in Nat
      BY <1>8 DEF MintSecret, Typed
    <3>2. 1..issued \subseteq 1..(issued + 1) /\ issued + 1 \in 1..(issued + 1)
      BY <3>1
    <3> QED
      BY <3>1, <3>2
  <2> QED
    BY <1>8, <2>1 DEF MintSecret
<1>9. CASE Stage
  BY <1>9 DEF Stage
<1>10. CASE MoveAside
  BY <1>10 DEF MoveAside
<1>11. CASE Place
  BY <1>11 DEF Place
<1>12. CASE PlaceFails
  BY <1>12 DEF PlaceFails
<1>13. CASE RevokeStale
  BY <1>13, ZenonT(60) DEF RevokeStale, Leave, Typed
<1>14. CASE PlanesDone
  BY <1>14 DEF PlanesDone
<1>15. ASSUME NEW how \in {"ok", "failed", "killed"}, Over(how),
              UNCHANGED <<policy, bound, live, issued, torn>>, kv' \in {"empty", "ours", "theirs"}
       PROVE  Others'
  BY <1>0, <1>15 DEF Over, Leave, Typed
<1>16. CASE ProbeKv
  BY <1>16 DEF ProbeKv
<1>17. CASE WriteKv
  <2>1. CASE Fail /\ UNCHANGED <<work, undo, before, result, left, stray, blind>>
    BY <1>17, <2>1 DEF WriteKv
  <2> QED
    BY <1>15, <1>17, <2>1 DEF WriteKv
<1>18. CASE Refused
  BY <1>18 DEF Refused
<1>19. CASE Unwind
  <2>1. undo[Len(undo)] \in Steps
    BY <1>19, Pops DEF Unwind, Typed
  <2>2. policy' \in {"none", "ours", "other"}
    BY <1>19, <2>1, Undoing DEF Unwind
  <2> QED
    BY <1>19, <2>2 DEF Unwind
<1>20. CASE UnwindFails
  <2>1. undo[Len(undo)] \in Steps
    BY <1>20, Pops DEF UnwindFails, Typed
  <2>2. policy' \in {"none", "ours", "other"}
    BY <1>20, <2>1, Undoing DEF UnwindFails
  <2>3. live' \subseteq 1..issued
    BY <1>20, <2>1, UndoneTyped DEF UnwindFails, Typed
  <2>4. stray' \subseteq 1..issued
    BY <1>20, <2>3 DEF UnwindFails
  <2> QED
    BY <1>20, <2>2, <2>4 DEF UnwindFails
<1>21. CASE EndFailed
  BY <1>15, <1>21 DEF EndFailed
<1>22. CASE Kill
  BY <1>15, <1>22 DEF Kill
<1>23. CASE StoreTheirs
  BY <1>23 DEF StoreTheirs
<1>24. ASSUME NEW h \in Harnesses, Loosen(h) PROVE Others'
  BY <1>24 DEF Loosen
<1>25. CASE UNCHANGED vars
  BY <1>25 DEF vars
<1>26. CASE SkipKv
  BY <1>15, <1>26 DEF SkipKv
<1> QED
  BY <1>1, <1>2, <1>3, <1>4, <1>5, <1>6, <1>7, <1>8, <1>9, <1>10, <1>11, <1>12, <1>13,
     <1>14, <1>16, <1>17, <1>18, <1>19, <1>20, <1>21, <1>22, <1>23, <1>24, <1>25, <1>26
     DEF Next

\* What there was before the first run is within the bounds.
LEMMA InitFits == Init => Counted /\ Whole /\ Others
<1> SUFFICES ASSUME Init PROVE Counted /\ Whole /\ Others
  OBVIOUS
<1>1. IsFiniteSet(Harnesses) /\ MaxRuns \in Nat
  BY OnboardingAssumption
<1>2. PICK given \in SUBSET Harnesses : \E right \in BOOLEAN :
        \E number \in [given -> 1..Cardinality(given)] :
        /\ plane = [h \in Harnesses |->
                      IF h \in given THEN [role |-> 1, sid |-> number[h], right |-> right]
                      ELSE NoPlane]
        /\ issued = Cardinality(given)
  BY DEF Init
<1>3. /\ Cardinality(given) \in Nat /\ Cardinality(given) <= Cardinality(Harnesses)
      /\ Cardinality(Harnesses) \in Nat
  BY <1>1, FS_Subset, FS_CardinalityType
<1>4. \A h \in Harnesses : IsPlane(plane[h])
  BY <1>2 DEF IsPlane
<1>5. Cardinality({}) = 0
  BY FS_EmptySet
<1>6. Counted
  BY <1>1, <1>2, <1>3, <1>5 DEF Init, Counted
<1>7. Whole
  BY <1>4 DEF Init, Whole, IsPlane, IsStep, AtHarness, Mid
<1>8. Nothing \in Finds
  <2>1. MaxIds \in Nat
    BY <1>6, InitTyped, WithinIds
  <2>2. [h \in Harnesses |-> NoPlane] \in [Harnesses -> Planes]
    BY DEF Planes
  <2> QED
    BY <2>1, <2>2 DEF Nothing, Finds
<1> QED
  BY <1>6, <1>7, <1>8 DEF Init, Others

(* Everything has its type; in particular no more AppRoles are made than   *)
(* there are runs, and no more SecretIDs than a run needs, so the numbers  *)
(* the instance has are never used up (apply_onboard).                     *)
THEOREM TypeCorrect == Spec => []TypeOK
<1> DEFINE Inv == Typed /\ Known /\ Counted /\ Whole /\ Others
<1>1. Init => Inv
  BY InitTyped, InitUsable, InitFits
<1>2. Inv /\ [Next]_vars => Inv'
  BY NextTyped, NextKnown, NextCounted, NextWhole, NextOthers
<1>3. Inv => TypeOK
  <2> SUFFICES ASSUME Inv PROVE TypeOK
    OBVIOUS
  <2>1. /\ plane \in [Harnesses -> Planes] /\ seen \in Planes
        /\ role \in 0..MaxIds /\ roles \in 0..MaxIds /\ roleId \in 0..MaxIds
        /\ issued \in 0..MaxIds /\ sid \in 0..MaxIds /\ live \subseteq SecretIds
        /\ 1..issued \subseteq SecretIds
        /\ \A i \in 1..Len(undo) : undo[i] \in UndoSteps
    BY FilesFit
  <2> QED
    BY <2>1 DEF TypeOK, Typed, Counted, Others, Finds
<1> QED
  BY <1>1, <1>2, <1>3, PTL DEF Spec
=============================================================================
