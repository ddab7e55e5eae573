--------------------------- MODULE ReconcileProofs ---------------------------
(***************************************************************************)
(* Theorems about reconcile, install-harness and register, for every set   *)
(* of harnesses, manifests and configurations, and every bound: what they  *)
(* promise to leave alone, whatever others do and whenever they are killed;*)
(* what doctor's verdict means; and that reconcile, left alone, leaves     *)
(* nothing to do that it could have done.                                  *)
(***************************************************************************)
EXTENDS Reconcile, Induction

-----------------------------------------------------------------------------
(* Configurations. *)

(* The families are functions over the harnesses, and a file is a record.  *)
Families ==
    /\ config = [h \in Harnesses |-> config[h]]
    /\ \A h \in Harnesses : config[h] = [state |-> config[h].state,
                                         servers |-> config[h].servers]
    /\ backups = [h \in Harnesses |-> backups[h]]
    /\ theirs = [h \in Harnesses |-> theirs[h]]
    /\ raced = [h \in Harnesses |-> raced[h]]

(* The backup is complete when the write comes: the file itself is not     *)
(* needed any more, but for what came after the backup.                    *)
BackedUp ==
    pc = "write" =>
        /\ Len(results) < Len(plan)
        /\ \A h \in Harnesses : Act.harness = h =>
                theirs[h] \subseteq backups[h] \cup raced[h]

Kept == Families /\ NothingLost /\ BackedUp

(* What a harness wrote is never lost, through writes, failed writes,      *)
(* kills, and edits in between (adapters.py: backup-first).                *)
THEOREM NothingEverLost == Spec => []NothingLost
<1>1. Init => Kept
  <2> SUFFICES ASSUME Init PROVE Kept
    OBVIOUS
  <2>1. \A f \in {NoFile} \cup {Sound(s) : s \in Configs} :
            f = [state |-> f.state, servers |-> f.servers]
    BY DEF NoFile, Sound
  <2> QED
    BY <2>1 DEF Init, Kept, Families, NothingLost, BackedUp
<1>2. Kept /\ [Next]_vars => Kept'
  <2> SUFFICES ASSUME Kept, [Next]_vars PROVE Kept'
    OBVIOUS
  <2>1. CASE /\ UNCHANGED <<config, backups, theirs, raced>>
             /\ pc' = "write" => pc = "write" /\ UNCHANGED <<plan, results>>
    <3>1. /\ config' = config /\ backups' = backups /\ theirs' = theirs /\ raced' = raced
          /\ pc' = "write" => /\ pc = "write" /\ Act' = Act
                               /\ plan' = plan /\ results' = results
      BY <2>1 DEF Act
    <3> QED
      BY <3>1 DEF Kept, Families, NothingLost, BackedUp, Entries
  <2>2. CASE Backup
    <3>1. CASE /\ backups' = [backups EXCEPT ![Act.harness] =
                                @ \cup Entries(config[Act.harness].servers)]
               /\ UNCHANGED <<config, theirs, raced, plan, results>>
      <4> PICK a : a = Act.harness
        OBVIOUS
      <4>1. backups' = [backups EXCEPT ![a] = @ \cup Entries(config[a].servers)]
        BY <3>1
      <4>2. /\ config' = config /\ theirs' = theirs /\ raced' = raced /\ Act' = Act
        BY <3>1 DEF Act
      <4>3. \A h \in Harnesses : backups'[h] = IF h = a
                THEN backups[h] \cup Entries(config[h].servers) ELSE backups[h]
        BY <4>1 DEF Kept, Families
      <4>4. backups' = [h \in Harnesses |-> backups'[h]]
        BY <4>1 DEF Kept, Families
      <4>5. Families'
        BY <4>2, <4>4 DEF Kept, Families
      <4>6. NothingLost'
        BY <4>2, <4>3 DEF Kept, NothingLost
      <4>7. BackedUp'
        <5>1. Len(results') < Len(plan')
          BY <2>2, <3>1 DEF Backup, Applying
        <5>2. \A h \in Harnesses : h = a => theirs'[h] \subseteq backups'[h] \cup raced'[h]
          BY <4>2, <4>3 DEF Kept, NothingLost
        <5> QED
          BY <4>2, <5>1, <5>2 DEF BackedUp
      <4> QED
        BY <4>5, <4>6, <4>7 DEF Kept
    <3>2. CASE Fails /\ UNCHANGED backups
      BY <2>1, <2>2, <3>2 DEF Backup, Fails, Conclude, history
    <3> QED
      BY <2>2, <3>1, <3>2 DEF Backup, Step, history
  <2>3. ASSUME NEW f, f = [state |-> f.state, servers |-> f.servers], pc = "write", pc' # "write",
               config' = [config EXCEPT ![Act.harness] = f],
               UNCHANGED <<backups, theirs, raced>>
        PROVE  Kept'
    <3> PICK a : a = Act.harness
      OBVIOUS
    <3>1. config' = [config EXCEPT ![a] = f]
          /\ backups' = backups /\ theirs' = theirs /\ raced' = raced
      BY <2>3
    <3>2. \A h \in Harnesses : config'[h] = IF h = a THEN f ELSE config[h]
      BY <3>1 DEF Kept, Families
    <3>3. config' = [h \in Harnesses |-> config'[h]]
      BY <3>1 DEF Kept, Families
    <3>4. Families'
      BY <2>3, <3>1, <3>2, <3>3 DEF Kept, Families
    <3>5. NothingLost'
      BY <2>3, <3>1, <3>2 DEF Kept, NothingLost, BackedUp, Entries
    <3> QED
      BY <2>3, <3>4, <3>5 DEF Kept, BackedUp
  <2>4. CASE WriteConfig
    <3>1. /\ pc = "write" /\ pc' = "emit" /\ UNCHANGED <<backups, theirs, raced>>
      BY <2>4 DEF WriteConfig, Fails, Conclude, Applying, history
    <3>2. ASSUME NEW f, f = Sound(Writes) \/ f = Truncated,
                 config' = [config EXCEPT ![Act.harness] = f]
          PROVE  Kept'
      <4>1. f = [state |-> f.state, servers |-> f.servers]
        BY <3>2 DEF Sound, Truncated
      <4> QED
        BY <2>3, <3>1, <3>2, <4>1
    <3>3. CASE config' = [config EXCEPT ![Act.harness] = config[Act.harness]]
      <4>1. config' = config
        BY <3>3 DEF Kept, Families
      <4> QED
        BY <2>1, <3>1, <4>1
    <3> QED
      BY <2>4, <3>2, <3>3 DEF WriteConfig
  <2>5. CASE Kill
    <3>1. CASE UNCHANGED config
      BY <2>1, <2>5, <3>1 DEF Kill, Ends, history
    <3>2. CASE Applying("write") /\ config' = [config EXCEPT ![Act.harness] = Truncated]
      BY <2>3, <2>5, <3>2 DEF Kill, Ends, Truncated, Applying, history
    <3> QED
      BY <2>5, <3>1, <3>2 DEF Kill
  <2>6. CASE HarnessWrites
    <3>1. PICK h \in hosts, f \in {NoFile} \cup {Sound(s) : s \in Configs} :
            /\ config' = [config EXCEPT ![h] = f]
            /\ theirs' = [theirs EXCEPT ![h] = Entries(f.servers)]
            /\ raced' = [raced EXCEPT ![h] =
                            IF Applying("write") /\ Act.harness = h
                            THEN @ \cup Entries(f.servers) ELSE @]
      BY <2>6, Zenon DEF HarnessWrites
    <3>2. /\ backups' = backups /\ pc' = pc /\ Act' = Act
          /\ plan' = plan /\ results' = results
      BY <2>6 DEF HarnessWrites, run, Act
    <3>3. f = [state |-> f.state, servers |-> f.servers]
      BY DEF NoFile, Sound
    <3>4. \A g \in Harnesses :
            /\ config'[g] = IF g = h THEN f ELSE config[g]
            /\ theirs'[g] = IF g = h THEN Entries(f.servers) ELSE theirs[g]
            /\ raced[g] \subseteq raced'[g]
            /\ g = h /\ Applying("write") /\ Act.harness = h =>
                    Entries(f.servers) \subseteq raced'[g]
      BY <3>1 DEF Kept, Families
    <3>5. Families'
      BY <3>1, <3>2, <3>3, <3>4 DEF Kept, Families
    <3>6. NothingLost'
      BY <3>2, <3>4 DEF Kept, NothingLost
    <3>7. pc = "write" => Applying("write")
      BY DEF Kept, BackedUp, Applying
    <3> QED
      BY <3>2, <3>4, <3>5, <3>6, <3>7 DEF Kept, BackedUp
  <2>7. CASE Misedit
    <3>1. PICK g \in hosts : config' = [config EXCEPT ![g].state = "corrupt"]
      BY <2>7 DEF Misedit
    <3>2. /\ backups' = backups /\ theirs' = theirs /\ raced' = raced
          /\ pc' = pc /\ Act' = Act /\ plan' = plan /\ results' = results
      BY <2>7 DEF Misedit, history, run, Act
    <3>3. \A h \in Harnesses : config'[h].servers = config[h].servers
      BY <3>1 DEF Kept, Families
    <3>4. Families'
      BY <3>1, <3>2 DEF Kept, Families
    <3> QED
      BY <3>2, <3>3, <3>4 DEF Kept, NothingLost, BackedUp
  <2>8. CASE UNCHANGED vars
    BY <2>1, <2>8 DEF vars, files, history, run
  <2>9. CASE Others /\ ~HarnessWrites /\ ~Misedit
    BY <2>1, <2>9 DEF Others, EditShim, EditManifest, run, files, history
  <2>10. CASE Acb /\ ~Backup /\ ~WriteConfig
    <3> USE DEF Begins, Step, Fails, Conclude, Ends, Applying, files, history
    <3>1. CASE StartReconcile
      BY <2>1, <3>1 DEF StartReconcile
    <3>2. CASE StartInstall
      BY <2>1, <3>2 DEF StartInstall
    <3>3. CASE Register
      BY <2>1, <3>3 DEF Register
    <3>4. CASE ManifestError
      BY <2>1, <3>4 DEF ManifestError
    <3>5. CASE Unavailable
      BY <2>1, <3>5 DEF Unavailable
    <3>6. CASE Skip
      BY <2>1, <3>6 DEF Skip
    <3>7. CASE Render \/ Check
      BY <2>1, <3>7 DEF Render, Check, ToRender
    <3>8. CASE ToConfig
      BY <2>1, <3>8 DEF ToConfig
    <3>9. CASE Load
      BY <2>1, <3>9 DEF Load
    <3>10. CASE Raises
      BY <2>1, <3>10 DEF Raises
    <3>11. CASE Emit
      BY <2>1, <3>11 DEF Emit
    <3>12. CASE Finish
      BY <2>1, <3>12 DEF Finish
    <3>13. CASE RegisterNext
      BY <2>1, <3>13 DEF RegisterNext
    <3> QED
      BY <2>10, <3>1, <3>2, <3>3, <3>4, <3>5, <3>6, <3>7, <3>8, <3>9, <3>10, <3>11, <3>12,
         <3>13
         DEF Acb
  <2>11. CASE RegisterTorn
    BY <2>1, <2>11 DEF RegisterTorn, files, history
  <2> QED
    BY <2>2, <2>4, <2>5, <2>6, <2>7, <2>8, <2>9, <2>10, <2>11 DEF Next
<1>3. Kept => NothingLost
  BY DEF Kept
<1> QED
  BY <1>1, <1>2, <1>3, PTL DEF Spec

-----------------------------------------------------------------------------
(* Shims. *)

(* Shims come by harness, and edits are counted; where ACB is about to     *)
(* write a shim there is none, but one somebody wrote since it looked.     *)
Shelved ==
    /\ shims = [h \in Harnesses |-> shims[h]] /\ edits \in Nat
    /\ pc = "render" /\ Act.target \in DOMAIN shims[Act.harness] =>
            <<Act.harness, Act.target>> \in between

(* Shims are written by one action of ACB alone, none of them is an edit,  *)
(* and only Check comes to the place where a shim is written.              *)
LEMMA ActsLeave ==
    /\ (Acb \/ RegisterTorn) /\ ~Render => UNCHANGED <<shims, edits>>
    /\ (Acb \/ RegisterTorn) /\ ~Check => pc' # "render" \/ pc = "idle"
    /\ Render => UNCHANGED edits
<1> USE DEF Begins, Ends, Step, Conclude, Fails, files, bounds, Applying
<1>1. StartReconcile => UNCHANGED <<shims, edits>> /\ pc' # "render"
  BY DEF StartReconcile
<1>2. StartInstall => UNCHANGED <<shims, edits>> /\ pc' # "render"
  BY DEF StartInstall
<1>3. Register => UNCHANGED <<shims, edits>> /\ pc' # "render"
  BY DEF Register
<1>4. ManifestError => UNCHANGED <<shims, edits>> /\ pc = "idle"
  BY DEF ManifestError
<1>5. Unavailable => UNCHANGED <<shims, edits>> /\ pc' # "render"
  BY DEF Unavailable
<1>6. Skip => UNCHANGED <<shims, edits>> /\ pc' # "render"
  BY DEF Skip
<1>7. ToConfig => UNCHANGED <<shims, edits>> /\ pc' # "render"
  BY DEF ToConfig
<1>8. Load => UNCHANGED <<shims, edits>> /\ pc' # "render"
  BY DEF Load
<1>9. Raises => UNCHANGED <<shims, edits>> /\ pc' # "render"
  BY DEF Raises
<1>10. Backup => UNCHANGED <<shims, edits>> /\ pc' # "render"
  BY DEF Backup
<1>11. WriteConfig => UNCHANGED <<shims, edits>> /\ pc' # "render"
  BY DEF WriteConfig
<1>12. Emit => UNCHANGED <<shims, edits>> /\ pc' # "render"
  BY DEF Emit
<1>13. Finish => UNCHANGED <<shims, edits>> /\ pc' # "render"
  BY DEF Finish
<1>14. RegisterTorn => UNCHANGED <<shims, edits>> /\ pc = "idle"
  BY DEF RegisterTorn
<1>15. Render => UNCHANGED edits /\ pc' # "render"
  BY DEF Render
<1>16. RegisterNext => UNCHANGED <<shims, edits>> /\ pc' # "render"
  BY DEF RegisterNext
<1>17. Check => UNCHANGED <<shims, edits>>
  BY DEF Check, ToRender
<1> QED
  BY <1>1, <1>2, <1>3, <1>4, <1>5, <1>6, <1>7, <1>8, <1>9, <1>10, <1>11, <1>12, <1>13,
     <1>14, <1>15, <1>16, <1>17 DEF Acb

(* ACB never touches a shim that is there, whatever the plan said when it  *)
(* was made, wherever a write fails or a run is killed, but one that was   *)
(* written after it had looked (_create_file).                             *)
THEOREM ShimsAreNeverClobbered == Spec => NeverClobbers
<1>1. Init => Shelved
  BY DEF Init, Shelved
<1>2. Shelved /\ [Next]_vars => Shelved'
  <2> SUFFICES ASSUME Shelved, [Next]_vars PROVE Shelved'
    OBVIOUS
  <2> DEFINE ShelfOK == shims = [h \in Harnesses |-> shims[h]] /\ edits \in Nat
             RenderOK == pc = "render" /\ Act.target \in DOMAIN shims[Act.harness] =>
                            <<Act.harness, Act.target>> \in between
  <2>1. ShelfOK /\ RenderOK
    BY DEF Shelved
  <2>2. ShelfOK' /\ RenderOK' => Shelved'
    BY DEF Shelved
  <2>3. UNCHANGED <<shims, edits>> => ShelfOK'
    BY <2>1
  <2>4. pc' # "render" => RenderOK'
    OBVIOUS
  <2>5. UNCHANGED <<shims, plan, results, pc, between>> => RenderOK'
    BY <2>1 DEF Act
  <2> HIDE DEF ShelfOK, RenderOK
  <2>6. CASE UNCHANGED vars
    BY <2>2, <2>3, <2>5, <2>6 DEF vars, files, run, bounds, history
  <2>7. CASE HarnessWrites \/ Misedit \/ EditManifest
    <3>1. UNCHANGED <<shims, plan, results, pc, between>> /\ edits' = edits + 1
      BY <2>7 DEF HarnessWrites, Misedit, EditManifest, Edit, files, run, history
    <3>2. ShelfOK'
      BY <2>1, <3>1 DEF ShelfOK
    <3> QED
      BY <2>2, <2>5, <3>1, <3>2
  <2>8. CASE EditShim
    <3>1. PICK h \in hosts, c \in Capabilities, body \in {NoBody, Unreadable} :
            /\ shims' = [shims EXCEPT ![h] = Put(@, c.shim, body)]
            /\ between' = IF pc = "render" THEN between \cup {<<h, c.shim>>} ELSE between
      BY <2>8 DEF EditShim
    <3>2. UNCHANGED <<plan, results, pc>> /\ edits' = edits + 1
      BY <2>8 DEF EditShim, Edit, run
    <3>3. ShelfOK'
      BY <2>1, <3>1, <3>2 DEF ShelfOK
    <3>4. RenderOK'
      <4> SUFFICES ASSUME pc = "render", Act.target \in DOMAIN shims'[Act.harness]
                   PROVE  <<Act.harness, Act.target>> \in between'
        BY <3>2 DEF RenderOK, Act
      <4> PICK a : a = Act.harness
        OBVIOUS
      <4> PICK t : t = Act.target
        OBVIOUS
      <4>1. CASE t \in DOMAIN shims[a]
        BY <2>1, <3>1, <4>1 DEF RenderOK
      <4>2. CASE t \notin DOMAIN shims[a]
        <5>1. shims'[a] # shims[a]
          BY <4>2
        <5>2. a = h /\ shims'[a] = Put(shims[a], c.shim, body)
          BY <2>1, <3>1, <5>1 DEF ShelfOK
        <5>3. t = c.shim
          BY <4>2, <5>2 DEF Put
        <5> QED
          BY <3>1, <5>2, <5>3
      <4> QED
        BY <4>1, <4>2
    <3> QED
      BY <2>2, <3>3, <3>4
  <2>9. CASE Render
    <3>1. ShelfOK'
      BY <2>1, <2>9 DEF Render, Shim, Fails, ShelfOK
    <3> QED
      BY <2>2, <2>4, <2>9, <3>1 DEF Render, Conclude, Fails
  <2>10. CASE Kill
    <3>1. ShelfOK'
      BY <2>1, <2>10 DEF Kill, Shim, ShelfOK
    <3> QED
      BY <2>2, <2>4, <2>10, <3>1 DEF Kill, Ends
  <2>11. CASE Check
    <3>1. UNCHANGED <<shims, edits>>
      BY <2>11 DEF Check, ToRender, files, bounds
    <3>2. CASE Act.target \in DOMAIN shims[Act.harness]
      BY <2>2, <2>3, <2>4, <2>11, <3>2, <3>1 DEF Check, Conclude
    <3>3. CASE Act.target \notin DOMAIN shims[Act.harness]
      <4>1. UNCHANGED <<shims, plan, results>>
        BY <2>11, <3>3 DEF Check, ToRender, files
      <4>2. RenderOK'
        BY <3>3, <4>1 DEF RenderOK, Act
      <4> QED
        BY <2>2, <2>3, <3>1, <4>2
    <3> QED
      BY <3>2, <3>3
  <2>12. CASE (Acb \/ RegisterTorn) /\ ~Render /\ ~Check
    <3>1. CASE pc' # "render"
      BY <2>2, <2>3, <2>4, <2>12, <3>1, ActsLeave
    <3>2. CASE pc' = "render"
      <4>1. pc = "idle"
        BY <2>12, <3>2, ActsLeave
      <4> QED
        BY <2>12, <3>2, <4>1 DEF Acb, StartReconcile, StartInstall, Register, RegisterNext,
           ManifestError, Unavailable, Skip, ToConfig, Load, Raises, Backup, WriteConfig,
           Emit, Finish, RegisterTorn, Begins, Applying, Ends
    <3> QED
      BY <3>1, <3>2
  <2> QED
    BY <2>6, <2>7, <2>8, <2>9, <2>10, <2>11, <2>12 DEF Next, Others
<1>3. Shelved /\ [Next]_vars =>
          [edits' = edits => \A h \in Harnesses : \A s \in DOMAIN shims[h] :
                \/ <<h, s>> \in between
                \/ s \in DOMAIN shims'[h] /\ shims'[h][s] = shims[h][s]]_vars
  <2> SUFFICES ASSUME Shelved, Next, edits' = edits
               PROVE  \A h \in Harnesses : \A s \in DOMAIN shims[h] :
                          \/ <<h, s>> \in between
                          \/ s \in DOMAIN shims'[h] /\ shims'[h][s] = shims[h][s]
    BY DEF Shelved
  <2>1. CASE UNCHANGED shims
    BY <2>1
  <2>2. ASSUME pc = "render", NEW w, Shim(w)
        PROVE  \A h \in Harnesses : \A s \in DOMAIN shims[h] :
                   \/ <<h, s>> \in between
                   \/ s \in DOMAIN shims'[h] /\ shims'[h][s] = shims[h][s]
    <3> PICK a : a = Act.harness
      OBVIOUS
    <3> PICK t : t = Act.target
      OBVIOUS
    <3>1. shims' = [shims EXCEPT ![a] = Put(@, t, w)]
      BY <2>2 DEF Shim
    <3>2. t \in DOMAIN shims[a] => <<a, t>> \in between
      BY <2>2 DEF Shelved
    <3> SUFFICES ASSUME NEW h \in Harnesses, NEW s \in DOMAIN shims[h], ~(h = a /\ s = t)
                 PROVE  s \in DOMAIN shims'[h] /\ shims'[h][s] = shims[h][s]
      BY <3>2
    <3>3. CASE h = a
      <4>1. shims'[h] = Put(shims[h], t, w)
        BY <3>1, <3>3 DEF Shelved
      <4> QED
        BY <3>3, <4>1 DEF Put
    <3>4. CASE h # a
      BY <3>1, <3>4 DEF Shelved
    <3> QED
      BY <3>3, <3>4
  <2>3. ~HarnessWrites /\ ~Misedit /\ ~EditShim /\ ~EditManifest
    BY DEF Shelved, HarnessWrites, Misedit, EditShim, EditManifest, Edit
  <2>4. CASE Render
    BY <2>1, <2>2, <2>4 DEF Render, Applying
  <2>5. CASE Kill
    BY <2>1, <2>2, <2>5 DEF Kill, Applying
  <2>6. CASE (Acb \/ RegisterTorn) /\ ~Render
    BY <2>1, <2>6, ActsLeave
  <2> QED
    BY <2>3, <2>4, <2>5, <2>6 DEF Next, Others
<1> QED
  BY <1>1, <1>2, <1>3, PTL DEF Spec, NeverClobbers

-----------------------------------------------------------------------------
(* The plan. *)

(* Every action there could be for what a manifest declares. *)
Steps(caps) == UNION {UNION {ToSet(Plan(caps[i], h)) : h \in Harnesses} : i \in DOMAIN caps}

(* A capability asks for nothing of a harness, or for one action. *)
LEMMA PlanIsShort ==
    ASSUME NEW c, NEW h
    PROVE  Plan(c, h) = <<>> \/ \E a : Plan(c, h) = <<a>>
  BY DEF Plan, PlanCred, PlanE2e

(* Sequences of no element and of one.                                     *)
LEMMA ShortSequences ==
    /\ ToSet(<<>>) = {} /\ \A S : <<>> \in Seq(S)
    /\ \A a : ToSet(<<a>>) = {a} /\ \A S : a \in S => <<a>> \in Seq(S)
<1>1. ASSUME NEW a PROVE DOMAIN <<a>> = {1} /\ <<a>>[1] = a
  OBVIOUS
<1> QED
  BY <1>1 DEF ToSet

(* The plan has exactly the actions that what is declared asks of the      *)
(* harnesses that are there.                                               *)
LEMMA PlanOverIs ==
    ASSUME NEW caps \in Seq(Capabilities), NEW hs \in SUBSET Harnesses
    PROVE  /\ PlanOver(caps, hs) \in Seq(Steps(caps))
           /\ \A a : a \in ToSet(PlanOver(caps, hs)) <=>
                \E i \in DOMAIN caps, h \in hs :
                    h \in caps[i].harnesses /\ Available(h) /\ Plan(caps[i], h) = <<a>>
<1> DEFINE q == SetToSeq(hs)
           Part(i, h) == IF h \in caps[i].harnesses /\ Available(h) THEN Plan(caps[i], h) ELSE <<>>
           row(i) == [j \in 1..Len(q) |-> Part(i, q[j])]
           rows == [i \in DOMAIN caps |-> FlattenSeq(row(i))]
           S == Steps(caps)
<1>1. IsFiniteSet(hs)
  BY FS_Subset, ReconcileAssumption
<1>2. q \in [1..Len(q) -> hs] /\ Len(q) \in Nat /\ ToSet(q) = hs
  BY <1>1, SetToSeqIs
<1>3. DOMAIN caps = 1..Len(caps) /\ Len(caps) \in Nat
  OBVIOUS
<1>4. ASSUME NEW i \in DOMAIN caps, NEW h \in Harnesses
      PROVE  Part(i, h) \in Seq(S)
  <2>1. CASE h \in caps[i].harnesses /\ Available(h)
    <3>1. Part(i, h) = Plan(caps[i], h)
      BY <2>1
    <3>2. CASE Plan(caps[i], h) = <<>>
      BY <3>1, <3>2
    <3>3. ASSUME NEW a, Plan(caps[i], h) = <<a>> PROVE Part(i, h) \in Seq(S)
      <4>1. a \in ToSet(Plan(caps[i], h))
        BY <3>3, ShortSequences
      <4>2. a \in S
        BY <4>1 DEF Steps
      <4> HIDE DEF S
      <4> QED
        BY <3>1, <3>3, <4>2, ShortSequences
    <3> QED
      BY <3>2, <3>3, PlanIsShort
  <2>2. CASE ~(h \in caps[i].harnesses /\ Available(h))
    BY <2>2, ShortSequences
  <2> QED
    BY <2>1, <2>2
<1>5. PlanOver(caps, hs) = FlattenSeq(rows)
  BY DEF PlanOver
<1> HIDE DEF q, Part, S
<1>6. ASSUME NEW i \in DOMAIN caps
      PROVE  /\ FlattenSeq(row(i)) \in Seq(S)
             /\ \A a : a \in ToSet(FlattenSeq(row(i))) <=> \E h \in hs : a \in ToSet(Part(i, h))
  <2>1. row(i) \in [1..Len(q) -> Seq(S)]
    BY <1>2, <1>4
  <2>2. /\ FlattenSeq(row(i)) \in Seq(S)
        /\ \A a : a \in ToSet(FlattenSeq(row(i))) <=> \E j \in 1..Len(q) : a \in ToSet(row(i)[j])
    <3> PICK r : r = row(i)
      OBVIOUS
    <3> PICK n : n = Len(q)
      OBVIOUS
    <3>1. r \in [1..n -> Seq(S)] /\ n \in Nat
      BY <1>2, <2>1
    <3>2. /\ FlattenSeq(r) \in Seq(S)
          /\ \A a : a \in ToSet(FlattenSeq(r)) <=> \E j \in 1..n : a \in ToSet(r[j])
      BY ONLY <3>1, FlattenIs, FlattenHas
    <3> HIDE DEF row
    <3> QED
      BY <3>2
  <2>3. \A h \in hs : \E j \in 1..Len(q) : q[j] = h
    BY <1>2 DEF ToSet
  <2> QED
    BY <1>2, <2>2, <2>3
<1>7. rows \in [1..Len(caps) -> Seq(S)]
  BY <1>3, <1>6
<1> HIDE DEF row
<1>8. /\ FlattenSeq(rows) \in Seq(S)
      /\ \A a : a \in ToSet(FlattenSeq(rows)) <=> \E i \in 1..Len(caps) : a \in ToSet(rows[i])
  <2> PICK r : r = rows
    OBVIOUS
  <2> PICK n : n = Len(caps)
    OBVIOUS
  <2>1. r \in [1..n -> Seq(S)] /\ n \in Nat
    BY <1>3, <1>7
  <2>2. /\ FlattenSeq(r) \in Seq(S)
        /\ \A a : a \in ToSet(FlattenSeq(r)) <=> \E j \in 1..n : a \in ToSet(r[j])
    BY ONLY <2>1, FlattenIs, FlattenHas
  <2> HIDE DEF rows
  <2> QED
    BY <2>2
<1>9. ASSUME NEW a
      PROVE  a \in ToSet(FlattenSeq(rows)) <=>
                \E i \in DOMAIN caps, h \in hs : a \in ToSet(Part(i, h))
  <2>1. \A i \in DOMAIN caps : rows[i] = FlattenSeq(row(i))
    OBVIOUS
  <2> HIDE DEF rows
  <2>2. a \in ToSet(FlattenSeq(rows)) <=> \E i \in DOMAIN caps : a \in ToSet(rows[i])
    BY <1>3, <1>8
  <2> QED
    BY <1>6, <2>1, <2>2
<1>10. ASSUME NEW i, NEW h, NEW a
       PROVE  a \in ToSet(Part(i, h)) <=>
                h \in caps[i].harnesses /\ Available(h) /\ Plan(caps[i], h) = <<a>>
  <2>1. CASE h \in caps[i].harnesses /\ Available(h)
    <3>1. \A b : <<b>> = <<a>> => b = a
      OBVIOUS
    <3>2. <<a>> # <<>>
      OBVIOUS
    <3> QED
      BY <2>1, <3>1, <3>2, PlanIsShort, ShortSequences DEF Part
  <2>2. CASE ~(h \in caps[i].harnesses /\ Available(h))
    BY <2>2, ShortSequences DEF Part
  <2> QED
    BY <2>1, <2>2
<1>11. PlanOver(caps, hs) \in Seq(Steps(caps))
  BY <1>5, <1>8 DEF S
<1> QED
  <2> HIDE DEF rows
  <2> QED
    BY <1>5, <1>9, <1>10, <1>11

(* What a run and the files it works on are made of. *)
IsList(s) == \E S : s \in Seq(S)
Statuses == {"applied", "skipped", "failed", "unavailable"}
Typed ==
    /\ config = [h \in Harnesses |-> config[h]]
    /\ \A h \in Harnesses : config[h] = [state |-> config[h].state,
                                         servers |-> config[h].servers]
    /\ manifest = [parses |-> manifest.parses, caps |-> manifest.caps]
    /\ manifest.caps \in Seq(Capabilities)
    /\ IsList(plan) /\ Len(plan) \in Nat /\ DOMAIN plan = 1..Len(plan)
    /\ results \in Seq(Statuses)
    /\ TypeOK

(* It holds at first,                                                      *)
LEMMA TypedInit == ASSUME Init PROVE Typed
<1>1. PICK m \in Manifests : manifest = [parses |-> Parses(m), caps |-> m]
  BY DEF Init
<1>2. m \in Seq(Capabilities) /\ manifest.caps = m
  BY <1>1, ReconcileAssumption
<1>3. ToSet(m) \subseteq Capabilities
  BY <1>2 DEF ToSet
<1>4. /\ config = [h \in Harnesses |-> config[h]]
      /\ \A h \in Harnesses : config[h] = [state |-> config[h].state,
                                           servers |-> config[h].servers]
      /\ \A h \in Harnesses : config[h].state \in {"absent", "sound", "corrupt"}
  BY DEF Init, NoFile, Sound
<1>5. /\ IsList(plan) /\ Len(plan) = 0 /\ DOMAIN plan = 1..0 /\ results \in Seq(Statuses) /\ ToSet(results) = {}
      /\ Len(results) = 0
  BY ShortSequences DEF Init, IsList
<1> QED
  BY <1>1, <1>2, <1>3, <1>4, <1>5 DEF Init, Typed, TypeOK, Places, Modes, Codes

(* and every step keeps it.                                                *)
LEMMA TypedNext == ASSUME Typed, [Next]_vars PROVE Typed'
<1> DEFINE FileOK == /\ config = [h \in Harnesses |-> config[h]]
                     /\ \A h \in Harnesses : config[h] = [state |-> config[h].state,
                                                          servers |-> config[h].servers]
                     /\ \A h \in Harnesses : config[h].state \in {"absent", "sound", "corrupt"}
           ListOK == /\ manifest = [parses |-> manifest.parses, caps |-> manifest.caps]
                     /\ manifest.caps \in Seq(Capabilities)
                     /\ ToSet(manifest.caps) \subseteq Capabilities
           RunOK == /\ IsList(plan) /\ Len(plan) \in Nat /\ DOMAIN plan = 1..Len(plan)
                    /\ results \in Seq(Statuses)
                    /\ pc \in Places /\ mode \in Modes /\ code \in Codes
                    /\ Len(results) <= Len(plan)
                    /\ ToSet(results) \subseteq Statuses
                    /\ pc \in {"load", "backup", "write"} =>
                         Act.kind \in {"add_mcp", "pin_npx_version"} /\ Act.harness \in Addable
                    /\ pc = "render" => Act.kind = "add_cred_shim"
<1>1. FileOK /\ ListOK /\ RunOK
  BY DEF Typed, TypeOK, Statuses
<1>2. FileOK' /\ ListOK' /\ RunOK' => Typed'
  BY DEF Typed, TypeOK, Statuses
<1>3. UNCHANGED config => FileOK'
  BY <1>1
<1>4. UNCHANGED manifest => ListOK'
  BY <1>1
<1>5. UNCHANGED <<plan, results, mode, code, pc>> => RunOK'
  BY <1>1 DEF Act
<1>6. ASSUME NEW f, NEW a, f = [state |-> f.state, servers |-> f.servers],
             f.state \in {"absent", "sound", "corrupt"}, config' = [config EXCEPT ![a] = f]
      PROVE  FileOK'
  BY <1>1, <1>6
<1>7. ASSUME NEW m \in Modes, NEW hs, NEW e, NEW steps, Begins(m, hs, e, steps),
             IsList(steps), Len(steps) \in Nat, DOMAIN steps = 1..Len(steps)
      PROVE  RunOK'
  <2>1. /\ plan' = steps /\ results' = <<>> /\ pc' = "next" /\ mode' = m /\ code' = "none"
    BY <1>7 DEF Begins
  <2> QED
    BY <1>7, <2>1, ShortSequences DEF Places, Codes
<1>8. ASSUME NEW how \in Codes, Ends(how), UNCHANGED mode
      PROVE  RunOK'
  <2>1. IsList(<<>>)
    BY ShortSequences DEF IsList
  <2>2. /\ plan' = <<>> /\ results' = <<>> /\ pc' = "idle" /\ mode' = mode /\ code' = how
    BY <1>8 DEF Ends
  <2> QED
    BY <1>1, <2>1, <2>2, ShortSequences DEF Places
<1>9. ASSUME NEW s \in Statuses, results' = Append(results, s), Len(results) < Len(plan),
             UNCHANGED <<plan, mode, code>>, pc' \in {"next", "emit"}
      PROVE  RunOK'
  <2>1. /\ results' \in Seq(Statuses) /\ Len(results') = Len(results) + 1
        /\ ToSet(results') \subseteq Statuses
    BY <1>1, <1>9 DEF ToSet
  <2> QED
    BY <1>1, <1>9, <2>1 DEF Places
<1>10. ASSUME pc' \in Places, UNCHANGED <<plan, results, mode, code>>,
              pc' \in {"load", "backup", "write"} =>
                         Act.kind \in {"add_mcp", "pin_npx_version"} /\ Act.harness \in Addable,
              pc' = "render" => Act.kind = "add_cred_shim"
       PROVE  RunOK'
  BY <1>1, <1>10 DEF Act
<1>11. Harnesses \in SUBSET Harnesses /\ \A h \in Harnesses : {h} \in SUBSET Harnesses
  OBVIOUS
<1>12. "reconcile" \in Modes /\ "install" \in Modes /\ "register" \in Modes
  BY DEF Modes
<1> HIDE DEF FileOK, ListOK, RunOK
<1>13. /\ manifest.caps \in Seq(Capabilities)
       /\ \A hs \in SUBSET Harnesses :
            /\ IsList(PlanOver(manifest.caps, hs))
            /\ Len(PlanOver(manifest.caps, hs)) \in Nat
            /\ DOMAIN PlanOver(manifest.caps, hs) = 1..Len(PlanOver(manifest.caps, hs))
  <2>1. manifest.caps \in Seq(Capabilities)
    BY <1>1 DEF ListOK
  <2>2. \A hs \in SUBSET Harnesses : PlanOver(manifest.caps, hs) \in Seq(Steps(manifest.caps))
    BY <2>1, PlanOverIs
  <2> QED
    BY <2>1, <2>2 DEF IsList
<1>14. CASE UNCHANGED vars
  BY <1>1, <1>2, <1>3, <1>4, <1>5, <1>14 DEF vars, run, files
<1>15. CASE StartReconcile
  <2>1. /\ Begins("reconcile", Harnesses, NoEntry, PlanOver(manifest.caps, Harnesses))
        /\ UNCHANGED <<config, manifest>>
    BY <1>15 DEF StartReconcile, Begins, files
  <2>2. RunOK'
    BY <1>7, <1>11, <1>12, <1>13, <2>1
  <2> QED
    BY <1>2, <1>3, <1>4, <2>1, <2>2
<1>16. CASE StartInstall
  <2>1. PICK h \in Harnesses :
            /\ Begins("install", {h}, NoEntry, PlanOver(manifest.caps, {h}))
            /\ UNCHANGED <<config, manifest>>
    BY <1>16 DEF StartInstall, Begins, files
  <2>2. RunOK'
    BY <1>7, <1>11, <1>12, <1>13, <2>1
  <2> QED
    BY <1>2, <1>3, <1>4, <2>1, <2>2
<1>17. CASE Register
  <2>1. PICK c \in Capabilities : /\ manifest' = [manifest EXCEPT !.caps = Append(@, c)]
                                  /\ Begins("register", c.harnesses, c.id, <<>>)
    BY <1>17 DEF Register
  <2>2. RunOK'
    <3>1. Len(<<>>) = 0 /\ DOMAIN <<>> = 1..0 /\ IsList(<<>>)
      BY ShortSequences DEF IsList
    <3> QED
      BY <1>7, <1>12, <2>1, <3>1
  <2>3. ListOK'
    <3> PICK q : q = manifest.caps
      OBVIOUS
    <3>1. Append(q, c) \in Seq(Capabilities)
      BY <1>13
    <3>2. manifest' = [parses |-> manifest.parses, caps |-> Append(q, c)]
      BY <1>1, <2>1 DEF ListOK
    <3>3. manifest'.caps = Append(q, c) /\ manifest'.parses = manifest.parses
      BY <3>2
    <3> QED
      BY <3>1, <3>2, <3>3 DEF ListOK, ToSet
  <2> QED
    BY <1>2, <1>3, <2>1, <2>2, <2>3 DEF Begins, files
<1>18. CASE RegisterTorn
  <2>1. ListOK'
    BY <1>1, <1>18 DEF RegisterTorn, ListOK
  <2>2. RunOK'
    BY <1>1, <1>18 DEF RegisterTorn, RunOK, Codes, Modes, Act
  <2> QED
    BY <1>2, <1>3, <1>18, <2>1, <2>2 DEF RegisterTorn, files
<1>19. CASE ManifestError
  <2>1. RunOK'
    BY <1>1, <1>19 DEF ManifestError, RunOK, Codes, Modes, Act
  <2> QED
    BY <1>2, <1>3, <1>4, <1>19, <2>1 DEF ManifestError, files
<1>20. CASE Unavailable
  BY <1>2, <1>3, <1>4, <1>9, <1>1, <1>20 DEF Unavailable, files, Applying, Statuses, RunOK
<1>21. CASE Skip
  BY <1>2, <1>3, <1>4, <1>9, <1>21 DEF Skip, files, Applying, Conclude, Statuses
<1>22. CASE Render
  BY <1>2, <1>3, <1>4, <1>9, <1>22 DEF Render, Fails, Applying, Conclude, Statuses
<1>35. CASE Check
  <2>1. /\ UNCHANGED <<config, manifest, plan, mode, code>> /\ Len(results) < Len(plan)
        /\ Act.kind = "add_cred_shim"
    BY <1>35 DEF Check, ToRender, Applying, files
  <2>2. CASE Conclude("failed")
    BY <1>2, <1>3, <1>4, <1>9, <2>1, <2>2 DEF Conclude, Statuses
  <2>3. CASE pc' = "render" /\ UNCHANGED results
    BY <1>2, <1>3, <1>4, <1>10, <2>1, <2>3 DEF Places
  <2> QED
    BY <1>35, <2>2, <2>3 DEF Check
<1>36. CASE RegisterNext
  <2>1. UNCHANGED <<config, manifest, mode>> /\ pc = "next" /\ Len(results) = Len(plan)
    BY <1>36 DEF RegisterNext, Applied, files
  <2>2. CASE Ends("internal")
    BY <1>2, <1>3, <1>4, <1>8, <2>1, <2>2 DEF Codes
  <2>3. CASE ~Ends("internal")
    <3>1. PICK c, h :
            /\ plan' = plan \/ plan' = plan \o Plan(c, h)
            /\ UNCHANGED <<pc, results, code>>
      BY <1>36, <2>3 DEF RegisterNext
    <3> PICK more : more = Plan(c, h)
      OBVIOUS
    <3>2. IsList(plan \o more) /\ Len(plan \o more) \in Nat /\ Len(plan) <= Len(plan \o more)
          /\ DOMAIN (plan \o more) = 1..Len(plan \o more)
      <4>1. more = <<>> \/ \E a : more = <<a>>
        BY PlanIsShort
      <4>2. PICK S : plan \in Seq(S)
        BY <1>1 DEF RunOK, IsList
      <4>3. \E T : more \in Seq(T)
        <5>1. ASSUME NEW a, more = <<a>> PROVE more \in Seq({a})
          BY <5>1, ShortSequences
        <5>2. more = <<>> => more \in Seq({})
          BY ShortSequences
        <5> QED
          BY <4>1, <5>1, <5>2
      <4> PICK T : more \in Seq(T)
        BY <4>3
      <4> PICK U : U = S \cup T
        OBVIOUS
      <4>4. plan \in Seq(U) /\ more \in Seq(U)
        BY <4>2
      <4>5. /\ plan \o more \in Seq(U) /\ Len(plan) \in Nat /\ Len(more) \in Nat
            /\ Len(plan \o more) = Len(plan) + Len(more)
        BY <4>4
      <4>6. Len(plan \o more) \in Nat /\ DOMAIN (plan \o more) = 1..Len(plan \o more)
        BY <4>5
      <4> QED
        BY <4>5, <4>6 DEF IsList
    <3>3. IsList(plan') /\ Len(plan') \in Nat /\ DOMAIN plan' = 1..Len(plan') /\ Len(plan) <= Len(plan')
      <4>1. CASE plan' = plan
        <5>1. IsList(plan) /\ Len(plan) \in Nat /\ DOMAIN plan = 1..Len(plan) /\ Len(plan) <= Len(plan)
          BY <1>1 DEF RunOK
        <5> QED
          BY <4>1, <5>1
      <4>2. CASE plan' = plan \o more
        BY <3>2, <4>2
      <4> QED
        BY <3>1, <4>1, <4>2
    <3>4. RunOK'
      BY <1>1, <2>1, <3>1, <3>3 DEF RunOK
    <3> QED
      BY <1>2, <1>3, <1>4, <2>1, <3>4
  <2> QED
    BY <2>2, <2>3
<1>23. CASE ToConfig
  BY <1>2, <1>3, <1>4, <1>10, <1>23, ReconcileAssumption DEF ToConfig, Skips, Step, files, Places
<1>24. CASE Load
  <2>1. CASE Loaded = "fit"
    <3>1. pc = "load" /\ pc' = "backup" /\ UNCHANGED <<results, plan, mode, code, config, manifest>>
      BY <1>24, <2>1 DEF Load, Applying, files
    <3>2. RunOK'
      BY <1>1, <3>1 DEF RunOK, Places, Act
    <3> QED
      BY <1>2, <1>3, <1>4, <3>1, <3>2
  <2>2. CASE Loaded # "fit"
    <3>1. Loaded \in Statuses
      BY <2>2 DEF Loaded, Statuses
    <3> QED
      BY <1>2, <1>3, <1>4, <1>9, <1>24, <2>2, <3>1 DEF Load, Applying, Conclude, files
  <2> QED
    BY <2>1, <2>2
<1>25. CASE Raises
  BY <1>2, <1>3, <1>4, <1>8, <1>25 DEF Raises, files, Codes
<1>26. CASE Backup
  <2>1. CASE Step("write")
    <3>1. pc = "backup" /\ pc' = "write" /\ UNCHANGED <<results, plan, mode, code, config, manifest>>
      BY <1>26, <2>1 DEF Backup, Applying, Step
    <3>2. RunOK'
      BY <1>1, <3>1 DEF RunOK, Places, Act
    <3> QED
      BY <1>2, <1>3, <1>4, <3>1, <3>2
  <2>2. CASE Fails
    BY <1>2, <1>3, <1>4, <1>9, <1>26, <2>2 DEF Backup, Fails, Conclude, Applying, Statuses
  <2> QED
    BY <1>26, <2>1, <2>2 DEF Backup
<1>27. CASE WriteConfig
  <2>1. FileOK'
    <3>1. CASE config' = [config EXCEPT ![Act.harness] = config[Act.harness]]
      <4>1. config' = config
        BY <1>1, <3>1 DEF FileOK
      <4> QED
        BY <1>3, <4>1
    <3>2. CASE \E f \in {Sound(Writes), Truncated} : config' = [config EXCEPT ![Act.harness] = f]
      BY <1>6, <3>2 DEF Sound, Truncated
    <3> QED
      BY <1>27, <3>1, <3>2 DEF WriteConfig
  <2>2. /\ UNCHANGED <<manifest, plan, mode, code>> /\ Len(results) < Len(plan)
        /\ \E s \in {"applied", "failed"} : results' = Append(results, s) /\ pc' = "emit"
    BY <1>27 DEF WriteConfig, Fails, Conclude, Applying
  <2> QED
    BY <1>2, <1>4, <1>9, <2>1, <2>2 DEF Statuses
<1>28. CASE Emit
  <2>1. CASE Ends("internal")
    BY <1>2, <1>3, <1>4, <1>8, <1>28, <2>1 DEF Emit, files, Codes
  <2>2. CASE pc' = "next" /\ UNCHANGED <<plan, results, code>>
    BY <1>2, <1>3, <1>4, <1>10, <1>28, <2>2 DEF Emit, files, Places
  <2> QED
    BY <1>28, <2>1, <2>2 DEF Emit, Step
<1>29. CASE Finish
  <2>1. ExitCode({Verdict(c, h) : c \in Declared, h \in scope}) \in Codes
    BY DEF ExitCode, Codes
  <2> QED
    BY <1>2, <1>3, <1>4, <1>8, <1>29, <2>1 DEF Finish, files
<1>30. CASE Kill
  <2>1. FileOK'
    BY <1>3, <1>6, <1>30 DEF Kill, Truncated
  <2> QED
    BY <1>2, <1>4, <1>8, <1>30, <2>1 DEF Kill, Codes
<1>31. CASE HarnessWrites
  <2>1. PICK h \in hosts, f \in {NoFile} \cup {Sound(s) : s \in Configs} :
            config' = [config EXCEPT ![h] = f]
    BY <1>31, Zenon DEF HarnessWrites
  <2>2. f = [state |-> f.state, servers |-> f.servers] /\ f.state \in {"absent", "sound", "corrupt"}
    BY DEF NoFile, Sound
  <2>3. FileOK'
    BY <1>6, <2>1, <2>2
  <2> QED
    BY <1>2, <1>4, <1>5, <1>31, <2>3 DEF HarnessWrites, run
<1>32. CASE Misedit
  <2>1. PICK h \in hosts : config' = [config EXCEPT ![h].state = "corrupt"]
    BY <1>32 DEF Misedit
  <2>2. FileOK'
    BY <1>1, <2>1 DEF FileOK
  <2> QED
    BY <1>2, <1>4, <1>5, <1>32, <2>2 DEF Misedit, run
<1>33. CASE EditShim
  BY <1>2, <1>3, <1>4, <1>5, <1>33 DEF EditShim, run
<1>34. CASE EditManifest
  <2>1. PICK m \in Manifests : manifest' = [parses |-> Parses(m), caps |-> m]
    BY <1>34 DEF EditManifest
  <2>2. m \in Seq(Capabilities)
    BY ReconcileAssumption
  <2>3. ListOK'
    BY <2>1, <2>2 DEF ListOK, ToSet
  <2> QED
    BY <1>2, <1>3, <1>5, <1>34, <2>3 DEF EditManifest, run, files
<1> QED
  BY <1>14, <1>15, <1>16, <1>17, <1>18, <1>19, <1>20, <1>21, <1>22, <1>23, <1>24, <1>25,
     <1>26, <1>27, <1>28, <1>29, <1>30, <1>31, <1>32, <1>33, <1>34, <1>35, <1>36
     DEF Next, Acb, Others

(* A run is somewhere it can be, with an action it may apply there, and no *)
(* more results than actions (cli._apply_and_record, providers.apply).     *)
THEOREM TypeCorrect == Spec => []TypeOK
<1>1. Init => Typed
  BY TypedInit
<1>2. Typed /\ [Next]_vars => Typed'
  BY TypedNext
<1>3. Typed => TypeOK
  BY DEF Typed
<1> QED
  BY <1>1, <1>2, <1>3, PTL DEF Spec

-----------------------------------------------------------------------------
(* What doctor says. *)

(* What is asked of a harness for a capability, by kind of action.         *)
Asked(c, h, a) ==
    /\ a.harness = h
    /\ \/ a.kind = "manual"
       \/ /\ a.kind = "add_cred_shim" /\ c.provider = "cred"
          /\ a.target = c.shim /\ a.what = Body(c)
          /\ c.shim \notin Listed(h)
       \/ /\ a.kind = "pin_npx_version" /\ c.provider # "cred" /\ c.pin # NoPin
          /\ Found(h) # {} /\ First(h).on /\ Floats(First(h))
          /\ a.target = FirstFound(h) /\ a.what = Pinned(First(h), c.pin)
       \/ /\ a.kind = "add_mcp" /\ c.provider # "cred" /\ c.pin # NoPin
          /\ Found(h) = {} /\ a.target = Wired /\ a.what = Wiring(c.pin)

LEMMA PlanAsks == ASSUME NEW c, NEW h, NEW a, Plan(c, h) = <<a>> PROVE Asked(c, h, a)
<1>1. \A b : <<b>> = <<a>> => b = a
  OBVIOUS
<1>2. <<a>> # <<>>
  OBVIOUS
<1>3. /\ Manual(h).harness = h /\ Manual(h).kind = "manual"
      /\ \A k, t, w : /\ Action(k, h, t, w).harness = h /\ Action(k, h, t, w).kind = k
                      /\ Action(k, h, t, w).target = t /\ Action(k, h, t, w).what = w
  BY DEF Manual, Action
<1>4. CASE c.provider = "cred"
  <2>1. Plan(c, h) = PlanCred(c, h)
    BY <1>4 DEF Plan
  <2>2. \/ Plan(c, h) = <<Manual(h)>> \/ Plan(c, h) = <<>>
        \/ /\ c.shim \notin Listed(h)
           /\ Plan(c, h) = <<Action("add_cred_shim", h, c.shim, Body(c))>>
    BY <2>1 DEF PlanCred
  <2> QED
    BY <1>1, <1>2, <1>3, <1>4, <2>2 DEF Asked
<1>5. CASE c.provider # "cred"
  <2>1. Plan(c, h) = PlanE2e(c, h)
    BY <1>5 DEF Plan
  <2>2. \/ Plan(c, h) = <<Manual(h)>> \/ Plan(c, h) = <<>>
        \/ /\ Found(h) = {} /\ c.pin # NoPin
           /\ Plan(c, h) = <<Action("add_mcp", h, Wired, Wiring(c.pin))>>
        \/ /\ Found(h) # {} /\ First(h).on /\ Floats(First(h)) /\ c.pin # NoPin
           /\ Plan(c, h) = <<Action("pin_npx_version", h, FirstFound(h),
                                    Pinned(First(h), c.pin))>>
    BY <2>1 DEF PlanE2e
  <2> QED
    BY <1>1, <1>2, <1>3, <1>5, <2>2 DEF Asked
<1> QED
  BY <1>4, <1>5

(* Every shim with something in it, and every one there is a plan for, is  *)
(* that of a declared capability, until the operator edits the manifest;   *)
(* no two declared capabilities have one id.                               *)
Doctored ==
    /\ shims = [h \in Harnesses |-> shims[h]]
    /\ \A i, j \in DOMAIN manifest.caps : manifest.caps[i].id = manifest.caps[j].id => i = j
    /\ ~replaned =>
        /\ \A h \in Harnesses : \A s \in DOMAIN shims[h] :
                shims[h][s].ids = {} \/ \E d \in Declared : shims[h][s] = Body(d)
        /\ \A j \in DOMAIN plan : plan[j].kind = "add_cred_shim" =>
                \E d \in Declared : plan[j].what = Body(d)

(* A shim is written for an action of the plan; half a shim names nothing. *)
LEMMA DoctoredNext == ASSUME Typed, Doctored, [Next]_vars PROVE Doctored'
<1> DEFINE ShelfOK == shims = [h \in Harnesses |-> shims[h]]
           ListOK == \A i, j \in DOMAIN manifest.caps :
                        manifest.caps[i].id = manifest.caps[j].id => i = j
           BodiesOK == ~replaned => \A h \in Harnesses : \A s \in DOMAIN shims[h] :
                            shims[h][s].ids = {} \/ \E d \in Declared : shims[h][s] = Body(d)
           PlanOK == ~replaned => \A j \in DOMAIN plan : plan[j].kind = "add_cred_shim" =>
                            \E d \in Declared : plan[j].what = Body(d)
<1>1. ShelfOK /\ ListOK /\ BodiesOK /\ PlanOK
  BY DEF Doctored
<1>2. ShelfOK' /\ ListOK' /\ BodiesOK' /\ PlanOK' => Doctored'
  BY DEF Doctored
<1>3. UNCHANGED manifest => ListOK' /\ Declared' = Declared
  BY <1>1 DEF Declared
<1>4. ASSUME UNCHANGED <<shims, replaned>>, Declared \subseteq Declared'
      PROVE  ShelfOK' /\ BodiesOK'
  BY <1>1, <1>4
<1>5. ASSUME UNCHANGED <<plan, replaned>>, Declared \subseteq Declared'
      PROVE  PlanOK'
  BY <1>1, <1>5
<1>6. ASSUME plan' = <<>>
      PROVE  PlanOK'
  BY <1>6
<1>7. ASSUME NEW a, NEW t, NEW w, shims' = [shims EXCEPT ![a] = Put(@, t, w)],
             w.ids = {} \/ (~replaned => \E d \in Declared : w = Body(d)),
             UNCHANGED <<manifest, replaned>>
      PROVE  ShelfOK' /\ BodiesOK'
  <2>1. ShelfOK'
    BY <1>1, <1>7
  <2>2. \A h \in Harnesses : shims'[h] = IF h = a THEN Put(shims[h], t, w) ELSE shims[h]
    BY <1>1, <1>7
  <2>3. ASSUME ~replaned, NEW h \in Harnesses, NEW s \in DOMAIN shims'[h]
        PROVE  shims'[h][s].ids = {} \/ \E d \in Declared : shims'[h][s] = Body(d)
    <3>1. CASE h = a /\ s = t
      <4>1. shims'[h] = Put(shims[a], t, w)
        BY <2>2, <3>1
      <4>2. shims'[h][s] = w
        BY <3>1, <4>1 DEF Put
      <4> QED
        BY <1>7, <2>3, <4>2
    <3>2. CASE ~(h = a /\ s = t)
      <4>1. s \in DOMAIN shims[h] /\ shims'[h][s] = shims[h][s]
        BY <2>2, <3>2, ZenonT(60) DEF Put
      <4> QED
        BY <1>1, <2>3, <4>1
    <3> QED
      BY <3>1, <3>2
  <2> HIDE DEF ShelfOK
  <2> QED
    BY <1>3, <1>7, <2>1, <2>3
<1>8. ASSUME NEW caps \in Seq(Capabilities), NEW hs \in SUBSET Harnesses,
             plan' = PlanOver(caps, hs), ToSet(caps) \subseteq Declared'
      PROVE  PlanOK'
  <2>1. plan' = PlanOver(caps, hs)
    BY <1>8
  <2>2. ASSUME NEW j \in DOMAIN plan', plan'[j].kind = "add_cred_shim"
        PROVE  \E d \in Declared' : plan'[j].what = Body(d)
    <3>1. plan'[j] \in ToSet(plan')
      BY DEF ToSet
    <3>2. PICK i \in DOMAIN caps, h \in hs : Plan(caps[i], h) = <<plan'[j]>>
      BY <2>1, <3>1, PlanOverIs
    <3>3. plan'[j].what = Body(caps[i])
      BY <2>2, <3>2, PlanAsks DEF Asked
    <3>4. caps[i] \in Declared'
      BY <1>8 DEF ToSet
    <3> QED
      BY <3>3, <3>4
  <2> QED
    BY <2>2
<1>9. Harnesses \in SUBSET Harnesses /\ \A h \in Harnesses : {h} \in SUBSET Harnesses
  OBVIOUS
<1>10. manifest.caps \in Seq(Capabilities)
  BY DEF Typed
<1> HIDE DEF ShelfOK, ListOK, BodiesOK, PlanOK
<1>11. CASE UNCHANGED <<shims, manifest, replaned>> /\ (UNCHANGED plan \/ plan' = <<>>)
  BY <1>2, <1>3, <1>4, <1>5, <1>6, <1>11
<1>12. CASE UNCHANGED vars
  BY <1>11, <1>12 DEF vars, run, files, history
<1>13. CASE StartReconcile
  <2>1. /\ plan' = PlanOver(manifest.caps, Harnesses)
        /\ UNCHANGED <<shims, manifest, replaned>>
    BY <1>13 DEF StartReconcile, Begins, files, history
  <2>2. ToSet(manifest.caps) \subseteq Declared'
    BY <2>1 DEF Declared
  <2>3. PlanOK'
    BY <1>8, <1>9, <1>10, <2>1, <2>2
  <2> QED
    BY <1>2, <1>3, <1>4, <2>1, <2>3
<1>14. CASE StartInstall
  <2>1. PICK h \in Harnesses : /\ plan' = PlanOver(manifest.caps, {h})
                               /\ UNCHANGED <<shims, manifest, replaned>>
    BY <1>14 DEF StartInstall, Begins, files, history
  <2>2. ToSet(manifest.caps) \subseteq Declared'
    BY <2>1 DEF Declared
  <2>3. PlanOK'
    BY <1>8, <1>9, <1>10, <2>1, <2>2
  <2> QED
    BY <1>2, <1>3, <1>4, <2>1, <2>3
<1>15. CASE Register
  <2>1. PICK c \in Capabilities : /\ manifest' = [manifest EXCEPT !.caps = Append(@, c)]
                                  /\ plan' = <<>> /\ UNCHANGED <<shims, replaned>>
                                  /\ \A d \in Declared : d.id # c.id
    BY <1>15 DEF Register, Begins, files, history
  <2> PICK q : q = manifest.caps
    OBVIOUS
  <2>3. manifest'.caps = Append(q, c) /\ q \in Seq(Capabilities)
    BY <1>10, <2>1 DEF Typed
  <2>4. /\ DOMAIN Append(q, c) = 1..(Len(q) + 1) /\ Append(q, c)[Len(q) + 1] = c
        /\ \A i \in 1..Len(q) : Append(q, c)[i] = q[i]
        /\ DOMAIN q = 1..Len(q) /\ Len(q) \in Nat
        /\ \A i \in 1..(Len(q) + 1) : i \in 1..Len(q) \/ i = Len(q) + 1
    BY <2>3
  <2>5. \A i \in DOMAIN q : q[i].id # c.id
    BY <2>1 DEF Declared, ToSet
  <2>6. ListOK'
    BY <1>1, <2>3, <2>4, <2>5 DEF ListOK
  <2>7. Declared \subseteq Declared'
    <3>1. \A i \in DOMAIN q : i \in DOMAIN Append(q, c)
      BY <2>4
    <3> QED
      BY <2>3, <2>4, <3>1 DEF Declared, ToSet
  <2> QED
    BY <1>2, <1>4, <1>6, <2>1, <2>6, <2>7
<1>16. CASE RegisterTorn
  <2>1. manifest'.caps = manifest.caps /\ UNCHANGED <<shims, plan, replaned>>
    BY <1>16 DEF RegisterTorn, Typed, files, history
  <2> QED
    BY <1>1, <1>2, <1>4, <1>5, <2>1 DEF ListOK, Declared
<1>17. ASSUME Applying("render"), NEW w, Shim(w), w \in {Act.what} \cup Torn,
              UNCHANGED <<manifest, replaned>>, plan' = plan \/ plan' = <<>>
       PROVE  Doctored'
  <2>1. Act.kind = "add_cred_shim" /\ Len(results) + 1 \in DOMAIN plan
    BY <1>17 DEF Applying, Typed, TypeOK
  <2>2. ~replaned => \E d \in Declared : Act.what = Body(d)
    BY <1>1, <2>1 DEF PlanOK, Act
  <2>3. NoBody.ids = {}
    BY DEF NoBody
  <2>4. w.ids = {} \/ (~replaned => \E d \in Declared : w = Body(d))
    BY <1>17, <2>2, <2>3 DEF Torn
  <2> PICK a : a = Act.harness
    OBVIOUS
  <2> PICK t : t = Act.target
    OBVIOUS
  <2>5. shims' = [shims EXCEPT ![a] = Put(@, t, w)]
    BY <1>17 DEF Shim
  <2>6. ShelfOK' /\ BodiesOK'
    BY <1>7, <1>17, <2>4, <2>5
  <2> QED
    BY <1>2, <1>3, <1>5, <1>6, <1>17, <2>6
<1>18. CASE Render \/ Kill
  <2>1. UNCHANGED <<manifest, replaned>> /\ (plan' = plan \/ plan' = <<>>)
    BY <1>18 DEF Render, Kill, Ends, history
  <2>2. CASE UNCHANGED shims
    BY <1>11, <2>1, <2>2
  <2>3. CASE Applying("render") /\ \E w \in {Act.what} \cup Torn : Shim(w)
    BY <1>17, <2>1, <2>3
  <2> QED
    BY <1>18, <2>2, <2>3 DEF Render, Kill
<1>19. CASE EditShim
  <2>1. UNCHANGED <<manifest, plan, replaned>>
    BY <1>19 DEF EditShim, run
  <2>2. PICK h \in hosts, c \in Capabilities, w \in {NoBody, Unreadable} :
            shims' = [shims EXCEPT ![h] = Put(@, c.shim, w)]
    BY <1>19 DEF EditShim
  <2>3. w.ids = {}
    BY DEF NoBody, Unreadable
  <2> QED
    BY <1>2, <1>3, <1>5, <1>7, <2>1, <2>2, <2>3
<1>20. CASE EditManifest
  <2>1. PICK m \in Manifests : manifest' = [parses |-> Parses(m), caps |-> m]
    BY <1>20 DEF EditManifest
  <2>2. manifest'.caps = m
    BY <2>1
  <2>3. ListOK'
    BY <2>2, ReconcileAssumption DEF ListOK
  <2>4. shims' = shims /\ replaned' = TRUE
    BY <1>20 DEF EditManifest, files
  <2> QED
    BY <1>1, <1>2, <2>3, <2>4 DEF ShelfOK, BodiesOK, PlanOK
<1>21. CASE /\ Acb /\ ~StartReconcile /\ ~StartInstall /\ ~Register /\ ~RegisterNext
            /\ ~Render
  <2> USE DEF Step, Fails, Conclude, Ends, files, history
  <2>1. CASE ManifestError
    BY <1>11, <2>1 DEF ManifestError
  <2>2. CASE Unavailable
    BY <1>11, <2>2 DEF Unavailable
  <2>3. CASE Skip
    BY <1>11, <2>3 DEF Skip
  <2>4. CASE ToConfig
    BY <1>11, <2>4 DEF ToConfig
  <2>5. CASE Load
    BY <1>11, <2>5 DEF Load
  <2>6. CASE Raises
    BY <1>11, <2>6 DEF Raises
  <2>7. CASE Backup
    BY <1>11, <2>7 DEF Backup
  <2>8. CASE WriteConfig
    BY <1>11, <2>8 DEF WriteConfig
  <2>9. CASE Emit
    BY <1>11, <2>9 DEF Emit
  <2>10. CASE Finish
    BY <1>11, <2>10 DEF Finish
  <2>11. CASE Check
    BY <1>11, <2>11 DEF Check, ToRender
  <2> QED
    BY <1>21, <2>1, <2>2, <2>3, <2>4, <2>5, <2>6, <2>7, <2>8, <2>9, <2>10, <2>11 DEF Acb
<1>22. CASE HarnessWrites \/ Misedit
  BY <1>11, <1>22 DEF HarnessWrites, Misedit, run, history
<1>23. CASE RegisterNext
  <2>1. UNCHANGED <<shims, manifest, replaned>>
    BY <1>23 DEF RegisterNext, files, history
  <2>2. CASE plan' = plan \/ plan' = <<>>
    BY <1>11, <2>1, <2>2
  <2>3. ASSUME NEW d \in Declared, NEW h \in scope, plan' = plan \o Plan(d, h)
        PROVE  PlanOK'
    <3>1. PICK S : plan \in Seq(S)
      BY DEF Typed, IsList
    <3>2. CASE Plan(d, h) = <<>>
      <4>1. plan' = plan
        BY <2>3, <3>1, <3>2
      <4> QED
        BY <1>5, <2>1, <4>1, <1>3
    <3>3. ASSUME NEW a, Plan(d, h) = <<a>> PROVE PlanOK'
      <4>1. ASSUME NEW j \in DOMAIN plan', plan'[j].kind = "add_cred_shim"
            PROVE  plan'[j] = a \/ (j \in DOMAIN plan /\ plan'[j] = plan[j])
        <5>1. plan' = plan \o <<a>>
          BY <2>3, <3>3
        <5>2. Len(<<a>>) = 1 /\ <<a>>[1] = a
          OBVIOUS
        <5>3. plan \in Seq(S \cup {a}) /\ <<a>> \in Seq(S \cup {a})
          BY <3>1
        <5>4. /\ DOMAIN plan' = 1..(Len(plan) + 1) /\ Len(plan) \in Nat
              /\ \A i \in 1..Len(plan) : plan'[i] = plan[i]
              /\ plan'[Len(plan) + 1] = a /\ DOMAIN plan = 1..Len(plan)
          BY <5>1, <5>2, <5>3
        <5>5. j \in 1..Len(plan) \/ j = Len(plan) + 1
          BY <5>4
        <5> QED
          BY <5>4, <5>5
      <4>2. a.kind = "add_cred_shim" => a.what = Body(d)
        BY <3>3, PlanAsks DEF Asked
      <4>3. Declared' = Declared
        BY <1>3, <2>1
      <4> QED
        BY <1>1, <2>1, <4>1, <4>2, <4>3 DEF PlanOK
    <3> QED
      BY <3>2, <3>3, PlanIsShort
  <2>4. \/ plan' = plan \/ plan' = <<>>
        \/ \E d \in Declared, h \in scope : plan' = plan \o Plan(d, h)
    BY <1>23 DEF RegisterNext, Ends
  <2>5. CASE \E d \in Declared, h \in scope : plan' = plan \o Plan(d, h)
    BY <1>2, <1>3, <1>4, <2>1, <2>3, <2>5
  <2> QED
    BY <2>2, <2>4, <2>5
<1> QED
  BY <1>12, <1>13, <1>14, <1>15, <1>16, <1>18, <1>19, <1>20, <1>21, <1>22, <1>23
     DEF Next, Others

(* The levels are ranked in their order.                                   *)
LEMMA Ranks == Rank("D0") = 1 /\ Rank("D1") = 2 /\ Rank("H1") = 3 /\ Rank("H1+D1") = 4
<1>1. /\ DOMAIN Levels = 1..4
      /\ Levels[1] = "D0" /\ Levels[2] = "D1" /\ Levels[3] = "H1" /\ Levels[4] = "H1+D1"
  BY DEF Levels
<1>2. ASSUME NEW n \in 1..4, NEW l, Levels[n] = l PROVE Rank(l) = n
  <2>1. \A i \in 1..4 : Levels[i] = l => i = n
    <3>1. \A i \in 1..4 : i = 1 \/ i = 2 \/ i = 3 \/ i = 4
      OBVIOUS
    <3> QED
      BY <1>1, <1>2, <3>1
  <2> QED
    BY <1>1, <1>2, <2>1 DEF Rank
<1> QED
  BY <1>1, <1>2

(* Doctor fails what inspect, audit_surface and the floor see.             *)
LEMMA DoctorIsHonest == ASSUME Typed, Doctored PROVE DoctorHonest
<1> SUFFICES ASSUME DoctorOk, NEW c \in Declared
             PROVE  /\ c.provider = "cred" => \A h \in c.harnesses : Available(h) =>
                        /\ c.shim \in Listed(h)
                        /\ c \in Audited(h) /\ shims[h][c.shim].readable =>
                            /\ c.id \in shims[h][c.shim].ids
                            /\ c.source = "vault" /\ ~replaned =>
                                    reach[shims[h][c.shim].plane] # "present_broken"
                    /\ c.floor \in {"H1", "H1+D1"} => c.rung = "remote-op"
                    /\ c.floor = "D1" => c.issues \/ c.rung = "remote-op"
                    /\ c.floor = "H1+D1" => c.issues
  BY DEF DoctorHonest
<1>1. /\ \A h \in Harnesses : Verdict(c, h) \notin {"present_broken", "absent"}
      /\ ~BelowFloor(c)
      /\ \A h \in Harnesses : Available(h) => Clobbered(h) = {}
  BY DEF DoctorOk
<1>2. PICK i \in DOMAIN manifest.caps : c = manifest.caps[i]
  BY DEF Declared, ToSet
<1>3. c \in Declarations /\ c.harnesses \subseteq Harnesses
  <2>1. c \in Capabilities
    BY <1>2 DEF Typed
  <2> QED
    BY <2>1, ReconcileAssumption DEF Declarations
<1>4. ASSUME c.provider = "cred", NEW h \in c.harnesses, Available(h)
      PROVE  /\ c.shim \in Listed(h)
             /\ c \in Audited(h) /\ shims[h][c.shim].readable =>
                /\ c.id \in shims[h][c.shim].ids
                /\ c.source = "vault" /\ ~replaned =>
                        reach[shims[h][c.shim].plane] # "present_broken"
  <2>1. h \in Harnesses /\ Verdict(c, h) = Inspect(c, h)
    BY <1>3, <1>4 DEF Verdict
  <2>2. /\ c.sound /\ c.shim \in Listed(h) /\ c.shim \in DOMAIN shims[h]
        /\ Reachability(c) # "present_broken"
    BY <1>1, <1>4, <2>1 DEF Inspect, Listed
  <2>3. ASSUME c \in Audited(h), shims[h][c.shim].readable
        PROVE  c.id \in shims[h][c.shim].ids
    BY <1>1, <1>4, <2>1, <2>2, <2>3 DEF Clobbered
  <2>4. ASSUME c.id \in shims[h][c.shim].ids, c.source = "vault", ~replaned
        PROVE  reach[shims[h][c.shim].plane] # "present_broken"
    <3>1. PICK d \in Declared : shims[h][c.shim] = Body(d)
      BY <2>1, <2>2, <2>4 DEF Doctored
    <3>2. d.id = c.id /\ shims[h][c.shim].plane = d.plane
      BY <2>4, <3>1 DEF Body
    <3>3. d = c
      BY <1>2, <3>2 DEF Declared, ToSet, Doctored
    <3>4. Reachability(c) = reach[c.plane]
      BY <2>2, <2>4 DEF Reachability, ProbePlane
    <3> QED
      BY <2>2, <3>2, <3>3, <3>4
  <2> QED
    BY <2>2, <2>3, <2>4
<1>5. /\ c.floor \in {"H1", "H1+D1"} => c.rung = "remote-op"
      /\ c.floor = "D1" => c.issues \/ c.rung = "remote-op"
      /\ c.floor = "H1+D1" => c.issues
  <2>1. ~Unattainable(c) /\ (c.floor # Undeclared => ~(Rank(Effective(c)) < Rank(c.floor)))
    BY <1>1 DEF BelowFloor
  <2>2. c.floor \in {"H1", "H1+D1"} => c.rung = "remote-op"
    BY <2>1 DEF Unattainable
  <2>3. CASE c.floor = "D1"
    <3>1. Rank(Effective(c)) # 1
      BY <2>1, <2>3, Ranks DEF Undeclared
    <3>2. ~c.issues /\ c.rung # "remote-op" => Effective(c) = "D0"
      BY DEF Effective
    <3> QED
      BY <2>3, <3>1, <3>2, Ranks
  <2>4. CASE c.floor = "H1+D1"
    <3>1. Rank(Effective(c)) # 3
      BY <2>1, <2>4, Ranks DEF Undeclared
    <3>2. ~c.issues => Effective(c) = "H1"
      BY <2>2, <2>4 DEF Effective
    <3> QED
      BY <2>2, <2>4, <3>1, <3>2, Ranks
  <2> QED
    BY <2>2, <2>3, <2>4
<1> QED
  BY <1>4, <1>5

(* When doctor passes, each declared credential has a shim where it should,*)
(* which brokers it by the plane the manifest says if doctor could read it *)
(* and no later capability shares it, also after runs that failed or were  *)
(* killed (surface.py, vault_env_path, hidden_floor_problem).              *)
THEOREM DoctorNeverLies == Spec => []DoctorHonest
<1>1. Init => Typed /\ Doctored
  <2> SUFFICES ASSUME Init PROVE Typed /\ Doctored
    OBVIOUS
  <2>1. PICK m \in Manifests : manifest = [parses |-> Parses(m), caps |-> m]
    BY DEF Init
  <2>2. manifest.caps = m
    BY <2>1
  <2>3. \A i, j \in DOMAIN manifest.caps : manifest.caps[i].id = manifest.caps[j].id => i = j
    BY <2>2, ReconcileAssumption
  <2>4. shims = [h \in Harnesses |-> <<>>] /\ plan = <<>>
    BY DEF Init
  <2>5. \A h \in Harnesses : DOMAIN shims[h] = {}
    BY <2>4
  <2> QED
    BY <2>3, <2>4, <2>5, TypedInit DEF Doctored
<1>2. Typed /\ Doctored /\ [Next]_vars => (Typed /\ Doctored)'
  BY TypedNext, DoctoredNext
<1>3. Typed /\ Doctored => DoctorHonest
  BY DoctorIsHonest
<1> QED
  BY <1>1, <1>2, <1>3, PTL DEF Spec

-----------------------------------------------------------------------------
(* What reconcile leaves to do. *)

(* What a harness reads as depends on its own file.                        *)
LEMMA SameReading ==
    ASSUME NEW h, config'[h] = config[h], UNCHANGED host
    PROVE  /\ Read(h)' = Read(h) /\ Found(h)' = Found(h)
           /\ FirstFound(h)' = FirstFound(h) /\ First(h)' = First(h)
           /\ Available(h)' = Available(h)
<1>1. Read(h)' = Read(h)
  BY DEF Read, host
<1>2. Found(h)' = Found(h)
  BY <1>1 DEF Found
<1>3. FirstFound(h)' = FirstFound(h)
  BY <1>2 DEF FirstFound
<1>4. Available(h)' = Available(h)
  BY DEF Available, host
<1>5. First(h)' = First(h)
  BY <1>1, <1>3 DEF First
<1> QED
  BY <1>1, <1>2, <1>3, <1>4, <1>5

(* What is planned for a credential depends on its shim, for a browser on  *)
(* the file.                                                               *)
LEMMA SamePlan ==
    ASSUME NEW c, NEW h, UNCHANGED host,
           c.provider = "cred" => (c.shim \in Listed(h)' <=> c.shim \in Listed(h)),
           c.provider # "cred" => config'[h] = config[h]
    PROVE  Plan(c, h)' = Plan(c, h)
<1>1. CASE c.provider = "cred"
  <2>1. Reachability(c)' = Reachability(c)
    BY DEF Reachability, host
  <2>2. PlanCred(c, h)' = PlanCred(c, h)
    BY <1>1, <2>1 DEF PlanCred
  <2> QED
    BY <1>1, <2>2 DEF Plan
<1>2. CASE c.provider # "cred"
  <2>1. /\ Read(h)' = Read(h) /\ Found(h)' = Found(h)
        /\ FirstFound(h)' = FirstFound(h) /\ First(h)' = First(h) /\ browsers' = browsers
    BY <1>2, SameReading DEF host
  <2>2. Inspect(c, h)' = Inspect(c, h)
    BY <1>2, <2>1 DEF Inspect
  <2>3. PlanE2e(c, h)' = PlanE2e(c, h)
    BY <2>1, <2>2 DEF PlanE2e
  <2> QED
    BY <1>2, <2>3 DEF Plan
<1> QED
  BY <1>1, <1>2

(* It holds of every state, and so of the next.                            *)
LEMMA AlwaysAsked == \A c, h, a : Plan(c, h) = <<a>> => Asked(c, h, a)
  BY PlanAsks

(* The same of the state after a step.                                     *)
LEMMA AskedNext == (\A c, h, a : Plan(c, h) = <<a>> => Asked(c, h, a))'
  BY AlwaysAsked, PTL

(* A run of reconcile that nobody else disturbs; what it would do now, and *)
(* what nothing can be done about.                                         *)
Undisturbed == mode = "reconcile" /\ edits = since
Due(a) ==
    \E i \in DOMAIN manifest.caps, h \in Harnesses :
        h \in manifest.caps[i].harnesses /\ Available(h) /\ Plan(manifest.caps[i], h) = <<a>>
Settled(a) == a.kind = "manual" \/ Endless(a)

(* A launcher that is written is one of Playwright, and if it floats still *)
(* a declared pin says so.                                                 *)
Meant(a) ==
    /\ a.what.kind \in {"runs", "elsewhere"}
    /\ a.what.at \in Tags => TagPinned(a.harness)

(* The plan still suits the files: where a launcher is to be added there   *)
(* is none but that one, where one is to be pinned it is the first found.  *)
PlanFits ==
    /\ \A j \in DOMAIN plan : plan[j].harness \in Harnesses
    /\ \A j \in DOMAIN plan : plan[j].kind = "add_mcp" =>
            /\ plan[j].target = Wired /\ Meant(plan[j])
            /\ Found(plan[j].harness) \subseteq {Wired}
    /\ \A j \in DOMAIN plan : plan[j].kind = "pin_npx_version" =>
            /\ plan[j].target = FirstFound(plan[j].harness)
            /\ plan[j].target \in Found(plan[j].harness)
            /\ Meant(plan[j])
    /\ \A j, k \in DOMAIN plan :
            plan[j].kind = "add_mcp" /\ plan[k].kind = "pin_npx_version" =>
                plan[j].harness # plan[k].harness

(* What was loaded is still what the file says.                            *)
ActFits ==
    /\ pc \in {"load", "backup", "write"} => Available(Act.harness)
    /\ pc \in {"backup", "write"} =>
            data = Read(Act.harness) /\ (Act.harness \in YamlConfig => yaml)

(* Whatever is due is settled or still to come.                            *)
Pending ==
    \A a : Due(a) => Settled(a) \/ \E j \in DOMAIN plan : j > Len(results) /\ a = plan[j]

(* So it is unless an action has failed.  And when the run has ended with  *)
(* 0, nothing is due that could be done.                                   *)
Converging ==
    /\ shims = [h \in Harnesses |-> shims[h]]
    /\ edits \in Nat /\ since \in Nat /\ since <= edits
    /\ Undisturbed /\ pc # "idle" /\ ~Unapplied => PlanFits /\ ActFits /\ Pending
    /\ Undisturbed /\ pc = "idle" /\ code = "0" => \A a : Due(a) => Settled(a)

(* What never gets done is so by the manifest alone.                       *)
LEMMA SameSettled ==
    ASSUME manifest'.caps = manifest.caps
    PROVE  /\ \A h : TagPinned(h)' <=> TagPinned(h)
           /\ \A a : Settled(a)' <=> Settled(a)
           /\ \A a : Meant(a)' <=> Meant(a)
<1>1. Declared' = Declared
  BY DEF Declared
<1>2. \A h : TagPinned(h)' <=> TagPinned(h)
  BY <1>1 DEF TagPinned
<1> QED
  BY <1>2 DEF Settled, Endless, Meant

(* A pin that a browser capability declares for a harness.                 *)
LEMMA DeclaredTag ==
    ASSUME Typed, NEW c \in Declared, NEW h \in c.harnesses, c.provider # "cred", c.pin \in Tags
    PROVE  TagPinned(h)
<1>1. c.provider = "e2e"
  BY ReconcileAssumption DEF Typed, Declared, ToSet, Declarations
<1> QED
  BY <1>1 DEF TagPinned

(* While no file changes, nothing else becomes due.                        *)
LEMMA QuietStep ==
    ASSUME UNCHANGED <<config, shims, host>>, manifest'.caps = manifest.caps
    PROVE  \A a : Due(a)' <=> Due(a)
<1>1. \A h : Available(h)' = Available(h)
  BY SameReading
<1>2. \A c, h : Plan(c, h)' = Plan(c, h)
  <2>1. \A h : Listed(h)' = Listed(h)
    BY DEF Listed
  <2> QED
    BY <2>1, SamePlan
<1> QED
  BY <1>1, <1>2 DEF Due

(* Nor does the plan cease to fit,                                         *)
LEMMA QuietPlan ==
    ASSUME UNCHANGED <<config, host, plan>>, manifest'.caps = manifest.caps, PlanFits
    PROVE  PlanFits'
<1>1. \A h : /\ Read(h)' = Read(h) /\ Found(h)' = Found(h) /\ FirstFound(h)' = FirstFound(h)
  BY SameReading
<1>2. \A a : Meant(a)' <=> Meant(a)
  BY SameSettled
<1> QED
  BY <1>1, <1>2 DEF PlanFits

(* nor while the launchers that are found stay the same,                   *)
LEMMA FitsStill ==
    ASSUME plan' = plan, manifest'.caps = manifest.caps, PlanFits,
           \A h \in Harnesses : Found(h)' = Found(h) /\ FirstFound(h)' = FirstFound(h)
    PROVE  PlanFits'
<1>1. \A a : Meant(a)' <=> Meant(a)
  BY SameSettled
<1>2. ASSUME NEW j \in DOMAIN plan'
      PROVE  (/\ plan[j].harness \in Harnesses
              /\ plan[j].kind = "add_mcp" =>
                    /\ plan[j].target = Wired /\ Meant(plan[j])
                    /\ Found(plan[j].harness) \subseteq {Wired}
              /\ plan[j].kind = "pin_npx_version" =>
                    /\ plan[j].target = FirstFound(plan[j].harness)
                    /\ plan[j].target \in Found(plan[j].harness)
                    /\ Meant(plan[j]))'
  <2> PICK a : a = plan[j]
    OBVIOUS
  <2> PICK h : h = a.harness
    OBVIOUS
  <2>1. plan'[j] = a /\ h \in Harnesses
    BY DEF PlanFits
  <2>2. Found(h)' = Found(h) /\ FirstFound(h)' = FirstFound(h) /\ (Meant(a)' <=> Meant(a))
    BY <1>1, <2>1
  <2>3. a.kind = "add_mcp" => a.target = Wired /\ Meant(a) /\ Found(h) \subseteq {Wired}
    BY DEF PlanFits
  <2>4. a.kind = "pin_npx_version" =>
            a.target = FirstFound(h) /\ a.target \in Found(h) /\ Meant(a)
    BY DEF PlanFits
  <2>5. a.kind = "add_mcp" => a.target = Wired /\ Meant(a)' /\ Found(h)' \subseteq {Wired}
    BY <2>2, <2>3
  <2>6. a.kind = "pin_npx_version" =>
            a.target = FirstFound(h)' /\ a.target \in Found(h)' /\ Meant(a)'
    BY <2>2, <2>4
  <2> QED
    BY <2>1, <2>5, <2>6
<1>3. \A j, k \in DOMAIN plan' :
            plan'[j].kind = "add_mcp" /\ plan'[k].kind = "pin_npx_version" =>
                plan'[j].harness # plan'[k].harness
  BY DEF PlanFits
<1> QED
  BY <1>2, <1>3 DEF PlanFits

(* or the action in hand.                                                  *)
LEMMA QuietAct ==
    ASSUME UNCHANGED <<config, host, plan, results, data>>, ActFits, pc' = pc
    PROVE  ActFits'
<1>1. \A h : Read(h)' = Read(h) /\ Available(h)' = Available(h)
  BY SameReading
<1>2. Act' = Act
  BY DEF Act
<1> QED
  BY <1>1, <1>2 DEF ActFits, host

(* One more result: an action that failed stays failed.                    *)
LEMMA FailureStays ==
    ASSUME Typed, Len(results) < Len(plan), NEW s \in Statuses,
           results' = Append(results, s), plan' = plan
    PROVE  /\ Unapplied => Unapplied'
           /\ s = "unavailable" \/ (s # "applied" /\ Act.kind # "manual") => Unapplied'
           /\ Len(results') = Len(results) + 1 /\ Len(results) \in Nat
<1>1. /\ Len(results') = Len(results) + 1 /\ results \in Seq(Statuses) /\ Len(results) \in Nat
      /\ \A i \in DOMAIN results : i \in DOMAIN results' /\ results'[i] = results[i]
      /\ Len(results) + 1 \in DOMAIN results' /\ results'[Len(results) + 1] = s
  BY DEF Typed
<1>2. Unapplied => Unapplied'
  BY <1>1 DEF Unapplied
<1>3. s = "unavailable" \/ (s # "applied" /\ Act.kind # "manual") => Unapplied'
  BY <1>1 DEF Unapplied, Act
<1> QED
  BY <1>1, <1>2, <1>3

(* One that was carried out, or never could be, is settled.                *)
LEMMA OneMore ==
    ASSUME Typed, Pending, Len(results) < Len(plan), NEW s \in Statuses,
           results' = Append(results, s), plan' = plan, manifest'.caps = manifest.caps,
           \A a : Due(a)' /\ ~Settled(a) => Due(a) /\ a # Act
    PROVE  Pending'
<1>1. /\ Len(results') = Len(results) + 1 /\ Len(results) \in Nat
      /\ Len(plan) \in Nat /\ DOMAIN plan = 1..Len(plan)
  BY FailureStays DEF Typed
<1> SUFFICES ASSUME NEW a, Due(a)', ~Settled(a)
             PROVE  \E j \in DOMAIN plan' : j > Len(results') /\ a = plan'[j]
  BY SameSettled DEF Pending
<1>2. Due(a) /\ a # Act
  OBVIOUS
<1>3. PICK j \in DOMAIN plan : j > Len(results) /\ a = plan[j]
  BY <1>2 DEF Pending
<1>4. j # Len(results) + 1
  BY <1>2, <1>3 DEF Act
<1>5. j > Len(results')
  BY <1>1, <1>3, <1>4
<1> QED
  BY <1>3, <1>5

(* What reconcile plans suits the files, and is all there is to do.        *)
LEMMA FreshPlan ==
    ASSUME Typed, plan' = PlanOver(manifest.caps, Harnesses), results' = <<>>, pc' = "next",
           UNCHANGED <<config, shims, host, manifest>>
    PROVE  PlanFits' /\ ActFits' /\ Pending'
<1>1. /\ plan' \in Seq(Steps(manifest.caps))
      /\ \A a : a \in ToSet(plan') <=> Due(a)
  <2>1. manifest.caps \in Seq(Capabilities) /\ Harnesses \in SUBSET Harnesses
    BY DEF Typed
  <2> QED
    BY <2>1, PlanOverIs DEF Due
<1>2. ASSUME NEW j \in DOMAIN plan'
      PROVE  \E c \in Declared : \E h \in Harnesses :
                h \in c.harnesses /\ Asked(c, h, plan'[j])
  <2>1. plan'[j] \in ToSet(plan')
    BY DEF ToSet
  <2>2. PICK i \in DOMAIN manifest.caps, h \in Harnesses :
            h \in manifest.caps[i].harnesses /\ Plan(manifest.caps[i], h) = <<plan'[j]>>
    BY <1>1, <2>1 DEF Due
  <2>3. manifest.caps[i] \in Declared
    BY DEF Declared, ToSet
  <2> QED
    BY <2>2, <2>3, AlwaysAsked
<1>3. \A h : /\ Found(h)' = Found(h) /\ FirstFound(h)' = FirstFound(h)
  BY SameReading
<1>4. ASSUME NEW j \in DOMAIN plan' PROVE plan'[j].harness \in Harnesses
  BY <1>2 DEF Asked
<1>5. ASSUME NEW j \in DOMAIN plan', plan'[j].kind = "add_mcp"
      PROVE  /\ plan'[j].target = Wired /\ Meant(plan'[j])
             /\ Found(plan'[j].harness) = {}
  <2>1. PICK c \in Declared, h \in Harnesses :
            /\ h \in c.harnesses /\ plan'[j].harness = h /\ c.provider # "cred"
            /\ Found(h) = {} /\ plan'[j].target = Wired /\ plan'[j].what = Wiring(c.pin)
    BY <1>2, <1>5 DEF Asked
  <2>2. plan'[j].what.kind = "runs" /\ plan'[j].what.at = c.pin
    BY <2>1 DEF Wiring
  <2> QED
    BY <2>1, <2>2, DeclaredTag DEF Meant
<1>6. ASSUME NEW j \in DOMAIN plan', plan'[j].kind = "pin_npx_version"
      PROVE  /\ plan'[j].target = FirstFound(plan'[j].harness)
             /\ plan'[j].target \in Found(plan'[j].harness)
             /\ Meant(plan'[j])
  <2>1. PICK c \in Declared, h \in Harnesses :
            /\ h \in c.harnesses /\ plan'[j].harness = h /\ c.provider # "cred"
            /\ Found(h) # {} /\ Floats(First(h)) /\ plan'[j].target = FirstFound(h)
            /\ plan'[j].what = Pinned(First(h), c.pin)
    BY <1>2, <1>6 DEF Asked
  <2>2. FirstFound(h) \in Found(h)
    BY <2>1 DEF FirstFound
  <2>3. plan'[j].what.kind \in {"runs", "elsewhere"} /\ plan'[j].what.at = c.pin
    BY <2>1 DEF Pinned, Floats
  <2> QED
    BY <2>1, <2>2, <2>3, DeclaredTag DEF Meant
<1>7. PlanFits'
  <2>1. \A a : Meant(a)' <=> Meant(a)
    BY SameSettled
  <2> QED
    BY <1>3, <1>4, <1>5, <1>6, <2>1 DEF PlanFits
<1>8. ActFits'
  BY DEF ActFits
<1>9. Pending'
  <2>1. \A a : Due(a)' <=> Due(a)
    BY QuietStep
  <2>2. \A a : Due(a) => \E j \in DOMAIN plan' : a = plan'[j]
    BY <1>1 DEF ToSet
  <2>3. Len(results') = 0 /\ \A j \in DOMAIN plan' : j > 0
    BY <1>1
  <2> QED
    BY <2>1, <2>2, <2>3 DEF Pending
<1> QED
  BY <1>7, <1>8, <1>9

(* A shim that is rendered is not due any more, or never listed; and       *)
(* nothing else is due that was not.                                       *)
LEMMA RenderSettles ==
    ASSUME Typed, Converging, NEW a0, NEW t, NEW w, UNCHANGED <<config, host, manifest>>,
           shims' = [shims EXCEPT ![a0] = Put(@, t, w)],
           Act.kind = "add_cred_shim", Act.harness = a0, Act.target = t
    PROVE  \A a : Due(a)' /\ ~Settled(a) => Due(a) /\ a # Act
<1> SUFFICES ASSUME NEW a, Due(a)', ~Settled(a) PROVE Due(a) /\ a # Act
  OBVIOUS
<1>1. PICK i \in DOMAIN manifest.caps, h \in Harnesses :
        /\ h \in manifest.caps[i].harnesses /\ Available(h)'
        /\ Plan(manifest.caps[i], h)' = <<a>>
  BY DEF Due
<1> PICK c : c = manifest.caps[i]
  OBVIOUS
<1>2. Available(h)
  BY <1>1, SameReading
<1>3. Asked(c, h, a)'
  BY <1>1, AskedNext
<1>4. \A s : s \in Listed(h)' <=>
            s \in Listed(h) \/ (h = a0 /\ s = t /\ <<h, s>> \notin Unlisted)
  <2>1. shims'[h] = IF h = a0 THEN Put(shims[h], t, w) ELSE shims[h]
    BY DEF Converging
  <2>2. \A s : s \in DOMAIN shims'[h] <=> s \in DOMAIN shims[h] \/ (h = a0 /\ s = t)
    BY <2>1 DEF Put
  <2> QED
    BY <2>2 DEF Listed
<1>5. ASSUME c.provider = "cred", h = a0, c.shim = t PROVE FALSE
  <2>1. a.kind = "add_cred_shim" /\ a.harness = h /\ a.target = c.shim /\ c.shim \notin Listed(h)'
    BY <1>3, <1>5 DEF Asked, Settled
  <2>2. <<h, c.shim>> \in Unlisted
    BY <1>4, <1>5, <2>1
  <2> QED
    BY <2>1, <2>2 DEF Settled, Endless
<1>6. Plan(c, h)' = Plan(c, h)
  <2>1. c.provider = "cred" => (c.shim \in Listed(h)' <=> c.shim \in Listed(h))
    BY <1>4, <1>5
  <2>2. c.provider # "cred" => config'[h] = config[h]
    OBVIOUS
  <2> QED
    BY <2>1, <2>2, SamePlan
<1>7. Due(a)
  BY <1>1, <1>2, <1>6 DEF Due
<1>8. a # Act
  BY <1>3, <1>5 DEF Asked
<1> QED
  BY <1>7, <1>8

(* A configuration file that was written holds a launcher that is pinned,  *)
(* or floats for good: nothing more is due there for a browser.            *)
LEMMA WriteSettles ==
    ASSUME Typed, Converging, Undisturbed, ~Unapplied, WriteConfig,
           config' = [config EXCEPT ![Act.harness] = Sound(Writes)]
    PROVE  PlanFits' /\ \A a : Due(a)' /\ ~Settled(a) => Due(a) /\ a # Act
<1> DEFINE Done(l) == l.kind \in {"runs", "elsewhere"} /\ l.at = Act.what.at
<1> PICK a0 : a0 = Act.harness
  OBVIOUS
<1> PICK t : t = Act.target
  OBVIOUS
<1> PICK v : v = Act.what
  OBVIOUS
<1> PICK k0 : k0 = Len(results) + 1
  OBVIOUS
<1>1. /\ PlanFits /\ ActFits /\ pc = "write" /\ k0 \in DOMAIN plan /\ Act = plan[k0]
  BY DEF WriteConfig, Applying, Converging, Typed, Act
<1>2. /\ Act.kind \in {"add_mcp", "pin_npx_version"} /\ a0 \in Harnesses
  <2>1. Addable \subseteq Harnesses
    BY ReconcileAssumption
  <2> QED
    BY <1>1, <2>1 DEF Typed, TypeOK
<1>3. /\ Available(a0) /\ data = Read(a0) /\ (a0 \in YamlConfig => yaml)
  BY <1>1 DEF ActFits
<1>4. /\ config' = [config EXCEPT ![a0] = Sound(Writes)]
      /\ UNCHANGED <<shims, host, manifest, plan, yaml>>
  BY DEF WriteConfig, host
<1>5. /\ \A h \in Harnesses : h # a0 => config'[h] = config[h]
      /\ config'[a0] = Sound(Writes)
  BY <1>2, <1>4 DEF Typed
<1>6. Read(a0)' = Writes
  BY <1>3, <1>4, <1>5 DEF Read, Sound
<1>7. \A h \in Harnesses : Available(h)' => Available(h)
  <2>1. \A h \in Harnesses : h # a0 => Available(h)' = Available(h)
    BY <1>4, <1>5, SameReading
  <2> QED
    BY <1>3, <2>1
<1>8. \A h \in Harnesses : h # a0 => Found(h)' = Found(h) /\ FirstFound(h)' = FirstFound(h)
  BY <1>4, <1>5, SameReading
<1>9. Meant(Act) /\ \A a : Meant(a)' <=> Meant(a)
  BY <1>1, <1>2, <1>4, SameSettled DEF PlanFits
<1>10. v.kind \in {"runs", "elsewhere"}
  BY <1>9 DEF Meant
(* To add: there was none but that one.  To pin: it was the first.         *)
<1>11. ASSUME Act.kind = "add_mcp"
       PROVE  PlanFits' /\ Found(a0)' # {} /\ Done(First(a0)')
  <2>1. t = Wired /\ Found(a0) \subseteq {Wired}
    BY <1>1, <1>11 DEF PlanFits
  <2>2. Read(a0)' = Put(Read(a0), Wired, v)
    BY <1>3, <1>6, <1>11, <2>1 DEF Writes
  <2>3. /\ \A n : n \in DOMAIN Put(Read(a0), Wired, v) <=> n \in DOMAIN Read(a0) \/ n = Wired
        /\ Put(Read(a0), Wired, v)[Wired] = v
        /\ \A n \in DOMAIN Read(a0) : n # Wired => Put(Read(a0), Wired, v)[n] = Read(a0)[n]
    BY DEF Put
  <2>4. Found(a0)' = {Wired}
    <3>1. \A n : n \in Found(a0)' <=> n = Wired
      BY <1>10, <2>1, <2>2, <2>3 DEF Found, Playwright
    <3> QED
      BY <3>1
  <2>5. FirstFound(a0)' = Wired
    BY <2>4 DEF FirstFound
  <2>6. First(a0)' = v
    BY <2>2, <2>3, <2>5 DEF First
  <2>7. PlanFits'
    <3>1. \A j \in DOMAIN plan : plan[j].kind = "pin_npx_version" => plan[j].harness # a0
      BY <1>1, <1>11 DEF PlanFits
    <3> QED
      BY <1>1, <1>4, <1>8, <1>9, <2>4, <3>1 DEF PlanFits
  <2> QED
    BY <1>10, <2>4, <2>6, <2>7
<1>12. ASSUME Act.kind = "pin_npx_version"
       PROVE  PlanFits' /\ Found(a0)' # {} /\ Done(First(a0)')
  <2>1. t = FirstFound(a0) /\ t \in Found(a0)
    BY <1>1, <1>12 DEF PlanFits
  <2> PICK w : w = Relaunched(data)
    OBVIOUS
  <2>2. Read(a0)' = Put(Read(a0), t, w) /\ w.kind = v.kind /\ w.at = v.at
    BY <1>3, <1>6, <1>12 DEF Writes, Relaunched
  <2>3. /\ \A n : n \in DOMAIN Put(Read(a0), t, w) <=> n \in DOMAIN Read(a0) \/ n = t
        /\ Put(Read(a0), t, w)[t] = w
        /\ \A n \in DOMAIN Read(a0) : n # t => Put(Read(a0), t, w)[n] = Read(a0)[n]
    BY DEF Put
  <2>4. Found(a0)' = Found(a0)
    <3>1. \A n : n \in Found(a0)' <=> n \in Found(a0)
      BY <1>10, <2>1, <2>2, <2>3 DEF Found, Playwright
    <3>2. Found(a0)' = {n \in Found(a0)' : TRUE} /\ Found(a0) = {n \in Found(a0) : TRUE}
      BY DEF Found
    <3> QED
      BY <3>1, <3>2
  <2>5. FirstFound(a0)' = t
    BY <2>1, <2>4 DEF FirstFound
  <2>6. First(a0)' = w
    BY <2>2, <2>3, <2>5 DEF First
  <2>7. PlanFits'
    <3>1. \A h \in Harnesses : Found(h)' = Found(h) /\ FirstFound(h)' = FirstFound(h)
      BY <1>8, <2>1, <2>4, <2>5
    <3> QED
      BY <1>1, <1>4, <3>1, FitsStill
  <2> QED
    BY <1>10, <2>1, <2>2, <2>4, <2>6, <2>7
<1>13. PlanFits' /\ Found(a0)' # {} /\ Done(First(a0)')
  BY <1>2, <1>11, <1>12
<1>14. ASSUME NEW a, Due(a)', ~Settled(a) PROVE Due(a) /\ a # Act
  <2>1. PICK i \in DOMAIN manifest.caps, h \in Harnesses :
          /\ h \in manifest.caps[i].harnesses /\ Available(h)'
          /\ Plan(manifest.caps[i], h)' = <<a>>
    BY <1>4, <1>14 DEF Due
  <2> PICK c : c = manifest.caps[i]
    OBVIOUS
  <2>2. Asked(c, h, a)'
    BY <1>4, <2>1, AskedNext
  <2>3. ASSUME c.provider # "cred", h = a0 PROVE FALSE
    <3> PICK l : l = First(a0)'
      OBVIOUS
    <3>1. /\ a.harness = a0 /\ a.kind = "pin_npx_version"
          /\ a.what = Pinned(l, c.pin) /\ Floats(l)
      BY <1>13, <1>14, <2>2, <2>3 DEF Asked, Settled
    <3>2. a.what.kind = l.kind /\ (l.kind = "runs" => l.at \in Tags)
      BY <3>1 DEF Pinned, Floats
    <3>3. l.kind = "runs" => TagPinned(a0)
      BY <1>9, <1>13, <3>2 DEF Meant
    <3>4. Endless(a)
      BY <1>13, <3>1, <3>2, <3>3 DEF Endless
    <3> QED
      BY <1>14, <3>4 DEF Settled
  <2>4. Plan(c, h)' = Plan(c, h)
    <3>1. c.provider = "cred" => (c.shim \in Listed(h)' <=> c.shim \in Listed(h))
      BY <1>4 DEF Listed
    <3>2. c.provider # "cred" => config'[h] = config[h]
      BY <1>5, <2>3
    <3> QED
      BY <1>4, <3>1, <3>2, SamePlan
  <2>5. Due(a)
    BY <1>4, <1>7, <2>1, <2>4 DEF Due
  <2>6. a # Act
    BY <1>2, <1>14, <2>2, <2>3 DEF Asked, Settled
  <2> QED
    BY <2>5, <2>6
<1> QED
  BY <1>13, <1>14

(* Every step of ACB keeps it; a step of another disturbs the run.         *)
LEMMA ConvergingNext == ASSUME Typed, Converging, [Next]_vars PROVE Converging'
<1> DEFINE Shelf == shims = [h \in Harnesses |-> shims[h]]
           Count == edits \in Nat /\ since \in Nat /\ since <= edits
           Runs == Undisturbed /\ pc # "idle" /\ ~Unapplied => PlanFits /\ ActFits /\ Pending
           Rests == Undisturbed /\ pc = "idle" /\ code = "0" => \A a : Due(a) => Settled(a)
<1>1. Shelf /\ Count /\ Runs /\ Rests
  BY DEF Converging
<1>2. Shelf' /\ Count' /\ Runs' /\ Rests' => Converging'
  BY DEF Converging
<1>3. UNCHANGED <<edits, since>> => Count'
  BY <1>1
<1>4. UNCHANGED shims => Shelf'
  BY <1>1
<1>5. ASSUME NEW a, NEW t, NEW w, shims' = [shims EXCEPT ![a] = Put(@, t, w)]
      PROVE  Shelf'
  BY <1>1, <1>5
<1>6. mode' # "reconcile" => Runs' /\ Rests'
  BY DEF Undisturbed
<1>7. pc' # "idle" \/ code' # "0" => Rests'
  OBVIOUS
<1>8. pc' = "idle" => Runs'
  OBVIOUS
<1> HIDE DEF Shelf, Count, Runs, Rests
(* A step within an undisturbed run. *)
<1>9. ASSUME pc # "idle", UNCHANGED <<mode, edits, since>>, pc' # "idle",
             Unapplied => Unapplied',
             Undisturbed /\ ~Unapplied' /\ PlanFits /\ ActFits /\ Pending =>
                PlanFits' /\ ActFits' /\ Pending'
      PROVE  Runs' /\ Rests' /\ Count'
  <2>1. Undisturbed' = Undisturbed
    BY <1>9 DEF Undisturbed
  <2>2. Runs'
    BY <1>1, <1>9, <2>1 DEF Runs
  <2> QED
    BY <1>3, <1>7, <1>9, <2>2
(* A step that leaves the files, and at most adds a result. *)
<1>10. ASSUME pc # "idle", UNCHANGED <<config, shims, host, manifest, mode, edits, since, plan>>,
              Len(results) < Len(plan), pc' \in {"next", "emit"},
              NEW s \in Statuses, results' = Append(results, s),
              s = "unavailable" \/ (s # "applied" /\ Act.kind # "manual") \/ Act.kind = "manual"
       PROVE  Converging'
  <2>1. \A a : Due(a)' <=> Due(a)
    BY <1>10, QuietStep
  <2>2. Unapplied => Unapplied'
    BY <1>10, FailureStays
  <2>3. CASE Unapplied'
    BY <1>2, <1>4, <1>9, <1>10, <2>2, <2>3
  <2>4. CASE ~Unapplied'
    <3>1. Act.kind = "manual"
      BY <1>10, <2>4, FailureStays
    <3>2. \A a : a = Act => Settled(a)
      BY <3>1 DEF Settled
    <3>3. \A a : Due(a)' /\ ~Settled(a) => Due(a) /\ a # Act
      BY <2>1, <3>2
    <3>4. Pending => Pending'
      BY <1>10, <3>3, OneMore
    <3>5. PlanFits => PlanFits'
      BY <1>10, QuietPlan
    <3>6. ActFits'
      BY <1>10 DEF ActFits
    <3> QED
      BY <1>2, <1>4, <1>9, <1>10, <2>2, <3>4, <3>5, <3>6
  <2> QED
    BY <2>3, <2>4
<1>11. ASSUME pc # "idle",
              UNCHANGED <<config, shims, host, manifest, mode, edits, since, plan, results>>,
              pc' # "idle", Undisturbed /\ PlanFits /\ ActFits => ActFits'
       PROVE  Converging'
  <2>1. \A a : (Due(a)' <=> Due(a)) /\ (Settled(a)' <=> Settled(a))
    BY <1>11, QuietStep, SameSettled
  <2>2. (Pending => Pending') /\ Unapplied' = Unapplied
    BY <1>11, <2>1 DEF Pending, Unapplied
  <2>3. PlanFits => PlanFits'
    BY <1>11, QuietPlan
  <2> QED
    BY <1>2, <1>4, <1>9, <1>11, <2>2, <2>3
<1>12. CASE UNCHANGED vars
  <2>1. /\ UNCHANGED <<config, shims, host, plan, results, data, pc, mode, edits, since, code>>
        /\ manifest' = manifest
    BY <1>12 DEF vars, files, run, bounds
  <2>2. \A a : (Due(a)' <=> Due(a)) /\ (Settled(a)' <=> Settled(a))
    BY <2>1, QuietStep, SameSettled
  <2>3. (PlanFits => PlanFits') /\ (ActFits => ActFits')
    BY <2>1, QuietPlan, QuietAct
  <2>4. (Pending => Pending') /\ Unapplied' = Unapplied
    BY <2>1, <2>2 DEF Pending, Unapplied
  <2>5. Undisturbed' = Undisturbed
    BY <2>1 DEF Undisturbed
  <2> QED
    BY <1>1, <1>2, <1>3, <1>4, <2>1, <2>2, <2>3, <2>4, <2>5 DEF Runs, Rests
<1>13. CASE StartReconcile
  <2>1. /\ plan' = PlanOver(manifest.caps, Harnesses) /\ results' = <<>> /\ pc' = "next"
        /\ UNCHANGED <<config, shims, host, manifest, edits>> /\ since' = edits /\ code' = "none"
    BY <1>13 DEF StartReconcile, Begins, files
  <2>2. PlanFits' /\ ActFits' /\ Pending'
    BY <2>1, FreshPlan
  <2>3. Count'
    BY <1>1, <2>1 DEF Count
  <2> QED
    BY <1>2, <1>4, <1>7, <2>1, <2>2, <2>3 DEF Runs
<1>14. CASE StartInstall \/ Register
  <2>1. /\ UNCHANGED <<shims, edits>> /\ since' = edits /\ mode' # "reconcile"
    BY <1>14 DEF StartInstall, Register, Begins, files
  <2>2. Count'
    BY <1>1, <2>1 DEF Count
  <2> QED
    BY <1>2, <1>4, <1>6, <2>1, <2>2
<1>15. CASE RegisterTorn
  BY <1>2, <1>3, <1>4, <1>6, <1>15 DEF RegisterTorn, files
<1>16. CASE ManifestError
  <2>1. /\ UNCHANGED <<shims, edits, since>> /\ pc' = "idle" /\ code' # "0"
    BY <1>16 DEF ManifestError, files
  <2> QED
    BY <1>2, <1>3, <1>4, <1>7, <1>8, <2>1
<1>17. CASE Unavailable
  BY <1>10, <1>17 DEF Unavailable, Applying, files, bounds, Statuses
<1>18. CASE Skip
  BY <1>10, <1>18 DEF Skip, Applying, Conclude, files, bounds, Statuses
<1>19. CASE Render
  <2>1. /\ UNCHANGED <<config, host, manifest, mode, edits, since, plan>>
        /\ pc = "render" /\ pc' = "emit" /\ Len(results) < Len(plan) /\ Act.kind = "add_cred_shim"
    BY <1>19 DEF Render, Fails, Conclude, Applying, Typed, TypeOK
  <2>2. CASE Fails
    <3>1. results' = Append(results, "failed") /\ "failed" \in Statuses
      BY <2>2 DEF Fails, Conclude, Statuses
    <3>2. Unapplied'
      BY <2>1, <3>1, FailureStays
    <3>3. Shelf'
      <4>1. UNCHANGED shims \/ \E w : Shim(w)
        BY <1>19 DEF Render
      <4> QED
        BY <1>4, <1>5, <4>1 DEF Shim
    <3> QED
      BY <1>2, <1>9, <2>1, <3>2, <3>3
  <2>3. CASE Shim(Act.what) /\ Conclude("applied")
    <3> PICK a0 : a0 = Act.harness
      OBVIOUS
    <3> PICK t : t = Act.target
      OBVIOUS
    <3> PICK w : w = Act.what
      OBVIOUS
    <3>1. results' = Append(results, "applied") /\ "applied" \in Statuses
      BY <2>3 DEF Conclude, Statuses
    <3>2. shims' = [shims EXCEPT ![a0] = Put(@, t, w)]
      BY <2>3 DEF Shim
    <3>3. \A a : Due(a)' /\ ~Settled(a) => Due(a) /\ a # Act
      BY <2>1, <3>2, RenderSettles
    <3>4. Pending => Pending'
      BY <2>1, <3>1, <3>3, OneMore
    <3>5. PlanFits => PlanFits'
      BY <2>1, QuietPlan
    <3>6. ActFits'
      BY <2>1 DEF ActFits
    <3>7. Unapplied => Unapplied'
      BY <2>1, <3>1, FailureStays
    <3>8. Runs' /\ Rests' /\ Count'
      BY <1>9, <2>1, <3>4, <3>5, <3>6, <3>7
    <3>9. Shelf'
      BY <1>5, <3>2
    <3> QED
      BY <1>2, <3>8, <3>9
  <2> QED
    BY <1>19, <2>2, <2>3 DEF Render
<1>27. CASE Check
  <2>1. /\ UNCHANGED <<config, shims, host, manifest, mode, edits, since, plan>>
        /\ pc = "next" /\ Len(results) < Len(plan) /\ Act.kind = "add_cred_shim"
    BY <1>27 DEF Check, ToRender, Applying, files, bounds
  <2>2. CASE Conclude("failed")
    BY <1>10, <2>1, <2>2 DEF Conclude, Statuses
  <2>3. CASE pc' = "render" /\ UNCHANGED results
    <3>1. ActFits'
      BY <2>3 DEF ActFits
    <3> QED
      BY <1>11, <2>1, <2>3, <3>1
  <2> QED
    BY <1>27, <2>2, <2>3 DEF Check
<1>28. CASE RegisterNext
  <2>1. UNCHANGED <<shims, edits, since>> /\ mode' # "reconcile"
    BY <1>28 DEF RegisterNext, files, bounds
  <2> QED
    BY <1>2, <1>3, <1>4, <1>6, <2>1
<1>20. CASE ToConfig
  <2>1. /\ pc = "next" /\ pc' = "load" /\ Available(Act.harness)
        /\ UNCHANGED <<config, shims, host, manifest, mode, edits, since, plan, results>>
    BY <1>20 DEF ToConfig, Applying, Step, files
  <2>2. ActFits'
    <3>1. Available(Act.harness)'
      <4>1. Act' = Act
        BY <2>1 DEF Act
      <4>2. \A h : Available(h)' = Available(h)
        BY <2>1, SameReading
      <4> QED
        BY <2>1, <4>1, <4>2
    <3> QED
      BY <2>1, <3>1 DEF ActFits
  <2> QED
    BY <1>11, <2>1, <2>2
<1>21. CASE Load
  <2>1. /\ pc = "load" /\ Len(results) < Len(plan) /\ data' = Read(Act.harness)
        /\ ~(Act.harness \in YamlConfig /\ ~yaml)
        /\ UNCHANGED <<config, shims, host, manifest, mode, edits, since, plan>>
    BY <1>21 DEF Load, Applying, files, bounds
  <2>2. CASE Loaded = "fit"
    <3>1. pc' = "backup" /\ UNCHANGED results
      BY <1>21, <2>2 DEF Load
    <3>2. ActFits => ActFits'
      <4>1. Act' = Act /\ yaml' = yaml
        BY <2>1, <3>1 DEF Act, host
      <4>2. \A h : Read(h)' = Read(h) /\ Available(h)' = Available(h)
        BY <2>1, SameReading
      <4> QED
        BY <2>1, <3>1, <4>1, <4>2 DEF ActFits
    <3> QED
      BY <1>11, <2>1, <3>1, <3>2
  <2>3. CASE Loaded # "fit"
    <3>1. Loaded \in {"failed", "skipped"}
      BY <2>3 DEF Loaded
    <3>2. Act.kind # "manual"
      BY <2>1 DEF Typed, TypeOK
    <3> QED
      BY <1>10, <1>21, <2>1, <2>3, <3>1, <3>2 DEF Load, Conclude, Statuses
  <2> QED
    BY <2>2, <2>3
<1>22. CASE Raises \/ Finish \/ Kill \/ (Emit /\ Ends("internal"))
  <2>1. /\ UNCHANGED <<edits, since, mode>> /\ pc' = "idle" /\ pc # "idle"
    BY <1>22 DEF Raises, Finish, Kill, Emit, Ends, Applying, bounds
  <2>2. Shelf'
    <3>1. CASE UNCHANGED shims
      BY <1>4, <3>1
    <3>2. CASE Kill /\ ~UNCHANGED shims
      BY <1>5, <3>2 DEF Kill, Shim
    <3> QED
      BY <1>22, <3>1, <3>2 DEF Raises, Finish, Emit, files
  <2>3. Rests'
    <3>1. CASE code' # "0"
      BY <1>7, <3>1
    <3>2. CASE code' = "0"
      <4>1. Finish
        BY <1>22, <3>2 DEF Raises, Kill, Ends
      <4>2. /\ Len(results) = Len(plan) /\ UNCHANGED <<config, shims, host, manifest>>
            /\ code' = ExitCode({Verdict(c, h) : c \in Declared, h \in scope})
        BY <4>1 DEF Finish, Applied, Ends, files
      <4>3. mode = "reconcile" => ~Unapplied
        BY <3>2, <4>2 DEF ExitCode
      <4>4. Undisturbed' => Undisturbed
        BY <2>1 DEF Undisturbed
      <4>5. \A a : (Due(a)' <=> Due(a)) /\ (Settled(a)' <=> Settled(a))
        BY <4>2, QuietStep, SameSettled
      <4>6. Undisturbed => \A a : Due(a) => Settled(a)
        <5>1. \A j \in DOMAIN plan : ~(j > Len(results))
          BY <4>2 DEF Typed
        <5> QED
          BY <1>1, <2>1, <4>3, <5>1 DEF Runs, Pending, Undisturbed
      <4> QED
        BY <4>4, <4>5, <4>6 DEF Rests
    <3> QED
      BY <3>1, <3>2
  <2> QED
    BY <1>2, <1>3, <1>8, <2>1, <2>2, <2>3
<1>23. CASE Backup
  <2>1. /\ pc = "backup" /\ Len(results) < Len(plan)
        /\ UNCHANGED <<config, shims, host, manifest, mode, edits, since, plan, data>>
    BY <1>23 DEF Backup, Applying
  <2>2. CASE Step("write")
    <3>1. pc' = "write" /\ UNCHANGED results
      BY <2>2 DEF Step
    <3>2. ActFits => ActFits'
      <4>1. Act' = Act /\ yaml' = yaml
        BY <2>1, <3>1 DEF Act, host
      <4>2. \A h : Read(h)' = Read(h) /\ Available(h)' = Available(h)
        BY <2>1, SameReading
      <4> QED
        BY <2>1, <3>1, <4>1, <4>2 DEF ActFits
    <3> QED
      BY <1>11, <2>1, <3>1, <3>2
  <2>3. CASE Fails
    <3>1. Act.kind # "manual"
      BY <2>1 DEF Typed, TypeOK
    <3> QED
      BY <1>10, <2>1, <2>3, <3>1 DEF Fails, Conclude, Statuses
  <2> QED
    BY <1>23, <2>2, <2>3 DEF Backup
<1>24. CASE WriteConfig
  <2>1. /\ pc = "write" /\ pc' = "emit" /\ Len(results) < Len(plan)
        /\ UNCHANGED <<shims, mode, edits, since, plan, manifest>>
    BY <1>24 DEF WriteConfig, Fails, Conclude, Applying, bounds
  <2>2. CASE Fails
    <3>1. results' = Append(results, "failed") /\ "failed" \in Statuses /\ Act.kind # "manual"
      BY <2>1, <2>2 DEF Fails, Conclude, Statuses, Typed, TypeOK
    <3>2. Unapplied'
      BY <2>1, <3>1, FailureStays
    <3> QED
      BY <1>2, <1>4, <1>9, <2>1, <3>2
  <2>3. CASE config' = [config EXCEPT ![Act.harness] = Sound(Writes)] /\ Conclude("applied")
    <3>1. results' = Append(results, "applied") /\ "applied" \in Statuses
      BY <2>3 DEF Conclude, Statuses
    <3>2. Unapplied => Unapplied'
      BY <2>1, <3>1, FailureStays
    <3>3. ActFits'
      BY <2>1 DEF ActFits
    <3>4. Undisturbed /\ ~Unapplied /\ Pending => PlanFits' /\ Pending'
      BY <1>24, <2>1, <2>3, <3>1, WriteSettles, OneMore
    <3> QED
      BY <1>2, <1>4, <1>9, <2>1, <3>2, <3>3, <3>4
  <2> QED
    BY <1>24, <2>2, <2>3 DEF WriteConfig
<1>25. CASE Emit /\ ~Ends("internal")
  <2>1. /\ pc = "emit" /\ pc' = "next"
        /\ UNCHANGED <<config, shims, host, manifest, mode, edits, since, plan, results>>
    BY <1>25 DEF Emit, Step, files
  <2>2. ActFits'
    BY <2>1 DEF ActFits
  <2> QED
    BY <1>11, <2>1, <2>2
<1>26. CASE Others
  <2>1. edits' = edits + 1 /\ since' = since
    BY <1>26 DEF Others, HarnessWrites, Misedit, EditShim, EditManifest, Edit, run
  <2>2. Count' /\ ~Undisturbed'
    BY <1>1, <2>1 DEF Count, Undisturbed
  <2>3. Shelf'
    <3>1. CASE UNCHANGED shims
      BY <1>4, <3>1
    <3>2. CASE EditShim
      BY <1>5, <3>2 DEF EditShim
    <3> QED
      BY <1>26, <3>1, <3>2 DEF Others, HarnessWrites, Misedit, EditManifest, files
  <2> QED
    BY <1>2, <2>2, <2>3 DEF Runs, Rests
<1> QED
  BY <1>12, <1>13, <1>14, <1>15, <1>16, <1>17, <1>18, <1>19, <1>20, <1>21, <1>22, <1>23,
     <1>24, <1>25, <1>26, <1>27, <1>28 DEF Next, Acb

(* What is due is what would be planned.                                   *)
LEMMA NothingIsDue == ASSUME Typed, Converging PROVE Converges
<1> SUFFICES ASSUME Undisturbed, code = "0", pc = "idle",
                    NEW i \in DOMAIN PlanOver(manifest.caps, Harnesses)
             PROVE  Settled(PlanOver(manifest.caps, Harnesses)[i])
  BY DEF Converges, Undisturbed, Settled
<1>1. manifest.caps \in Seq(Capabilities) /\ Harnesses \in SUBSET Harnesses
  BY DEF Typed
<1>2. PlanOver(manifest.caps, Harnesses)[i] \in ToSet(PlanOver(manifest.caps, Harnesses))
  BY DEF ToSet
<1>3. Due(PlanOver(manifest.caps, Harnesses)[i])
  BY <1>1, <1>2, PlanOverIs DEF Due
<1> QED
  BY <1>3 DEF Converging

(* A reconcile --apply over the harnesses of the machine that ends with 0  *)
(* and was not disturbed leaves nothing that a second one would do, but    *)
(* what Endless names (_cmd_reconcile, _plan_all, the providers'           *)
(* plan_reconcile and apply).                                              *)
THEOREM ReconcileConverges == Spec => []Converges
<1>1. Init => Typed /\ Converging
  <2> SUFFICES ASSUME Init PROVE Typed /\ Converging
    OBVIOUS
  <2>1. Converging
    BY DEF Init, Converging, Undisturbed
  <2> QED
    BY <2>1, TypedInit
<1>2. Typed /\ Converging /\ [Next]_vars => (Typed /\ Converging)'
  BY TypedNext, ConvergingNext
<1>3. Typed /\ Converging => Converges
  BY NothingIsDue
<1> QED
  BY <1>1, <1>2, <1>3, PTL DEF Spec
=============================================================================
