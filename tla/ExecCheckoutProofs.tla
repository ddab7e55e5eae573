------------------------- MODULE ExecCheckoutProofs -------------------------
(***************************************************************************)
(* Theorems about acb exec, for every manifest, host, command line, tree   *)
(* of processes and bound.  Each invariant is strengthened by what holds   *)
(* at the places of the run before it, and preserved action by action.     *)
(***************************************************************************)
EXTENDS ExecCheckout, Induction

-----------------------------------------------------------------------------
(* No downgrade. *)

(* _authenticate: declared AppRole material never ends in a token. *)
LEMMA DeclaredNeverToken ==
    ASSUME NEW h, NEW env_, DeclaresAppRole(env_)
    PROVE  Authenticate(h, env_) # "token"
  BY DEF Authenticate, Refused

(* A host that declares an AppRole is never taken in on a token, whatever  *)
(* its plane files and environment say (cred_vault: declared material that *)
(* is incomplete or unreadable fails closed).                              *)
THEOREM NeverDowngraded == Spec => []NoDowngrade
<1>1. Init => NoDowngrade
  BY DEF Init, NoDowngrade, NoIdentity
<1>2. NoDowngrade /\ [Next]_vars => NoDowngrade'
  <2> SUFFICES ASSUME NoDowngrade, [Next]_vars PROVE NoDowngrade'
    OBVIOUS
  <2>1. CASE UNCHANGED used
    BY <2>1 DEF NoDowngrade
  <2>2. CASE ResolveNext
    <3>1. Resolves(got + 1)
      BY <2>2 DEF ResolveNext
    <3>2. CASE caps[got + 1].source = "vault"
      <4>1. PICK h \in Hosts :
                /\ Identity(h, FALSE, TRUE) # Refused
                /\ used' = [method |-> Identity(h, FALSE, TRUE),
                            approle |-> DeclaresAppRole(VaultEnv(h, FALSE))]
        BY <3>1, <3>2, Zenon DEF Resolves
      <4>2. Identity(h, FALSE, TRUE) = Authenticate(h, VaultEnv(h, FALSE))
        BY <4>1 DEF Identity
      <4>3. DeclaresAppRole(VaultEnv(h, FALSE)) => Identity(h, FALSE, TRUE) # "token"
        BY <4>2, DeclaredNeverToken
      <4> QED
        BY <4>1, <4>3 DEF NoDowngrade
    <3>3. CASE caps[got + 1].source # "vault"
      BY <3>1, <3>3, <2>1 DEF Resolves
    <3> QED
      BY <3>2, <3>3
  <2>3. Next => ResolveNext \/ UNCHANGED used
    BY DEF Next, Acb, Children, Asks, Lookup, Refuse, Begin, ResolveFails, LaunchFails,
           Launch, Guard, WaitReturns, TimesOut, Probe, Terminate, LoopEnds, LoopKills,
           Reap, TaskkillWorks, TaskkillFails, Raise, CloseOut, Record, RunReturns, Fork,
           ProcessEnds, Enter, Interrupt, InterruptEnds, InterruptWipe, InterruptTry,
           InterruptWait
  <2> QED
    BY <2>1, <2>2, <2>3 DEF vars
<1> QED
  BY <1>1, <1>2, PTL DEF Spec
-----------------------------------------------------------------------------
(* Containment. *)

(* Where the tree may have members: from the launch to the end of the      *)
(* termination, which leaves it empty but for what it reports.             *)
Contained ==
    /\ platform \in Platforms
    /\ pc \in {"parse", "lookup", "check", "begun", "resolve", "launch"} =>
            tree = {} /\ cause = "none"
    /\ path = "suite" => pc # "run"
    /\ pc \in {"forked", "wait"} => cause = "none"
    /\ pc \in {"probe", "loop"} => platform = "posix"
    /\ pc = "reap" => tree = {}
    /\ pc = "raise" => tree = {} \/ (platform = "nt" /\ cause = "none")
    /\ NothingOutlives

(* When the suite runner is through, nothing is left in the child's group, *)
(* however the tree forks and exits, unless the failure to contain it is   *)
(* reported, or an interrupt fell between the launch and the try or in the *)
(* termination itself (_run_contained, _terminate_process_tree).           *)
THEOREM NothingLeftBehind == Spec => []NothingOutlives
<1>1. Init => Contained
  BY DEF Init, Contained, NothingOutlives, Platforms
<1>2. Contained /\ [Next]_vars => Contained'
  <2> SUFFICES ASSUME Contained, [Next]_vars PROVE Contained'
    OBVIOUS
  <2> USE DEF Contained, NothingOutlives, Platforms,
            parsed, request, held, ended, procs, contain, falls, bounds, Finish, ToOver
  <2>1. CASE Asks
    BY <2>1 DEF Asks
  <2>2. CASE Lookup
    BY <2>2 DEF Lookup
  <2>3. CASE Refuse
    BY <2>3 DEF Refuse
  <2>4. CASE Begin
    BY <2>4 DEF Begin
  <2>5. CASE ResolveNext
    BY <2>5 DEF ResolveNext
  <2>6. CASE ResolveFails
    BY <2>6 DEF ResolveFails
  <2>7. CASE LaunchFails
    BY <2>7 DEF LaunchFails, AtLaunch
  <2>8. CASE Launch
    BY <2>8 DEF Launch, AtLaunch
  <2>9. CASE WaitReturns
    BY <2>9 DEF WaitReturns
  <2>10. CASE TimesOut
    BY <2>10 DEF TimesOut
  <2>11. CASE Probe
    BY <2>11 DEF Probe
  <2>12. CASE Terminate
    BY <2>12 DEF Terminate, GroupEmpty
  <2>13. CASE LoopEnds
    BY <2>13 DEF LoopEnds
  <2>14. CASE LoopKills
    BY <2>14 DEF LoopKills
  <2>15. CASE Reap
    BY <2>15 DEF Reap
  <2>16. CASE TaskkillWorks
    BY <2>16 DEF TaskkillWorks
  <2>17. CASE TaskkillFails
    BY <2>17 DEF TaskkillFails
  <2>18. CASE Raise
    BY <2>18 DEF Raise
  <2>19. CASE CloseOut
    BY <2>19 DEF CloseOut
  <2>20. CASE RunReturns
    BY <2>20 DEF RunReturns, Exited
  <2>21. CASE Fork
    BY <2>21 DEF Fork
  <2>22. CASE ProcessEnds
    BY <2>22 DEF ProcessEnds
  <2>23. CASE InterruptEnds
    BY <2>23 DEF InterruptEnds, Strikes
  <2>24. CASE Enter
    BY <2>24 DEF Enter
  <2>25. CASE Guard
    BY <2>25 DEF Guard
  <2>26. CASE Record
    BY <2>26 DEF Record
  <2>27. CASE InterruptWipe
    BY <2>27 DEF InterruptWipe, Strikes
  <2>28. CASE InterruptTry
    BY <2>28 DEF InterruptTry, Strikes
  <2>29. CASE InterruptWait
    BY <2>29 DEF InterruptWait, Strikes
  <2>30. CASE UNCHANGED vars
    BY <2>30 DEF vars
  <2> QED
    BY <2>1, <2>2, <2>3, <2>4, <2>5, <2>6, <2>7, <2>8, <2>9, <2>10, <2>11, <2>12,
       <2>13, <2>14, <2>15, <2>16, <2>17, <2>18, <2>19, <2>20, <2>21, <2>22, <2>23, <2>24,
       <2>25, <2>26, <2>27, <2>28, <2>29, <2>30
       DEF Next, Acb, Children, Interrupt
<1>3. Contained => NothingOutlives
  BY DEF Contained
<1> QED
  BY <1>1, <1>2, <1>3, PTL DEF Spec
-----------------------------------------------------------------------------
(* The record. *)

Agrees ==
    /\ verdict \in {"applied", "failed"}
    /\ outcome # "internal"
    /\ verdict = "applied" <=> outcome = "zero"
    /\ verdict = "applied" => code = "zero"

(* An interrupt fell where no try catches it: before it, or in its finally *)
(* clause.                                                                 *)
Outside == hits \cap {"begun", "over", "emit"} # {}

(* What the log holds at each place of the run. *)
OnRecord ==
    /\ pc \in Places /\ code \in Codes
    /\ pc \in {"parse", "lookup", "check"} => log = <<>> /\ got = 0 /\ code = "none"
    /\ pc \in Places \ {"parse", "lookup", "check", "exit"} => log = <<"started">>
    /\ pc \in {"over", "emit"} => Agrees
    /\ pc = "exit" => \/ log = <<>> /\ got = 0 /\ code = "none"
                      \/ log = <<"started">> /\ (outcome = "internal" \/ Outside)
                      \/ /\ log = Append(<<"started">>, verdict)
                         /\ verdict = "applied" => code = "zero"
                         /\ Agrees \/ Outside

(* Nothing is resolved or run off the record; what began has one terminal  *)
(* record unless the sink failed or an interrupt fell outside the try, and *)
(* it tells what became of the child (_exec_checkout: the record in the    *)
(* finally clause).                                                        *)
THEOREM RecordIsTruthful == Spec => []RecordTruthful
<1>1. Init => OnRecord
  BY DEF Init, OnRecord, Agrees, Outside, Codes, Places
<1>2. OnRecord /\ [Next]_vars => OnRecord'
  <2> SUFFICES ASSUME OnRecord, [Next]_vars PROVE OnRecord'
    OBVIOUS
  <2> USE DEF OnRecord, Agrees, Outside, Codes, Places,
            parsed, request, held, ended, procs, contain, falls, bounds, Finish, ToOver
  <2>1. CASE Asks
    BY <2>1 DEF Asks
  <2>2. CASE Lookup
    BY <2>2 DEF Lookup
  <2>3. CASE Refuse
    BY <2>3 DEF Refuse
  <2>4. CASE Begin
    BY <2>4 DEF Begin
  <2>5. CASE ResolveNext
    BY <2>5 DEF ResolveNext
  <2>6. CASE ResolveFails
    BY <2>6 DEF ResolveFails
  <2>7. CASE LaunchFails
    BY <2>7 DEF LaunchFails, AtLaunch
  <2>8. CASE Launch
    BY <2>8 DEF Launch, AtLaunch
  <2>9. CASE WaitReturns
    BY <2>9 DEF WaitReturns
  <2>10. CASE TimesOut
    BY <2>10 DEF TimesOut
  <2>11. CASE Probe
    BY <2>11 DEF Probe
  <2>12. CASE Terminate
    BY <2>12 DEF Terminate, GroupEmpty
  <2>13. CASE LoopEnds
    BY <2>13 DEF LoopEnds
  <2>14. CASE LoopKills
    BY <2>14 DEF LoopKills
  <2>15. CASE Reap
    BY <2>15 DEF Reap
  <2>16. CASE TaskkillWorks
    BY <2>16 DEF TaskkillWorks
  <2>17. CASE TaskkillFails
    BY <2>17 DEF TaskkillFails
  <2>18. CASE Raise
    BY <2>18 DEF Raise
  <2>19. CASE CloseOut
    BY <2>19 DEF CloseOut
  <2>20. CASE RunReturns
    BY <2>20 DEF RunReturns, Exited
  <2>21. CASE Fork
    BY <2>21 DEF Fork
  <2>22. CASE ProcessEnds
    BY <2>22 DEF ProcessEnds
  <2>23. CASE InterruptEnds
    BY <2>23 DEF InterruptEnds, Strikes
  <2>24. CASE Enter
    BY <2>24 DEF Enter
  <2>25. CASE Guard
    BY <2>25 DEF Guard
  <2>26. CASE Record
    <3>1. log = <<"started">> /\ Agrees /\ pc' = "exit" /\ code' = code /\ verdict' = verdict
      BY <2>26 DEF Record
    <3>2. CASE log' = Append(log, verdict) /\ outcome' = outcome
      BY <3>1, <3>2
    <3>3. CASE log' = log /\ outcome' = "internal"
      BY <3>1, <3>3
    <3> QED
      BY <2>26, <3>2, <3>3 DEF Record
  <2>27. CASE InterruptWipe
    BY <2>27 DEF InterruptWipe, Strikes
  <2>28. CASE InterruptTry
    BY <2>28 DEF InterruptTry, Strikes
  <2>29. CASE InterruptWait
    BY <2>29 DEF InterruptWait, Strikes
  <2>30. CASE UNCHANGED vars
    BY <2>30 DEF vars
  <2> QED
    BY <2>1, <2>2, <2>3, <2>4, <2>5, <2>6, <2>7, <2>8, <2>9, <2>10, <2>11, <2>12,
       <2>13, <2>14, <2>15, <2>16, <2>17, <2>18, <2>19, <2>20, <2>21, <2>22, <2>23, <2>24,
       <2>25, <2>26, <2>27, <2>28, <2>29, <2>30
       DEF Next, Acb, Children, Interrupt
<1>3. OnRecord => RecordTruthful
  <2> SUFFICES ASSUME OnRecord PROVE RecordTruthful
    OBVIOUS
  <2>1. CASE log = <<>> /\ got = 0 /\ code = "none"
    <3>1. ~(got > 0) /\ ~(code # "none") /\ ~(log # <<>>)
      BY <2>1
    <3> QED
      BY <3>1 DEF RecordTruthful
  <2>2. CASE log = <<"started">> /\ (pc = "exit" => outcome = "internal" \/ Outside)
    <3>1. Last(log) = "started" /\ log # <<>>
      BY <2>2 DEF Last
    <3> QED
      BY <2>2, <3>1 DEF RecordTruthful, Outside
  <2>3. CASE /\ log = Append(<<"started">>, verdict)
             /\ verdict = "applied" => code = "zero"
             /\ Agrees \/ Outside
    <3>1. Last(log) = verdict /\ Len(log) = 2 /\ log # <<>>
      BY <2>3 DEF Last
    <3> QED
      BY <2>3, <3>1 DEF RecordTruthful, Agrees, Outside
  <2> QED
    BY <2>1, <2>2, <2>3 DEF OnRecord, Places
<1> QED
  BY <1>1, <1>2, <1>3, PTL DEF Spec
-----------------------------------------------------------------------------
(* Values. *)

Harmless == {Absent, Inherited, Cleared, Receipts}

LEMMA ValuesAreNotHarmless ==
    ASSUME NEW k, NEW f
    PROVE  Value(k, f) \notin Harmless
<1>1. Len(Value(k, f)) = 2
  BY DEF Value
<1>2. \A x \in Harmless : Len(x) < 2
  BY DEF Harmless, Absent, Inherited, Cleared, Receipts
<1> QED
  BY <1>1, <1>2

Early == {"parse", "lookup", "check"}

(* No mapping holds a value: before the try, and after the clearing.       *)
Empty ==
    \/ pc \in Early \cup {"begun", "emit"}
    \/ pc = "exit" /\ "over" \notin hits

(* Outside the planned names nothing of the environment is a value; before *)
(* the start and after the end nothing is.                                 *)
Planful ==
    /\ pc \in Places
    /\ env = [n \in Env |-> env[n]]
    /\ pc = "lookup" => ids # <<>>
    /\ pc \in Early \cup {"begun"} => got = 0
    /\ Empty => fields = {} /\ \A n \in Env : env[n] \in Harmless
    /\ pc # "exit" /\ ~Empty => \A n \in Env \ Planned : env[n] \in Harmless
    /\ pc \in {"check", "begun", "resolve"} => caps \in Seq(Decls) /\ got \in Nat /\ got < Len(caps)
    /\ pc = "resolve" => path # "e2e"

LEMMA PlanfulHolds == Spec => []Planful
<1>1. Init => Planful
  BY DEF Init, Planful, Empty, Places, Early, Harmless
<1>2. Planful /\ [Next]_vars => Planful'
  <2> SUFFICES ASSUME Planful, [Next]_vars PROVE Planful'
    OBVIOUS
  <2> USE DEF Planful, Empty, Early, Places, Planned, Targets,
            parsed, request, held, ended, procs, contain, falls, bounds, Finish, ToOver
  <2>1. CASE Asks
    BY <2>1 DEF Asks
  <2>2. CASE Lookup
    BY <2>2 DEF Lookup
  <2>3. CASE Refuse
    BY <2>3 DEF Refuse
  <2>4. CASE Begin
    BY <2>4 DEF Begin
  <2>5. CASE ResolveNext
    <3> DEFINE k == got + 1
    <3>1. /\ pc = "resolve" /\ k \in DOMAIN caps /\ got \in Nat
          /\ got' = k /\ pc' = IF k = Len(caps) THEN "launch" ELSE "resolve"
          /\ UNCHANGED <<ids, caps, path>>
      BY <2>5 DEF ResolveNext, request, parsed
    <3>2. /\ env' = [n \in Env |-> env'[n]]
          /\ \A n \in Env : \/ env'[n] = Receipts
                           \/ env'[n] = env[n]
                           \/ \E f \in WantedFields(caps[k]) : Target(caps[k], f) = n
      BY <2>5, Zenon DEF ResolveNext
    <3>3. WantedFields(caps[k]) = DeclaredFields(caps[k])
      BY DEF WantedFields, DeclaredFields
    <3>4. \A n \in Env : (\E f \in WantedFields(caps[k]) : Target(caps[k], f) = n)
                            => n \in Planned
      BY <3>1, <3>3
    <3>5. Planned' = Planned
      BY <3>1 DEF DeclaredFields, Target
    <3>6. \A n \in Env \ Planned' : env'[n] \in Harmless
      <4> HIDE DEF Planned
      <4> QED
        BY <3>1, <3>2, <3>4, <3>5 DEF Harmless
    <3> HIDE DEF Planned
    <3> QED
      BY <3>1, <3>2, <3>6
  <2>6. CASE ResolveFails
    BY <2>6 DEF ResolveFails
  <2>7. CASE LaunchFails
    BY <2>7 DEF LaunchFails, AtLaunch
  <2>8. CASE Launch
    BY <2>8 DEF Launch, AtLaunch
  <2>9. CASE WaitReturns
    BY <2>9 DEF WaitReturns
  <2>10. CASE TimesOut
    BY <2>10 DEF TimesOut
  <2>11. CASE Probe
    BY <2>11 DEF Probe
  <2>12. CASE Terminate
    BY <2>12 DEF Terminate, GroupEmpty
  <2>13. CASE LoopEnds
    BY <2>13 DEF LoopEnds
  <2>14. CASE LoopKills
    BY <2>14 DEF LoopKills
  <2>15. CASE Reap
    BY <2>15 DEF Reap
  <2>16. CASE TaskkillWorks
    BY <2>16 DEF TaskkillWorks
  <2>17. CASE TaskkillFails
    BY <2>17 DEF TaskkillFails
  <2>18. CASE Raise
    BY <2>18 DEF Raise
  <2>19. CASE CloseOut
    <3>1. \A n \in Env \ Planned : env[n] \in Harmless
      BY <2>19 DEF CloseOut
    <3>2. pc' = "emit" /\ fields' = {} /\ Wipe(Wiped)
      BY <2>19 DEF CloseOut
    <3>3. Planned \subseteq Wiped
      BY DEF Wiped
    <3> HIDE DEF Planned
    <3>4. \A n \in Env : env'[n] \in Harmless
      BY <3>1, <3>2, <3>3 DEF Harmless, Wipe
    <3>5. env' = [n \in Env |-> env'[n]]
      BY <3>2 DEF Wipe
    <3> QED
      BY <3>2, <3>4, <3>5
  <2>20. CASE RunReturns
    BY <2>20 DEF RunReturns, Exited
  <2>21. CASE Fork
    BY <2>21 DEF Fork
  <2>22. CASE ProcessEnds
    BY <2>22 DEF ProcessEnds
  <2>23. CASE InterruptEnds
    BY <2>23 DEF InterruptEnds, Strikes
  <2>24. CASE Enter
    <3>1. /\ pc = "begun" /\ got = 0 /\ caps \in Seq(Decls) /\ got < Len(caps)
          /\ UNCHANGED <<ids, caps, got, path>>
          /\ pc' = IF path = "e2e" THEN "launch" ELSE "resolve"
      BY <2>24 DEF Enter
    <3>2. \A n \in Env : env'[n] \in Harmless
      BY <2>24 DEF Enter, Harmless
    <3>3. env' = [n \in Env |-> env'[n]]
      BY <2>24 DEF Enter
    <3> QED
      BY <3>1, <3>2, <3>3
  <2>25. CASE Guard
    BY <2>25 DEF Guard
  <2>26. CASE Record
    BY <2>26 DEF Record
  <2>27. CASE InterruptWipe
    <3>1. pc' = "exit" /\ "over" \in hits'
      BY <2>27 DEF InterruptWipe, Strikes
    <3>2. env' = [n \in Env |-> env'[n]]
      BY <2>27 DEF InterruptWipe, Wipe
    <3> QED
      BY <3>1, <3>2
  <2>28. CASE InterruptTry
    BY <2>28 DEF InterruptTry, Strikes
  <2>29. CASE InterruptWait
    BY <2>29 DEF InterruptWait, Strikes
  <2>30. CASE UNCHANGED vars
    BY <2>30 DEF vars
  <2> QED
    BY <2>1, <2>2, <2>3, <2>4, <2>5, <2>6, <2>7, <2>8, <2>9, <2>10, <2>11, <2>12,
       <2>13, <2>14, <2>15, <2>16, <2>17, <2>18, <2>19, <2>20, <2>21, <2>22, <2>23, <2>24,
       <2>25, <2>26, <2>27, <2>28, <2>29, <2>30
       DEF Next, Acb, Children, Interrupt
<1> QED
  BY <1>1, <1>2, PTL DEF Spec

(* When acb ends, however it ends, no mapping of its own holds a value,    *)
(* unless an interrupt fell in the clearing itself (_exec_checkout,        *)
(* CredProvider.exec: the finally clauses).                                *)
THEOREM ValuesCleared == Spec => []ValuesGone
<1>1. Planful => ValuesGone
  BY ValuesAreNotHarmless DEF Planful, Empty, ValuesGone
<1> QED
  BY <1>1, PlanfulHolds, PTL

-----------------------------------------------------------------------------
(* The environment of the child.                                           *)

(* What validation established of the names, on any path but the bare and  *)
(* the e2e ones: they are apart within a capability and between two, and   *)
(* from what is inherited.                                                 *)
Apart ==
    /\ path = "bare" => Len(caps) = 1 /\ caps[1].naming = "bare"
    /\ path # "bare" =>
            /\ \A k \in DOMAIN caps : \A f, g \in DeclaredFields(caps[k]) :
                    Target(caps[k], f) = Target(caps[k], g) => f = g
            /\ \A j, k \in DOMAIN caps : j < k => Targets(j) \cap Targets(k) = {}
            /\ \A k \in DOMAIN caps : Targets(k) \cap (inherited \cup {Receipt}) = {}
            /\ Receipt \notin inherited

(* The environment has what a field is injected as; on the bare path it    *)
(* may be another field of that name, or the receipt.                      *)
Written(k, f) ==
    \/ env[Target(caps[k], f)] = Value(k, f)
    \/ /\ path = "bare"
       /\ \/ Target(caps[k], f) = Receipt
          \/ \E g \in DeclaredFields(caps[k]) :
                /\ Target(caps[k], g) = Target(caps[k], f)
                /\ env[Target(caps[k], f)] = Value(k, g)

(* What has been put into the environment so far.                          *)
Filled ==
    /\ \A k \in 1..got : \A f \in DeclaredFields(caps[k]) : Written(k, f)
    /\ path # "bare" => \A n \in inherited : \/ env[n] = Inherited
                                             \/ path = "suite" /\ env[n] = Absent

Built ==
    /\ inherited \subseteq Env
    /\ pc \in {"begun", "resolve", "launch", "run", "forked", "wait"} /\ path # "e2e" =>
            /\ caps \in Seq(Decls) /\ got \in 0..Len(caps)
            /\ Apart
            /\ pc # "begun" => Filled
            /\ pc \notin {"begun", "resolve"} => got = Len(caps) /\ env[Receipt] = Receipts

LEMMA TargetsAreNames ==
    ASSUME NEW d \in Decls, NEW f \in DeclaredFields(d)
    PROVE  Target(d, f) \in Env /\ f \in Fields
<1>1. f \in Fields
  BY ExecAssumption DEF DeclaredFields, SomeField
<1> QED
  BY <1>1, ExecAssumption DEF Target, Declarations

(* A plan that holds names neither the receipt nor what is inherited.      *)
LEMMA PlannableIsApart ==
    ASSUME NEW k, Plannable(k)
    PROVE  /\ Receipt \notin inherited
           /\ Targets(k) \cap (inherited \cup {Receipt}) = {}
           /\ \A f, g \in DeclaredFields(caps[k]) :
                    Target(caps[k], f) = Target(caps[k], g) => f = g
  BY ExecAssumption DEF Plannable

(* The start: validation passed for the path that is taken.                *)
LEMMA BeginsApart ==
    ASSUME caps \in Seq(Decls), Len(caps) > 0, MayRun, PlansHold, path' = PathTaken,
           PathTaken # "e2e", UNCHANGED <<caps, inherited>>
    PROVE  Apart'
<1>1. caps' = caps /\ inherited' = inherited
  OBVIOUS
<1>2. \A k \in DOMAIN caps : Targets(k)' = Targets(k)
  BY <1>1 DEF Targets
<1>3. CASE PathTaken = "bare"
  <2>1. Len(caps) = 1 /\ caps[1].naming = "bare"
    BY <1>3 DEF PathTaken, Single
  <2> QED
    BY <1>1, <1>3, <2>1 DEF Apart
<1>4. CASE PathTaken \in {"strict", "suite"}
  <2>1. \A k \in DOMAIN caps : Plannable(k)
    <3>1. CASE PathTaken = "strict"
      BY <3>1 DEF PlansHold
    <3>2. CASE PathTaken = "suite"
      <4>1. Len(caps) = 1 /\ Plannable(1)
        BY <3>2 DEF PlansHold, PathTaken, Single
      <4> QED
        BY <4>1
    <3> QED
      BY <1>4, <3>1, <3>2
  <2>2. \A j, k \in DOMAIN caps : j < k => Targets(j) \cap Targets(k) = {}
    <3> SUFFICES ASSUME NEW j \in DOMAIN caps, NEW k \in DOMAIN caps, j < k
                 PROVE  Targets(j) \cap Targets(k) = {}
      OBVIOUS
    <3>1. j \in 1..(k - 1)
      OBVIOUS
    <3>2. Targets(j) \subseteq TakenBefore(k)
      BY <3>1 DEF TakenBefore
    <3> QED
      BY <2>1, <3>2 DEF Plannable
  <2>3. 1 \in DOMAIN caps
    OBVIOUS
  <2>4. /\ Receipt \notin inherited
        /\ \A k \in DOMAIN caps : Targets(k) \cap (inherited \cup {Receipt}) = {}
        /\ \A k \in DOMAIN caps : \A f, g \in DeclaredFields(caps[k]) :
                    Target(caps[k], f) = Target(caps[k], g) => f = g
    BY <2>1, <2>3, PlannableIsApart
  <2> QED
    BY <1>1, <1>2, <1>4, <2>2, <2>4 DEF Apart
<1> QED
  BY <1>3, <1>4 DEF PathTaken, MayRun, Single

(* One more capability is put in: its names are apart from those before    *)
(* it, and they are neither the receipt's nor, when planned, inherited.    *)
LEMMA ResolveKeepsBuilt ==
    ASSUME Planful, Built, ResolveNext
    PROVE  Built'
<1> PICK k : k = got + 1
  OBVIOUS
<1> DEFINE names == {Target(caps[k], f) : f \in WantedFields(caps[k])}
<1>1. /\ pc = "resolve" /\ path # "e2e" /\ caps \in Seq(Decls) /\ got \in Nat
      /\ k \in 1..Len(caps) /\ k \in DOMAIN caps /\ got \in 0..Len(caps)
      /\ inherited \subseteq Env /\ Apart /\ Filled
  BY DEF Planful, Built, ResolveNext
<1>2. /\ caps' = caps /\ inherited' = inherited /\ path' = path /\ got' = k
      /\ pc' = IF k = Len(caps) THEN "launch" ELSE "resolve"
  BY DEF ResolveNext, request, parsed
<1>3. WantedFields(caps[k]) = DeclaredFields(caps[k])
  BY DEF WantedFields, DeclaredFields
<1>4. PICK last \in [names -> WantedFields(caps[k])] :
        /\ \A n \in names : Target(caps[k], last[n]) = n
        /\ env' = [n \in Env |-> IF n = Receipt /\ k = Len(caps) THEN Receipts
                                 ELSE IF n \in names THEN Value(k, last[n])
                                 ELSE env[n]]
  <2> DEFINE at(j) == {Target(caps[j], f) : f \in WantedFields(caps[j])}
             puts(j) ==
                \E last \in [at(j) -> WantedFields(caps[j])] :
                    /\ \A n \in at(j) : Target(caps[j], last[n]) = n
                    /\ env' = [n \in Env |-> IF n = Receipt /\ j = Len(caps) THEN Receipts
                                             ELSE IF n \in at(j) THEN Value(j, last[n])
                                             ELSE env[n]]
  <2>1. puts(got + 1)
    BY Zenon DEF ResolveNext
  <2>2. puts(k)
    <3> HIDE DEF puts
    <3> QED
      BY <2>1, Zenon
  <2> QED
    BY <2>2
<1>5. Receipt \in Env
  BY DEF Env
<1>6. \A j \in 1..Len(caps) : \A f \in DeclaredFields(caps[j]) :
            Target(caps[j], f) \in Env /\ Target(caps[j], f) \in Targets(j)
  <2> SUFFICES ASSUME NEW j \in 1..Len(caps), NEW f \in DeclaredFields(caps[j])
               PROVE  Target(caps[j], f) \in Env /\ Target(caps[j], f) \in Targets(j)
    OBVIOUS
  <2>1. caps[j] \in Decls
    BY <1>1
  <2>2. Target(caps[j], f) \in Targets(j)
    BY DEF Targets
  <2> QED
    BY <2>1, <2>2, TargetsAreNames
<1>7. names = Targets(k)
  BY <1>3 DEF Targets
<1>8. Apart'
  <2>1. \A j \in 1..Len(caps) : Targets(j)' = Targets(j)
    BY <1>2 DEF Targets
  <2> QED
    BY <1>1, <1>2, <2>1 DEF Apart
<1>9. \A f \in DeclaredFields(caps[k]) : Written(k, f)'
  <2> SUFFICES ASSUME NEW f \in DeclaredFields(caps[k]) PROVE Written(k, f)'
    OBVIOUS
  <2> DEFINE n == Target(caps[k], f)
  <2>1. n \in Env /\ n \in names
    BY <1>1, <1>3, <1>6
  <2>2. last[n] \in DeclaredFields(caps[k]) /\ Target(caps[k], last[n]) = n
    BY <1>3, <1>4, <2>1, Zenon
  <2>3. n # Receipt => env'[n] = Value(k, last[n])
    BY <1>4, <2>1, Zenon
  <2>4. CASE path = "bare"
    <3>1. \/ n = Receipt
          \/ \E g \in DeclaredFields(caps[k]) : Target(caps[k], g) = n /\ env'[n] = Value(k, g)
      BY <2>2, <2>3
    <3> QED
      BY <1>2, <2>4, <3>1 DEF Written, DeclaredFields, Target, Value
  <2>5. CASE path # "bare"
    <3>1. n # Receipt
      BY <1>1, <1>7, <2>1, <2>5, Zenon DEF Apart
    <3>2. last[n] = f
      BY <1>1, <2>2, <2>5, Zenon DEF Apart
    <3>3. env'[n] = Value(k, f)
      BY <2>3, <3>1, <3>2
    <3> QED
      BY <1>2, <3>3 DEF Written, Target, Value
  <2> QED
    BY <2>4, <2>5
<1>10. \A j \in 1..got : \A f \in DeclaredFields(caps[j]) : Written(j, f)'
  <2> SUFFICES ASSUME NEW j \in 1..got, NEW f \in DeclaredFields(caps[j])
               PROVE  Written(j, f)'
    OBVIOUS
  <2> DEFINE n == Target(caps[j], f)
  <2>1. j \in 1..Len(caps) /\ j \in DOMAIN caps /\ k \in DOMAIN caps /\ j < k
    BY <1>1
  <2>2. path # "bare"
    <3>1. path = "bare" => Len(caps) = 1
      BY <1>1 DEF Apart
    <3> QED
      BY <1>1, <2>1, <3>1
  <2>3. n \in Env /\ n \in Targets(j) /\ n # Receipt
    <3>1. n \in Env /\ n \in Targets(j)
      BY <1>6, <2>1
    <3>2. Targets(j) \cap (inherited \cup {Receipt}) = {}
      BY <1>1, <2>1, <2>2, Zenon DEF Apart
    <3> QED
      BY <3>1, <3>2
  <2>4. Targets(j) \cap Targets(k) = {}
    BY <1>1, <2>1, <2>2 DEF Apart
  <2>5. n \notin names
    BY <1>7, <2>3, <2>4
  <2>6. env'[n] = env[n]
    BY <1>4, <2>3, <2>5, Zenon
  <2>7. Written(j, f)
    BY <1>1 DEF Filled
  <2>8. env[n] = Value(j, f)
    BY <2>2, <2>7 DEF Written
  <2> QED
    BY <1>2, <2>6, <2>8 DEF Written, Target, Value
<1>11. path # "bare" => \A n \in inherited : env'[n] = env[n]
  <2> SUFFICES ASSUME path # "bare", NEW n \in inherited PROVE env'[n] = env[n]
    OBVIOUS
  <2>1. Receipt \notin inherited /\ Targets(k) \cap (inherited \cup {Receipt}) = {}
    BY <1>1, Zenon DEF Apart
  <2>2. n \in Env /\ n # Receipt /\ n \notin names
    BY <1>1, <1>7, <2>1
  <2> QED
    BY <1>4, <2>2, Zenon
<1>12. Filled'
  <2>1. \A j \in 1..k : \A f \in DeclaredFields(caps[j]) : Written(j, f)'
    <3>1. \A j \in 1..k : j \in 1..got \/ j = k
      BY <1>1
    <3> QED
      BY <1>9, <1>10, <3>1, Zenon
  <2>2. \A j \in 1..got' : \A f \in DeclaredFields(caps'[j]) : Written(j, f)'
    BY <1>2, <2>1
  <2>3. path' # "bare" => \A n \in inherited' :
            \/ env'[n] = Inherited
            \/ path' = "suite" /\ env'[n] = Absent
    BY <1>1, <1>2, <1>11 DEF Filled
  <2> QED
    BY <2>2, <2>3 DEF Filled, DeclaredFields
<1>13. k = Len(caps) => env'[Receipt] = Receipts
  BY <1>4, <1>5, Zenon
<1>14. k \in 0..Len(caps)
  BY <1>1
<1> QED
  BY <1>1, <1>2, <1>8, <1>12, <1>13, <1>14 DEF Built

(* The child starts with what its receipt says, and unless it is a bare    *)
(* checkout nothing that was inherited has been replaced                   *)
(* (_injection_plan, _exec_checkout); a bare one may give one name to two  *)
(* fields, and then has the value of one of them (CredProvider.exec).      *)
THEOREM ChildGetsItsReceipt == Spec => []EnvSound
<1> DEFINE Going == {"begun", "resolve", "launch", "run", "forked", "wait"}
<1>1. Init => Built
  BY DEF Init, Built
<1>2. Planful /\ Built /\ [Next]_vars => Built'
  <2> SUFFICES ASSUME Planful, Built, [Next]_vars PROVE Built'
    OBVIOUS
  <2>1. CASE pc' \notin Going /\ inherited' \subseteq Env
    BY <2>1 DEF Built
  <2>2. CASE Begin
    <3>1. /\ MayRun /\ PlansHold /\ path' = PathTaken
          /\ UNCHANGED <<caps, got, inherited>>
          /\ got = 0 /\ caps \in Seq(Decls) /\ Len(caps) > 0 /\ inherited \subseteq Env
          /\ pc' \in {"begun", "exit"}
      BY <2>2 DEF Begin, Planful, Built, Early, held, Finish
    <3>2. PathTaken # "e2e" => Apart'
      BY <3>1, BeginsApart
    <3>3. caps' \in Seq(Decls) /\ got' \in 0..Len(caps') /\ inherited' \subseteq Env
      BY <3>1
    <3> QED
      BY <3>1, <3>2, <3>3 DEF Built
  <2>3. CASE Enter
    <3>1. /\ pc = "begun" /\ pc' = IF path = "e2e" THEN "launch" ELSE "resolve"
          /\ UNCHANGED <<caps, got, inherited, path>>
          /\ got = 0 /\ inherited \subseteq Env
          /\ env' = [n \in Env |->
                        IF n \in (IF path = "suite" THEN inherited \cap Allowlisted
                                  ELSE inherited)
                        THEN Inherited ELSE Absent]
      BY <2>3 DEF Enter, Planful, Built, request, parsed
    <3>2. Filled'
      <4>1. \A n \in inherited : \/ env'[n] = Inherited
                                 \/ path' = "suite" /\ env'[n] = Absent
        BY <3>1
      <4>2. 1..got' = {}
        BY <3>1
      <4> QED
        BY <3>1, <4>1, <4>2 DEF Filled
    <3>3. \A k \in DOMAIN caps : Targets(k)' = Targets(k)
      BY <3>1 DEF Targets
    <3>4. Apart => Apart'
      BY <3>1, <3>3 DEF Apart
    <3> QED
      BY <3>1, <3>2, <3>4 DEF Built
  <2>4. CASE ResolveNext
    BY <2>4, ResolveKeepsBuilt
  <2>5. Next /\ ~Begin /\ ~Enter /\ ~ResolveNext =>
            \/ pc' \notin Going /\ inherited' \subseteq Env
            \/ /\ pc' = pc \/ (pc \notin {"begun", "resolve"} /\ pc \in Going)
               /\ UNCHANGED <<caps, path, inherited, env, got>>
    BY DEF Built, Next, Acb, Children, Asks, Lookup, Refuse, ResolveFails, LaunchFails,
           AtLaunch, Launch, Guard, WaitReturns, TimesOut, Probe, Terminate, LoopEnds,
           LoopKills, Reap, TaskkillWorks, TaskkillFails, Raise, CloseOut, Record,
           RunReturns, Fork, ProcessEnds, Interrupt, InterruptEnds, InterruptWipe,
           InterruptTry, InterruptWait, Exited, parsed, request, held, Finish, ToOver, Env
  <2>6. CASE /\ pc' = pc \/ (pc \notin {"begun", "resolve"} /\ pc \in Going)
             /\ UNCHANGED <<caps, path, inherited, env, got>>
    <3>1. /\ caps' = caps /\ path' = path /\ inherited' = inherited
          /\ env' = env /\ got' = got
      BY <2>6
    <3>2. \A k \in DOMAIN caps : Targets(k)' = Targets(k)
      BY <3>1 DEF Targets
    <3>3. Apart => Apart'
      BY <3>1, <3>2, Zenon DEF Apart, DeclaredFields, Target, Receipt
    <3>4. ASSUME NEW k, NEW f PROVE Written(k, f)' <=> Written(k, f)
      BY <3>1, SMT DEF Written, DeclaredFields, Target, Receipt, Value
    <3>5. Filled => Filled'
      BY <3>1, <3>4, Zenon DEF Filled, DeclaredFields, Inherited, Absent
    <3> QED
      BY <2>6, <3>1, <3>3, <3>5 DEF Built, Env, Receipts
  <2>7. CASE UNCHANGED vars
    BY <2>6, <2>7 DEF vars, request, held
  <2> QED
    BY <2>1, <2>2, <2>3, <2>4, <2>5, <2>6, <2>7
<1>3. Built => EnvSound
  <2> SUFFICES ASSUME Built, pc \in {"run", "forked", "wait"}, path # "e2e"
               PROVE  EnvSound
    BY DEF EnvSound
  <2>1. caps \in Seq(Decls) /\ got = Len(caps) /\ Apart /\ Filled /\ env[Receipt] = Receipts
    BY DEF Built
  <2>2. ASSUME NEW k \in DOMAIN caps, NEW f \in DOMAIN ReceiptText[k]
        PROVE  LET n == ReceiptText[k][f]
               IN  \/ env[n] = Value(k, f)
                   \/ /\ path = "bare"
                      /\ \/ n = Receipt
                         \/ \E g \in DOMAIN ReceiptText[k] :
                                ReceiptText[k][g] = n /\ env[n] = Value(k, g)
    <3>1. k \in 1..Len(caps) /\ k \in 1..got
      BY <2>1
    <3>2. path = "bare" => caps[k].naming = "bare"
      BY <2>1, <3>1 DEF Apart
    <3>3. DOMAIN ReceiptText[k] = DeclaredFields(caps[k])
      BY <3>1, Zenon DEF ReceiptText
    <3>4. \A g \in DeclaredFields(caps[k]) : ReceiptText[k][g] = Target(caps[k], g)
      BY <3>1, <3>2, Zenon DEF ReceiptText, Target
    <3>5. Written(k, f)
      BY <2>1, <3>1, <3>3 DEF Filled
    <3> QED
      BY <3>3, <3>4, <3>5 DEF Written
  <2>3. path # "bare" =>
            /\ Receipt \notin inherited
            /\ \A n \in inherited : env[n] = Inherited \/ (path = "suite" /\ env[n] = Absent)
    BY <2>1 DEF Apart, Filled
  <2> QED
    BY <2>1, <2>2, <2>3 DEF EnvSound
<1> QED
  BY <1>1, <1>2, <1>3, PlanfulHolds, PTL DEF Spec

-----------------------------------------------------------------------------
(* Types. *)

(* TypeOK with the line, and with what it takes to keep it: the record and *)
(* the cause by place, and that the child has ended where its exit is what *)
(* the run goes on to report.                                              *)
Typed ==
    /\ pc \in Places /\ path \in Paths /\ code \in Codes
    /\ outcome \in Outcomes /\ verdict \in {"applied", "failed"}
    /\ pc \in Early => log = <<>>
    /\ pc \in Places \ (Early \cup {"exit"}) => log = <<"started">>
    /\ log \in {<<>>, <<"started">>, <<"started", "applied">>, <<"started", "failed">>}
    /\ caps \in Seq(Decls)
    /\ inherited \subseteq Env /\ platform \in Platforms
    /\ got \in 0..Len(caps)
    /\ DOMAIN env = Env
    /\ tree \subseteq born /\ born \subseteq Procs
    /\ used \in [method : Methods \cup {Refused}, approle : BOOLEAN]
    /\ raw \in Seq(Tokens)
    /\ hits \subseteq Places
    /\ pc \in Early \cup {"begun", "run", "launch", "forked", "resolve", "wait"} =>
            cause = "none"
    /\ pc = "probe" => code \in {"zero", "other"} /\ cause = "none"
    /\ pc \in {"term", "loop", "reap", "raise"} /\ cause \in {"none", "stragglers"} =>
            code \in {"zero", "other"}

(* Every identity is a method or a refusal. *)
LEMMA IdentityIs ==
    ASSUME NEW h
    PROVE  [method |-> Identity(h, FALSE, TRUE),
            approle |-> DeclaresAppRole(VaultEnv(h, FALSE))]
                \in [method : Methods \cup {Refused}, approle : BOOLEAN]
<1>1. Identity(h, FALSE, TRUE) \in Methods \cup {Refused}
  <2>1. Authenticate(h, VaultEnv(h, FALSE)) \in Methods \cup {Refused}
    BY DEF Authenticate, TokenOrNothing, Methods
  <2> QED
    BY <2>1 DEF Identity
<1>2. DeclaresAppRole(VaultEnv(h, FALSE)) \in BOOLEAN
  BY DEF DeclaresAppRole
<1> QED
  BY <1>1, <1>2

(* One element after another. *)
LEMMA AppendToOne ==
    ASSUME NEW S, NEW u \in S, NEW v \in S
    PROVE  Append(<<u>>, v) = <<u, v>>
<1>1. <<u>> \in Seq(S) /\ Len(<<u>>) = 1 /\ <<u>>[1] = u
  OBVIOUS
<1>2. <<u, v>> \in Seq(S) /\ Len(<<u, v>>) = 2 /\ <<u, v>>[1] = u /\ <<u, v>>[2] = v
  OBVIOUS
<1>3. ASSUME NEW s \in Seq(S)
      PROVE  /\ Append(s, v) \in Seq(S) /\ Len(Append(s, v)) = Len(s) + 1
             /\ \A i \in 1..Len(s) : Append(s, v)[i] = s[i]
             /\ Append(s, v)[Len(s) + 1] = v
  OBVIOUS
<1>4. PICK t : t = Append(<<u>>, v)
  OBVIOUS
<1>5. t \in Seq(S) /\ Len(t) = 2 /\ t[1] = u /\ t[2] = v
  <2>1. \A n : n = 1 => n + 1 = 2 /\ 1 \in 1..n
    OBVIOUS
  <2> QED
    BY <1>1, <1>3, <1>4, <2>1
<1>6. ASSUME NEW s \in Seq(S), NEW q \in Seq(S), Len(s) = 2, Len(q) = 2,
             s[1] = q[1], s[2] = q[2]
      PROVE  s = q
  <2>1. \A i \in 1..2 : i = 1 \/ i = 2
    OBVIOUS
  <2> QED
    BY <1>6, <2>1
<1>7. t = <<u, v>>
  BY ONLY <1>2, <1>5, <1>6
<1> QED
  BY <1>4, <1>7

(* The two ways a record ends. *)
LEMMA Recorded ==
    ASSUME NEW v \in {"applied", "failed"}
    PROVE  Append(<<"started">>, v) = <<"started", v>>
<1> PICK S : S = {"started", "applied", "failed"}
  OBVIOUS
<1>1. "started" \in S /\ v \in S
  OBVIOUS
<1> QED
  BY <1>1, AppendToOne

(* Action by action. *)
LEMMA TypedHolds == Spec => []Typed
<1>1. Init => Typed
  <2> SUFFICES ASSUME Init PROVE Typed
    OBVIOUS
  <2>1. raw \in Seq(Tokens)
    BY ExecAssumption DEF Init
  <2>2. used \in [method : Methods \cup {Refused}, approle : BOOLEAN]
    BY DEF Init, NoIdentity
  <2>3. caps \in Seq(Decls) /\ got \in 0..Len(caps)
    BY DEF Init
  <2> QED
    BY <2>1, <2>2, <2>3
       DEF Init, Typed, Places, Paths, Codes, Outcomes, Platforms, Early
<1>2. Typed /\ Planful /\ [Next]_vars => Typed'
  <2> SUFFICES ASSUME Typed, Planful, [Next]_vars PROVE Typed'
    OBVIOUS
  <2> USE DEF Typed, Early, Places, Paths, Codes, Outcomes, Platforms,
            parsed, request, held, ended, procs, contain, falls, bounds, Finish, ToOver
  <2>1. CASE Asks
    <3>1. raw' \in Seq(Tokens)
      BY <2>1 DEF Asks
    <3>2. pc' \in {"exit", "lookup"} /\ outcome' \in Outcomes
      BY <2>1 DEF Asks
    <3> QED
      BY <2>1, <3>1, <3>2 DEF Asks
  <2>2. CASE Lookup
    <3>1. got = 0 /\ pc = "lookup"
      BY <2>2 DEF Lookup, Planful
    <3>2. caps' \in Seq(Decls)
      <4>1. CASE ids \in Seq(CapTokens) /\ caps' \in [1..Len(ids) -> Decls]
        <5> PICK n \in Nat : n = Len(ids)
          BY <4>1
        <5>1. caps' \in [1..n -> Decls]
          BY <4>1
        <5> QED
          BY ONLY <5>1, n \in Nat
      <4>2. CASE UNCHANGED caps
        BY <4>2
      <4> QED
        BY <2>2, <4>1, <4>2, Zenon DEF Lookup
    <3>3. got' \in 0..Len(caps')
      BY <2>2, <3>1, <3>2 DEF Lookup
    <3>4. inherited' \subseteq Env
      BY <2>2 DEF Lookup, Env
    <3> QED
      BY <2>2, <3>2, <3>3, <3>4 DEF Lookup
  <2>3. CASE Refuse
    BY <2>3 DEF Refuse
  <2>4. CASE Begin
    <3>1. path' \in Paths
      BY <2>4 DEF Begin, PathTaken
    <3> QED
      BY <2>4, <3>1 DEF Begin
  <2>5. CASE ResolveNext
    <3>1. got' \in 0..Len(caps')
      BY <2>5 DEF ResolveNext, Planful
    <3>2. DOMAIN env' = Env
      BY <2>5 DEF ResolveNext
    <3>3. used' \in [method : Methods \cup {Refused}, approle : BOOLEAN]
      BY <2>5, IdentityIs DEF ResolveNext, Resolves
    <3> QED
      BY <2>5, <3>1, <3>2, <3>3 DEF ResolveNext
  <2>6. CASE ResolveFails
    BY <2>6 DEF ResolveFails
  <2>7. CASE LaunchFails
    BY <2>7 DEF LaunchFails, AtLaunch
  <2>8. CASE Launch
    BY <2>8, ExecAssumption DEF Launch, AtLaunch
  <2>9. CASE WaitReturns
    BY <2>9 DEF WaitReturns
  <2>10. CASE TimesOut
    BY <2>10 DEF TimesOut
  <2>11. CASE Probe
    BY <2>11 DEF Probe
  <2>12. CASE Terminate
    BY <2>12 DEF Terminate, GroupEmpty
  <2>13. CASE LoopEnds
    BY <2>13 DEF LoopEnds
  <2>14. CASE LoopKills
    BY <2>14 DEF LoopKills
  <2>15. CASE Reap
    BY <2>15 DEF Reap
  <2>16. CASE TaskkillWorks
    BY <2>16 DEF TaskkillWorks
  <2>17. CASE TaskkillFails
    BY <2>17 DEF TaskkillFails
  <2>18. CASE Raise
    BY <2>18 DEF Raise
  <2>19. CASE CloseOut
    <3>1. DOMAIN env' = Env
      BY <2>19 DEF CloseOut, Wipe
    <3> QED
      BY <2>19, <3>1 DEF CloseOut
  <2>20. CASE RunReturns
    BY <2>20 DEF RunReturns, Exited
  <2>21. CASE Fork
    BY <2>21 DEF Fork
  <2>22. CASE ProcessEnds
    BY <2>22 DEF ProcessEnds
  <2>23. CASE InterruptEnds
    <3>1. log' \in {<<>>, <<"started">>, <<"started", "applied">>, <<"started", "failed">>}
      <4>1. CASE log' = log
        BY <4>1
      <4>2. CASE pc = "emit" /\ log' = Append(log, verdict)
        <5>1. log = <<"started">> /\ verdict \in {"applied", "failed"}
          BY <4>2
        <5> QED
          BY <4>2, <5>1, Recorded
      <4> QED
        BY <2>23, <4>1, <4>2 DEF InterruptEnds
    <3> QED
      BY <2>23, <3>1 DEF InterruptEnds, Strikes
  <2>24. CASE Enter
    <3>1. DOMAIN env' = Env
      BY <2>24 DEF Enter
    <3> QED
      BY <2>24, <3>1 DEF Enter
  <2>25. CASE Guard
    BY <2>25 DEF Guard
  <2>26. CASE Record
    <3>1. log' \in {log, <<"started", "applied">>, <<"started", "failed">>}
      <4>1. log = <<"started">> /\ verdict \in {"applied", "failed"}
        BY <2>26 DEF Record
      <4> QED
        BY <2>26, <4>1, Recorded DEF Record
    <3> QED
      BY <2>26, <3>1 DEF Record
  <2>27. CASE InterruptWipe
    <3>1. DOMAIN env' = Env
      BY <2>27 DEF InterruptWipe, Wipe
    <3> QED
      BY <2>27, <3>1 DEF InterruptWipe, Strikes
  <2>28. CASE InterruptTry
    BY <2>28 DEF InterruptTry, Strikes
  <2>29. CASE InterruptWait
    BY <2>29 DEF InterruptWait, Strikes
  <2>30. CASE UNCHANGED vars
    BY <2>30 DEF vars
  <2> QED
    BY <2>1, <2>2, <2>3, <2>4, <2>5, <2>6, <2>7, <2>8, <2>9, <2>10, <2>11, <2>12,
       <2>13, <2>14, <2>15, <2>16, <2>17, <2>18, <2>19, <2>20, <2>21, <2>22, <2>23, <2>24,
       <2>25, <2>26, <2>27, <2>28, <2>29, <2>30
       DEF Next, Acb, Children, Interrupt
<1> QED
  BY <1>1, <1>2, PlanfulHolds, PTL DEF Spec

(* Everything has its type, and the record is one of the four there are.   *)
THEOREM TypeCorrect == Spec => []TypeOK
<1>1. Typed => TypeOK
  <2> SUFFICES ASSUME Typed PROVE TypeOK
    OBVIOUS
  <2>1. caps \in [1..Len(caps) -> Decls] /\ Len(caps) \in 0..Len(caps)
    BY DEF Typed
  <2>2. caps \in UNION {[1..n -> Decls] : n \in 0..Len(caps)}
    BY <2>1
  <2> QED
    BY <2>2 DEF Typed, TypeOK
<1> QED
  BY <1>1, TypedHolds, PTL

-----------------------------------------------------------------------------
(* The command line.  The loop over the head is a fold; it goes through a  *)
(* record after every token, and what is said of these is shown token      *)
(* after token, by induction.                                              *)

(* What the loop over the head starts from, and what it comes to.          *)
Unread == [ids |-> <<>>, value |-> FALSE, bad |-> FALSE, rest |-> 0]

(* The function over the sets of places that the fold over the head is.     *)
IsReading(f, head, c, n) ==
    f = [q \in SUBSET (1..n) |->
            IF q = {} THEN Unread
            ELSE ReadToken(head, c, f[q \ {Max(q)}], [i \in 1..n |-> i][Max(q)])]

(* A number bounds the sets of numbers up to it that have it.              *)
LEMMA GreatestOf ==
    ASSUME NEW n \in Nat, NEW s \in SUBSET (1..n), n \in s
    PROVE  Max(s) = n
<1>1. \A y \in s : n >= y
  OBVIOUS
<1>2. \A x \in s : (\A y \in s : x >= y) => x = n
  BY <1>1
<1> QED
  BY <1>1, <1>2 DEF Max

(* There is such a function: the CHOOSE in the fold has something to find. *)
LEMMA ReadingExists ==
    ASSUME NEW head, NEW composed, NEW k \in Nat
    PROVE  \E f : IsReading(f, head, composed, k)
<1> DEFINE t == [i \in 1..k |-> i]
           Turn(f, s) == ReadToken(head, composed, f[s \ {Max(s)}], t[Max(s)])
           P(n) == \E f : f = [s \in SUBSET (1..n) |-> IF s = {} THEN Unread ELSE Turn(f, s)]
           D == {n \in Nat : P(n)}
<1>1. 0 \in D
  <2> DEFINE f == [s \in SUBSET (1..0) |-> Unread]
  <2>1. SUBSET (1..0) = {{}}
    OBVIOUS
  <2>2. \A s \in SUBSET (1..0) : s = {}
    OBVIOUS
  <2>3. f = [s \in SUBSET (1..0) |-> IF s = {} THEN Unread ELSE Turn(f, s)]
    BY <2>2
  <2> QED
    BY <2>3
<1>2. ASSUME NEW n \in Nat, n \in D PROVE n + 1 \in D
  <2>1. PICK f : f = [s \in SUBSET (1..n) |-> IF s = {} THEN Unread ELSE Turn(f, s)]
    BY <1>2
  <2> DEFINE g == [s \in SUBSET (1..(n + 1)) |->
                    IF n + 1 \in s
                    THEN ReadToken(head, composed, f[s \ {n + 1}], t[n + 1])
                    ELSE f[s]]
  <2>2. ASSUME NEW s \in SUBSET (1..n)
        PROVE  f[s] = IF s = {} THEN Unread ELSE Turn(f, s)
    BY <2>1
  <2>3. ASSUME NEW s \in SUBSET (1..(n + 1))
        PROVE  g[s] = IF s = {} THEN Unread ELSE Turn(g, s)
    <3>1. CASE n + 1 \in s
      <4>1. Max(s) = n + 1 /\ s # {}
        BY <3>1, GreatestOf
      <4>2. g[s] = ReadToken(head, composed, f[s \ {n + 1}], t[n + 1])
        BY <3>1
      <4>3. s \ {n + 1} \in SUBSET (1..(n + 1)) /\ n + 1 \notin s \ {n + 1}
        OBVIOUS
      <4>4. g[s \ {n + 1}] = f[s \ {n + 1}]
        BY <4>3
      <4> HIDE DEF g
      <4> QED
        BY <4>1, <4>2, <4>4
    <3>2. CASE n + 1 \notin s
      <4>1. s \in SUBSET (1..n) /\ g[s] = f[s]
        BY <3>2
      <4>2. s \ {Max(s)} \in SUBSET (1..(n + 1)) /\ n + 1 \notin s \ {Max(s)}
        BY <3>2
      <4>3. g[s \ {Max(s)}] = f[s \ {Max(s)}]
        BY <4>2
      <4> HIDE DEF g
      <4> QED
        BY <2>2, <4>1, <4>3
    <3> QED
      BY <3>1, <3>2
  <2> HIDE DEF Turn
  <2>4. g = [s \in SUBSET (1..(n + 1)) |-> g[s]]
    OBVIOUS
  <2> HIDE DEF g
  <2>5. g = [s \in SUBSET (1..(n + 1)) |-> IF s = {} THEN Unread ELSE Turn(g, s)]
    BY <2>3, <2>4
  <2>6. P(n + 1)
    BY <2>5
  <2> HIDE DEF P
  <2> QED
    BY <2>6
<1>3. \A n \in Nat : n \in D
  <2> HIDE DEF D
  <2> QED
    BY <1>1, <1>2, SetInduction
<1>4. P(k)
  <2> HIDE DEF P
  <2> QED
    BY <1>3
<1> QED
  BY <1>4 DEF IsReading

(* The fold over the head takes one token after the other.                 *)
LEMMA TurnByTurn ==
    ASSUME NEW head, NEW c, NEW n \in Nat, NEW F, IsReading(F, head, c, n)
    PROVE  /\ F[1..0] = Unread
           /\ \A m \in 0..(n - 1) : F[1..(m + 1)] = ReadToken(head, c, F[1..m], m + 1)
<1> DEFINE t == [i \in 1..n |-> i]
<1>1. ASSUME NEW q \in SUBSET (1..n), q # {}
      PROVE  F[q] = ReadToken(head, c, F[q \ {Max(q)}], t[Max(q)])
  BY <1>1 DEF IsReading
<1>2. F[{}] = Unread
  BY DEF IsReading
<1>3. 1..0 = {}
  OBVIOUS
<1>4. ASSUME NEW m \in 0..(n - 1)
      PROVE  F[1..(m + 1)] = ReadToken(head, c, F[1..m], m + 1)
  <2>1. m \in Nat /\ m + 1 \in 1..n
    OBVIOUS
  <2> PICK k \in Nat : k = m + 1
    BY <2>1
  <2>2. 1..k \in SUBSET (1..n) /\ k \in 1..k /\ 1..k # {}
    <3>1. k <= n /\ 1 <= k
      BY <2>1
    <3>2. k \in 1..k
      BY <3>1
    <3>3. \A i \in 1..k : i \in 1..n
      BY <3>1
    <3> QED
      BY <3>2, <3>3
  <2>3. Max(1..k) = k
    <3>1. 1..k \in SUBSET (1..k)
      OBVIOUS
    <3> QED
      BY <2>2, <3>1, GreatestOf
  <2>4. (1..k) \ {k} = 1..m
    BY <2>1
  <2>5. t[k] = k
    BY <2>1
  <2>6. F[1..k] = ReadToken(head, c, F[(1..k) \ {Max(1..k)}], t[Max(1..k)])
    BY <1>1, <2>2
  <2> HIDE DEF t
  <2> QED
    BY <2>3, <2>4, <2>5, <2>6
<1> QED
  BY <1>2, <1>3, <1>4

(* So it leaves one record after each token. *)
LEMMA ReadingIs ==
    ASSUME NEW head, NEW c, NEW n \in Nat, NEW F, IsReading(F, head, c, n)
    PROVE  \E acc : /\ acc[0] = Unread
                    /\ \A m \in 0..(n - 1) : acc[m + 1] = ReadToken(head, c, acc[m], m + 1)
                    /\ F[1..n] = acc[n]
<1> DEFINE acc == [m \in 0..n |-> F[1..m]]
<1>1. /\ F[1..0] = Unread
      /\ \A m \in 0..(n - 1) : F[1..(m + 1)] = ReadToken(head, c, F[1..m], m + 1)
  BY TurnByTurn
<1>2. /\ acc[0] = F[1..0] /\ acc[n] = F[1..n]
      /\ \A m \in 0..(n - 1) : acc[m + 1] = F[1..(m + 1)] /\ acc[m] = F[1..m]
  <2>1. 0 \in 0..n /\ n \in 0..n
    OBVIOUS
  <2>2. \A m \in 0..(n - 1) : m \in 0..n /\ m + 1 \in 0..n
    OBVIOUS
  <2> QED
    BY <2>1, <2>2
<1> HIDE DEF acc
<1> QED
  BY <1>1, <1>2

\* acc is the record before the first and after each of n tokens, r the last.
Reads(acc, head, c, n, r) ==
    /\ acc[0] = Unread
    /\ \A m \in 0..(n - 1) : acc[m + 1] = ReadToken(head, c, acc[m], m + 1)
    /\ r = acc[n]

(* ReadHead(s) is what the record comes to when the head is read. *)
LEMMA ReadHeadIs ==
    ASSUME NEW s, Boundary(s) - 1 \in Nat,
           Len(SubSeq(s, 1, Boundary(s) - 1)) = Boundary(s) - 1
    PROVE  \E acc : Reads(acc, SubSeq(s, 1, Boundary(s) - 1), Composed(s),
                          Boundary(s) - 1, ReadHead(s))
<1> DEFINE head == SubSeq(s, 1, Boundary(s) - 1)
           c == Composed(s)
           n == Boundary(s) - 1
           t == [i \in 1..n |-> i]
<1>1. ReadHead(s) = (CHOOSE f : IsReading(f, head, c, n))[1..n]
  <2>1. DOMAIN t = 1..n
    OBVIOUS
  <2>2. ReadHead(s) = FoldLeft(LAMBDA a, i : ReadToken(head, c, a, i), Unread, t)
    BY DEF ReadHead, Unread
  <2> HIDE DEF c, head, n
  <2> QED
    BY <2>1, <2>2 DEF FoldLeft, MapThenFoldSet, IsReading
<1>2. \E f : IsReading(f, head, c, n)
  BY ReadingExists
<1>3. PICK F : IsReading(F, head, c, n) /\ ReadHead(s) = F[1..n]
  BY <1>1, <1>2
<1>4. n \in Nat
  OBVIOUS
<1>5. \E acc : /\ acc[0] = Unread
               /\ \A m \in 0..(n - 1) : acc[m + 1] = ReadToken(head, c, acc[m], m + 1)
               /\ F[1..n] = acc[n]
  BY ONLY <1>3, <1>4, ReadingIs
<1> QED
  BY <1>3, <1>5, Zenon DEF Reads

\* A token that is not the value of an option before it.
Free(head, i) == i = 1 \/ head[i - 1] # "-m" \/ (i > 2 /\ head[i - 2] = "-m")

\* What is on record when m tokens are read.
Records(m) == [ids : Seq(Tokens), value : BOOLEAN, bad : BOOLEAN, rest : 0..m]

(* What the record says of the m tokens read: where an option waits for    *)
(* its value, from where the capabilities are, where the command starts.   *)
ReadSoFar(head, composed, a, m) ==
    /\ a \in Records(m)
    /\ a.rest = 0 /\ ~a.bad =>
            /\ a.value => m >= 1 /\ head[m] = "-m"
            /\ ~a.value /\ m >= 1 /\ head[m] = "-m" => m >= 2 /\ head[m - 1] = "-m"
    /\ \A j \in 1..Len(a.ids) :
            \E i \in 1..m : /\ a.rest # 0 => i < a.rest
                            /\ head[i] = a.ids[j]
                            /\ Free(head, i)
    /\ ~composed => Len(a.ids) <= 1
    /\ a.rest # 0 => ~composed

(* A turn of the loop keeps what the record says. *)
LEMMA ReadTokenSound ==
    ASSUME NEW head \in Seq(Tokens), NEW c \in BOOLEAN, NEW m \in Nat, NEW a, NEW b,
           m + 1 <= Len(head), ReadSoFar(head, c, a, m), b = ReadToken(head, c, a, m + 1)
    PROVE  ReadSoFar(head, c, b, m + 1)
<1> DEFINE x == head[m + 1]
<1>1. x \in Tokens /\ m + 1 - 1 = m /\ m + 1 - 2 = m - 1
  OBVIOUS
<1>2. /\ a \in Records(m) /\ a \in Records(m + 1)
      /\ a.ids \in Seq(Tokens) /\ a.rest \in 0..m
      /\ a.value \in BOOLEAN /\ a.bad \in BOOLEAN
  BY DEF ReadSoFar, Records
<1> DEFINE Ready == a.rest = 0 /\ ~a.bad
           Word == Ready /\ ~a.value /\ x # "--json" /\ x # "-m"
<1>0. /\ ~Ready => b = a
      /\ Ready /\ a.value => b = [a EXCEPT !.value = FALSE]
      /\ Ready /\ ~a.value /\ x = "--json" => b = a
      /\ Ready /\ ~a.value /\ x = "-m" =>
            b = [a EXCEPT !.value = TRUE, !.bad = m + 1 = Len(head)]
      /\ Word => \/ b = [a EXCEPT !.bad = TRUE]
                 \/ ~c /\ b = [a EXCEPT !.rest = m + 1]
                 \/ (c \/ a.ids = <<>>) /\ b = [a EXCEPT !.ids = Append(@, x)]
  BY Zenon DEF ReadToken
<1>3. ASSUME b.ids = a.ids, b.rest = a.rest \/ (a.rest = 0 /\ b.rest = m + 1)
      PROVE  \A j \in 1..Len(b.ids) :
                \E i \in 1..(m + 1) : /\ b.rest # 0 => i < b.rest
                                      /\ head[i] = b.ids[j]
                                      /\ Free(head, i)
  <2> TAKE j \in 1..Len(b.ids)
  <2>1. PICK i \in 1..m : /\ a.rest # 0 => i < a.rest
                          /\ head[i] = a.ids[j]
                          /\ Free(head, i)
    BY <1>3 DEF ReadSoFar
  <2>2. i \in 1..(m + 1) /\ (b.rest # 0 => i < b.rest)
    BY <1>2, <1>3, <2>1
  <2> QED
    BY <1>3, <2>1, <2>2
<1>4. ASSUME b = a, a.rest # 0 \/ a.bad \/ (~a.value /\ x # "-m")
      PROVE  ReadSoFar(head, c, b, m + 1)
  BY <1>1, <1>2, <1>3, <1>4 DEF ReadSoFar
<1>5. ASSUME NEW v \in BOOLEAN, NEW w \in BOOLEAN, b = [a EXCEPT !.value = v, !.bad = w],
             a.rest = 0,
             ~w => /\ v => x = "-m"
                   /\ ~v /\ x = "-m" => m >= 1 /\ head[m] = "-m"
      PROVE  ReadSoFar(head, c, b, m + 1)
  <2>1. /\ b \in Records(m + 1) /\ b.ids = a.ids /\ b.rest = a.rest
        /\ (b.value <=> v) /\ (b.bad <=> w)
    <3>1. b \in Records(m)
      BY <1>2, <1>5, Zenon DEF Records
    <3>2. b \in Records(m + 1)
      BY <3>1 DEF Records
    <3>3. b.ids = a.ids /\ b.rest = a.rest
      BY <1>2, <1>5 DEF Records
    <3>4. b.value <=> v
      BY <1>2, <1>5 DEF Records
    <3>5. b.bad <=> w
      BY <1>2, <1>5 DEF Records
    <3> QED
      BY <3>2, <3>3, <3>4, <3>5
  <2>2. \A j \in 1..Len(b.ids) :
            \E i \in 1..(m + 1) : /\ b.rest # 0 => i < b.rest
                                  /\ head[i] = b.ids[j]
                                  /\ Free(head, i)
    BY <1>3, <2>1
  <2>3. /\ ~c => Len(b.ids) <= 1
        /\ b.rest # 0 => ~c
    BY <2>1 DEF ReadSoFar
  <2>4. b.rest = 0 /\ ~b.bad =>
            /\ b.value => m + 1 >= 1 /\ x = "-m"
            /\ ~b.value /\ m + 1 >= 1 /\ x = "-m" => m + 1 >= 2 /\ head[m + 1 - 1] = "-m"
    BY <1>1, <1>5, <2>1
  <2> QED
    BY <2>1, <2>2, <2>3, <2>4 DEF ReadSoFar
<1>6. ASSUME Ready, a.value PROVE ReadSoFar(head, c, b, m + 1)
  <2>1. b = [a EXCEPT !.value = FALSE, !.bad = FALSE]
    <3>1. b = [a EXCEPT !.value = FALSE]
      BY <1>6, <1>0
    <3>2. a.bad = FALSE
      BY <1>2, <1>6
    <3> QED
      BY <1>2, <3>1, <3>2, Zenon DEF Records
  <2>2. m >= 1 /\ head[m] = "-m"
    BY <1>6 DEF ReadSoFar
  <2> QED
    BY <1>5, <1>6, <2>1, <2>2
<1>7. ASSUME Ready, ~a.value, x = "--json" PROVE ReadSoFar(head, c, b, m + 1)
  <2>1. b = a
    BY <1>7, <1>0
  <2> QED
    BY <1>4, <1>7, <2>1
<1>8. ASSUME Ready, ~a.value, x = "-m" PROVE ReadSoFar(head, c, b, m + 1)
  <2>1. b = [a EXCEPT !.value = TRUE, !.bad = (m + 1 = Len(head))]
    BY <1>8, <1>0
  <2> QED
    BY <1>5, <1>8, <2>1
<1>9. ASSUME Word, b = [a EXCEPT !.bad = TRUE] PROVE ReadSoFar(head, c, b, m + 1)
  <2>1. a.value = FALSE
    BY <1>2, <1>9
  <2>2. b = [a EXCEPT !.value = FALSE, !.bad = TRUE]
    BY <1>2, <1>9, <2>1, Zenon DEF Records
  <2> QED
    BY <1>5, <1>9, <2>2
<1>10. ASSUME Word, ~c, b = [a EXCEPT !.rest = m + 1] PROVE ReadSoFar(head, c, b, m + 1)
  <2>1. b \in Records(m + 1) /\ b.ids = a.ids /\ b.rest = m + 1
    BY <1>2, <1>10 DEF Records
  <2>2. \A j \in 1..Len(b.ids) :
            \E i \in 1..(m + 1) : /\ b.rest # 0 => i < b.rest
                                  /\ head[i] = b.ids[j]
                                  /\ Free(head, i)
    BY <1>3, <1>10, <2>1
  <2>3. Len(b.ids) <= 1
    BY <1>10, <2>1 DEF ReadSoFar
  <2> QED
    BY <1>10, <2>1, <2>2, <2>3 DEF ReadSoFar
<1>11. ASSUME Word, c \/ a.ids = <<>>, b = [a EXCEPT !.ids = Append(@, x)]
       PROVE  ReadSoFar(head, c, b, m + 1)
  <2>0. Append(a.ids, x) \in Seq(Tokens)
    BY <1>1, <1>2
  <2>1. b.ids = Append(a.ids, x) /\ b.rest = 0 /\ b \in Records(m + 1)
    BY <1>2, <1>11, <2>0 DEF Records
  <2>2. Free(head, m + 1)
    BY <1>1, <1>11 DEF ReadSoFar, Free
  <2>3. \A j \in 1..Len(b.ids) : \E i \in 1..(m + 1) : head[i] = b.ids[j] /\ Free(head, i)
    <3> TAKE j \in 1..Len(b.ids)
    <3>1. CASE j = Len(a.ids) + 1
      <4>1. b.ids[j] = x /\ m + 1 \in 1..(m + 1)
        BY <1>2, <2>1, <3>1
      <4> QED
        BY <2>2, <4>1
    <3>2. CASE j # Len(a.ids) + 1
      <4>1. j \in 1..Len(a.ids) /\ b.ids[j] = a.ids[j]
        <5>1. \A q \in Seq(Tokens) : \A y \in Tokens : \A k \in 1..Len(Append(q, y)) :
                    k # Len(q) + 1 => k \in 1..Len(q) /\ Append(q, y)[k] = q[k]
          OBVIOUS
        <5> QED
          BY <1>1, <1>2, <2>1, <3>2, <5>1, ZenonT(60)
      <4>2. PICK i \in 1..m : head[i] = a.ids[j] /\ Free(head, i)
        BY <4>1 DEF ReadSoFar
      <4> QED
        BY <4>1, <4>2
    <3> QED
      BY <3>1, <3>2
  <2>4. ~c => Len(b.ids) <= 1
    BY <1>2, <1>11, <2>1
  <2>5. ~b.value
    BY <1>2, <1>11, <2>0 DEF Records
  <2> QED
    BY <1>1, <1>11, <2>1, <2>3, <2>4, <2>5 DEF ReadSoFar
<1>12. ASSUME ~Ready PROVE ReadSoFar(head, c, b, m + 1)
  <2>1. b = a
    BY <1>12, <1>0
  <2> QED
    BY <1>4, <1>12, <2>1
<1> QED
  BY <1>6, <1>7, <1>8, <1>9, <1>10, <1>11, <1>12, <1>0

(* The record of the head of a line is sound. *)
LEMMA ReadHeadSound ==
    ASSUME NEW s \in Seq(Tokens), Boundary(s) \in 1..(Len(s) + 1)
    PROVE  ReadSoFar(SubSeq(s, 1, Boundary(s) - 1), Composed(s), ReadHead(s), Boundary(s) - 1)
<1> DEFINE head == SubSeq(s, 1, Boundary(s) - 1)
           c == Composed(s)
           n == Boundary(s) - 1
<1>1. head \in Seq(Tokens) /\ Len(head) = n /\ n \in Nat
  OBVIOUS
<1>2. PICK acc : Reads(acc, head, c, n, ReadHead(s))
  BY <1>1, ReadHeadIs
<1>3. c \in BOOLEAN
  BY DEF Composed
<1> HIDE DEF head, c, n
<1> DEFINE D == {m \in Nat : m <= n => ReadSoFar(head, c, acc[m], m)}
<1>4. 0 \in D
  <2>1. ReadSoFar(head, c, Unread, 0)
    BY DEF ReadSoFar, Unread, Records
  <2>2. acc[0] = Unread
    BY <1>2 DEF Reads
  <2> QED
    BY <2>1, <2>2
<1>5. ASSUME NEW m \in Nat, m \in D PROVE m + 1 \in D
  <2> SUFFICES ASSUME m + 1 <= n PROVE ReadSoFar(head, c, acc[m + 1], m + 1)
    OBVIOUS
  <2>1. m \in 0..(n - 1) /\ m <= n
    BY <1>1
  <2>2. ReadSoFar(head, c, acc[m], m) /\ acc[m + 1] = ReadToken(head, c, acc[m], m + 1)
    BY <1>2, <1>5, <2>1 DEF Reads
  <2>3. m + 1 <= Len(head) /\ m \in Nat
    BY <1>1
  <2> QED
    BY ONLY <1>1, <1>3, <2>2, <2>3, ReadTokenSound
<1>6. n \in D
  <2> HIDE DEF D
  <2> QED
    BY ONLY <1>1, <1>4, <1>5, SetInduction
<1>7. ReadHead(s) = acc[n] /\ n <= n
  BY <1>1, <1>2 DEF Reads
<1>8. ReadSoFar(head, c, ReadHead(s), n)
  BY <1>1, <1>6, <1>7
<1> QED
  BY <1>8 DEF head, c, n

(* A line cut after some token ends with what is left. *)
LEMMA SuffixOf ==
    ASSUME NEW S, NEW s \in Seq(S), NEW r \in 1..Len(s)
    PROVE  IsSuffix(SubSeq(s, r, Len(s)), s)
<1> DEFINE u == SubSeq(s, r, Len(s))
           k == Len(s) - r + 1
           v == Reverse(u)
           w == Reverse(s)
<1>1. /\ u \in Seq(S) /\ Len(u) = k /\ k \in 1..Len(s)
      /\ \A i \in 1..k : u[i] = s[r + i - 1]
  OBVIOUS
<1>2. /\ v \in Seq(S) /\ Len(v) = k
      /\ \A i \in 1..k : v[i] = u[k - i + 1]
  <2>1. v = [i \in 1..k |-> u[k - i + 1]]
    BY <1>1 DEF Reverse
  <2>2. \A i \in 1..k : k - i + 1 \in 1..k /\ u[k - i + 1] \in S
    BY <1>1
  <2> HIDE DEF u, k, v
  <2> QED
    BY <1>1, <2>1, <2>2
<1>3. /\ w \in Seq(S) /\ Len(w) = Len(s)
      /\ \A i \in 1..Len(s) : w[i] = s[Len(s) - i + 1]
  BY DEF Reverse
<1>4. ASSUME NEW i \in 1..k PROVE v[i] = w[i]
  <2>1. v[i] = u[k - i + 1] /\ k - i + 1 \in 1..k
    BY <1>1, <1>2
  <2>2. u[k - i + 1] = s[r + (k - i + 1) - 1] /\ r + (k - i + 1) - 1 = Len(s) - i + 1
    BY <1>1, <2>1
  <2> QED
    BY <1>1, <1>3, <2>1, <2>2
<1> HIDE DEF u, v, w, k
<1>5. SubSeq(v, 1, k) = SubSeq(w, 1, k)
  BY <1>1, <1>2, <1>3, <1>4
<1>6. IsPrefix(v, w)
  BY <1>1, <1>2, <1>3, <1>5 DEF IsPrefix
<1> QED
  BY <1>6 DEF IsSuffix, u, v, w

(* The boundary is the first "--", or lies behind the line.                *)
LEMMA BoundaryIs ==
    ASSUME NEW s \in Seq(Tokens), NEW b, b = SelectInSeq(s, LAMBDA x : x = "--")
    PROVE  /\ Boundary(s) \in 1..(Len(s) + 1)
           /\ b \in Nat
           /\ Composed(s) <=> b # 0
           /\ b # 0 => Boundary(s) = b
           /\ b = 0 => Boundary(s) = Len(s) + 1
<1> DEFINE I == {i \in 1..Len(s) : s[i] = "--"}
<1>0. DOMAIN s = 1..Len(s) /\ Len(s) \in Nat
  OBVIOUS
<1>1. b = IF I # {} THEN Min(I) ELSE 0
  BY DEF SelectInSeq
<1>2. CASE I = {}
  <2>1. \A i \in DOMAIN s : s[i] # "--"
    BY <1>0, <1>2
  <2> QED
    BY <1>0, <1>1, <1>2, <2>1 DEF Boundary, Composed
<1>3. CASE I # {}
  <2>1. PICK k \in I : \A j \in I : k <= j
    <3>1. I \in SUBSET Nat
      OBVIOUS
    <3> HIDE DEF I
    <3> QED
      BY <1>3, <3>1, LeastOfSet
  <2>2. Min(I) \in I /\ \A j \in I : Min(I) <= j
    BY <2>1 DEF Min
  <2>3. /\ k \in 1..Len(s) /\ s[k] = "--"
        /\ \A j \in 1..(k - 1) : s[j] # "--"
    BY <1>0, <2>1
  <2>4. Min(I) = k
    <3>1. k \in Nat /\ Min(I) \in Nat
      BY <2>1, <2>2
    <3>2. k <= Min(I) /\ Min(I) <= k
      BY <2>1, <2>2
    <3> QED
      BY ONLY <3>1, <3>2
  <2>5. ASSUME NEW i \in 1..Len(s), s[i] = "--", \A j \in 1..(i - 1) : s[j] # "--"
        PROVE  i = k
    <3>1. i \in I /\ k <= i
      BY <2>1, <2>5
    <3>2. ~(k < i)
      BY <2>3, <2>5
    <3> QED
      BY <2>3, <3>1, <3>2
  <2>6. Boundary(s) = k
    BY <1>0, <2>3, <2>5 DEF Boundary
  <2> QED
    BY <1>0, <1>1, <1>3, <2>3, <2>4, <2>6 DEF Composed
<1> QED
  BY <1>2, <1>3

(* A sequence that is not empty and not longer than one has one element. *)
LEMMA LoneElement ==
    ASSUME NEW S, NEW u \in Seq(S), u # <<>>, Len(u) <= 1
    PROVE  Len(u) = 1
<1>1. Len(u) # 0
  OBVIOUS
<1>2. Len(u) \in Nat
  OBVIOUS
<1>3. \A n \in Nat : n # 0 /\ n <= 1 => n = 1
  OBVIOUS
<1> QED
  BY <1>1, <1>2, <1>3, Zenon

\* Capabilities q and command k are what line s asks for.
Takes(s, q, k) ==
    LET b == SelectInSeq(s, LAMBDA x : x = "--")
        end == IF b = 0 THEN Len(s) - Len(k) ELSE b - 1
    IN  /\ b # 0 => k = SubSeq(s, b + 1, Len(s))
        /\ b = 0 => Len(q) = 1 /\ IsSuffix(k, s)
        /\ \A j \in DOMAIN q : \E i \in 1..end : s[i] = q[j] /\ Free(s, i)

(* What a request takes from its line. *)
LEMMA AskedOf ==
    ASSUME NEW s \in Seq(Tokens), NEW q, NEW k, q = ReadHead(s).ids, k = CommandOf(s),
           q # <<>>, k # <<>>
    PROVE  Takes(s, q, k)
<1> DEFINE b == SelectInSeq(s, LAMBDA x : x = "--")
           end == IF b = 0 THEN Len(s) - Len(k) ELSE b - 1
           n == Boundary(s) - 1
           head == SubSeq(s, 1, n)
           a == ReadHead(s)
           Asked ==
                /\ b # 0 => k = SubSeq(s, b + 1, Len(s))
                /\ b = 0 => Len(q) = 1 /\ IsSuffix(k, s)
                /\ \A j \in DOMAIN q : \E i \in 1..end : s[i] = q[j] /\ Free(s, i)
<1>1. /\ Boundary(s) \in 1..(Len(s) + 1) /\ b \in Nat /\ (Composed(s) <=> b # 0)
  BY BoundaryIs
<1>2. b # 0 => Boundary(s) = b
  BY BoundaryIs
<1>3. b = 0 => Boundary(s) = Len(s) + 1
  BY BoundaryIs
<1> HIDE DEF b
<1>4. ReadSoFar(head, Composed(s), a, n)
  BY <1>1, ReadHeadSound
<1>5. n \in 0..Len(s) /\ \A i \in 1..n : head[i] = s[i]
  BY <1>1
<1> HIDE DEF head, n, a
<1>6. a.ids \in Seq(Tokens) /\ a.rest \in 0..n /\ q = a.ids
  BY <1>4 DEF ReadSoFar, Records, a
<1>7. ASSUME b # 0 PROVE Asked
  <2>1. k = SubSeq(s, b + 1, Len(s))
    BY <1>1, <1>2, <1>7 DEF CommandOf
  <2>2. end = n /\ a.rest = 0
    BY <1>1, <1>2, <1>4, <1>6, <1>7 DEF n, ReadSoFar
  <2>3. ASSUME NEW j \in DOMAIN q
        PROVE  \E i \in 1..end : s[i] = q[j] /\ Free(s, i)
    <3>1. j \in 1..Len(a.ids)
      BY <1>6
    <3>2. PICK i \in 1..n : head[i] = a.ids[j] /\ Free(head, i)
      BY <1>4, <3>1 DEF ReadSoFar
    <3>3. i > 1 => i - 1 \in 1..n
      BY <1>5
    <3>4. i > 2 => i - 2 \in 1..n
      BY <1>5
    <3>5. s[i] = q[j] /\ Free(s, i)
      BY <1>5, <1>6, <3>2, <3>3, <3>4 DEF Free
    <3> QED
      BY <2>2, <3>5
  <2> QED
    BY <1>7, <2>1, <2>3
<1>8. ASSUME b = 0 PROVE Asked
  <2>1. n = Len(s) /\ a.rest # 0 /\ k = SubSeq(s, a.rest, Len(s))
    <3>1. n = Len(s)
      BY <1>3, <1>8 DEF n
    <3>2. ~Composed(s)
      BY <1>1, <1>8
    <3>3. CommandOf(s) = IF a.rest = 0 THEN <<>> ELSE SubSeq(s, a.rest, Len(s))
      BY <3>2, Zenon DEF CommandOf, a
    <3> QED
      BY <3>1, <3>3
  <2>2. a.rest \in 1..Len(s) /\ Len(s) - Len(k) = a.rest - 1
    BY <1>6, <2>1
  <2>3. Len(q) = 1
    <3>1. Len(a.ids) <= 1
      BY <1>1, <1>4, <1>8 DEF ReadSoFar
    <3> QED
      BY <1>6, <3>1, LoneElement
  <2>4. IsSuffix(k, s)
    BY <2>1, <2>2, SuffixOf
  <2>5. ASSUME NEW j \in DOMAIN q
        PROVE  \E i \in 1..end : s[i] = q[j] /\ Free(s, i)
    <3>1. j \in 1..Len(a.ids)
      BY <1>6
    <3>2. PICK i \in 1..n : i < a.rest /\ head[i] = a.ids[j] /\ Free(head, i)
      BY <1>4, <2>1, <3>1 DEF ReadSoFar
    <3>3. i > 1 => i - 1 \in 1..n
      BY <1>5
    <3>4. i > 2 => i - 2 \in 1..n
      BY <1>5
    <3>5. s[i] = q[j] /\ Free(s, i)
      BY <1>5, <1>6, <3>2, <3>3, <3>4 DEF Free
    <3>6. i \in 1..end
      BY <1>8, <2>2, <3>2
    <3> QED
      BY <3>5, <3>6
  <2> QED
    BY <1>8, <2>3, <2>4, <2>5
<1>9. Asked
  BY <1>7, <1>8
<1> QED
  BY <1>9 DEF b, Takes

(* What follows the first "--" is handed to the child whole, and no        *)
(* capability is taken from there or from the value of an option; without  *)
(* it there is one capability and its command ends the line                *)
(* (cli._cmd_exec_raw), however long the line.                             *)
THEOREM BoundaryIsKept == Spec => BoundaryHolds
<1> DEFINE Kept ==
        pc = "parse" /\ pc' = "lookup" =>
        LET b == SelectInSeq(raw, LAMBDA x : x = "--")
            end == IF b = 0 THEN Len(raw) - Len(command') ELSE b - 1
        IN  /\ b # 0 => command' = SubSeq(raw, b + 1, Len(raw))
            /\ b = 0 => Len(ids') = 1 /\ IsSuffix(command', raw)
            /\ \A j \in DOMAIN ids' :
                    \E i \in 1..end : raw[i] = ids'[j] /\ (i = 1 \/ raw[i - 1] # "-m"
                                                          \/ (i > 2 /\ raw[i - 2] = "-m"))
<1>1. Typed /\ [Next]_vars => [Kept]_vars
  <2> SUFFICES ASSUME Typed, Next, pc = "parse", pc' = "lookup" PROVE Kept
    OBVIOUS
  <2>1. Asks
    BY DEF Next, Acb, Children, Lookup, Refuse, Begin, ResolveNext, ResolveFails, LaunchFails,
           Launch, AtLaunch, WaitReturns, TimesOut, Probe, Terminate, LoopEnds, LoopKills,
           Reap, TaskkillWorks, TaskkillFails, Raise, CloseOut, Record, RunReturns, Fork,
           ProcessEnds, Enter, Guard, Interrupt, InterruptEnds, InterruptWipe,
           InterruptTry, InterruptWait, Finish, ToOver, request
  <2>2. /\ ids' = ReadHead(raw).ids /\ command' = CommandOf(raw)
        /\ ids' # <<>> /\ command' # <<>>
    BY <2>1, Zenon DEF Asks, Finish
  <2>3. raw \in Seq(Tokens)
    BY DEF Typed
  <2> QED
    <3>1. Takes(raw, ids', command')
      BY <2>2, <2>3, AskedOf
    <3> QED
      BY <3>1 DEF Takes, Free
<1> QED
  BY <1>1, TypedHolds, PTL DEF Spec, BoundaryHolds
=============================================================================
