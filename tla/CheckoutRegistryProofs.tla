------------------------ MODULE CheckoutRegistryProofs ------------------------
(***************************************************************************)
(* The safety theorems of CheckoutRegistry, with the invariant they rest   *)
(* on, for any number of threads, checkouts and callers and any bounds;    *)
(* then what the registry does as long as the disk takes every write: the  *)
(* state file covers memory, every loan is on record, and each checkout    *)
(* lives the life CheckoutLifecycle describes, whatever issuer failures    *)
(* and crashes there are.                                                  *)
(***************************************************************************)
EXTENDS CheckoutRegistry, TLAPS

-----------------------------------------------------------------------------
(* Types. *)

\* A thread that is at a checkout knows which one: together with the types this
\* is preserved by every step.
AtWork ==
    \A t \in Threads :
        pc[t] \in {"adding", "emit", "answer", "calling", "settling"} => cur[t] \in Ids

TypeInv == TypeOK /\ AtWork

\* The ttl the broker honours is a positive number: neither the capability's
\* declaration nor a client's request makes it anything else.
LEMMA HonouredType ==
    ASSUME NEW cap \in Caps, NEW asked \in AskedTtls
    PROVE  Honoured(cap, asked) \in Nat \ {0}
  BY DataAssumption DEF Honoured, Least

\* The initial state has the right types.
LEMMA InitType == Init => TypeInv
  BY BoundsAssumption
  DEF Init, ContractInit, TypeInv, TypeOK, ContractTypeOK, AtWork, Threads, Places, Phases,
      Asks, NoAsk, Checkouts, Blank, NoPlan

\* A revoke step of any thread keeps the types.
LEMMA RevokeStepType ==
    ASSUME TypeInv, NEW t \in Threads, RevokeStep(t)
    PROVE  TypeInv'
  <1> USE DEF TypeInv, TypeOK, AtWork, ContractTypeOK, contractVars, memory, output, world,
              Places, AfterCall
  <1>1. CASE Mark(t)
    BY <1>1 DEF Mark
  <1>2. CASE CallIssuer(t)
    BY <1>2 DEF CallIssuer
  <1>3. CASE IssuerReturns(t)
    BY <1>3 DEF IssuerReturns, RevokeReturns
  <1>4. CASE IssuerRaises(t)
    BY <1>4 DEF IssuerRaises, RevokeRaises
  <1>5. CASE Write(t)
    BY <1>5 DEF Write
  <1>6. CASE WriteFails(t)
    BY <1>6, BoundsAssumption DEF WriteFails, NoPlan
  <1> QED
    BY <1>1, <1>2, <1>3, <1>4, <1>5, <1>6 DEF RevokeStep

\* So does what a worker does for a checkout request.
LEMMA CheckoutStepType ==
    ASSUME TypeInv, NEW w \in Workers,
           \/ Dismiss(w) \/ IssueReturns(w) \/ IssueRaises(w) \/ Add(w) \/ AddWriteFails(w)
           \/ Emit(w) \/ Answer(w)
    PROVE  TypeInv'
  <1> USE DEF TypeInv, TypeOK, AtWork, ContractTypeOK, contractVars, memory, output, world,
              Places, Threads
  <1>1. CASE IssueReturns(w)
    <2>1. PICK id \in Ids, granted \in 1..ask[w].ttl, issued \in 1..ask[w].ttl :
             /\ Mint(id, ask[w].cap \in RevocableCaps)
             /\ co' = [co EXCEPT ![id] = [cap |-> ask[w].cap, caller |-> ask[w].caller,
                                          expires |-> now + issued, lapses |-> now + granted]]
             /\ cur' = [cur EXCEPT ![w] = id]
      BY <1>1 DEF IssueReturns
    <2>2. ask[w] \in [cap : Caps, caller : Callers, ttl : Nat \ {0}]
      BY <2>1 DEF Asks, NoAsk
    <2>3. co' \in [Ids -> Checkouts]
      BY <2>1, <2>2, BoundsAssumption DEF Checkouts
    <2> QED
      BY <1>1, <2>1, <2>3 DEF IssueReturns, Mint
  <1>2. CASE IssueRaises(w)
    BY <1>2 DEF IssueRaises, Asks
  <1>3. CASE Add(w)
    BY <1>3 DEF Add, Register
  <1>4. CASE AddWriteFails(w)
    BY <1>4, BoundsAssumption DEF AddWriteFails, Register, Asks
  <1>5. CASE Emit(w)
    BY <1>5 DEF Emit, Asks
  <1>6. CASE Answer(w)
    BY <1>6 DEF Answer, Asks
  <1>7. CASE Dismiss(w)
    BY <1>7 DEF Dismiss
  <1> QED
    BY <1>1, <1>2, <1>3, <1>4, <1>5, <1>6, <1>7

\* So does a client's request.
LEMMA ClientStepType ==
    ASSUME TypeInv, NEW w \in Workers, ClientStep(w)
    PROVE  TypeInv'
  <1> USE DEF TypeInv, TypeOK, AtWork, ContractTypeOK, contractVars, memory, output, world,
              Places, Threads
  <1>1. ASSUME NEW cap \in Caps, NEW caller \in Callers, NEW asked \in AskedTtls,
               CheckoutReuses(w, cap, caller, asked)
        PROVE  TypeInv'
    <2>1. [cap |-> cap, caller |-> caller, ttl |-> Honoured(cap, asked)] \in Asks
      BY HonouredType DEF Asks
    <2> QED
      BY <1>1, <2>1 DEF CheckoutReuses, Reusable
  <1>2. ASSUME NEW cap \in Caps, NEW caller \in Callers, NEW asked \in AskedTtls,
               CheckoutIssues(w, cap, caller, asked)
        PROVE  TypeInv'
    <2>1. [cap |-> cap, caller |-> caller, ttl |-> Honoured(cap, asked)] \in Asks
      BY HonouredType DEF Asks
    <2> QED
      BY <1>2, <2>1 DEF CheckoutIssues
  <1>3. ASSUME NEW id \in Ids \cup {Whatever}, NEW cap \in Caps \cup {Whatever},
               NEW caller \in Callers \cup {Whatever}, AskRevoke(w, id, cap, caller)
        PROVE  TypeInv'
    BY <1>3 DEF AskRevoke, Selected
  <1> QED
    BY <1>1, <1>2, <1>3 DEF ClientStep

\* So does the end of the process.
LEMMA VanishType ==
    ASSUME TypeInv, Vanish, exits' \in 0..MaxExits, faults' \in 0..MaxDiskFaults
    PROVE  TypeInv'
  BY DEF TypeInv, TypeOK, AtWork, ContractTypeOK, Vanish, Forget, output, Phases, Places,
         Asks, NoPlan

\* A stop turns workers that were idle into workers that read a request, and
\* leaves everything else as it is.
LEMMA StopMoves ==
    ASSUME TypeInv, Stop
    PROVE  /\ \A t \in Threads :
                 pc'[t] = pc[t] \/ (t \in Workers /\ pc[t] = "idle" /\ pc'[t] = "reading")
           /\ pc' \in [Threads -> Places]
           /\ pc'[Main] = pc[Main]
           /\ phase = "serving" /\ phase' = "draining"
           /\ UNCHANGED <<contractVars, memory, ask, todo, cur, done, plan, output, now, ended,
                          faults, co, file>>
  <1>1. PICK accepted \in SUBSET {w \in Workers : pc[w] = "idle"} :
           pc' = [t \in Threads |-> IF t \in accepted THEN "reading" ELSE pc[t]]
    BY DEF Stop
  <1> QED
    BY <1>1, ThreadsAssumption DEF Stop, TypeInv, TypeOK, Threads, Places

\* Every step keeps the types.
LEMMA NextType == TypeInv /\ [Next]_vars => TypeInv'
  <1> SUFFICES ASSUME TypeInv, [Next]_vars PROVE TypeInv'
    OBVIOUS
  <1> USE DEF Threads
  <1>1. ASSUME NEW w \in Workers, ClientStep(w) PROVE TypeInv'
    BY <1>1, ClientStepType
  <1>2. ASSUME NEW w \in Workers, WorkerStep(w) PROVE TypeInv'
    BY <1>2, CheckoutStepType, RevokeStepType DEF WorkerStep
  <1>3. CASE ReaperStep
    <2>1. CASE ReapScan
      BY <2>1 DEF ReapScan, TypeInv, TypeOK, AtWork, ContractTypeOK, contractVars, memory,
                  output, world, Expired, SessionOver, Groups
    <2>2. ASSUME NEW g \in Groups, ReapGroup(g) PROVE TypeInv'
      BY <2>2 DEF ReapGroup, TypeInv, TypeOK, AtWork, ContractTypeOK, contractVars, memory,
                  output, world, Places
    <2> QED
      BY <1>3, <2>1, <2>2, RevokeStepType DEF ReaperStep
  <1>4. CASE Start
    BY <1>4 DEF Start, TypeInv, TypeOK, AtWork, ContractTypeOK, contractVars, output, world,
                Places, Phases
  <1>5. CASE MainStep
    <2>1. CASE Serve
      BY <2>1 DEF Serve, TypeInv, TypeOK, AtWork, ContractTypeOK, contractVars, memory,
                  control, output, world, Phases
    <2>2. CASE Close
      BY <2>2 DEF Close, TypeInv, TypeOK, AtWork, ContractTypeOK, contractVars, memory,
                  output, world, Places, Phases
    <2>3. CASE Exit
      BY <2>3, VanishType DEF Exit, TypeInv, TypeOK
    <2>4. CASE MainWriteFails
      BY <2>4, VanishType, BoundsAssumption DEF MainWriteFails, TypeInv, TypeOK
    <2> QED
      BY <1>5, <2>1, <2>2, <2>3, <2>4, RevokeStepType DEF MainStep
  <1>6. CASE Stop
    <2>1. exits' \in 0..MaxExits
      BY <1>6, BoundsAssumption DEF Stop, TypeInv, TypeOK
    <2> QED
      BY <1>6, <2>1, StopMoves
      DEF TypeInv, TypeOK, AtWork, ContractTypeOK, contractVars, memory, output, Phases
  <1>7. CASE Crash
    BY <1>7, VanishType, BoundsAssumption DEF Crash, TypeInv, TypeOK
  <1>8. CASE Tick
    BY <1>8, BoundsAssumption
    DEF Tick, Lapse, TypeInv, TypeOK, AtWork, ContractTypeOK, memory, control, output
  <1>9. ASSUME NEW caller \in AnchoredCallers, SessionEnds(caller) PROVE TypeInv'
    BY <1>9, DataAssumption
    DEF SessionEnds, TypeInv, TypeOK, AtWork, ContractTypeOK, contractVars, memory, control,
        output
  <1>10. CASE UNCHANGED vars
    BY <1>10 DEF vars, TypeInv, TypeOK, AtWork, ContractTypeOK, contractVars, memory,
                 control, output, world
  <1> QED
    BY <1>1, <1>2, <1>3, <1>4, <1>5, <1>6, <1>7, <1>8, <1>9, <1>10 DEF Next

\* Type correctness: whatever the threads, the issuer, the disk, the clock and the
\* clients do, every part of the broker's state stays what it is declared to be.
THEOREM TypeCorrect == Spec => []TypeOK
  <1>1. Spec => []TypeInv
    BY InitType, NextType, PTL DEF Spec
  <1> QED
    BY <1>1, PTL DEF TypeInv

-----------------------------------------------------------------------------
(* The invariant. *)

\* The registry, its file, a reply or a thread's work list knows the checkout.
Known(id) ==
    \/ id \in live \cup value \cup pending \cup answered
    \/ \E t \in Threads : id \in todo[t] \cup done[t]
    \/ \E g \in Groups : id \in plan[g]

\* Nothing knows a checkout that has not been issued.
Unborn ==
    \A id \in Ids : grant[id] = "none" =>
        ~Known(id) /\ id \notin file \cup held /\ \A t \in Threads : cur[t] # id

\* A checkout that a worker has in hand is known to that worker alone.
InHandFresh ==
    \A w \in Workers : pc[w] = "adding" =>
        /\ ~Known(cur[w]) /\ cur[w] \notin file
        /\ \A t \in Threads \ {w} : cur[t] # cur[w]

\* A process that is down has no memory and no thread at work.
DownEmpty ==
    phase = "down" =>
        /\ live = {} /\ value = {} /\ pending = {} /\ held = {} /\ plan = NoPlan
        /\ \A t \in Threads : pc[t] = "idle" /\ todo[t] = {} /\ done[t] = {}

\* The main thread revokes only while it starts or closes.
MainQuiet == phase \in {"serving", "draining"} => pc[Main] = "idle"

Fresh == Unborn /\ InHandFresh /\ DownEmpty /\ MainQuiet

\* At first nothing is known.
LEMMA InitFresh == Init => Fresh
  BY DataAssumption
  DEF Init, ContractInit, Fresh, Unborn, InHandFresh, DownEmpty, MainQuiet, Known, NoPlan,
      Threads

\* A thread that revokes works on checkouts that are known already.
LEMMA RevokeStepFresh ==
    ASSUME TypeInv, Fresh, NEW t \in Threads, RevokeStep(t)
    PROVE  Fresh'
  <1> USE DataAssumption
      DEF TypeInv, TypeOK, ContractTypeOK, AtWork, Fresh, Unborn, InHandFresh, DownEmpty,
          MainQuiet, Known, contractVars, memory, output, world, Places, AfterCall
  <1>1. CASE Mark(t)
    BY <1>1 DEF Mark
  <1>2. CASE CallIssuer(t)
    <2>1. PICK id \in todo[t] :
             /\ cur' = [cur EXCEPT ![t] = id]
             /\ todo' = [todo EXCEPT ![t] = @ \ {id}]
             /\ pc' \in {[pc EXCEPT ![t] = "calling"], [pc EXCEPT ![t] = "settling"]}
      BY <1>2 DEF CallIssuer
    <2>2. id \in Ids /\ Known(id)
      BY <2>1
    <2>3. \A i \in Ids : Known(i)' => Known(i)
      BY <1>2, <2>1 DEF CallIssuer
    <2>4. Unborn'
      BY <1>2, <2>1, <2>2, <2>3 DEF CallIssuer
    <2>5. InHandFresh'
      BY <1>2, <2>1, <2>2, <2>3 DEF CallIssuer
    <2>6. DownEmpty' /\ MainQuiet'
      BY <1>2, <2>1 DEF CallIssuer
    <2> QED
      BY <2>4, <2>5, <2>6
  <1>3. CASE IssuerReturns(t)
    <2>1. cur[t] \in Ids /\ grant[cur[t]] # "none"
      BY <1>3 DEF IssuerReturns
    <2>2. \A i \in Ids : grant'[i] = "none" => grant[i] = "none"
      BY <1>3, <2>1 DEF IssuerReturns, RevokeReturns
    <2>3. \A i \in Ids : Known(i)' => Known(i) \/ i = cur[t]
      BY <1>3 DEF IssuerReturns
    <2>4. Unborn'
      BY <1>3, <2>1, <2>2, <2>3 DEF IssuerReturns, RevokeReturns
    <2>5. InHandFresh'
      BY <1>3, <2>1, <2>2, <2>3 DEF IssuerReturns, Threads
    <2>6. DownEmpty' /\ MainQuiet'
      BY <1>3 DEF IssuerReturns
    <2> QED
      BY <2>4, <2>5, <2>6
  <1>4. CASE IssuerRaises(t)
    <2>1. cur[t] \in Ids /\ grant[cur[t]] # "none"
      BY <1>4 DEF IssuerRaises
    <2>2. \A i \in Ids : grant'[i] = "none" => grant[i] = "none"
      BY <1>4, <2>1 DEF IssuerRaises, RevokeRaises
    <2>3. \A i \in Ids : Known(i)' => Known(i) \/ i = cur[t]
      BY <1>4 DEF IssuerRaises
    <2>4. Unborn'
      BY <1>4, <2>1, <2>2, <2>3 DEF IssuerRaises, RevokeRaises
    <2>5. InHandFresh'
      BY <1>4, <2>1, <2>2, <2>3 DEF IssuerRaises, Threads
    <2>6. DownEmpty' /\ MainQuiet'
      BY <1>4 DEF IssuerRaises
    <2> QED
      BY <2>4, <2>5, <2>6
  <1>5. CASE Write(t)
    BY <1>5 DEF Write
  <1>6. CASE WriteFails(t)
    BY <1>6 DEF WriteFails, NoPlan
  <1> QED
    BY <1>1, <1>2, <1>3, <1>4, <1>5, <1>6 DEF RevokeStep

\* A checkout is new when it is issued, and its worker's own until it is registered.
LEMMA CheckoutStepFresh ==
    ASSUME TypeInv, Fresh, NEW w \in Workers,
           \/ Dismiss(w) \/ IssueReturns(w) \/ IssueRaises(w) \/ Add(w) \/ AddWriteFails(w)
           \/ Emit(w) \/ Answer(w)
    PROVE  Fresh'
  <1> USE DataAssumption, ThreadsAssumption
      DEF TypeInv, TypeOK, ContractTypeOK, AtWork, Fresh, Unborn, InHandFresh, DownEmpty,
          MainQuiet, Known, contractVars, memory, output, world, Places, Threads
  <1>1. CASE IssueReturns(w)
    <2>1. PICK id \in Ids :
             /\ grant[id] = "none"
             /\ grant' \in {[grant EXCEPT ![id] = "active"], [grant EXCEPT ![id] = "ended"]}
             /\ held' \in {held, held \cup {id}}
             /\ cur' = [cur EXCEPT ![w] = id]
      BY <1>1 DEF IssueReturns, Mint
    <2>2. \A i \in Ids : Known(i)' <=> Known(i)
      BY <1>1 DEF IssueReturns
    <2>3. Unborn'
      BY <1>1, <2>1, <2>2 DEF IssueReturns
    <2>4. InHandFresh'
      BY <1>1, <2>1, <2>2 DEF IssueReturns
    <2>5. DownEmpty' /\ MainQuiet'
      BY <1>1 DEF IssueReturns
    <2> QED
      BY <2>3, <2>4, <2>5
  <1>2. CASE IssueRaises(w)
    BY <1>2 DEF IssueRaises
  <1>3. ASSUME Register(w), pc' \in {[pc EXCEPT ![w] = "emit"], [pc EXCEPT ![w] = "idle"]},
               cur' \in {cur, [cur EXCEPT ![w] = NoId]}, file' \in {file, live'},
               UNCHANGED <<contractVars, pending, todo, done, plan, answered, phase>>
        PROVE  Fresh'
    <2>1. cur[w] \in Ids /\ grant[cur[w]] # "none"
      BY <1>3 DEF Register
    <2>2. \A i \in Ids : Known(i)' => Known(i) \/ i = cur[w]
      BY <1>3 DEF Register
    <2>3. file' \subseteq file \cup live \cup {cur[w]}
      BY <1>3 DEF Register
    <2>4. Unborn'
      BY <1>3, <2>1, <2>2, <2>3 DEF Register
    <2>5. InHandFresh'
      BY <1>3, <2>1, <2>2, <2>3 DEF Register
    <2>6. DownEmpty' /\ MainQuiet'
      BY <1>3 DEF Register
    <2> QED
      BY <2>4, <2>5, <2>6
  <1>4. CASE Add(w)
    BY <1>3, <1>4 DEF Add
  <1>5. CASE AddWriteFails(w)
    BY <1>3, <1>5 DEF AddWriteFails
  <1>6. CASE Emit(w)
    BY <1>6 DEF Emit
  <1>7. CASE Answer(w)
    BY <1>7 DEF Answer
  <1>8. CASE Dismiss(w)
    BY <1>8 DEF Dismiss
  <1> QED
    BY <1>1, <1>2, <1>4, <1>5, <1>6, <1>7, <1>8

\* A request picks its checkouts from those that are registered.
LEMMA ClientStepFresh ==
    ASSUME TypeInv, Fresh, NEW w \in Workers, ClientStep(w)
    PROVE  Fresh'
  <1> USE DataAssumption, ThreadsAssumption
      DEF TypeInv, TypeOK, ContractTypeOK, AtWork, Fresh, Unborn, InHandFresh, DownEmpty,
          MainQuiet, Known, contractVars, memory, output, world, Places, Threads
  <1>1. ASSUME NEW cap \in Caps, NEW caller \in Callers, NEW asked \in AskedTtls,
               CheckoutReuses(w, cap, caller, asked)
        PROVE  Fresh'
    BY <1>1 DEF CheckoutReuses, Reusable, MayAsk
  <1>2. ASSUME NEW cap \in Caps, NEW caller \in Callers, NEW asked \in AskedTtls,
               CheckoutIssues(w, cap, caller, asked)
        PROVE  Fresh'
    BY <1>2 DEF CheckoutIssues, MayAsk
  <1>3. ASSUME NEW id \in Ids \cup {Whatever}, NEW cap \in Caps \cup {Whatever},
               NEW caller \in Callers \cup {Whatever}, AskRevoke(w, id, cap, caller)
        PROVE  Fresh'
    <2>1. \A i \in Ids : Known(i)' => Known(i)
      BY <1>3 DEF AskRevoke, Selected
    <2> QED
      BY <1>3, <2>1 DEF AskRevoke, MayAsk
  <1> QED
    BY <1>1, <1>2, <1>3 DEF ClientStep

\* The end of the process forgets, and makes nothing known.
LEMMA VanishFresh ==
    ASSUME TypeInv, Fresh, Vanish
    PROVE  Fresh'
  BY DataAssumption
  DEF TypeInv, TypeOK, ContractTypeOK, Fresh, Unborn, InHandFresh, DownEmpty, MainQuiet, Known, Vanish,
      Forget, output, NoPlan, Threads

\* Every step keeps this part of the invariant.
LEMMA NextFresh == TypeInv /\ Fresh /\ [Next]_vars => Fresh'
  <1> SUFFICES ASSUME TypeInv, Fresh, [Next]_vars PROVE Fresh'
    OBVIOUS
  <1>1. ASSUME NEW w \in Workers, ClientStep(w) PROVE Fresh'
    BY <1>1, ClientStepFresh
  <1>2. ASSUME NEW w \in Workers, WorkerStep(w) PROVE Fresh'
    BY <1>2, CheckoutStepFresh, RevokeStepFresh DEF WorkerStep, Threads
  <1>3. CASE ReapScan
    BY <1>3 DEF ReapScan, Expired, SessionOver, TypeInv, TypeOK, Fresh, Unborn, InHandFresh,
                DownEmpty, MainQuiet, Known, contractVars, memory, output, world, Groups
  <1>4. ASSUME NEW g \in Groups, ReapGroup(g) PROVE Fresh'
    BY <1>4, ThreadsAssumption DEF ReapGroup, TypeInv, TypeOK, Fresh, Unborn, InHandFresh, DownEmpty, MainQuiet, Known,
                contractVars, memory, output, world, Places, Threads, NoPlan
  <1>5. ASSUME NEW t \in {Reaper, Main}, RevokeStep(t) PROVE Fresh'
    BY <1>5, RevokeStepFresh DEF Threads
  <1>6. CASE Start
    BY <1>6 DEF Start, TypeInv, TypeOK, Fresh, Unborn, InHandFresh, DownEmpty, MainQuiet, Known,
                contractVars, output, world, Places, Threads
  <1>7. CASE Serve
    BY <1>7 DEF Serve, TypeInv, TypeOK, Fresh, Unborn, InHandFresh, DownEmpty, MainQuiet, Known,
                contractVars, memory, control, output, world
  <1>13. CASE Stop
    BY <1>13, StopMoves
    DEF Fresh, Unborn, InHandFresh, DownEmpty, MainQuiet, Known, contractVars, memory, output,
        Threads
  <1>8. CASE Close
    BY <1>8 DEF Close, TypeInv, TypeOK, Fresh, Unborn, InHandFresh, DownEmpty, MainQuiet, Known,
                contractVars, memory, output, world, Places, Threads
  <1>9. CASE Exit \/ MainWriteFails \/ Crash
    BY <1>9, VanishFresh DEF Exit, MainWriteFails, Crash
  <1>10. CASE Tick
    BY <1>10 DEF Tick, Lapse, TypeInv, TypeOK, ContractTypeOK, Fresh, Unborn, InHandFresh,
                 DownEmpty, MainQuiet, Known, memory, control, output
  <1>11. ASSUME NEW caller \in AnchoredCallers, SessionEnds(caller) PROVE Fresh'
    BY <1>11 DEF SessionEnds, Fresh, Unborn, InHandFresh, DownEmpty, MainQuiet, Known, contractVars,
                 memory, control, output
  <1>12. CASE UNCHANGED vars
    BY <1>12 DEF vars, Fresh, Unborn, InHandFresh, DownEmpty, MainQuiet, Known, contractVars, memory,
                 control, output
  <1> QED
    BY <1>1, <1>2, <1>3, <1>4, <1>5, <1>6, <1>7, <1>8, <1>9, <1>10, <1>11, <1>12, <1>13
    DEF Next, ReaperStep, MainStep

-----------------------------------------------------------------------------
\* What the safety theorems say of one state.
Safe ==
    /\ pending \subseteq live
    /\ ValueOnlyWhileUsable
    /\ NothingStranded
    /\ HeldIsRegistered

\* At first nothing is registered.
LEMMA InitSafe == Init => Safe
  BY DEF Init, ContractInit, Safe, ValueOnlyWhileUsable, NothingStranded, HeldIsRegistered,
         Revoking

\* A thread that moves on in Registry.revoke disturbs only what is its own.
LEMMA RevokeStepSafe ==
    ASSUME TypeInv, Fresh, Safe, NEW t \in Threads, RevokeStep(t)
    PROVE  Safe'
  <1> USE DEF TypeInv, TypeOK, ContractTypeOK, AtWork, Safe, ValueOnlyWhileUsable,
              NothingStranded, HeldIsRegistered, Revoking, contractVars, memory, output,
              world, Places, AfterCall
  <1>1. CASE Mark(t)
    <2>1. Revoking(t)' = todo[t] \cap live
      BY <1>1 DEF Mark
    <2>2. \A u \in Threads \ {t} : Revoking(u)' = Revoking(u)
      BY <1>1 DEF Mark
    <2>3. Revoking(t) = {}
      BY <1>1 DEF Mark
    <2>4. ValueOnlyWhileUsable'
      BY <1>1, <2>1, <2>2 DEF Mark
    <2>5. NothingStranded'
      BY <1>1, <2>1, <2>2, <2>3 DEF Mark
    <2> QED
      BY <1>1, <2>4, <2>5 DEF Mark, Threads
  <1>2. CASE CallIssuer(t)
    <2>1. \A u \in Threads : Revoking(u)' = Revoking(u)
      BY <1>2 DEF CallIssuer
    <2>2. HeldIsRegistered'
      BY <1>2 DEF CallIssuer, Threads
    <2> QED
      BY <1>2, <2>1, <2>2 DEF CallIssuer
  <1>3. CASE IssuerReturns(t)
    <2>1. \A u \in Threads \ {t} : Revoking(u)' = Revoking(u)
      BY <1>3 DEF IssuerReturns
    <2>2. Revoking(t) = todo[t] \cup {cur[t]} /\ Revoking(t)' = todo[t]
      BY <1>3 DEF IssuerReturns
    <2>3. ValueOnlyWhileUsable'
      BY <1>3, <2>1, <2>2 DEF IssuerReturns
    <2>4. NothingStranded'
      BY <1>3, <2>1, <2>2 DEF IssuerReturns
    <2>5. HeldIsRegistered'
      BY <1>3 DEF IssuerReturns, RevokeReturns, Threads
    <2> QED
      BY <1>3, <2>3, <2>4, <2>5 DEF IssuerReturns
  <1>4. CASE IssuerRaises(t)
    <2>1. \A u \in Threads \ {t} : Revoking(u)' = Revoking(u)
      BY <1>4 DEF IssuerRaises
    <2>2. Revoking(t) = todo[t] \cup {cur[t]} /\ Revoking(t)' = todo[t]
      BY <1>4 DEF IssuerRaises
    <2>3. ValueOnlyWhileUsable'
      BY <1>4, <2>1, <2>2 DEF IssuerRaises
    <2>4. NothingStranded'
      BY <1>4, <2>1, <2>2 DEF IssuerRaises
    <2>5. HeldIsRegistered'
      BY <1>4 DEF IssuerRaises, RevokeRaises, Threads
    <2> QED
      BY <1>4, <2>3, <2>4, <2>5 DEF IssuerRaises
  <1>5. CASE Write(t) \/ WriteFails(t)
    <2>1. \A u \in Threads : Revoking(u)' = Revoking(u)
      BY <1>5 DEF Write, WriteFails
    <2>2. HeldIsRegistered'
      BY <1>5 DEF Write, WriteFails, Threads
    <2> QED
      BY <1>5, <2>1, <2>2 DEF Write, WriteFails
  <1> QED
    BY <1>1, <1>2, <1>3, <1>4, <1>5 DEF RevokeStep

\* A checkout enters the registry with its value, unknown to everybody else.
LEMMA CheckoutStepSafe ==
    ASSUME TypeInv, Fresh, Safe, NEW w \in Workers,
           \/ Dismiss(w) \/ IssueReturns(w) \/ IssueRaises(w) \/ Add(w) \/ AddWriteFails(w)
           \/ Emit(w) \/ Answer(w)
    PROVE  Safe'
  <1> USE DEF TypeInv, TypeOK, ContractTypeOK, AtWork, Safe, ValueOnlyWhileUsable,
              NothingStranded, HeldIsRegistered, Revoking, contractVars, memory, output,
              world, Places, Threads
  <1>1. CASE IssueReturns(w)
    <2>1. \A u \in Threads : Revoking(u)' = Revoking(u)
      BY <1>1 DEF IssueReturns
    <2>2. HeldIsRegistered'
      BY <1>1 DEF IssueReturns, Mint
    <2> QED
      BY <1>1, <2>1, <2>2 DEF IssueReturns
  <1>2. ASSUME Register(w), pc' \in {[pc EXCEPT ![w] = "emit"], [pc EXCEPT ![w] = "idle"]},
               cur' \in {cur, [cur EXCEPT ![w] = NoId]},
               UNCHANGED <<contractVars, pending, todo>>
        PROVE  Safe'
    <2>1. cur[w] \in Ids /\ cur[w] \notin pending /\ \A u \in Threads : cur[w] \notin Revoking(u)
      BY <1>2, ThreadsAssumption DEF Register, Fresh, InHandFresh, Known
    <2>2. \A u \in Threads : Revoking(u)' = Revoking(u)
      BY <1>2 DEF Register
    <2>3. HeldIsRegistered'
      BY <1>2 DEF Register
    <2>4. ValueOnlyWhileUsable'
      BY <1>2, <2>1, <2>2 DEF Register
    <2>5. NothingStranded'
      BY <1>2, <2>2 DEF Register
    <2> QED
      BY <1>2, <2>3, <2>4, <2>5 DEF Register
  <1>3. CASE Add(w)
    BY <1>2, <1>3 DEF Add
  <1>4. CASE AddWriteFails(w)
    BY <1>2, <1>4 DEF AddWriteFails
  <1>5. CASE Dismiss(w) \/ IssueRaises(w) \/ Emit(w) \/ Answer(w)
    <2>1. \A u \in Threads : Revoking(u)' = Revoking(u)
      BY <1>5 DEF Dismiss, IssueRaises, Emit, Answer
    <2>2. HeldIsRegistered'
      BY <1>5 DEF Dismiss, IssueRaises, Emit, Answer
    <2> QED
      BY <1>5, <2>1, <2>2 DEF Dismiss, IssueRaises, Emit, Answer
  <1> QED
    BY <1>1, <1>3, <1>4, <1>5

\* A request alone changes nothing of this.
LEMMA ClientStepSafe ==
    ASSUME TypeInv, Safe, NEW w \in Workers, ClientStep(w)
    PROVE  Safe'
  <1>1. /\ UNCHANGED <<live, value, pending, held>>
        /\ \A u \in Threads : Revoking(u)' = Revoking(u)
        /\ \A v \in Workers : pc[v] = "adding" => pc'[v] = "adding" /\ cur'[v] = cur[v]
    BY DEF ClientStep, CheckoutReuses, CheckoutIssues, AskRevoke, MayAsk, Revoking, TypeInv,
           TypeOK, contractVars, memory, Places, Threads
  <1> QED
    BY <1>1 DEF Safe, ValueOnlyWhileUsable, NothingStranded, HeldIsRegistered

\* Every step keeps the safety invariants.
LEMMA NextSafe == TypeInv /\ Fresh /\ Safe /\ [Next]_vars => Safe'
  <1> SUFFICES ASSUME TypeInv, Fresh, Safe, [Next]_vars PROVE Safe'
    OBVIOUS
  <1>1. ASSUME NEW w \in Workers, ClientStep(w) PROVE Safe'
    BY <1>1, ClientStepSafe
  <1>2. ASSUME NEW w \in Workers, WorkerStep(w) PROVE Safe'
    BY <1>2, CheckoutStepSafe, RevokeStepSafe DEF WorkerStep, Threads
  <1>3. ASSUME NEW t \in {Reaper, Main}, RevokeStep(t) PROVE Safe'
    BY <1>3, RevokeStepSafe DEF Threads
  <1>4. ASSUME NEW g \in Groups, ReapGroup(g) PROVE Safe'
    <2>1. \A u \in Threads : Revoking(u)' = Revoking(u)
      BY <1>4 DEF ReapGroup, Revoking, TypeInv, TypeOK, Places, Threads
    <2> QED
      BY <1>4, <2>1, ThreadsAssumption
      DEF ReapGroup, Safe, ValueOnlyWhileUsable, NothingStranded, HeldIsRegistered, TypeInv,
          TypeOK, contractVars, memory, Threads
  <1>5. CASE Start
    <2>1. \A u \in Threads : Revoking(u)' = {}
      BY <1>5 DEF Start, Revoking, TypeInv, TypeOK, Places, Threads, Fresh, DownEmpty
    <2> QED
      BY <1>5, <2>1
      DEF Start, Safe, ValueOnlyWhileUsable, NothingStranded, HeldIsRegistered, Fresh,
          DownEmpty, contractVars
  <1>6. CASE Close
    <2>1. \A u \in Threads : Revoking(u)' = Revoking(u)
      BY <1>6 DEF Close, Revoking, TypeInv, TypeOK, Places, Threads, Fresh, MainQuiet
    <2> QED
      BY <1>6, <2>1, ThreadsAssumption
      DEF Close, Safe, ValueOnlyWhileUsable, NothingStranded, HeldIsRegistered, TypeInv,
          TypeOK, contractVars, memory, Threads
  <1>7. CASE Exit \/ MainWriteFails \/ Crash
    BY <1>7 DEF Exit, MainWriteFails, Crash, Vanish, Forget, Safe, ValueOnlyWhileUsable,
                NothingStranded, HeldIsRegistered
  <1>10. CASE Stop
    <2>1. \A u \in Threads : Revoking(u)' = Revoking(u)
      BY <1>10, StopMoves DEF Revoking
    <2> QED
      BY <1>10, <2>1, StopMoves
      DEF Safe, ValueOnlyWhileUsable, NothingStranded, HeldIsRegistered, contractVars, memory,
          Threads
  <1>8. CASE ReapScan \/ Serve \/ Tick \/ UNCHANGED vars
    BY <1>8 DEF ReapScan, Serve, Tick, Lapse, Safe, ValueOnlyWhileUsable, NothingStranded,
                HeldIsRegistered, Revoking, vars, contractVars, memory, control
  <1>9. ASSUME NEW caller \in AnchoredCallers, SessionEnds(caller) PROVE Safe'
    BY <1>9 DEF SessionEnds, Safe, ValueOnlyWhileUsable, NothingStranded, HeldIsRegistered,
                Revoking, contractVars, memory, control
  <1> QED
    BY <1>1, <1>2, <1>3, <1>4, <1>5, <1>6, <1>7, <1>8, <1>9, <1>10
    DEF Next, ReaperStep, MainStep

\* The inductive invariant holds throughout.
LEMMA Inductive == Spec => [](TypeInv /\ Fresh /\ Safe)
  <1>1. Init => TypeInv /\ Fresh /\ Safe
    BY InitType, InitFresh, InitSafe
  <1>2. TypeInv /\ Fresh /\ Safe /\ [Next]_vars => (TypeInv /\ Fresh /\ Safe)'
    BY NextType, NextFresh, NextSafe
  <1> QED
    BY <1>1, <1>2, PTL DEF Spec

\* "A value is dropped from memory the moment its revocation starts": no value is
\* in memory whose checkout is gone, pending or being revoked by any thread, so
\* find_reusable cannot lend one.
THEOREM ValuesDropped == Spec => []ValueOnlyWhileUsable
  BY Inductive, PTL DEF Safe

\* No checkout is left half revoked: one without a value is pending or in the hands
\* of a thread that revokes it, whichever issuer calls and disk writes failed.
THEOREM NoneStranded == Spec => []NothingStranded
  BY Inductive, PTL DEF Safe

\* No child token is lost while the process lives: each belongs to a registered
\* checkout or to one that a worker is about to register.
THEOREM TokensRegistered == Spec => []HeldIsRegistered
  BY Inductive, PTL DEF Safe

-----------------------------------------------------------------------------
(* Properties of a step.                                                    *)

\* Only the registration of a checkout that a worker has in hand adds a value.
LEMMA ValueSource ==
    ASSUME TypeInv, Fresh, [Next]_vars, NEW id \in Ids, id \notin value, id \in value'
    PROVE  InHand(id)
  <1> USE DEF contractVars, memory, control, output, world
  <1>1. ASSUME NEW t \in Threads, RevokeStep(t) PROVE FALSE
    BY <1>1 DEF RevokeStep, Mark, CallIssuer, IssuerReturns, IssuerRaises, Write, WriteFails
  <1>2. ASSUME NEW w \in Workers, ClientStep(w) PROVE FALSE
    BY <1>2 DEF ClientStep, CheckoutReuses, CheckoutIssues, AskRevoke
  <1>3. ASSUME NEW w \in Workers, WorkerStep(w) PROVE InHand(id)
    <2>1. CASE Register(w)
      BY <2>1 DEF Register, InHand
    <2> QED
      BY <1>1, <1>3, <2>1
      DEF WorkerStep, Dismiss, IssueReturns, IssueRaises, Add, AddWriteFails, Emit, Answer,
          Threads
  <1>4. ASSUME Start \/ Stop \/ Crash \/ Tick \/ MainStep \/ ReaperStep \/ UNCHANGED vars
               \/ \E caller \in AnchoredCallers : SessionEnds(caller)
        PROVE FALSE
    BY <1>1, <1>4
    DEF Start, Stop, Crash, Tick, MainStep, Serve, Close, Exit, MainWriteFails, Vanish,
        ReaperStep, ReapScan, ReapGroup, SessionEnds, Threads, vars
  <1> QED
    BY <1>2, <1>3, <1>4 DEF Next

\* No thread, restart or late reply makes a checkout usable that once lost its
\* value: recovery registers without values and a failed revocation keeps none.
THEOREM NeverRevived == Spec => NoRevival
  <1>1. TypeInv /\ Fresh /\ [Next]_vars =>
          [\A id \in Ids : (grant[id] # "none" /\ id \notin value /\ ~InHand(id))
                              => id \notin value']_vars
    BY ValueSource
  <1> QED
    BY <1>1, Inductive, PTL DEF Spec, NoRevival

\* Only CheckoutReuses lends, so what a request is lent is of its own capability,
\* session and harness and has not expired, whatever ttl it asks for.
THEOREM LoansFit == Spec => LentFitsRequest
  <1> USE DEF TypeInv, TypeOK, contractVars, memory, control, output, world, Places, Threads
  <1>1. ASSUME TypeInv, Next, NEW w \in Workers, pc[w] \in {"idle", "reading"}, pc'[w] = "answer"
        PROVE  /\ co[cur'[w]].cap = ask'[w].cap
               /\ co[cur'[w]].caller = ask'[w].caller
               /\ co[cur'[w]].expires > now
    <2>1. \E v \in Workers, cap \in Caps, caller \in Callers, asked \in AskedTtls :
             CheckoutReuses(v, cap, caller, asked)
      BY <1>1
      DEF Next, ClientStep, CheckoutIssues, AskRevoke, WorkerStep, Dismiss, IssueReturns, IssueRaises,
          Add, AddWriteFails, Register, Emit, Answer, RevokeStep, Mark, CallIssuer, IssuerReturns,
          IssuerRaises, AfterCall, Write, WriteFails, ReaperStep, ReapScan, ReapGroup, Start,
          MainStep, Serve, Close, Exit, MainWriteFails, Crash, Vanish, Stop, Tick, SessionEnds
    <2>2. PICK v \in Workers, cap \in Caps, caller \in Callers, asked \in AskedTtls :
             CheckoutReuses(v, cap, caller, asked)
      BY <2>1
    <2>3. v = w
      BY <1>1, <2>2 DEF CheckoutReuses
    <2>4. PICK id \in Reusable(cap, caller, Honoured(cap, asked)) :
             cur' = [cur EXCEPT ![w] = id]
      BY <2>2, <2>3 DEF CheckoutReuses
    <2>5. /\ cur'[w] = id /\ id \in Ids
          /\ ask'[w] = [cap |-> cap, caller |-> caller, ttl |-> Honoured(cap, asked)]
      BY <1>1, <2>2, <2>3, <2>4 DEF CheckoutReuses, Reusable
    <2>6. co[id].cap = cap /\ co[id].caller = caller
      BY <2>4 DEF Reusable
    <2>7. co[id].expires \in Nat /\ now \in Nat
      BY <1>1, <2>5, BoundsAssumption DEF Checkouts, Blank
    <2>8. 4 * (co[id].expires - now) > 0
      BY <2>4, <2>7, HonouredType, DataAssumption DEF Reusable, Least
    <2> QED
      BY <2>5, <2>6, <2>7, <2>8
  <1>2. TypeInv /\ [Next]_vars =>
          [\A w \in Workers : (pc[w] \in {"idle", "reading"} /\ pc'[w] = "answer") =>
              /\ co[cur'[w]].cap = ask'[w].cap
              /\ co[cur'[w]].caller = ask'[w].caller
              /\ co[cur'[w]].expires > now]_vars
    BY <1>1
  <1> QED
    BY <1>2, Inductive, PTL DEF Spec, LentFitsRequest

-----------------------------------------------------------------------------
(* What a client was told.                                                  *)

\* This process can end the grant, or it has ended; or nobody ever can.
Settled(id) == co[id].cap \in RevocableCaps => id \in held \/ grant[id] = "ended"

\* After the recovery, what is registered can be settled, and so can what a worker
\* has in hand or is revoking: a child token of an earlier process is not.
WorkSettled ==
    /\ phase \notin {"down", "starting"} => \A id \in live : Settled(id)
    /\ \A w \in Workers : /\ \A id \in todo[w] : Settled(id)
                          /\ pc[w] \in {"adding", "calling", "settling"} => Settled(cur[w])

\* What a thread has revoked has left the registry; if a worker will answer for
\* it, its grant has ended.
DoneGone ==
    /\ \A t \in Threads : done[t] \cap live = {}
    /\ \A w \in Workers : \A id \in done[w] : co[id].cap \in RevocableCaps => grant[id] = "ended"

\* The main thread recovers alone and holds no token, so that no revocation fails
\* and nothing that it recovered stays registered.
RecoveryComplete ==
    /\ phase = "starting" =>
          /\ \A t \in Threads \ {Main} : pc[t] = "idle" /\ todo[t] = {} /\ done[t] = {}
          /\ plan = NoPlan /\ held = {}
          /\ pc[Main] # "calling"
          /\ live \subseteq IF pc[Main] = "mark" THEN todo[Main] ELSE Revoking(Main)

Told == RevokedMeansEnded /\ WorkSettled /\ DoneGone /\ RecoveryComplete

\* At first nobody was told anything.
LEMMA InitTold == Init => Told
  BY DEF Init, ContractInit, Told, RevokedMeansEnded, WorkSettled, DoneGone, RecoveryComplete,
         Threads

\* A revocation settles what it touches, and unsettles nothing.
LEMMA RevokeStepTold ==
    ASSUME TypeInv, Fresh, Told, NEW t \in Threads, RevokeStep(t)
    PROVE  Told'
  <1> USE ThreadsAssumption
      DEF TypeInv, TypeOK, ContractTypeOK, AtWork, Told, RevokedMeansEnded, WorkSettled, DoneGone,
          RecoveryComplete, Revoking, contractVars, memory, output, world, Places, AfterCall,
          Threads
  <1>1. CASE Mark(t)
    <2>1. \A i \in Ids : Settled(i)' <=> Settled(i)
      BY <1>1 DEF Mark, Settled
    <2>2. RevokedMeansEnded' /\ DoneGone'
      BY <1>1 DEF Mark
    <2>3. WorkSettled'
      BY <1>1, <2>1 DEF Mark
    <2>4. RecoveryComplete'
      BY <1>1 DEF Mark
    <2> QED
      BY <2>2, <2>3, <2>4
  <1>2. CASE CallIssuer(t)
    <2>1. \A i \in Ids : Settled(i)' <=> Settled(i)
      BY <1>2 DEF CallIssuer, Settled
    <2>2. RevokedMeansEnded' /\ DoneGone'
      BY <1>2 DEF CallIssuer
    <2>3. WorkSettled'
      BY <1>2, <2>1 DEF CallIssuer
    <2>4. RecoveryComplete'
      BY <1>2 DEF CallIssuer
    <2> QED
      BY <2>2, <2>3, <2>4
  <1>3. CASE IssuerReturns(t)
    <2>1. \A i \in Ids : Settled(i) => Settled(i)'
      BY <1>3 DEF IssuerReturns, RevokeReturns, Settled
    <2>2. \A i \in Ids : grant[i] = "ended" => grant'[i] = "ended"
      BY <1>3 DEF IssuerReturns, RevokeReturns
    <2>3. RevokedMeansEnded'
      BY <1>3, <2>2 DEF IssuerReturns
    <2>4. WorkSettled'
      BY <1>3, <2>1 DEF IssuerReturns
    <2>5. \A w \in Workers : \A id \in done'[w] :
             co[id].cap \in RevocableCaps => grant'[id] = "ended"
      BY <1>3, <2>2 DEF IssuerReturns, RevokeReturns, Settled
    <2>6. DoneGone'
      BY <1>3, <2>5 DEF IssuerReturns
    <2>7. RecoveryComplete'
      BY <1>3 DEF IssuerReturns, RevokeReturns
    <2> QED
      BY <2>3, <2>4, <2>6, <2>7
  <1>4. CASE IssuerRaises(t)
    <2>1. \A i \in Ids : Settled(i) => Settled(i)'
      BY <1>4 DEF IssuerRaises, RevokeRaises, Settled
    <2>2. \A i \in Ids : grant[i] = "ended" => grant'[i] = "ended"
      BY <1>4 DEF IssuerRaises, RevokeRaises
    <2>3. RevokedMeansEnded' /\ DoneGone'
      BY <1>4, <2>2 DEF IssuerRaises
    <2>4. WorkSettled'
      BY <1>4, <2>1 DEF IssuerRaises
    <2>5. RecoveryComplete'
      BY <1>4 DEF IssuerRaises, RevokeRaises
    <2> QED
      BY <2>3, <2>4, <2>5
  <1>5. CASE Write(t) \/ WriteFails(t)
    <2>1. \A i \in Ids : Settled(i)' <=> Settled(i)
      BY <1>5 DEF Write, WriteFails, Settled
    <2>2. RevokedMeansEnded'
      BY <1>5 DEF Write, WriteFails
    <2>3. WorkSettled'
      BY <1>5, <2>1 DEF Write, WriteFails
    <2>4. DoneGone'
      BY <1>5 DEF Write, WriteFails
    <2>5. RecoveryComplete'
      BY <1>5 DEF Write, WriteFails
    <2> QED
      BY <2>2, <2>3, <2>4, <2>5
  <1> QED
    BY <1>1, <1>2, <1>3, <1>4, <1>5 DEF RevokeStep

\* A checkout comes with its token, into the hands of one worker.
LEMMA CheckoutStepTold ==
    ASSUME TypeInv, Fresh, Told, NEW w \in Workers,
           \/ Dismiss(w) \/ IssueReturns(w) \/ IssueRaises(w) \/ Add(w) \/ AddWriteFails(w)
           \/ Emit(w) \/ Answer(w)
    PROVE  Told'
  <1> USE ThreadsAssumption
      DEF TypeInv, TypeOK, ContractTypeOK, AtWork, Told, RevokedMeansEnded, WorkSettled, DoneGone,
          RecoveryComplete, Revoking, contractVars, memory, output, world, Places, Threads
  <1>1. CASE IssueReturns(w)
    <2>1. PICK id \in Ids, granted \in 1..ask[w].ttl, issued \in 1..ask[w].ttl :
             /\ Mint(id, ask[w].cap \in RevocableCaps)
             /\ co' = [co EXCEPT ![id] = [cap |-> ask[w].cap, caller |-> ask[w].caller,
                                          expires |-> now + issued, lapses |-> now + granted]]
             /\ cur' = [cur EXCEPT ![w] = id]
      BY <1>1 DEF IssueReturns
    <2>2. grant[id] = "none" /\ id \notin held
      BY <2>1 DEF Mint, Fresh, Unborn
    <2>3. \A i \in Ids \ {id} : co'[i] = co[i] /\ grant'[i] = grant[i] /\ (i \in held' <=> i \in held)
      BY <2>1 DEF Mint
    <2>4. ~Known(id) /\ \A t \in Threads : cur[t] # id
      BY <2>2 DEF Fresh, Unborn
    <2>5. co'[id].cap = ask[w].cap
      BY <2>1
    <2>6. Settled(id)'
      BY <2>1, <2>5 DEF Settled, Mint
    <2>7. \A i \in Ids \ {id} : Settled(i) => Settled(i)'
      BY <2>3 DEF Settled
    <2>8. RevokedMeansEnded' /\ DoneGone'
      BY <1>1, <2>3, <2>4 DEF IssueReturns, Known
    <2>9. \A i \in live \cup UNION {todo[v] : v \in Workers} : i # id
      BY <2>4 DEF Known
    <2>10. WorkSettled'
      BY <1>1, <2>1, <2>4, <2>6, <2>7, <2>9 DEF IssueReturns
    <2>11. RecoveryComplete'
      BY <1>1 DEF IssueReturns
    <2> QED
      BY <2>8, <2>10, <2>11
  <1>2. ASSUME Register(w), pc' \in {[pc EXCEPT ![w] = "emit"], [pc EXCEPT ![w] = "idle"]},
               cur' \in {cur, [cur EXCEPT ![w] = NoId]}, file' \in {file, live'},
               UNCHANGED <<contractVars, pending, todo, done, plan, answered, phase, co>>
        PROVE  Told'
    <2>1. ~Known(cur[w]) /\ cur[w] \in Ids /\ Settled(cur[w])
      BY <1>2 DEF Register, Fresh, InHandFresh
    <2>2. \A i \in Ids : Settled(i)' <=> Settled(i)
      BY <1>2 DEF Settled
    <2>3. RevokedMeansEnded' /\ DoneGone'
      BY <1>2, <2>1 DEF Register, Known
    <2>4. WorkSettled'
      BY <1>2, <2>1, <2>2 DEF Register
    <2>5. RecoveryComplete'
      BY <1>2 DEF Register
    <2> QED
      BY <2>3, <2>4, <2>5
  <1>3. CASE Add(w)
    BY <1>2, <1>3 DEF Add
  <1>4. CASE AddWriteFails(w)
    BY <1>2, <1>4 DEF AddWriteFails
  <1>5. CASE Dismiss(w) \/ IssueRaises(w) \/ Emit(w) \/ Answer(w)
    <2>1. \A i \in Ids : Settled(i)' <=> Settled(i)
      BY <1>5 DEF Dismiss, IssueRaises, Emit, Answer, Settled
    <2>2. RevokedMeansEnded' /\ DoneGone'
      BY <1>5 DEF Dismiss, IssueRaises, Emit, Answer
    <2>3. WorkSettled'
      BY <1>5, <2>1 DEF Dismiss, IssueRaises, Emit, Answer
    <2>4. RecoveryComplete'
      BY <1>5 DEF Dismiss, IssueRaises, Emit, Answer
    <2> QED
      BY <2>2, <2>3, <2>4
  <1> QED
    BY <1>1, <1>3, <1>4, <1>5

\* Clients are served only after the recovery: what they select can be settled.
LEMMA ClientStepTold ==
    ASSUME TypeInv, Fresh, Told, NEW w \in Workers, ClientStep(w)
    PROVE  Told'
  <1>1. phase \notin {"down", "starting"}
    <2>1. pc[w] = "reading" \/ phase = "serving"
      BY DEF ClientStep, CheckoutReuses, CheckoutIssues, AskRevoke, MayAsk
    <2> QED
      BY <2>1, ThreadsAssumption
      DEF Fresh, DownEmpty, Told, RecoveryComplete, Threads
  <1>2. \A i \in Ids : Settled(i)' <=> Settled(i)
    BY DEF ClientStep, CheckoutReuses, CheckoutIssues, AskRevoke, Settled, contractVars
  <1>3. /\ UNCHANGED <<live, answered, file, grant, done, co, phase>>
        /\ \A v \in Workers : /\ todo'[v] \subseteq todo[v] \cup live
                              /\ pc'[v] \in {"adding", "calling", "settling"} =>
                                    pc'[v] = pc[v] /\ cur'[v] = cur[v]
    BY DEF ClientStep, CheckoutReuses, CheckoutIssues, AskRevoke, Selected, MayAsk, TypeInv,
           TypeOK, contractVars, memory, output, Places, Threads
  <1>4. WorkSettled'
    BY <1>1, <1>2, <1>3 DEF Told, WorkSettled, TypeInv, TypeOK, AtWork, Threads
  <1> QED
    BY <1>1, <1>3, <1>4 DEF Told, RevokedMeansEnded, DoneGone, RecoveryComplete

\* Every step keeps what clients were told true.
LEMMA NextTold == TypeInv /\ Fresh /\ Told /\ [Next]_vars => Told'
  <1> SUFFICES ASSUME TypeInv, Fresh, Told, [Next]_vars PROVE Told'
    OBVIOUS
  <1> USE ThreadsAssumption
      DEF TypeInv, TypeOK, ContractTypeOK, AtWork, Told, RevokedMeansEnded, WorkSettled, DoneGone,
          RecoveryComplete, Revoking, contractVars, memory, output, world, Places, Threads
  <1>1. ASSUME NEW w \in Workers, ClientStep(w) PROVE Told'
    BY <1>1, ClientStepTold
  <1>2. ASSUME NEW w \in Workers, WorkerStep(w) PROVE Told'
    BY <1>2, CheckoutStepTold, RevokeStepTold DEF WorkerStep
  <1>3. ASSUME NEW t \in {Reaper, Main}, RevokeStep(t) PROVE Told'
    BY <1>3, RevokeStepTold
  <1>4. ASSUME NEW g \in Groups, ReapGroup(g) PROVE Told'
    <2>1. \A i \in Ids : Settled(i)' <=> Settled(i)
      BY <1>4 DEF ReapGroup, Settled
    <2>2. phase # "starting"
      BY <1>4 DEF ReapGroup, NoPlan
    <2> QED
      BY <1>4, <2>1, <2>2 DEF ReapGroup
  <1>5. CASE Start
    <2>1. \A i \in Ids : Settled(i)' <=> Settled(i)
      BY <1>5 DEF Start, Settled
    <2>2. RevokedMeansEnded' /\ DoneGone'
      BY <1>5 DEF Start, Fresh, DownEmpty
    <2>3. WorkSettled'
      BY <1>5, <2>1 DEF Start
    <2>4. RecoveryComplete'
      BY <1>5 DEF Start, Fresh, DownEmpty
    <2> QED
      BY <2>2, <2>3, <2>4
  <1>6. CASE Serve
    <2>1. live = {}
      BY <1>6 DEF Serve
    <2>2. \A i \in Ids : Settled(i)' <=> Settled(i)
      BY <1>6 DEF Serve, Settled
    <2> QED
      BY <1>6, <2>1, <2>2 DEF Serve, control
  <1>7. CASE Close
    <2>1. \A i \in Ids : Settled(i)' <=> Settled(i)
      BY <1>7 DEF Close, Settled
    <2> QED
      BY <1>7, <2>1 DEF Close
  <1>8. CASE Exit \/ MainWriteFails \/ Crash
    <2>1. Vanish
      BY <1>8 DEF Exit, MainWriteFails, Crash
    <2> QED
      BY <2>1 DEF Vanish, Forget
  <1>9. CASE Tick
    <2>1. \A i \in Ids : Settled(i) => Settled(i)'
      BY <1>9 DEF Tick, Lapse, Settled
    <2>2. \A i \in Ids : grant[i] = "ended" => grant'[i] = "ended"
      BY <1>9 DEF Tick, Lapse
    <2>3. UNCHANGED <<memory, control, output, phase, co, file, held>>
      BY <1>9 DEF Tick, Lapse
    <2>4. RevokedMeansEnded' /\ DoneGone'
      BY <2>2, <2>3 DEF control
    <2>5. WorkSettled' /\ RecoveryComplete'
      BY <2>1, <2>3 DEF control
    <2> QED
      BY <2>4, <2>5
  <1>11. CASE Stop
    <2>1. \A i \in Ids : Settled(i)' <=> Settled(i)
      BY <1>11, StopMoves DEF Settled
    <2>2. \A v \in Workers : pc'[v] \in {"adding", "calling", "settling"} => pc'[v] = pc[v]
      BY <1>11, StopMoves
    <2>3. RevokedMeansEnded' /\ DoneGone' /\ WorkSettled'
      BY <1>11, <2>1, <2>2, StopMoves
    <2>4. RecoveryComplete'
      BY <1>11, StopMoves
    <2> QED
      BY <2>3, <2>4
  <1>10. ASSUME \/ ReapScan \/ UNCHANGED vars
                \/ \E caller \in AnchoredCallers : SessionEnds(caller)
         PROVE  Told'
    <2>1. \A i \in Ids : Settled(i)' <=> Settled(i)
      BY <1>10 DEF ReapScan, SessionEnds, Settled, vars
    <2>2. \/ plan' = plan \/ phase = "serving"
      BY <1>10 DEF ReapScan, SessionEnds, vars, control
    <2>3. UNCHANGED <<live, answered, file, grant, held, done, co, todo, pc, cur, phase>>
      BY <1>10 DEF ReapScan, SessionEnds, vars, control
    <2>4. RevokedMeansEnded' /\ DoneGone' /\ WorkSettled'
      BY <2>1, <2>3
    <2>5. RecoveryComplete'
      BY <2>2, <2>3
    <2> QED
      BY <2>4, <2>5
  <1> QED
    BY <1>1, <1>2, <1>3, <1>4, <1>5, <1>6, <1>7, <1>8, <1>9, <1>10, <1>11
    DEF Next, ReaperStep, MainStep

\* A client that was told of a revocation can rely on it: the grant has ended and
\* no later start of the broker knows the checkout, whatever failed on the way.
THEOREM RevokedForGood == Spec => []RevokedMeansEnded
  <1>1. Spec => []Told
    <2>1. TypeInv /\ Fresh /\ Safe /\ Told /\ [Next]_vars => Told'
      BY NextTold
    <2> QED
      BY <2>1, InitTold, Inductive, PTL DEF Spec
  <1> QED
    BY <1>1, PTL DEF Told

-----------------------------------------------------------------------------
(* Memory, disk and output, while the disk takes every write. *)

\* A checkout that carries a value has its event, or a worker about to emit it.
ValueOnRecord ==
    \A id \in value : id \in evented \/ \E v \in Workers : pc[v] = "emit" /\ cur[v] = id

Recorded == DiskCoversMemory /\ ValueOnRecord /\ LentOnRecord

\* At first memory and disk are empty.
LEMMA InitRecorded == Init => Recorded
  BY DEF Init, Recorded, DiskCoversMemory, ValueOnRecord, LentOnRecord, Threads

\* Memory and disk part only between a revocation and the write that follows.
LEMMA RevokeStepRecorded ==
    ASSUME MaxDiskFaults = 0, TypeInv, Safe, Recorded, NEW t \in Threads, RevokeStep(t)
    PROVE  Recorded'
  <1> USE DEF TypeInv, TypeOK, ContractTypeOK, AtWork, Recorded, DiskCoversMemory, ValueOnRecord,
              LentOnRecord, contractVars, memory, output, world, Places, AfterCall, Threads
  <1>1. CASE Mark(t)
    BY <1>1 DEF Mark
  <1>2. CASE CallIssuer(t)
    <2>1. \A v \in Workers : /\ pc[v] = "emit" => pc'[v] = "emit" /\ cur'[v] = cur[v]
                             /\ pc'[v] = "answer" => pc[v] = "answer" /\ cur'[v] = cur[v]
      BY <1>2 DEF CallIssuer
    <2> QED
      BY <1>2, <2>1 DEF CallIssuer
  <1>3. CASE IssuerReturns(t)
    <2>1. \A v \in Workers : /\ pc[v] = "emit" => pc'[v] = "emit" /\ cur'[v] = cur[v]
                             /\ pc'[v] = "answer" => pc[v] = "answer" /\ cur'[v] = cur[v]
      BY <1>3 DEF IssuerReturns
    <2>2. DiskCoversMemory'
      BY <1>3 DEF IssuerReturns
    <2> QED
      BY <1>3, <2>1, <2>2 DEF IssuerReturns
  <1>4. CASE IssuerRaises(t)
    <2>1. \A v \in Workers : /\ pc[v] = "emit" => pc'[v] = "emit" /\ cur'[v] = cur[v]
                             /\ pc'[v] = "answer" => pc[v] = "answer" /\ cur'[v] = cur[v]
      BY <1>4 DEF IssuerRaises
    <2> QED
      BY <1>4, <2>1 DEF IssuerRaises
  <1>5. CASE Write(t)
    BY <1>5 DEF Write
  <1>6. CASE WriteFails(t)
    BY <1>6 DEF WriteFails
  <1> QED
    BY <1>1, <1>2, <1>3, <1>4, <1>5, <1>6 DEF RevokeStep

\* A registration goes to disk with it, and its event follows at once.
LEMMA CheckoutStepRecorded ==
    ASSUME MaxDiskFaults = 0, TypeInv, Safe, Recorded, NEW w \in Workers,
           \/ Dismiss(w) \/ IssueReturns(w) \/ IssueRaises(w) \/ Add(w) \/ AddWriteFails(w)
           \/ Emit(w) \/ Answer(w)
    PROVE  Recorded'
  <1> USE DEF TypeInv, TypeOK, ContractTypeOK, AtWork, Recorded, DiskCoversMemory, ValueOnRecord,
              LentOnRecord, contractVars, memory, output, world, Places, Threads
  <1>1. CASE IssueReturns(w)
    BY <1>1 DEF IssueReturns
  <1>2. CASE IssueRaises(w)
    BY <1>2 DEF IssueRaises
  <1>3. CASE Add(w)
    BY <1>3 DEF Add, Register
  <1>4. CASE AddWriteFails(w)
    BY <1>4 DEF AddWriteFails
  <1>5. CASE Emit(w)
    BY <1>5 DEF Emit
  <1>6. CASE Answer(w)
    BY <1>6 DEF Answer
  <1>7. CASE Dismiss(w)
    BY <1>7 DEF Dismiss
  <1> QED
    BY <1>1, <1>2, <1>3, <1>4, <1>5, <1>6, <1>7

\* A request changes neither, and is lent what carries a value.
LEMMA ClientStepRecorded ==
    ASSUME TypeInv, Recorded, NEW w \in Workers, ClientStep(w)
    PROVE  Recorded'
  <1> USE DEF TypeInv, TypeOK, Recorded, DiskCoversMemory, ValueOnRecord, LentOnRecord,
              contractVars, memory, output, world, Places, Threads, MayAsk
  <1>1. ASSUME NEW cap \in Caps, NEW caller \in Callers, NEW asked \in AskedTtls,
               CheckoutReuses(w, cap, caller, asked)
        PROVE  Recorded'
    BY <1>1 DEF CheckoutReuses, Reusable
  <1>2. ASSUME NEW cap \in Caps, NEW caller \in Callers, NEW asked \in AskedTtls,
               CheckoutIssues(w, cap, caller, asked)
        PROVE  Recorded'
    BY <1>2 DEF CheckoutIssues
  <1>3. ASSUME NEW id \in Ids \cup {Whatever}, NEW cap \in Caps \cup {Whatever},
               NEW caller \in Callers \cup {Whatever}, AskRevoke(w, id, cap, caller)
        PROVE  Recorded'
    BY <1>3 DEF AskRevoke
  <1> QED
    BY <1>1, <1>2, <1>3 DEF ClientStep

\* Without disk faults, every step keeps memory, disk and events together.
LEMMA NextRecorded ==
    ASSUME MaxDiskFaults = 0
    PROVE  TypeInv /\ Fresh /\ Safe /\ Recorded /\ [Next]_vars => Recorded'
  <1> SUFFICES ASSUME TypeInv, Fresh, Safe, Recorded, [Next]_vars PROVE Recorded'
    OBVIOUS
  <1> USE ThreadsAssumption
      DEF TypeInv, TypeOK, ContractTypeOK, Recorded, DiskCoversMemory, ValueOnRecord,
          LentOnRecord, contractVars, memory, control, output, world, Places, Threads
  <1>1. ASSUME NEW w \in Workers, ClientStep(w) PROVE Recorded'
    BY <1>1, ClientStepRecorded
  <1>2. ASSUME NEW w \in Workers, WorkerStep(w) PROVE Recorded'
    BY <1>2, CheckoutStepRecorded, RevokeStepRecorded DEF WorkerStep
  <1>3. ASSUME NEW t \in {Reaper, Main}, RevokeStep(t) PROVE Recorded'
    BY <1>3, RevokeStepRecorded
  <1>4. ASSUME NEW g \in Groups, ReapGroup(g) PROVE Recorded'
    BY <1>4 DEF ReapGroup
  <1>5. CASE Start
    BY <1>5 DEF Start, Fresh, DownEmpty
  <1>6. CASE Close
    BY <1>6 DEF Close
  <1>7. CASE Exit \/ MainWriteFails \/ Crash
    BY <1>7 DEF Exit, MainWriteFails, Crash, Vanish
  <1>8. CASE Tick
    BY <1>8 DEF Tick
  <1>9. CASE ReapScan \/ Serve
    BY <1>9 DEF ReapScan, Serve
  <1>10. CASE UNCHANGED vars
    BY <1>10 DEF vars
  <1>12. CASE Stop
    BY <1>12, StopMoves
  <1>11. ASSUME NEW caller \in AnchoredCallers, SessionEnds(caller) PROVE Recorded'
    BY <1>11 DEF SessionEnds
  <1> QED
    BY <1>1, <1>2, <1>3, <1>4, <1>5, <1>6, <1>7, <1>8, <1>9, <1>10, <1>11, <1>12
    DEF Next, ReaperStep, MainStep

\* So they hold throughout.
LEMMA InductiveRecorded ==
    ASSUME MaxDiskFaults = 0
    PROVE  Spec => [](TypeInv /\ Fresh /\ Safe /\ Recorded)
  <1>1. TypeInv /\ Fresh /\ Safe /\ Recorded /\ [Next]_vars => Recorded'
    BY NextRecorded
  <1> QED
    BY <1>1, InitRecorded, Inductive, PTL DEF Spec

\* A crash at any point loses no registered checkout, and the file holds nothing
\* but those and what a thread is about to take out of it.
THEOREM FileCoversMemory ==
    ASSUME MaxDiskFaults = 0
    PROVE  Spec => []DiskCoversMemory
  BY InductiveRecorded, PTL DEF Recorded

\* What a second request is lent has its broker_checkout event, or gets it now.
THEOREM LoansOnRecord ==
    ASSUME MaxDiskFaults = 0
    PROVE  Spec => []LentOnRecord
  BY InductiveRecorded, PTL DEF Recorded

-----------------------------------------------------------------------------
(* The refinement: every step moves every checkout along the abstract life, *)
(* or not at all.                                                           *)

Invariant == TypeInv /\ Fresh /\ Safe /\ Recorded

\* Not issued yet, or in the hands of the worker that had it issued.
Absent(id) == grant[id] = "none" \/ InHand(id)

\* What is on disk has been issued and registered.
LEMMA FileNotAbsent ==
    ASSUME Invariant, NEW id \in Ids, id \in file
    PROVE  ~Absent(id)
  BY DEF Invariant, Fresh, Unborn, InHandFresh, InHand, Absent

\* In a step that adds no value and takes from the file only what memory does
\* not hold, a checkout stays where it is or goes one step on.
LEMMA OtherStage ==
    ASSUME Invariant, NEW id \in Ids,
           value' \subseteq value, live' \subseteq file, file' \in {file, live, live'},
           value \subseteq live' \cup file', Absent(id)' => Absent(id)
    PROVE  stageOf'[id] = stageOf[id] \/ <<stageOf[id], stageOf'[id]>> \in Lifecycle!Moves
  <1>1. live \subseteq file /\ value \subseteq live
    BY DEF Invariant, Recorded, DiskCoversMemory, Safe, ValueOnlyWhileUsable
  <1>2. CASE id \in value'
    BY <1>2 DEF stageOf
  <1>3. CASE id \in value /\ id \notin value'
    BY <1>3 DEF stageOf, Lifecycle!Moves
  <1>4. CASE id \notin value /\ id \in file
    BY <1>1, <1>4, FileNotAbsent DEF stageOf, Lifecycle!Moves, Absent
  <1>5. CASE id \notin value /\ id \notin file
    BY <1>1, <1>5 DEF stageOf, Lifecycle!Moves, Absent
  <1> QED
    BY <1>2, <1>3, <1>4, <1>5

\* The one place where a checkout becomes usable: nothing knew it before.
LEMMA AddStage ==
    ASSUME Invariant, NEW w \in Workers, Add(w), NEW id \in Ids
    PROVE  stageOf'[id] = stageOf[id] \/ <<stageOf[id], stageOf'[id]>> \in Lifecycle!Moves
  <1>1. cur[w] \notin value \cup live \cup file /\ InHand(cur[w])
    BY DEF Invariant, Fresh, InHandFresh, Known, Add, Register, InHand
  <1>2. /\ grant' = grant /\ value' = value \cup {cur[w]}
        /\ file' = live \cup {cur[w]} /\ live' = live \cup {cur[w]}
    BY DEF Add, Register, contractVars
  <1>3. CASE id = cur[w]
    BY <1>1, <1>2, <1>3 DEF stageOf, Lifecycle!Moves
  <1>4. CASE id # cur[w]
    <2>1. InHand(id)' <=> InHand(id)
      BY <1>4 DEF Add, Register, InHand, Invariant, TypeInv, TypeOK, Threads
    <2>2. Absent(id)' <=> Absent(id)
      BY <1>2, <2>1 DEF Absent
    <2>3. live \subseteq file
      BY DEF Invariant, Recorded, DiskCoversMemory
    <2>4. CASE id \in file
      <3>1. ~Absent(id) /\ ~Absent(id)'
        BY <2>2, <2>4, FileNotAbsent
      <3>2. CASE id \in value
        <4>1. id \in live /\ id \in value' /\ id \in live'
          BY <1>2, <3>2 DEF Invariant, Safe, ValueOnlyWhileUsable
        <4> QED
          BY <3>2, <4>1 DEF stageOf
      <3>3. CASE id \notin value
        <4>1. id \notin value' /\ stageOf[id] = "closing"
          BY <1>2, <1>4, <2>4, <3>3 DEF stageOf
        <4>2. stageOf'[id] \in {"closing", "closed"}
          BY <3>1, <4>1 DEF stageOf, Absent
        <4> QED
          BY <4>1, <4>2 DEF Lifecycle!Moves
      <3> QED
        BY <3>2, <3>3
    <2>5. CASE id \notin file
      BY <1>2, <1>4, <2>2, <2>3, <2>5 DEF stageOf, Lifecycle!Moves, Absent
    <2> QED
      BY <2>4, <2>5
  <1> QED
    BY <1>3, <1>4

\* Every step of the broker takes a checkout at most one step on.
LEMMA StepStage ==
    ASSUME MaxDiskFaults = 0, Invariant, Next, NEW id \in Ids
    PROVE  stageOf'[id] = stageOf[id] \/ <<stageOf[id], stageOf'[id]>> \in Lifecycle!Moves
  <1> DEFINE Goal == stageOf'[id] = stageOf[id] \/ <<stageOf[id], stageOf'[id]>> \in Lifecycle!Moves
             Kept == /\ value' \subseteq value /\ live' \subseteq file
                     /\ file' \in {file, live, live'} /\ value \subseteq live' \cup file'
                     /\ Absent(id)' => Absent(id)
  <1>1. live \subseteq file /\ value \subseteq live
    BY DEF Invariant, Recorded, DiskCoversMemory, Safe, ValueOnlyWhileUsable
  <1>2. Kept => Goal
    BY OtherStage
  <1> HIDE DEF Goal
  <1> USE DEF Invariant, TypeInv, TypeOK, ContractTypeOK, AtWork, contractVars, memory, control,
              output, world, Places, Threads, Absent, InHand
  <1>3. ASSUME NEW t \in Threads, RevokeStep(t) PROVE Kept
    <2>1. CASE Mark(t)
      BY <1>1, <2>1 DEF Mark
    <2>2. CASE CallIssuer(t)
      BY <1>1, <2>2 DEF CallIssuer
    <2>3. CASE IssuerReturns(t)
      <3>1. value \subseteq live'
        BY <1>1, <2>3 DEF IssuerReturns, Safe, ValueOnlyWhileUsable, Revoking
      <3> QED
        BY <1>1, <2>3, <3>1 DEF IssuerReturns, RevokeReturns, AfterCall
    <2>4. CASE IssuerRaises(t)
      BY <1>1, <2>4 DEF IssuerRaises, RevokeRaises, AfterCall
    <2>5. CASE Write(t)
      BY <1>1, <2>5 DEF Write
    <2>6. CASE WriteFails(t)
      BY <2>6 DEF WriteFails
    <2> QED
      BY <1>3, <2>1, <2>2, <2>3, <2>4, <2>5, <2>6 DEF RevokeStep
  <1>4. ASSUME NEW w \in Workers, ClientStep(w) PROVE Kept
    BY <1>1, <1>4 DEF ClientStep, CheckoutReuses, CheckoutIssues, AskRevoke, MayAsk
  <1>5. ASSUME NEW w \in Workers, IssueReturns(w) PROVE Kept
    <2>1. PICK i \in Ids : /\ grant[i] = "none"
                           /\ \A j \in Ids \ {i} : grant'[j] = grant[j]
                           /\ cur' = [cur EXCEPT ![w] = i]
      BY <1>5 DEF IssueReturns, Mint
    <2>2. Absent(id)' => Absent(id)
      BY <1>5, <2>1 DEF IssueReturns
    <2> QED
      BY <1>1, <1>5, <2>2 DEF IssueReturns
  <1>6. ASSUME NEW w \in Workers, Dismiss(w) \/ IssueRaises(w) \/ Emit(w) \/ Answer(w)
         PROVE  Kept
    BY <1>1, <1>6 DEF Dismiss, IssueRaises, Emit, Answer
  <1>7. ASSUME NEW w \in Workers, Add(w) PROVE Goal
    BY <1>7, AddStage DEF Goal
  <1>8. ASSUME NEW w \in Workers, AddWriteFails(w) PROVE FALSE
    BY <1>8 DEF AddWriteFails
  <1>9. ASSUME NEW w \in Workers, WorkerStep(w) PROVE Goal
    BY <1>2, <1>3, <1>5, <1>6, <1>7, <1>8, <1>9 DEF WorkerStep
  <1>10. ASSUME NEW g \in Groups, ReapGroup(g) PROVE Kept
    BY <1>1, <1>10, ThreadsAssumption DEF ReapGroup
  <1>11. ASSUME Start PROVE Kept
    BY <1>1, <1>11, ThreadsAssumption DEF Start, Fresh, DownEmpty
  <1>12. ASSUME Close PROVE Kept
    BY <1>1, <1>12, ThreadsAssumption DEF Close
  <1>13. ASSUME Exit \/ MainWriteFails \/ Crash PROVE Kept
    BY <1>1, <1>13 DEF Exit, MainWriteFails, Crash, Vanish, Forget
  <1>14. ASSUME Tick PROVE Kept
    BY <1>1, <1>14 DEF Tick, Lapse
  <1>15. ASSUME ReapScan \/ Serve \/ \E caller \in AnchoredCallers : SessionEnds(caller)
         PROVE  Kept
    BY <1>1, <1>15 DEF ReapScan, Serve, SessionEnds
  <1>17. ASSUME Stop PROVE Kept
    BY <1>1, <1>17, StopMoves
  <1>16. Goal
    BY <1>2, <1>3, <1>4, <1>9, <1>10, <1>11, <1>12, <1>13, <1>14, <1>15, <1>17
    DEF Next, ReaperStep, MainStep
  <1> QED
    BY <1>16 DEF Goal

\* The broker implements the abstract life of a checkout: opened once, ended only
\* by way of a revocation, and never opened again, through crashes of the process,
\* failures of the issuer and everything its threads interleave.
THEOREM BrokerImplementsLifecycle ==
    ASSUME MaxDiskFaults = 0
    PROVE  Spec => ImplementsLifecycle
  <1>1. Init => Lifecycle!LifecycleInit
    BY DEF Init, ContractInit, Lifecycle!LifecycleInit, stageOf
  <1>2. Invariant /\ [Next]_vars => [Lifecycle!LifecycleNext]_stageOf
    <2> SUFFICES ASSUME Invariant, [Next]_vars PROVE [Lifecycle!LifecycleNext]_stageOf
      OBVIOUS
    <2>1. CASE Next
      <3>1. stageOf' \in [Ids -> Lifecycle!Stages]
        BY DEF stageOf, Lifecycle!Stages
      <3> QED
        BY <2>1, <3>1, StepStage DEF Lifecycle!LifecycleNext
    <2>2. CASE UNCHANGED vars
      BY <2>2 DEF vars, contractVars, memory, control, stageOf, InHand
    <2> QED
      BY <2>1, <2>2
  <1> QED
    BY <1>1, <1>2, InductiveRecorded, PTL
    DEF Spec, Invariant, ImplementsLifecycle, Lifecycle!LifecycleSpec
=============================================================================
