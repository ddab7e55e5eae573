--------------------------- MODULE BrokerServerProofs ---------------------------
(***************************************************************************)
(* Theorems about BrokerServer, for any number of connections and slots,   *)
(* and whether or not threads can be started.                              *)
(***************************************************************************)
EXTENDS BrokerServer, FiniteSetTheorems, TLAPS

Slots == {c \in Conns : HoldsSlot(c)}

Shape ==
    /\ main \in MainPlaces
    /\ conn \in [Conns -> ConnPlaces]
    /\ taken \in Conns \cup {NoConn}
    /\ workers \in SUBSET Conns /\ joining \in SUBSET Conns
    /\ late \in BOOLEAN /\ stop \in BOOLEAN /\ revoked \in BOOLEAN

(* At most one connection is in the hands of the main thread: the one it   *)
(* passes on, or that it could not start a thread for.                     *)
InHand ==
    /\ main \in {"refusing", "tracking", "starting"} =>
            taken \in Conns /\ conn[taken] = "taken"
    /\ main = "accepting" => taken = NoConn
    /\ \A c \in Conns : conn[c] = "taken" => c = taken

Balance ==
    /\ slots \in Nat
    /\ IsFiniteSet(Slots)
    /\ slots + Cardinality(Slots) = MaxWorkers

LEMMA ShapeHolds == Spec => [](Shape /\ InHand)
<1>1. Init => Shape /\ InHand
  BY ServerAssumption DEF Init, Shape, InHand, MainPlaces, ConnPlaces
<1>2. Shape /\ InHand /\ [Next]_vars => (Shape /\ InHand)'
  <2> SUFFICES ASSUME Shape, InHand, [Next]_vars PROVE (Shape /\ InHand)'
    OBVIOUS
  <2> USE ServerAssumption DEF Shape, InHand, MainPlaces, ConnPlaces, Moves
  <2>1. ASSUME NEW c \in Conns, Connect(c) PROVE (Shape /\ InHand)'
    BY <2>1 DEF Connect
  <2>2. ASSUME Signal PROVE (Shape /\ InHand)'
    BY <2>2 DEF Signal
  <2>3. ASSUME NEW c \in Conns, Accept(c) PROVE (Shape /\ InHand)'
    BY <2>3 DEF Accept
  <2>4. ASSUME Refuse PROVE (Shape /\ InHand)'
    BY <2>4 DEF Refuse
  <2>5. ASSUME Track PROVE (Shape /\ InHand)'
    BY <2>5 DEF Track
  <2>6. ASSUME StartThread PROVE (Shape /\ InHand)'
    BY <2>6 DEF StartThread
  <2>7. ASSUME StartThreadFails PROVE (Shape /\ InHand)'
    BY <2>7 DEF StartThreadFails
  <2>8. ASSUME LeaveLoop PROVE (Shape /\ InHand)'
    BY <2>8 DEF LeaveLoop
  <2>9. ASSUME NEW c \in Conns, Read(c) PROVE (Shape /\ InHand)'
    BY <2>9 DEF Read
  <2>10. ASSUME NEW c \in Conns, Respond(c) PROVE (Shape /\ InHand)'
    BY <2>10 DEF Respond
  <2>11. ASSUME NEW c \in Conns, Reply(c) PROVE (Shape /\ InHand)'
    BY <2>11 DEF Reply
  <2>12. ASSUME NEW c \in Conns, Release(c) PROVE (Shape /\ InHand)'
    BY <2>12 DEF Release
  <2>13. ASSUME NEW c \in Conns, Discard(c) PROVE (Shape /\ InHand)'
    BY <2>13 DEF Discard
  <2>14. ASSUME Close PROVE (Shape /\ InHand)'
    BY <2>14 DEF Close
  <2>15. ASSUME Deadline PROVE (Shape /\ InHand)'
    BY <2>15 DEF Deadline
  <2>16. ASSUME NEW c \in Conns, Join(c) PROVE (Shape /\ InHand)'
    BY <2>16 DEF Join
  <2>17. ASSUME NEW c \in Conns, JoinFails(c) PROVE (Shape /\ InHand)'
    BY <2>17 DEF JoinFails
  <2>18. ASSUME RevokeAll PROVE (Shape /\ InHand)'
    BY <2>18 DEF RevokeAll
  <2>19. ASSUME Exit PROVE (Shape /\ InHand)'
    BY <2>19 DEF Exit
  <2>20. CASE UNCHANGED vars
    BY <2>20 DEF vars
  <2> QED
    BY <2>1, <2>2, <2>3, <2>4, <2>5, <2>6, <2>7, <2>8, <2>9, <2>10,
       <2>11, <2>12, <2>13, <2>14, <2>15, <2>16, <2>17, <2>18, <2>19, <2>20
       DEF Next, MainStep, WorkerStep
<1> QED
  BY <1>1, <1>2, PTL DEF Spec

LEMMA BalanceHolds == Spec => []Balance
<1>1. Init => Balance
  <2> SUFFICES ASSUME Init PROVE Balance
    OBVIOUS
  <2>1. Slots = {}
    BY DEF Init, Slots, HoldsSlot
  <2> QED
    BY <2>1, FS_EmptySet, ServerAssumption DEF Init, Balance
<1>2. Shape /\ InHand /\ Balance /\ [Next]_vars => Balance'
  <2> SUFFICES ASSUME Shape, InHand, Balance, [Next]_vars PROVE Balance'
    OBVIOUS
  <2> USE ServerAssumption DEF Shape, InHand, Slots, HoldsSlot, Moves, ConnPlaces
  <2>1. ASSUME NEW c \in Conns, Connect(c) PROVE Balance'
    <3>1. Slots' = Slots /\ slots' = slots
      BY <2>1 DEF Connect
    <3> QED
      BY <3>1 DEF Balance
  <2>2. ASSUME Signal PROVE Balance'
    <3>1. Slots' = Slots /\ slots' = slots
      BY <2>2 DEF Signal
    <3> QED
      BY <3>1 DEF Balance
  <2>3. ASSUME NEW c \in Conns, Accept(c) PROVE Balance'
    <3>1. CASE slots > 0
      <4>1. Slots' = Slots \cup {c} /\ c \notin Slots /\ slots' = slots - 1
        BY <2>3, <3>1 DEF Accept
      <4>2. Cardinality(Slots') = Cardinality(Slots) + 1 /\ IsFiniteSet(Slots')
        <5> HIDE DEF Slots
        <5>1. IsFiniteSet(Slots)
          BY DEF Balance
        <5> QED
          BY <4>1, <5>1, FS_AddElement
      <4>3. Cardinality(Slots) \in Nat
        BY FS_CardinalityType DEF Balance
      <4> HIDE DEF Slots
      <4> QED
        BY <3>1, <4>1, <4>2, <4>3, ServerAssumption DEF Balance
    <3>2. CASE ~(slots > 0)
      <4>1. Slots' = Slots /\ slots' = slots
        BY <2>3, <3>2 DEF Accept
      <4> QED
        BY <4>1 DEF Balance
    <3> QED
      BY <3>1, <3>2
  <2>4. ASSUME Refuse PROVE Balance'
    <3>1. Slots' = Slots /\ slots' = slots
      BY <2>4 DEF Refuse
    <3> QED
      BY <3>1 DEF Balance
  <2>5. ASSUME Track PROVE Balance'
    <3>1. Slots' = Slots /\ slots' = slots
      BY <2>5 DEF Track
    <3> QED
      BY <3>1 DEF Balance
  <2>6. ASSUME StartThread PROVE Balance'
    <3>1. Slots' = Slots /\ slots' = slots
      BY <2>6 DEF StartThread
    <3> QED
      BY <3>1 DEF Balance
  <2>7. ASSUME StartThreadFails PROVE Balance'
    <3>1. Slots' = Slots /\ slots' = slots
      BY <2>7 DEF StartThreadFails
    <3> QED
      BY <3>1 DEF Balance
  <2>8. ASSUME LeaveLoop PROVE Balance'
    <3>1. Slots' = Slots /\ slots' = slots
      BY <2>8 DEF LeaveLoop
    <3> QED
      BY <3>1 DEF Balance
  <2>9. ASSUME NEW c \in Conns, Read(c) PROVE Balance'
    <3>1. Slots' = Slots /\ slots' = slots
      BY <2>9 DEF Read
    <3> QED
      BY <3>1 DEF Balance
  <2>10. ASSUME NEW c \in Conns, Respond(c) PROVE Balance'
    <3>1. Slots' = Slots /\ slots' = slots
      BY <2>10 DEF Respond
    <3> QED
      BY <3>1 DEF Balance
  <2>11. ASSUME NEW c \in Conns, Reply(c) PROVE Balance'
    <3>1. Slots' = Slots /\ slots' = slots
      BY <2>11 DEF Reply
    <3> QED
      BY <3>1 DEF Balance
  <2>12. ASSUME NEW c \in Conns, Release(c) PROVE Balance'
    <3>1. Slots' = Slots \ {c} /\ c \in Slots /\ slots' = slots + 1
      BY <2>12 DEF Release
    <3>2. Cardinality(Slots') = Cardinality(Slots) - 1 /\ IsFiniteSet(Slots')
      <4> HIDE DEF Slots
      <4>1. IsFiniteSet(Slots)
        BY DEF Balance
      <4> QED
        BY <3>1, <4>1, FS_RemoveElement
    <3>3. Cardinality(Slots) \in Nat
      BY FS_CardinalityType DEF Balance
    <3> HIDE DEF Slots
    <3> QED
      BY <3>1, <3>2, <3>3, ServerAssumption DEF Balance
  <2>13. ASSUME NEW c \in Conns, Discard(c) PROVE Balance'
    <3>1. Slots' = Slots /\ slots' = slots
      BY <2>13 DEF Discard
    <3> QED
      BY <3>1 DEF Balance
  <2>14. ASSUME Close PROVE Balance'
    <3>1. Slots' = Slots /\ slots' = slots
      BY <2>14 DEF Close
    <3> QED
      BY <3>1 DEF Balance
  <2>15. ASSUME Deadline PROVE Balance'
    <3>1. Slots' = Slots /\ slots' = slots
      BY <2>15 DEF Deadline
    <3> QED
      BY <3>1 DEF Balance
  <2>16. ASSUME NEW c \in Conns, Join(c) PROVE Balance'
    <3>1. Slots' = Slots /\ slots' = slots
      BY <2>16 DEF Join
    <3> QED
      BY <3>1 DEF Balance
  <2>17. ASSUME NEW c \in Conns, JoinFails(c) PROVE Balance'
    <3>1. Slots' = Slots /\ slots' = slots
      BY <2>17 DEF JoinFails
    <3> QED
      BY <3>1 DEF Balance
  <2>18. ASSUME RevokeAll PROVE Balance'
    <3>1. Slots' = Slots /\ slots' = slots
      BY <2>18 DEF RevokeAll
    <3> QED
      BY <3>1 DEF Balance
  <2>19. ASSUME Exit PROVE Balance'
    <3>1. Slots' = Slots /\ slots' = slots
      BY <2>19 DEF Exit
    <3> QED
      BY <3>1 DEF Balance
  <2>20. CASE UNCHANGED vars
    BY <2>20 DEF vars, Balance
  <2> QED
    BY <2>1, <2>2, <2>3, <2>4, <2>5, <2>6, <2>7, <2>8, <2>9, <2>10,
       <2>11, <2>12, <2>13, <2>14, <2>15, <2>16, <2>17, <2>18, <2>19, <2>20
       DEF Next, MainStep, WorkerStep
<1> QED
  BY <1>1, <1>2, ShapeHolds, PTL DEF Spec

(* Each slot is free or belongs to one connection, whatever a worker meets *)
(* and whichever threads cannot be started (serve_forever, the finally of  *)
(* the worker).                                                            *)
THEOREM SlotsAlwaysBalance == Spec => []SlotsBalance
<1>1. Balance => SlotsBalance
  BY DEF Balance, SlotsBalance, Slots
<1> QED
  BY <1>1, BalanceHolds, PTL

(* Every reachable state is well typed; that no more slots are free than   *)
(* there are follows from their balance.                                   *)
THEOREM ServerTypes == Spec => []TypeOK
<1>1. Shape /\ Balance => TypeOK
  <2> SUFFICES ASSUME Shape, Balance PROVE TypeOK
    OBVIOUS
  <2>1. Cardinality(Slots) \in Nat
    <3> HIDE DEF Slots
    <3> QED
      BY FS_CardinalityType DEF Balance
  <2>2. slots \in 0..MaxWorkers
    BY <2>1, ServerAssumption DEF Balance
  <2> QED
    BY <2>2 DEF Shape, TypeOK
<1> QED
  BY <1>1, ShapeHolds, BalanceHolds, PTL

Working == {"reading", "handling", "replying"}
Started == Working \cup {"served", "released"}

(* close waits for every thread it has started, and none is started after. *)
Waited ==
    /\ \A c \in Conns : conn[c] \in Started => c \in workers
    /\ main = "joining" /\ ~late =>
            \A c \in Conns : conn[c] \in Working => c \in joining
    /\ main = "starting" => taken \in workers
    /\ revoked => main \in {"revoking", "exited"}
    /\ DrainIsComplete

(* When revoke_all runs before the drain deadline, no worker is still at a *)
(* request whose checkout it would miss (close: the snapshot of _workers). *)
THEOREM DrainComplete == Spec => []DrainIsComplete
<1>1. Init => Waited
  BY DEF Init, Waited, DrainIsComplete, Working, Started
<1>2. Shape /\ InHand /\ Waited /\ [Next]_vars => Waited'
  <2> SUFFICES ASSUME Shape, InHand, Waited, [Next]_vars PROVE Waited'
    OBVIOUS
  <2> USE DEF Shape, InHand, Waited, DrainIsComplete, Working, Started, Moves, ConnPlaces,
              MainPlaces
  <2>1. ASSUME NEW c \in Conns, Connect(c) PROVE Waited'
    BY <2>1 DEF Connect
  <2>2. ASSUME Signal PROVE Waited'
    BY <2>2 DEF Signal
  <2>3. ASSUME NEW c \in Conns, Accept(c) PROVE Waited'
    BY <2>3 DEF Accept
  <2>4. ASSUME Refuse PROVE Waited'
    BY <2>4 DEF Refuse
  <2>5. ASSUME Track PROVE Waited'
    BY <2>5 DEF Track
  <2>6. ASSUME StartThread PROVE Waited'
    BY <2>6 DEF StartThread
  <2>7. ASSUME StartThreadFails PROVE Waited'
    BY <2>7 DEF StartThreadFails
  <2>8. ASSUME LeaveLoop PROVE Waited'
    BY <2>8 DEF LeaveLoop
  <2>9. ASSUME NEW c \in Conns, Read(c) PROVE Waited'
    BY <2>9 DEF Read
  <2>10. ASSUME NEW c \in Conns, Respond(c) PROVE Waited'
    BY <2>10 DEF Respond
  <2>11. ASSUME NEW c \in Conns, Reply(c) PROVE Waited'
    BY <2>11 DEF Reply
  <2>12. ASSUME NEW c \in Conns, Release(c) PROVE Waited'
    BY <2>12 DEF Release
  <2>13. ASSUME NEW c \in Conns, Discard(c) PROVE Waited'
    BY <2>13 DEF Discard
  <2>14. ASSUME Close PROVE Waited'
    BY <2>14 DEF Close
  <2>15. ASSUME Deadline PROVE Waited'
    BY <2>15 DEF Deadline
  <2>16. ASSUME NEW c \in Conns, Join(c) PROVE Waited'
    BY <2>16 DEF Join
  <2>17. ASSUME NEW c \in Conns, JoinFails(c) PROVE Waited'
    BY <2>17 DEF JoinFails
  <2>18. ASSUME RevokeAll PROVE Waited'
    BY <2>18 DEF RevokeAll
  <2>19. ASSUME Exit PROVE Waited'
    BY <2>19 DEF Exit
  <2>20. CASE UNCHANGED vars
    BY <2>20 DEF vars
  <2> QED
    BY <2>1, <2>2, <2>3, <2>4, <2>5, <2>6, <2>7, <2>8, <2>9, <2>10,
       <2>11, <2>12, <2>13, <2>14, <2>15, <2>16, <2>17, <2>18, <2>19, <2>20
       DEF Next, MainStep, WorkerStep
<1>3. Waited => DrainIsComplete
  BY DEF Waited
<1> QED
  BY <1>1, <1>2, <1>3, ShapeHolds, PTL DEF Spec
=============================================================================
