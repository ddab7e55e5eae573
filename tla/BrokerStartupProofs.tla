-------------------------- MODULE BrokerStartupProofs --------------------------
(***************************************************************************)
(* Theorems about BrokerStartup, for any number of processes and           *)
(* checkouts, in whatever order the processes start, stop and crash.       *)
(***************************************************************************)
EXTENDS BrokerStartup, TLAPS

(* Every reachable state is well typed; a socket that accepts connections  *)
(* belongs to a broker that serves (bind, close).                          *)
THEOREM StartupTypes == Spec => []TypeOK
<1>1. Init => TypeOK
  BY DEF Init, TypeOK, Places
<1>2. TypeOK /\ [Next]_vars => TypeOK'
  <2> SUFFICES ASSUME TypeOK, [Next]_vars PROVE TypeOK'
    OBVIOUS
  <2> USE DEF TypeOK, Places, Step, Ends
  <2>1. ASSUME NEW b \in Brokers, Launch(b) PROVE TypeOK'
    BY <2>1 DEF Launch
  <2>2. ASSUME NEW b \in Brokers, Recover(b) PROVE TypeOK'
    BY <2>2 DEF Recover
  <2>3. ASSUME NEW b \in Brokers, Probe(b) PROVE TypeOK'
    BY <2>3 DEF Probe
  <2>4. ASSUME NEW b \in Brokers, Unlink(b) PROVE TypeOK'
    BY <2>4 DEF Unlink
  <2>5. ASSUME NEW b \in Brokers, Bind(b) PROVE TypeOK'
    BY <2>5 DEF Bind
  <2>6. ASSUME NEW b \in Brokers, Listen(b) PROVE TypeOK'
    BY <2>6 DEF Listen
  <2>7. ASSUME NEW b \in Brokers, NEW id \in Ids, Checkout(b, id) PROVE TypeOK'
    BY <2>7 DEF Checkout
  <2>8. ASSUME NEW b \in Brokers, NEW id \in Ids, Revoke(b, id) PROVE TypeOK'
    BY <2>8 DEF Revoke
  <2>9. ASSUME NEW b \in Brokers, Stop(b) PROVE TypeOK'
    BY <2>9 DEF Stop
  <2>10. ASSUME NEW b \in Brokers, CloseRevokes(b) PROVE TypeOK'
    BY <2>10 DEF CloseRevokes
  <2>11. ASSUME NEW b \in Brokers, CloseUnlinks(b) PROVE TypeOK'
    BY <2>11 DEF CloseUnlinks
  <2>12. ASSUME NEW b \in Brokers, Crash(b) PROVE TypeOK'
    BY <2>12 DEF Crash
  <2>13. CASE UNCHANGED vars
    BY <2>13 DEF vars
  <2> QED
    BY <2>1, <2>2, <2>3, <2>4, <2>5, <2>6, <2>7, <2>8, <2>9, <2>10, <2>11, <2>12, <2>13
       DEF Next
<1> QED
  BY <1>1, <1>2, PTL DEF Spec

-----------------------------------------------------------------------------
(* Only a process that recovers, serves or shuts down has checkouts.       *)
Idle ==
    \A b \in Brokers : pc[b] \notin {"recovering", "serving", "closing"} => reg[b] = {}

(* No checkout is in the hands of two brokers that serve or shut down,     *)
(* although each may have read the other one's records (main: recover      *)
(* before bind): what was recovered is gone before a process binds.        *)
THEOREM NeverTwoOwners == Spec => []OneOwner
<1> DEFINE IInv == Idle /\ OneOwner
<1>1. Init => IInv
  BY DEF Init, Idle, OneOwner
<1>2. TypeOK /\ IInv /\ [Next]_vars => IInv'
  <2> SUFFICES ASSUME TypeOK, IInv, [Next]_vars PROVE IInv'
    OBVIOUS
  <2> USE DEF TypeOK, Places, Idle, OneOwner, Step, Ends
  <2>1. ASSUME NEW b \in Brokers, Launch(b) PROVE IInv'
    BY <2>1 DEF Launch
  <2>2. ASSUME NEW b \in Brokers, Recover(b) PROVE IInv'
    BY <2>2 DEF Recover
  <2>3. ASSUME NEW b \in Brokers, Probe(b) PROVE IInv'
    BY <2>3 DEF Probe
  <2>4. ASSUME NEW b \in Brokers, Unlink(b) PROVE IInv'
    BY <2>4 DEF Unlink
  <2>5. ASSUME NEW b \in Brokers, Bind(b) PROVE IInv'
    BY <2>5 DEF Bind
  <2>6. ASSUME NEW b \in Brokers, Listen(b) PROVE IInv'
    BY <2>6 DEF Listen
  <2>7. ASSUME NEW b \in Brokers, NEW id \in Ids, Checkout(b, id) PROVE IInv'
    BY <2>7 DEF Checkout
  <2>8. ASSUME NEW b \in Brokers, NEW id \in Ids, Revoke(b, id) PROVE IInv'
    BY <2>8 DEF Revoke
  <2>9. ASSUME NEW b \in Brokers, Stop(b) PROVE IInv'
    BY <2>9 DEF Stop
  <2>10. ASSUME NEW b \in Brokers, CloseRevokes(b) PROVE IInv'
    BY <2>10 DEF CloseRevokes
  <2>11. ASSUME NEW b \in Brokers, CloseUnlinks(b) PROVE IInv'
    BY <2>11 DEF CloseUnlinks
  <2>12. ASSUME NEW b \in Brokers, Crash(b) PROVE IInv'
    BY <2>12 DEF Crash
  <2>13. CASE UNCHANGED vars
    BY <2>13 DEF vars
  <2> QED
    BY <2>1, <2>2, <2>3, <2>4, <2>5, <2>6, <2>7, <2>8, <2>9, <2>10, <2>11, <2>12, <2>13
       DEF Next
<1> QED
  BY <1>1, <1>2, StartupTypes, PTL DEF Spec

-----------------------------------------------------------------------------
(* As long as none has overlapped, one process runs at a time, the socket  *)
(* it has bound stays its own, and its records are on file.                *)
Alone == \A b, c \in Brokers : pc[b] # "off" /\ pc[c] # "off" => b = c
InTurn ==
    ~overlapped =>
        /\ Alone
        /\ \A b \in Brokers : pc[b] \in {"bound", "serving"} => sock = b
        /\ \A b \in Brokers : pc[b] = "serving" => reg[b] \subseteq file

(* Brokers started one after the other, each ended by a stop or a crash at *)
(* any point, serve with their checkouts on record and with their own      *)
(* socket at the path (bind, _clear_stale_socket, close).                  *)
THEOREM SoundOneAfterAnother == Spec => []SoundInTurn
<1>1. Init => InTurn /\ Idle
  BY DEF Init, InTurn, Alone, Idle
<1>2. TypeOK /\ Idle /\ InTurn /\ [Next]_vars => InTurn' /\ Idle'
  <2> SUFFICES ASSUME TypeOK, Idle, InTurn, [Next]_vars PROVE InTurn' /\ Idle'
    OBVIOUS
  <2> USE DEF TypeOK, Places, Idle, InTurn, Alone, Step, Ends
  <2>1. ASSUME NEW b \in Brokers, Launch(b) PROVE InTurn' /\ Idle'
    BY <2>1, ZenonT(60) DEF Launch
  <2>2. ASSUME NEW b \in Brokers, Recover(b) PROVE InTurn' /\ Idle'
    BY <2>2 DEF Recover
  <2>3. ASSUME NEW b \in Brokers, Probe(b) PROVE InTurn' /\ Idle'
    BY <2>3 DEF Probe
  <2>4. ASSUME NEW b \in Brokers, Unlink(b) PROVE InTurn' /\ Idle'
    BY <2>4 DEF Unlink
  <2>5. ASSUME NEW b \in Brokers, Bind(b) PROVE InTurn' /\ Idle'
    BY <2>5 DEF Bind
  <2>6. ASSUME NEW b \in Brokers, Listen(b) PROVE InTurn' /\ Idle'
    BY <2>6 DEF Listen
  <2>7. ASSUME NEW b \in Brokers, NEW id \in Ids, Checkout(b, id) PROVE InTurn' /\ Idle'
    BY <2>7 DEF Checkout
  <2>8. ASSUME NEW b \in Brokers, NEW id \in Ids, Revoke(b, id) PROVE InTurn' /\ Idle'
    BY <2>8 DEF Revoke
  <2>9. ASSUME NEW b \in Brokers, Stop(b) PROVE InTurn' /\ Idle'
    BY <2>9 DEF Stop
  <2>10. ASSUME NEW b \in Brokers, CloseRevokes(b) PROVE InTurn' /\ Idle'
    BY <2>10 DEF CloseRevokes
  <2>11. ASSUME NEW b \in Brokers, CloseUnlinks(b) PROVE InTurn' /\ Idle'
    BY <2>11 DEF CloseUnlinks
  <2>12. ASSUME NEW b \in Brokers, Crash(b) PROVE InTurn' /\ Idle'
    BY <2>12 DEF Crash
  <2>13. CASE UNCHANGED vars
    BY <2>13 DEF vars
  <2> QED
    BY <2>1, <2>2, <2>3, <2>4, <2>5, <2>6, <2>7, <2>8, <2>9, <2>10, <2>11, <2>12, <2>13
       DEF Next
<1>3. InTurn => SoundInTurn
  BY DEF InTurn, SoundInTurn, RecordedWhileServing, Serving
<1> QED
  BY <1>1, <1>2, <1>3, StartupTypes, PTL DEF Spec
=============================================================================
