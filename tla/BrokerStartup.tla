---------------------------- MODULE BrokerStartup ----------------------------
(***************************************************************************)
(* Broker processes that share one socket path and one state file: the     *)
(* main function, bind and close of broker/server.py, with the registry of *)
(* each process reduced to what it records (CheckoutRegistry has the rest).*)
(*                                                                         *)
(* main recovers the state file before it binds the socket, so a process   *)
(* that finds another broker listening has already been through the other  *)
(* one's records.  lstat and connect of the probe are one step here; the   *)
(* unlink, the bind and the listen that follow are steps of their own.     *)
(***************************************************************************)
EXTENDS Naturals, FiniteSets

CONSTANTS
    Brokers,  \* processes
    Ids,      \* checkouts
    Nobody    \* no socket at the path

ASSUME StartupAssumption == Nobody \notin Brokers

VARIABLES
    pc,        \* where each process is: see Places
    reg,       \* what each process has registered
    file,      \* the state file
    sock,      \* who made the socket at the path
    listening, \* the processes whose socket accepts connections
    overlapped \* has a broker been launched while another one ran?

vars == <<pc, reg, file, sock, listening, overlapped>>

Places == {"off", "recovering", "probing", "stale", "clear", "bound",
           "serving", "closing", "unlinking"}

TypeOK ==
    /\ pc \in [Brokers -> Places]
    /\ reg \in [Brokers -> SUBSET Ids]
    /\ file \in SUBSET Ids
    /\ sock \in Brokers \cup {Nobody}
    /\ listening \in SUBSET {b \in Brokers : pc[b] = "serving"}
    /\ overlapped \in BOOLEAN

Init ==
    /\ pc = [b \in Brokers |-> "off"]
    /\ reg = [b \in Brokers |-> {}]
    /\ file = {} /\ sock = Nobody /\ listening = {} /\ overlapped = FALSE

Step(b, from, to) == pc[b] = from /\ pc' = [pc EXCEPT ![b] = to]

\* Registry.recover, first half: the records of the file are registered.
Launch(b) ==
    /\ Step(b, "off", "recovering")
    /\ overlapped' = (overlapped \/ \E other \in Brokers : pc[other] # "off")
    /\ reg' = [reg EXCEPT ![b] = file]
    /\ UNCHANGED <<file, sock, listening>>

\* Variant for the mutation runs: what was recovered stays registered.
Recover_Keeps(b) ==
    /\ Step(b, "recovering", "probing")
    /\ UNCHANGED <<reg, file, sock, listening, overlapped>>

\* Its second half: this process holds none of their tokens, so every revoke
\* returns, and the file is rewritten unless there was nothing to revoke.
Recover(b) ==
    /\ Step(b, "recovering", "probing")
    /\ reg' = [reg EXCEPT ![b] = {}]
    /\ file' = IF reg[b] = {} THEN file ELSE {}
    /\ UNCHANGED <<sock, listening, overlapped>>

\* The process ends, its memory and its listening socket with it.
Ends(b) ==
    /\ pc' = [pc EXCEPT ![b] = "off"]
    /\ reg' = [reg EXCEPT ![b] = {}]
    /\ listening' = listening \ {b}

\* _clear_stale_socket: nothing at the path; a socket the probe cannot connect to,
\* because nobody listens or because the listener's backlog is full until the probe
\* times out; or another broker that answers, which makes the startup fail.
Probe(b) ==
    /\ pc[b] = "probing"
    /\ \/ sock = Nobody /\ Step(b, "probing", "clear") /\ UNCHANGED <<reg, listening>>
       \/ sock # Nobody /\ Step(b, "probing", "stale") /\ UNCHANGED <<reg, listening>>
       \/ sock \in listening /\ Ends(b)
    /\ UNCHANGED <<file, sock, overlapped>>

\* Whatever is at the path by now is removed; if that is nothing, unlink raises.
Unlink(b) ==
    /\ pc[b] = "stale"
    /\ IF sock = Nobody THEN Ends(b)
       ELSE Step(b, "stale", "clear") /\ UNCHANGED <<reg, listening>>
    /\ sock' = Nobody
    /\ UNCHANGED <<file, overlapped>>

Bind(b) ==
    /\ pc[b] = "clear"
    /\ IF sock = Nobody THEN Step(b, "clear", "bound") /\ UNCHANGED <<reg, listening>>
       ELSE Ends(b)
    /\ sock' = IF sock = Nobody THEN b ELSE sock
    /\ UNCHANGED <<file, overlapped>>

\* The chmod of the path raises if there is nothing at the path any more.
Listen(b) ==
    /\ pc[b] = "bound"
    /\ IF sock = Nobody THEN Ends(b)
       ELSE /\ Step(b, "bound", "serving")
            /\ listening' = listening \cup {b}
            /\ UNCHANGED reg
    /\ UNCHANGED <<file, sock, overlapped>>

\* Variant for the mutation runs: only revocations are written to the file.
Checkout_Unrecorded(b, id) ==
    /\ pc[b] = "serving"
    /\ \A other \in Brokers : id \notin reg[other]
    /\ reg' = [reg EXCEPT ![b] = @ \cup {id}]
    /\ UNCHANGED <<pc, file, sock, listening, overlapped>>

\* Registry.add and Registry.revoke: every change of the registry rewrites the
\* whole file.
Checkout(b, id) ==
    /\ pc[b] = "serving"
    /\ \A other \in Brokers : id \notin reg[other]
    /\ id \notin file
    /\ reg' = [reg EXCEPT ![b] = @ \cup {id}]
    /\ file' = reg'[b]
    /\ UNCHANGED <<pc, sock, listening, overlapped>>

Revoke(b, id) ==
    /\ pc[b] = "serving"
    /\ id \in reg[b]
    /\ reg' = [reg EXCEPT ![b] = @ \ {id}]
    /\ file' = reg'[b]
    /\ UNCHANGED <<pc, sock, listening, overlapped>>

\* SIGTERM: the listening socket is closed, the path still there.
Stop(b) ==
    /\ Step(b, "serving", "closing")
    /\ listening' = listening \ {b}
    /\ UNCHANGED <<reg, file, sock, overlapped>>

\* BrokerServer.close: revoke_all after the drain ...
CloseRevokes(b) ==
    /\ Step(b, "closing", "unlinking")
    /\ reg' = [reg EXCEPT ![b] = {}]
    /\ file' = IF reg[b] = {} THEN file ELSE {}
    /\ UNCHANGED <<sock, listening, overlapped>>

\* ... and the path is removed, whoever made what is there.
CloseUnlinks(b) ==
    /\ pc[b] = "unlinking"
    /\ Ends(b)
    /\ sock' = Nobody
    /\ UNCHANGED <<file, overlapped>>

Crash(b) ==
    /\ pc[b] # "off"
    /\ Ends(b)
    /\ UNCHANGED <<file, sock, overlapped>>

Next ==
    \E b \in Brokers :
        \/ Launch(b) \/ Recover(b) \/ Probe(b) \/ Unlink(b) \/ Bind(b) \/ Listen(b)
        \/ \E id \in Ids : Checkout(b, id) \/ Revoke(b, id)
        \/ Stop(b) \/ CloseRevokes(b) \/ CloseUnlinks(b) \/ Crash(b)

Spec == Init /\ [][Next]_vars

-----------------------------------------------------------------------------
(* Properties.                                                              *)

Serving == {b \in Brokers : pc[b] = "serving"}

\* No checkout is in the hands of two brokers that serve or shut down, although
\* each of them may have read the other one's records when it started.
OneOwner ==
    \A b, c \in {x \in Brokers : pc[x] \in {"serving", "closing"}} :
        b # c => reg[b] \cap reg[c] = {}

\* The state file names every checkout of a broker that serves, so that a crash
\* now leaves the next broker what it needs to revoke them ("the state file holds
\* what revocation needs to survive a restart").
RecordedWhileServing == \A b \in Serving : reg[b] \subseteq file

\* As long as every broker is started after the one before it has ended, in
\* whatever way, the one that serves has its checkouts on record, and the socket
\* at the path is its own.
SoundInTurn ==
    ~overlapped => /\ RecordedWhileServing
                   /\ \A b \in Serving : sock = b
=============================================================================
