---------------------------- MODULE BrokerServer ----------------------------
(***************************************************************************)
(* One broker process and its connections (broker/server.py, class         *)
(* BrokerServer): the accept loop of the main thread, a worker thread per  *)
(* connection under a bounded semaphore, and the shutdown that waits for   *)
(* the workers up to a deadline.  What a worker does for its request is in *)
(* CheckoutRegistry; here it takes some time and ends, or has not ended    *)
(* when the deadline comes.                                                *)
(***************************************************************************)
EXTENDS Naturals, FiniteSets

CONSTANTS
    Conns,            \* connections clients make
    MaxWorkers,       \* max_workers
    NoConn,           \* "no connection in hand"
    ThreadsMayFail    \* can the system refuse to start a thread?

ASSUME ServerAssumption ==
    /\ MaxWorkers \in Nat \ {0}
    /\ NoConn \notin Conns
    /\ ThreadsMayFail \in BOOLEAN

VARIABLES
    main,     \* where the main thread is
    taken,    \* the connection it has accepted and not yet passed on
    conn,     \* where each connection is
    slots,    \* BrokerServer._slots: free slots
    workers,  \* BrokerServer._workers: the threads it knows, by connection
    joining,  \* the threads close still waits for
    late,     \* has the drain deadline passed?
    stop,     \* BrokerServer._stop
    revoked   \* has revoke_all been called?

vars == <<main, taken, conn, slots, workers, joining, late, stop, revoked>>

MainPlaces == {"accepting", "refusing", "tracking", "starting", "closing",
               "joining", "revoking", "exited"}
ConnPlaces == {"new", "backlog", "taken", "reading", "handling", "replying",
               "served", "released", "closed"}

TypeOK ==
    /\ main \in MainPlaces
    /\ taken \in Conns \cup {NoConn}
    /\ conn \in [Conns -> ConnPlaces]
    /\ slots \in 0..MaxWorkers
    /\ workers \in SUBSET Conns
    /\ joining \in SUBSET Conns
    /\ late \in BOOLEAN /\ stop \in BOOLEAN /\ revoked \in BOOLEAN

Init ==
    /\ main = "accepting" /\ taken = NoConn
    /\ conn = [c \in Conns |-> "new"]
    /\ slots = MaxWorkers
    /\ workers = {} /\ joining = {}
    /\ late = FALSE /\ stop = FALSE /\ revoked = FALSE

Moves(c, from, to) == conn[c] \in from /\ conn' = [conn EXCEPT ![c] = to]

-----------------------------------------------------------------------------
(* The clients, and the signal handler.                                     *)

Connect(c) ==
    /\ main \in {"accepting", "refusing", "tracking", "starting"}
    /\ Moves(c, {"new"}, "backlog")
    /\ UNCHANGED <<main, taken, slots, workers, joining, late, stop, revoked>>

Signal ==
    /\ ~stop
    /\ stop' = TRUE
    /\ UNCHANGED <<main, taken, conn, slots, workers, joining, late, revoked>>

-----------------------------------------------------------------------------
(* serve_forever.                                                           *)

\* A connection gets a slot or is refused; the stop flag is read before.
Accept(c) ==
    /\ main = "accepting" /\ ~stop
    /\ Moves(c, {"backlog"}, "taken")
    /\ taken' = c
    /\ main' = IF slots > 0 THEN "tracking" ELSE "refusing"
    /\ slots' = IF slots > 0 THEN slots - 1 ELSE slots
    /\ UNCHANGED <<workers, joining, late, stop, revoked>>

\* "busy", sent by the main thread itself, which accepts nothing meanwhile.
Refuse ==
    /\ main = "refusing"
    /\ Moves(taken, {"taken"}, "closed")
    /\ main' = "accepting" /\ taken' = NoConn
    /\ UNCHANGED <<slots, workers, joining, late, stop, revoked>>

\* Variant for the mutation runs: the thread set is not kept.
Track_Forgets ==
    /\ main = "tracking"
    /\ main' = "starting"
    /\ UNCHANGED <<taken, conn, slots, workers, joining, late, stop, revoked>>

Track ==
    /\ main = "tracking"
    /\ workers' = workers \cup {taken}
    /\ main' = "starting"
    /\ UNCHANGED <<taken, conn, slots, joining, late, stop, revoked>>

StartThread ==
    /\ main = "starting"
    /\ Moves(taken, {"taken"}, "reading")
    /\ main' = "accepting" /\ taken' = NoConn
    /\ UNCHANGED <<slots, workers, joining, late, stop, revoked>>

\* Thread.start raised: serve_forever ends with it, and main's finally runs close.
StartThreadFails ==
    /\ ThreadsMayFail
    /\ main = "starting"
    /\ main' = "closing"
    /\ UNCHANGED <<taken, conn, slots, workers, joining, late, stop, revoked>>

\* The loop ends when it sees the flag, or when accept itself raises.
LeaveLoop ==
    /\ main = "accepting"
    /\ main' = "closing"
    /\ UNCHANGED <<taken, conn, slots, workers, joining, late, stop, revoked>>

-----------------------------------------------------------------------------
(* A worker thread: handle_connection, then the slot, then the thread set.  *)

\* The request is read within its deadline, or the connection is answered with
\* an error or dropped.
Read(c) ==
    /\ Moves(c, {"reading"}, "handling") \/ Moves(c, {"reading"}, "served")
    /\ UNCHANGED <<main, taken, slots, workers, joining, late, stop, revoked>>

Respond(c) ==
    /\ Moves(c, {"handling"}, "replying")
    /\ UNCHANGED <<main, taken, slots, workers, joining, late, stop, revoked>>

\* The reply is sent, or the client has gone; either way the socket is closed.
Reply(c) ==
    /\ Moves(c, {"replying"}, "served")
    /\ UNCHANGED <<main, taken, slots, workers, joining, late, stop, revoked>>

\* Variant for the mutation runs: no finally around handle_connection.
Release_NotAlways(c) ==
    /\ Moves(c, {"served"}, "released")
    /\ slots' \in {slots, slots + 1}
    /\ UNCHANGED <<main, taken, workers, joining, late, stop, revoked>>

Release(c) ==
    /\ Moves(c, {"served"}, "released")
    /\ slots' = slots + 1
    /\ UNCHANGED <<main, taken, workers, joining, late, stop, revoked>>

Discard(c) ==
    /\ Moves(c, {"released"}, "closed")
    /\ workers' = workers \ {c}
    /\ UNCHANGED <<main, taken, slots, joining, late, stop, revoked>>

-----------------------------------------------------------------------------
(* close.                                                                   *)

\* Stop flag, listening socket, and a snapshot of the threads to wait for.
Close ==
    /\ main = "closing"
    /\ stop' = TRUE
    /\ conn' = [c \in Conns |-> IF conn[c] = "backlog" THEN "closed" ELSE conn[c]]
    /\ joining' = workers
    /\ main' = "joining"
    /\ UNCHANGED <<taken, slots, workers, late, revoked>>

Deadline ==
    /\ main = "joining" /\ ~late
    /\ late' = TRUE
    /\ UNCHANGED <<main, taken, conn, slots, workers, joining, stop, revoked>>

\* Variant for the mutation runs: join without a deadline.
Join_Forever(c) ==
    /\ main = "joining"
    /\ c \in joining
    /\ conn[c] = "closed"
    /\ joining' = joining \ {c}
    /\ UNCHANGED <<main, taken, conn, slots, workers, late, stop, revoked>>

\* A thread that has been started is waited for until it ends or time is up.
Join(c) ==
    /\ main = "joining"
    /\ c \in joining
    /\ conn[c] # "taken"
    /\ conn[c] = "closed" \/ late
    /\ joining' = joining \ {c}
    /\ UNCHANGED <<main, taken, conn, slots, workers, late, stop, revoked>>

\* Thread.join raises for a thread that was never started, and close with it.
JoinFails(c) ==
    /\ main = "joining"
    /\ c \in joining
    /\ conn[c] = "taken"
    /\ main' = "exited"
    /\ UNCHANGED <<taken, conn, slots, workers, joining, late, stop, revoked>>

RevokeAll ==
    /\ main = "joining" /\ joining = {}
    /\ revoked' = TRUE
    /\ main' = "revoking"
    /\ UNCHANGED <<taken, conn, slots, workers, joining, late, stop>>

Exit ==
    /\ main = "revoking"
    /\ main' = "exited"
    /\ UNCHANGED <<taken, conn, slots, workers, joining, late, stop, revoked>>

-----------------------------------------------------------------------------
MainStep ==
    \/ (\E c \in Conns : Accept(c)) \/ Refuse \/ Track \/ StartThread \/ StartThreadFails
    \/ LeaveLoop \/ Close \/ Deadline \/ (\E c \in Conns : Join(c) \/ JoinFails(c))
    \/ RevokeAll \/ Exit

\* Daemon threads end with the process.
WorkerStep(c) ==
    /\ main # "exited"
    /\ Read(c) \/ Respond(c) \/ Reply(c) \/ Release(c) \/ Discard(c)

Next == (\E c \in Conns : Connect(c) \/ WorkerStep(c)) \/ Signal \/ MainStep

Spec == Init /\ [][Next]_vars

\* Every socket read and write, every join and every accept has a timeout.  How
\* long a request is handled is up to the issuer: Respond is not fair.
Fairness ==
    /\ WF_vars(MainStep)
    /\ \A c \in Conns : WF_vars(main # "exited" /\ (Read(c) \/ Reply(c) \/ Release(c) \/ Discard(c)))

FairSpec == Spec /\ Fairness

-----------------------------------------------------------------------------
(* Properties.                                                              *)

HoldsSlot(c) ==
    \/ conn[c] \in {"reading", "handling", "replying", "served"}
    \/ conn[c] = "taken" /\ main # "refusing"

\* Each slot is free or belongs to one connection: whatever a worker meets, its
\* slot comes back once, so that the pool neither shrinks nor lets in more than
\* max_workers.
SlotsBalance == slots + Cardinality({c \in Conns : HoldsSlot(c)}) = MaxWorkers

\* When revoke_all runs before the drain deadline, no worker is still at a
\* request whose checkout it would miss.
DrainIsComplete ==
    (revoked /\ ~late) =>
        \A c \in Conns : conn[c] \notin {"reading", "handling", "replying"}

\* A broker told to stop exits, however long its workers take.
ShutdownEnds == stop ~> (main = "exited")
=============================================================================
