--------------------------- MODULE CheckoutRegistry ---------------------------
(***************************************************************************)
(* The broker process around its checkout registry: broker/registry.py,    *)
(* the checkout and revoke methods of broker/service.py, and the threads   *)
(* that broker/server.py runs them on.  Worker threads serve one request   *)
(* each, the reaper thread sweeps, and the main thread recovers the state  *)
(* file at start and revokes everything at shutdown.                       *)
(*                                                                         *)
(* The lock is not a variable: what the code does under one acquisition of *)
(* Registry._lock is one action.  Issuer calls are made outside the lock   *)
(* and may take arbitrarily long, so they begin and end in two actions.    *)
(* Memory (live, value, pending, anchored, held) is lost when the process  *)
(* ends, file and the grants are not.  A value, a record's other fields    *)
(* and the provenance text are abstracted to membership of an id in a set; *)
(* the requests that only read (list, status, a dry run) are left out.     *)
(***************************************************************************)
EXTENDS IssuerContract, Integers

CONSTANTS
    Workers,         \* worker threads (at most max_workers of server.py)
    Reaper, Main,    \* the two other threads
    Caps,            \* capabilities,
    RevocableCaps,   \*   those whose issuer can revoke a grant,
    Ttl,             \*   and the ttl each of them declares
    Callers,         \* callers: a session and a harness label,
    Session,         \*   the session, as one of the callers it has,
    AnchoredCallers, \*   those attributed to a running harness process
    AskedTtls,       \* the ttls a request may ask for
    ReuseMin,        \* REUSE_MIN_REMAINING
    Whatever, NoId,       \* "this field does not matter", "no checkout"
    MaxTime,         \* bounds of the model: the clock,
    MaxExits,        \*   how often the process is killed or stopped,
    MaxDiskFaults    \*   how often a write of the state file fails

Threads == Workers \cup {Reaper, Main}
Groups == {"expired", "session_end", "retry"}

ASSUME ThreadsAssumption ==
    Reaper \notin Workers /\ Main \notin Workers /\ Reaper # Main
ASSUME DataAssumption ==
    /\ RevocableCaps \subseteq Caps
    /\ AnchoredCallers \subseteq Callers
    /\ Session \in [Callers -> Callers]
    /\ Ttl \in [Caps -> Nat \ {0}]
    /\ AskedTtls \subseteq (Nat \ {0}) \cup {Whatever}
    /\ ReuseMin \in Nat \ {0}
    /\ NoId \notin Ids
    /\ Whatever \notin Ids \cup Caps \cup Callers \cup Nat
ASSUME BoundsAssumption ==
    MaxTime \in Nat /\ MaxExits \in Nat /\ MaxDiskFaults \in Nat

VARIABLES
    now,       \* the clock
    phase,     \* where the main thread is: see Phases
    live,      \* Registry._live: the registered checkouts,
    value,     \*   those that still carry their value,
    pending,   \*   those marked revoke_pending,
    anchored,  \*   and those that know the harness process they hang on
    co,        \* what a checkout's record says, by id
    file,      \* the ids in the state file
    pc,        \* where each thread is: see Places
    ask,       \* the checkout request a worker is issuing or answering
    todo,      \* what a thread in Registry.revoke has left to revoke,
    cur,       \*   the checkout it is at,
    done,      \*   and those it has revoked
    plan,      \* the groups the reaper still has to revoke in this sweep
    ended,     \* callers whose harness process has exited
    evented,   \* checkouts with a broker_checkout event
    answered,  \* checkouts a reply to a client named as revoked
    exits,     \* crashes and stops so far (bound)
    faults     \* failed writes so far (bound)

memory == <<live, value, pending, anchored>>
control == <<pc, ask, todo, cur, done, plan>>
output == <<evented, answered>>
world == <<now, ended, exits, faults>>
vars == <<contractVars, memory, control, output, world, phase, co, file>>

Phases == {"down", "starting", "serving", "draining", "closing"}
Places == {"idle", "reading", "issuing", "adding", "emit", "answer",
           "mark", "loop", "calling", "settling", "write"}

NoAsk == [cap |-> Whatever, caller |-> Whatever, ttl |-> 0]
Asks == [cap : Caps, caller : Callers, ttl : Nat \ {0}] \cup {NoAsk}
Blank == [cap |-> Whatever, caller |-> Whatever, expires |-> 0, lapses |-> 0]
Checkouts == [cap : Caps, caller : Callers, expires : Nat, lapses : Nat] \cup {Blank}

TypeOK ==
    /\ ContractTypeOK
    /\ now \in 0..MaxTime
    /\ phase \in Phases
    /\ live \in SUBSET Ids
    /\ value \in SUBSET Ids
    /\ pending \in SUBSET Ids
    /\ anchored \in SUBSET Ids
    /\ co \in [Ids -> Checkouts]
    /\ file \in SUBSET Ids
    /\ pc \in [Threads -> Places]
    /\ ask \in [Workers -> Asks]
    /\ todo \in [Threads -> SUBSET Ids]
    /\ cur \in [Threads -> Ids \cup {NoId}]
    /\ done \in [Threads -> SUBSET Ids]
    /\ plan \in [Groups -> SUBSET Ids]
    /\ ended \in SUBSET Callers
    /\ evented \in SUBSET Ids
    /\ answered \in SUBSET Ids
    /\ exits \in 0..MaxExits
    /\ faults \in 0..MaxDiskFaults

NoPlan == [g \in Groups |-> {}]

Init ==
    /\ ContractInit
    /\ now = 0 /\ phase = "down"
    /\ live = {} /\ value = {} /\ pending = {} /\ anchored = {}
    /\ co = [id \in Ids |-> Blank]
    /\ file = {}
    /\ pc = [t \in Threads |-> "idle"]
    /\ ask = [w \in Workers |-> NoAsk]
    /\ todo = [t \in Threads |-> {}]
    /\ cur = [t \in Threads |-> NoId]
    /\ done = [t \in Threads |-> {}]
    /\ plan = NoPlan
    /\ ended = {} /\ evented = {} /\ answered = {}
    /\ exits = 0 /\ faults = 0

Least(a, b) == IF a <= b THEN a ELSE b

-----------------------------------------------------------------------------
(* A checkout request (service.py, Broker._checkout).                       *)

\* Variant for the mutation runs: a fraction of a second rounds down.
Honoured_RoundedDown(cap, asked) ==
    IF asked = Whatever THEN Ttl[cap] - 1 ELSE Least(Ttl[cap], asked) - 1

\* The ttl the broker will honour: a request can only shorten it.
Honoured(cap, asked) == IF asked = Whatever THEN Ttl[cap] ELSE Least(Ttl[cap], asked)

\* Variant for the mutation runs: the session is not compared.
Reusable_AnySession(cap, caller, ttl) ==
    {id \in (live \cap value) \ pending :
        /\ co[id].cap = cap
        /\ 4 * (co[id].expires - now) >= Least(4 * ReuseMin, ttl)}

\* Registry.find_reusable, with min_remaining = min(REUSE_MIN_REMAINING, ttl/4).
Reusable(cap, caller, ttl) ==
    {id \in (live \cap value) \ pending :
        /\ co[id].cap = cap
        /\ co[id].caller = caller
        /\ 4 * (co[id].expires - now) >= Least(4 * ReuseMin, ttl)}

\* The server takes a connection only while it serves, but a worker that has one
\* when it stops still reads the request; a caller whose process is gone sends
\* nothing any more.
MayAsk(w, caller) ==
    /\ pc[w] = "reading" \/ (pc[w] = "idle" /\ phase = "serving")
    /\ caller \notin ended

CheckoutReuses(w, cap, caller, asked) ==
    LET ttl == Honoured(cap, asked) IN
    /\ MayAsk(w, caller)
    /\ \E id \in Reusable(cap, caller, ttl) : cur' = [cur EXCEPT ![w] = id]
    /\ ask' = [ask EXCEPT ![w] = [cap |-> cap, caller |-> caller, ttl |-> ttl]]
    /\ pc' = [pc EXCEPT ![w] = "answer"]
    /\ UNCHANGED <<contractVars, memory, todo, done, plan, output, world, phase, co, file>>

CheckoutIssues(w, cap, caller, asked) ==
    LET ttl == Honoured(cap, asked) IN
    /\ MayAsk(w, caller)
    /\ Reusable(cap, caller, ttl) = {}
    /\ ask' = [ask EXCEPT ![w] = [cap |-> cap, caller |-> caller, ttl |-> ttl]]
    /\ pc' = [pc EXCEPT ![w] = "issuing"]
    /\ UNCHANGED <<contractVars, memory, todo, cur, done, plan, output, world,
                   phase, co, file>>

\* The client sent nothing it could be given in time, or asked for something
\* that changes nothing.
Dismiss(w) ==
    /\ pc[w] = "reading"
    /\ pc' = [pc EXCEPT ![w] = "idle"]
    /\ UNCHANGED <<contractVars, memory, ask, todo, cur, done, plan, output, world,
                   phase, co, file>>

\* Issuer.issue came back with a grant: the checkout exists, but only in this
\* thread.  The grant may end earlier than was asked.  So may the checkout, but
\* it is stamped later, for a second at least: it may outlast the grant by one
\* (Horizon is a bound of the model).
Horizon(ttl) == now + ttl <= MaxTime

IssueReturns(w) ==
    /\ pc[w] = "issuing"
    /\ Horizon(ask[w].ttl)
    /\ \E id \in Ids, granted, issued \in 1..ask[w].ttl :
          /\ issued <= granted + 1
          /\ Mint(id, ask[w].cap \in RevocableCaps)
          /\ co' = [co EXCEPT ![id] = [cap |-> ask[w].cap, caller |-> ask[w].caller,
                                       expires |-> now + issued,
                                       lapses |-> now + granted]]
          /\ cur' = [cur EXCEPT ![w] = id]
    /\ pc' = [pc EXCEPT ![w] = "adding"]
    /\ UNCHANGED <<memory, ask, todo, done, plan, output, world, phase, file>>

\* Issuer.issue raised: the client gets issuer_error.
IssueRaises(w) ==
    /\ pc[w] = "issuing"
    /\ ask' = [ask EXCEPT ![w] = NoAsk]
    /\ pc' = [pc EXCEPT ![w] = "idle"]
    /\ UNCHANGED <<contractVars, memory, todo, cur, done, plan, output, world,
                   phase, co, file>>

\* Registry.add, under the lock: into _live with its value ...
Register(w) ==
    /\ pc[w] = "adding"
    /\ live' = live \cup {cur[w]}
    /\ value' = value \cup {cur[w]}
    /\ anchored' = IF co[cur[w]].caller \in AnchoredCallers
                   THEN anchored \cup {cur[w]} ELSE anchored

\* Variant for the mutation runs: the file is written before the insertion.
Add_WritesFirst(w) ==
    /\ Register(w)
    /\ file' = live
    /\ pc' = [pc EXCEPT ![w] = "emit"]
    /\ UNCHANGED <<contractVars, pending, ask, todo, cur, done, plan, output, world,
                   phase, co>>

\* ... and onto disk,
Add(w) ==
    /\ Register(w)
    /\ file' = live'
    /\ pc' = [pc EXCEPT ![w] = "emit"]
    /\ UNCHANGED <<contractVars, pending, ask, todo, cur, done, plan, output, world,
                   phase, co>>

\* unless the write raises: the client gets an internal error, no event is
\* emitted, and the checkout stays in _live.
AddWriteFails(w) ==
    /\ faults < MaxDiskFaults
    /\ Register(w)
    /\ faults' = faults + 1
    /\ ask' = [ask EXCEPT ![w] = NoAsk]
    /\ cur' = [cur EXCEPT ![w] = NoId]
    /\ pc' = [pc EXCEPT ![w] = "idle"]
    /\ UNCHANGED <<contractVars, pending, todo, done, plan, output, now, ended, exits,
                   phase, co, file>>

\* Variant for the mutation runs: no event.
Emit_Silent(w) ==
    /\ pc[w] = "emit"
    /\ ask' = [ask EXCEPT ![w] = NoAsk]
    /\ cur' = [cur EXCEPT ![w] = NoId]
    /\ pc' = [pc EXCEPT ![w] = "idle"]
    /\ UNCHANGED <<contractVars, memory, todo, done, plan, output, world, phase, co, file>>

\* The broker_checkout event, outside the lock, and the reply to the client.
Emit(w) ==
    /\ pc[w] = "emit"
    /\ evented' = evented \cup {cur[w]}
    /\ ask' = [ask EXCEPT ![w] = NoAsk]
    /\ cur' = [cur EXCEPT ![w] = NoId]
    /\ pc' = [pc EXCEPT ![w] = "idle"]
    /\ UNCHANGED <<contractVars, memory, todo, done, plan, answered, world, phase, co, file>>

\* The reply that carries a reused checkout: the copy of its value was taken
\* under the lock, the checkout may have been revoked since.
Answer(w) ==
    /\ pc[w] = "answer"
    /\ ask' = [ask EXCEPT ![w] = NoAsk]
    /\ cur' = [cur EXCEPT ![w] = NoId]
    /\ pc' = [pc EXCEPT ![w] = "idle"]
    /\ UNCHANGED <<contractVars, memory, todo, done, plan, output, world, phase, co, file>>

-----------------------------------------------------------------------------
(* Registry.revoke, run by any thread.                                      *)

\* Variant for the mutation runs: the value is kept until the issuer has answered.
Mark_KeepsValue(t) ==
    LET targets == todo[t] \cap live IN
    /\ pc[t] = "mark"
    /\ todo' = [todo EXCEPT ![t] = targets]
    /\ pc' = [pc EXCEPT ![t] = IF targets = {} THEN "idle" ELSE "loop"]
    /\ UNCHANGED <<contractVars, memory, ask, cur, done, plan, output,
                   world, phase, co, file>>

\* Variant for the mutation runs: a worker whose targets are all gone waits for one.
Mark_WorkerWaits(t) ==
    LET targets == todo[t] \cap live IN
    /\ pc[t] = "mark"
    /\ todo' = [todo EXCEPT ![t] = targets]
    /\ value' = value \ targets
    /\ pc' = [pc EXCEPT ![t] = IF targets = {} /\ t \notin Workers THEN "idle" ELSE "loop"]
    /\ UNCHANGED <<contractVars, live, pending, anchored, ask, cur, done, plan, output,
                   world, phase, co, file>>

\* First the targets lose their value, under the lock.
Mark(t) ==
    LET targets == todo[t] \cap live IN
    /\ pc[t] = "mark"
    /\ todo' = [todo EXCEPT ![t] = targets]
    /\ value' = value \ targets
    /\ pc' = [pc EXCEPT ![t] = IF targets = {} THEN "idle" ELSE "loop"]
    /\ UNCHANGED <<contractVars, live, pending, anchored, ask, cur, done, plan, output,
                   world, phase, co, file>>

\* Then issuer.revoke is called for one after the other.  The issuer calls out
\* only for a grant that it holds and whose time is not up by its own clock;
\* otherwise it has nothing to do and nothing to fail at.
CallIssuer(t) ==
    /\ pc[t] = "loop"
    /\ \E id \in todo[t] :
          /\ cur' = [cur EXCEPT ![t] = id]
          /\ todo' = [todo EXCEPT ![t] = @ \ {id}]
          /\ pc' = [pc EXCEPT ![t] = IF id \in held /\ now < co[id].lapses
                                    THEN "calling" ELSE "settling"]
    /\ UNCHANGED <<contractVars, memory, ask, done, plan, output, world, phase, co, file>>

AfterCall(t) == IF todo[t] = {} THEN "write" ELSE "loop"

\* The issuer call returned: the checkout leaves the registry.
IssuerReturns(t) ==
    /\ pc[t] \in {"calling", "settling"}
    /\ RevokeReturns(cur[t])
    /\ live' = live \ {cur[t]}
    /\ pending' = pending \ {cur[t]}
    /\ anchored' = anchored \ {cur[t]}
    /\ done' = [done EXCEPT ![t] = @ \cup {cur[t]}]
    /\ cur' = [cur EXCEPT ![t] = NoId]
    /\ pc' = [pc EXCEPT ![t] = AfterCall(t)]
    /\ UNCHANGED <<value, ask, todo, plan, output, world, phase, co, file>>

\* Variant for the mutation runs: the failure is not remembered.
IssuerRaises_NotPending(t) ==
    /\ pc[t] = "calling"
    /\ RevokeRaises(cur[t])
    /\ cur' = [cur EXCEPT ![t] = NoId]
    /\ pc' = [pc EXCEPT ![t] = AfterCall(t)]
    /\ UNCHANGED <<memory, ask, todo, done, plan, output, world, phase, co, file>>

\* Variant for the mutation runs: a checkout that could not be revoked is usable again.
IssuerRaises_RestoresValue(t) ==
    /\ pc[t] = "calling"
    /\ RevokeRaises(cur[t])
    /\ cur' = [cur EXCEPT ![t] = NoId]
    /\ pc' = [pc EXCEPT ![t] = AfterCall(t)]
    /\ value' = IF cur[t] \in live THEN value \cup {cur[t]} ELSE value
    /\ UNCHANGED <<live, pending, anchored, ask, todo, done, plan, output, world,
                   phase, co, file>>

\* Variant for the mutation runs: a failed revocation is reported with the others.
IssuerRaises_CountsAsDone(t) ==
    /\ pc[t] = "calling"
    /\ RevokeRaises(cur[t])
    /\ cur' = [cur EXCEPT ![t] = NoId]
    /\ pc' = [pc EXCEPT ![t] = AfterCall(t)]
    /\ done' = [done EXCEPT ![t] = @ \cup {cur[t]}]
    /\ pending' = IF cur[t] \in live THEN pending \cup {cur[t]} ELSE pending
    /\ UNCHANGED <<live, value, anchored, ask, todo, plan, output, world,
                   phase, co, file>>

\* The issuer call raised: the checkout stays, to be retried.
IssuerRaises(t) ==
    /\ pc[t] = "calling"
    /\ RevokeRaises(cur[t])
    /\ pending' = IF cur[t] \in live THEN pending \cup {cur[t]} ELSE pending
    /\ cur' = [cur EXCEPT ![t] = NoId]
    /\ pc' = [pc EXCEPT ![t] = AfterCall(t)]
    /\ UNCHANGED <<live, value, anchored, ask, todo, done, plan, output, world,
                   phase, co, file>>

\* Finally the state file is rewritten, and only then is a client told.
Write(t) ==
    /\ pc[t] = "write"
    /\ file' = live
    /\ answered' = IF t \in Workers THEN answered \cup done[t] ELSE answered
    /\ done' = [done EXCEPT ![t] = {}]
    /\ pc' = [pc EXCEPT ![t] = "idle"]
    /\ UNCHANGED <<contractVars, memory, ask, todo, cur, plan, evented, world, phase, co>>

\* The write raised in a worker (the client gets an internal error) or in the
\* reaper, which logs it and drops the rest of its sweep.
WriteFails(t) ==
    /\ pc[t] = "write" /\ t # Main
    /\ faults < MaxDiskFaults
    /\ faults' = faults + 1
    /\ done' = [done EXCEPT ![t] = {}]
    /\ plan' = IF t = Reaper THEN NoPlan ELSE plan
    /\ pc' = [pc EXCEPT ![t] = "idle"]
    /\ UNCHANGED <<contractVars, memory, ask, todo, cur, output, now, ended, exits,
                   phase, co, file>>

-----------------------------------------------------------------------------
(* Who calls it: a client, the reaper, the main thread.                     *)

\* Registry.select.
Selected(id, cap, caller) ==
    {i \in live : /\ id \in {Whatever, i}
                  /\ cap \in {Whatever, co[i].cap}
                  /\ caller # Whatever => Session[co[i].caller] = Session[caller]}

\* Broker._revoke by checkout_id, by capability or for all, of everyone's
\* checkouts or of the caller's own session.  An empty selection is answered
\* at once and changes nothing.
AskRevoke(w, id, cap, caller) ==
    /\ MayAsk(w, caller)
    /\ Whatever \in {id, cap}
    /\ Selected(id, cap, caller) # {}
    /\ todo' = [todo EXCEPT ![w] = Selected(id, cap, caller)]
    /\ pc' = [pc EXCEPT ![w] = "mark"]
    /\ UNCHANGED <<contractVars, memory, ask, cur, done, plan, output, world,
                   phase, co, file>>

\* Registry.reap sorts the registered checkouts by the reason to revoke them.
Expired == {id \in live : co[id].expires <= now}
SessionOver == {id \in live \cap anchored : co[id].caller \in ended}

\* Variant for the mutation runs: the sweep overlooks expiry.
ReapScan_NoExpiry ==
    /\ phase = "serving"
    /\ pc[Reaper] = "idle" /\ plan = NoPlan
    /\ plan' = [g \in Groups |->
                  CASE g = "expired"     -> {}
                    [] g = "session_end" -> SessionOver \ Expired
                    [] g = "retry"       -> (live \cap pending) \ (Expired \cup SessionOver)]
    /\ UNCHANGED <<contractVars, memory, pc, ask, todo, cur, done, output, world,
                   phase, co, file>>

\* The reaper wakes up, unless the server is stopping.
ReapScan ==
    /\ phase = "serving"
    /\ pc[Reaper] = "idle" /\ plan = NoPlan
    /\ plan' = [g \in Groups |->
                  CASE g = "expired"     -> Expired
                    [] g = "session_end" -> SessionOver \ Expired
                    [] g = "retry"       -> (live \cap pending) \ (Expired \cup SessionOver)]
    /\ UNCHANGED <<contractVars, memory, pc, ask, todo, cur, done, output, world,
                   phase, co, file>>

\* One call of revoke per group, in this order.
ReapGroup(g) ==
    /\ pc[Reaper] = "idle"
    /\ plan[g] # {}
    /\ g \in {"session_end", "retry"} => plan["expired"] = {}
    /\ g = "retry" => plan["session_end"] = {}
    /\ todo' = [todo EXCEPT ![Reaper] = plan[g]]
    /\ plan' = [plan EXCEPT ![g] = {}]
    /\ pc' = [pc EXCEPT ![Reaper] = "mark"]
    /\ UNCHANGED <<contractVars, memory, ask, cur, done, output, world, phase, co, file>>

\* Variant for the mutation runs: recovered records count as usable.
Start_Trusts ==
    /\ phase = "down"
    /\ phase' = "starting"
    /\ live' = file /\ value' = file
    /\ UNCHANGED <<contractVars, pending, anchored, control, output, world, co, file>>

\* server.py main: Registry.recover registers what the file holds, as pending
\* and without a value or an anchor, and revokes all of it.
Start ==
    /\ phase = "down"
    /\ phase' = "starting"
    /\ live' = file /\ pending' = file
    /\ todo' = [todo EXCEPT ![Main] = file]
    /\ pc' = [pc EXCEPT ![Main] = "mark"]
    /\ UNCHANGED <<contractVars, value, anchored, ask, cur, done, plan, output, world,
                   co, file>>

Serve ==
    /\ phase = "starting" /\ pc[Main] = "idle"
    /\ phase' = "serving"
    /\ UNCHANGED <<contractVars, memory, control, output, world, co, file>>

\* SIGTERM or SIGINT: no connection is accepted and no sweep begun any more.
\* Some of the workers that have done nothing yet hold a connection by then.
Stop ==
    /\ phase = "serving"
    /\ exits < MaxExits
    /\ exits' = exits + 1
    /\ phase' = "draining"
    /\ \E accepted \in SUBSET {w \in Workers : pc[w] = "idle"} :
          pc' = [t \in Threads |-> IF t \in accepted THEN "reading" ELSE pc[t]]
    /\ UNCHANGED <<contractVars, memory, ask, todo, cur, done, plan, output, now, ended,
                   faults, co, file>>

\* BrokerServer.close has waited for the workers, or given up waiting:
\* Registry.revoke_all.
Close ==
    /\ phase = "draining"
    /\ phase' = "closing"
    /\ todo' = [todo EXCEPT ![Main] = live]
    /\ pc' = [pc EXCEPT ![Main] = "mark"]
    /\ UNCHANGED <<contractVars, memory, ask, cur, done, plan, output, world, co, file>>

\* The process ends: the other threads are daemons and die with it.
Vanish ==
    /\ phase' = "down"
    /\ live' = {} /\ value' = {} /\ pending' = {} /\ anchored' = {}
    /\ Forget
    /\ pc' = [t \in Threads |-> "idle"]
    /\ ask' = [w \in Workers |-> NoAsk]
    /\ todo' = [t \in Threads |-> {}]
    /\ cur' = [t \in Threads |-> NoId]
    /\ done' = [t \in Threads |-> {}]
    /\ plan' = NoPlan
    /\ UNCHANGED <<output, now, ended, co, file>>

\* Variant for the mutation runs: the process stays until nothing is left to revoke.
Exit_WhenEmpty ==
    /\ phase = "closing" /\ pc[Main] = "idle" /\ live = {}
    /\ Vanish
    /\ UNCHANGED <<exits, faults>>

Exit ==
    /\ phase = "closing" /\ pc[Main] = "idle"
    /\ Vanish
    /\ UNCHANGED <<exits, faults>>

\* The write at the end of recover or revoke_all raised: main ends with it.
MainWriteFails ==
    /\ pc[Main] = "write"
    /\ faults < MaxDiskFaults
    /\ faults' = faults + 1
    /\ Vanish
    /\ UNCHANGED exits

\* The process is killed, at any point.
Crash ==
    /\ phase # "down"
    /\ exits < MaxExits
    /\ exits' = exits + 1
    /\ Vanish
    /\ UNCHANGED faults

-----------------------------------------------------------------------------
(* The world: time, and harness processes that exit.                        *)

\* A revocable grant ends by itself when its time is up; a static value stays.
Tick ==
    /\ now < MaxTime
    /\ now' = now + 1
    /\ Lapse({id \in Ids : co[id].cap \in RevocableCaps /\ co[id].lapses <= now + 1})
    /\ UNCHANGED <<memory, control, output, ended, exits, faults, phase, co, file>>

SessionEnds(caller) ==
    /\ caller \notin ended
    /\ ended' = ended \cup {caller}
    /\ UNCHANGED <<contractVars, memory, control, output, now, exits, faults, phase, co, file>>

-----------------------------------------------------------------------------
RevokeStep(t) ==
    \/ Mark(t) \/ CallIssuer(t) \/ IssuerReturns(t) \/ IssuerRaises(t)
    \/ Write(t) \/ WriteFails(t)

WorkerStep(w) ==
    \/ Dismiss(w) \/ IssueReturns(w) \/ IssueRaises(w) \/ Add(w) \/ AddWriteFails(w)
    \/ Emit(w) \/ Answer(w) \/ RevokeStep(w)

ReaperStep == ReapScan \/ (\E g \in Groups : ReapGroup(g)) \/ RevokeStep(Reaper)

MainStep == Serve \/ Close \/ Exit \/ MainWriteFails \/ RevokeStep(Main)

ClientStep(w) ==
    \/ \E cap \in Caps, caller \in Callers, asked \in AskedTtls :
          CheckoutReuses(w, cap, caller, asked) \/ CheckoutIssues(w, cap, caller, asked)
    \/ \E id \in Ids \cup {Whatever}, cap \in Caps \cup {Whatever}, caller \in Callers \cup {Whatever} :
          AskRevoke(w, id, cap, caller)

Next ==
    \/ \E w \in Workers : ClientStep(w) \/ WorkerStep(w)
    \/ ReaperStep
    \/ Start \/ MainStep \/ Stop \/ Crash
    \/ Tick
    \/ \E caller \in AnchoredCallers : SessionEnds(caller)

Spec == Init /\ [][Next]_vars

\* Every thread keeps running: an issuer call ends with a reply or a timeout of
\* the client library, the reaper wakes up every reap_interval, close gives up
\* draining after a deadline, and time passes.  Nothing makes a client ask, a
\* process be started, stopped or killed.
Fairness ==
    /\ \A w \in Workers : WF_vars(WorkerStep(w))
    /\ WF_vars(ReaperStep)
    /\ WF_vars(MainStep)
    /\ WF_vars(Tick)

FairSpec == Spec /\ Fairness

-----------------------------------------------------------------------------
(* Properties.                                                              *)

Revoking(t) == (IF pc[t] \in {"loop", "calling", "settling"} THEN todo[t] ELSE {})
                 \cup (IF pc[t] \in {"calling", "settling"} THEN {cur[t]} ELSE {})

\* A value is in memory only as long as its checkout is registered, not marked
\* for a retry, and no thread has begun to revoke it ("a value is dropped from
\* memory the moment its revocation starts"): whatever the threads interleave,
\* find_reusable can never lend a checkout whose revocation has begun.
ValueOnlyWhileUsable ==
    /\ value \subseteq live \ pending
    /\ \A t \in Threads : value \cap Revoking(t) = {}

\* A registered checkout that has lost its value is on its way out: some thread
\* is revoking it, or it is pending and the reaper will retry.  None is left
\* behind half revoked by an issuer, a disk or another thread that failed.
NothingStranded ==
    \A id \in live \ value :
        id \in pending \/ \E t \in Threads : id \in Revoking(t)

\* Every child token the issuer table holds belongs to a checkout that is
\* registered or about to be: no path loses the checkout and keeps the token.
HeldIsRegistered ==
    held \subseteq live \cup {cur[w] : w \in {v \in Workers : pc[v] = "adding"}}

\* When a client has been told that a checkout is revoked, its grant has ended
\* at the issuer and neither memory nor disk still knows it, so that no later
\* crash and recovery brings it back.
RevokedMeansEnded ==
    /\ answered \cap (live \cup file) = {}
    /\ \A id \in answered : co[id].cap \in RevocableCaps => grant[id] = "ended"

\* The state file covers memory: a crash now loses no registered checkout.  What
\* it holds beyond that, while the process is up, is what a thread has revoked
\* and not yet written.
DiskCoversMemory ==
    /\ live \subseteq file
    /\ phase # "down" => file \subseteq live \cup UNION {done[t] : t \in Threads}

\* A checkout that exists and carries no value never carries one again: no
\* thread, no restart and no late reply revives it.  The one way to get a value
\* is to be registered by the worker that had it issued.
InHand(id) == \E w \in Workers : pc[w] = "adding" /\ cur[w] = id

NoRevival ==
    [][\A id \in Ids : (grant[id] # "none" /\ id \notin value /\ ~InHand(id))
                          => id \notin value']_vars

\* A checkout is lent to a second request only if the first one put it on
\* record, with an event emitted or about to be.
LentOnRecord ==
    \A w \in Workers : pc[w] = "answer" =>
        \/ cur[w] \in evented
        \/ \E v \in Workers : pc[v] = "emit" /\ cur[v] = cur[w]

\* What a request is lent by reuse is a checkout of its own capability and caller
\* that has not expired.
LentFitsRequest ==
    [][\A w \in Workers : (pc[w] \in {"idle", "reading"} /\ pc'[w] = "answer") =>
          /\ co[cur'[w]].cap = ask'[w].cap
          /\ co[cur'[w]].caller = ask'[w].caller
          /\ co[cur'[w]].expires > now]_vars

\* A stopped broker leaves nothing usable behind: when the process exits in an
\* orderly way, every checkout it registered has been revoked or is pending.
ShutdownRevokesAll == [][Exit => value = {}]_vars

\* The checkout's life as CheckoutLifecycle describes it, read off memory, disk
\* and the issuer.
stageOf ==
    [id \in Ids |->
        CASE id \in value                   -> "usable"
          [] id \in (live \cup file) \ value -> "closing"
          [] id \notin live \cup file        ->
                IF grant[id] = "none" \/ InHand(id)
                THEN "absent" ELSE "closed"]

Lifecycle == INSTANCE CheckoutLifecycle WITH stage <- stageOf

\* This module implements the abstract life of a checkout, as long as the disk
\* takes every write: threads, crashes and failing issuers included.
ImplementsLifecycle == Lifecycle!LifecycleSpec

Due(id) == id \in live /\ (id \in pending \/ id \in Expired \/ id \in SessionOver)

\* A checkout that has expired, whose session is over, or whose revocation failed
\* leaves the registry, however often the issuer fails.
DueIsRevoked == \A id \in Ids : Due(id) ~> id \notin live

\* Every request is answered.
RequestsAnswered == \A w \in Workers : (pc[w] # "idle") ~> (pc[w] = "idle")

\* A broker told to stop does stop, and one that starts gets to serve or fails.
StopsAndStarts ==
    /\ (phase \in {"draining", "closing"}) ~> (phase = "down")
    /\ (phase = "starting") ~> (phase \in {"serving", "down"})
=============================================================================
