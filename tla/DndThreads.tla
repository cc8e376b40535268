----------------------------- MODULE DndThreads -----------------------------
(***************************************************************************)
(* dnd.py at the grain of its threads.  DndNode runs each handler as one   *)
(* step, which is what messageProcessingMutex is meant to give.  Here the  *)
(* listener threads and the advertiser take the mutex as DndLock does, and *)
(* processMessage is split where it reads and where it writes: for each    *)
(* route line it first reads myDist and daemonHasRoute (lines 701-702)     *)
(* and then acts on them (703-720).  The advertiser's critical section     *)
(* (getRegistrationList, sending, timeOutOldRoutes) is one step.  Tick and *)
(* a datagram of the own node are the environment; the console answers    *)
(* and the daemon does not restart.                                        *)
(*                                                                         *)
(* N is DndNode over the same state: its handlers are used here, and its   *)
(* Spec is the abstract specification this module is checked to implement. *)
(***************************************************************************)
EXTENDS Integers, Sequences

CONSTANTS
    Nodes, Services, Registrations, None, Me, Listeners, DefaultRoutes,
    ConfigRoutes, ConfigLinks, INFINITY, ROUTE_TIMEOUT, AddLocalEIDWildcard,
    RebroadcastRoutes, AdvDests, AdvDists, MaxLines, Malformed,
    Client,            \* the advertiser thread
    AtomicTestAndSet,  \* testandset() runs without a thread switch
    SendMalformed      \* peers may send a route line that does not parse

VARIABLES
    rib, routes, links, alive, outbox, phase,   \* as in DndNode
    up, restarts, outages,  \* DndNode's environment, fixed here
    locked,  \* messageProcessingMutex.locked
    pc,      \* pc[t]: where thread t is
    msg,     \* msg[l]: the datagram listener l is processing
    idx,     \* idx[l]: the route line it is at
    dec      \* dec[l]: myDist and daemonHasRoute read for that line

N == INSTANCE DndNode WITH MaxRestarts <- 0, MaxOutages <- 0, Modes <- {"both"}, SetupMayFail <- FALSE

threadVars == <<locked, pc, msg, idx, dec>>
fixed == <<up, restarts, outages>>
vars == <<rib, routes, links, alive, outbox, phase, fixed, locked, pc, msg, idx, dec>>

Threads == Listeners \cup {Client}

Msgs == {m \in N!Datagram : SendMalformed \/ \A i \in DOMAIN m.lines : m.lines[i] # Malformed}

Line(l) == msg[l].lines[idx[l]]

Init ==
    /\ N!Init
    /\ locked = FALSE
    /\ pc = [t \in Threads |-> "idle"]
    /\ msg = [l \in Listeners |-> None]
    /\ idx = [l \in Listeners |-> 1]
    /\ dec = [l \in Listeners |-> None]

Goto(t, from, to) == pc[t] = from /\ pc' = [pc EXCEPT ![t] = to]

\* main() resets the routes before it starts any thread.
Startup == N!Startup /\ UNCHANGED threadVars

Tick == N!Tick /\ UNCHANGED threadVars

ReceiveEmpty(l) == pc[l] = "idle" /\ N!ReceiveEmpty(l) /\ UNCHANGED threadVars
-----------------------------------------------------------------------------
(* The mutex, as in DndLock.                                               *)

\* recvfrom returns a datagram and processMessage starts.
Receive(l, m) ==
    /\ phase = "running"
    /\ alive[l]
    /\ Goto(l, "idle", "test")
    /\ msg' = [msg EXCEPT ![l] = m]
    /\ idx' = [idx EXCEPT ![l] = 1]
    /\ UNCHANGED <<rib, routes, links, alive, outbox, phase, locked, dec, fixed>>

\* sleep(broadcastInterval) ends.
Wake ==
    /\ phase = "running"
    /\ Goto(Client, "idle", "test")
    /\ UNCHANGED <<rib, routes, links, alive, outbox, phase, locked, msg, idx, dec, fixed>>

Spin(t) == pc[t] = "test" /\ locked /\ UNCHANGED vars

TestLock(t) ==
    /\ ~locked
    /\ IF AtomicTestAndSet
       THEN Goto(t, "test", "cs") /\ locked' = TRUE
       ELSE Goto(t, "test", "set") /\ UNCHANGED locked
    /\ UNCHANGED <<rib, routes, links, alive, outbox, phase, msg, idx, dec, fixed>>

SetLock(t) ==
    /\ Goto(t, "set", "cs")
    /\ locked' = TRUE
    /\ UNCHANGED <<rib, routes, links, alive, outbox, phase, msg, idx, dec, fixed>>

\* unlock() and leave the critical section for to.
Unlock(t, to) ==
    /\ pc[t] \in {"cs", "unlock2"}
    /\ pc' = [pc EXCEPT ![t] = to]
    /\ locked' = FALSE
-----------------------------------------------------------------------------
(* processMessage inside the mutex.                                        *)

\* Our own datagram: unlock and return (lines 659-662).
OwnMessage(l) ==
    /\ pc[l] = "cs"
    /\ N!NodeEID(msg[l].sender) = N!MyEID
    /\ Unlock(l, "idle")
    /\ UNCHANGED <<rib, routes, links, alive, outbox, phase, msg, idx, dec, fixed>>

Processing(l) ==
    /\ pc[l] = "cs"
    /\ N!NodeEID(msg[l].sender) # N!MyEID

\* The loop is over: the unlock after the try statement (line 731).
LoopDone(l) ==
    /\ Processing(l)
    /\ idx[l] > Len(msg[l].lines)
    /\ Unlock(l, "idle")
    /\ UNCHANGED <<rib, routes, links, alive, outbox, phase, msg, idx, dec, fixed>>

\* The line does not split into three or atoi fails: the except clause
\* unlocks (line 729) and control falls through to line 731.
LineRaises(l) ==
    /\ Processing(l)
    /\ idx[l] <= Len(msg[l].lines)
    /\ Line(l) = Malformed
    /\ Unlock(l, "unlock2")
    /\ UNCHANGED <<rib, routes, links, alive, outbox, phase, msg, idx, dec, fixed>>

SecondUnlock(l) ==
    /\ pc[l] = "unlock2"
    /\ Unlock(l, "idle")
    /\ UNCHANGED <<rib, routes, links, alive, outbox, phase, msg, idx, dec, fixed>>

\* Split horizon: "continue" (line 695).
SplitHorizon(l) ==
    /\ Processing(l)
    /\ idx[l] <= Len(msg[l].lines)
    /\ Line(l) # Malformed
    /\ Line(l).nh = N!MyEID
    /\ idx' = [idx EXCEPT ![l] = @ + 1]
    /\ UNCHANGED <<rib, routes, links, alive, outbox, phase, locked, pc, msg, dec, fixed>>

\* Mutant: the mutex is given back once the line has been read.
ReadLineUnlocks(l) ==
    /\ Processing(l)
    /\ idx[l] <= Len(msg[l].lines)
    /\ Line(l) # Malformed
    /\ Line(l).nh # N!MyEID
    /\ dec' = [dec EXCEPT ![l] =
                 [myDist |-> N!currentDistanceTo(rib, Line(l).dest),
                  hasRoute |-> N!haveNonDefaultRouteFor(N!S, Line(l).dest)]]
    /\ Goto(l, "cs", "write")
    /\ locked' = FALSE
    /\ UNCHANGED <<rib, routes, links, alive, outbox, phase, msg, idx, fixed>>

\* Lines 701-702: myDist from the RIB, daemonHasRoute from a route dump.
ReadLine(l) ==
    /\ Processing(l)
    /\ idx[l] <= Len(msg[l].lines)
    /\ Line(l) # Malformed
    /\ Line(l).nh # N!MyEID
    /\ dec' = [dec EXCEPT ![l] =
                 [myDist |-> N!currentDistanceTo(rib, Line(l).dest),
                  hasRoute |-> N!haveNonDefaultRouteFor(N!S, Line(l).dest)]]
    /\ Goto(l, "cs", "write")
    /\ UNCHANGED <<rib, routes, links, alive, outbox, phase, locked, msg, idx, fixed>>

\* Lines 703-720 on what was read.
WriteLine(l) ==
    /\ Goto(l, "write", "cs")
    /\ N!SetState(N!ProcessTripleWith(N!S, msg[l].sender, Line(l),
                                      dec[l].myDist, dec[l].hasRoute))
    /\ idx' = [idx EXCEPT ![l] = @ + 1]
    /\ UNCHANGED <<alive, outbox, phase, fixed, locked, msg, dec>>
-----------------------------------------------------------------------------
(* doClient inside the mutex: advertise, timeOutOldRoutes, unlock.         *)

ClientBody ==
    /\ pc[Client] = "cs"
    /\ N!Advertise
    /\ Unlock(Client, "idle")
    /\ UNCHANGED <<msg, idx, dec>>

Next ==
    \/ Startup
    \/ Tick
    \/ \E l \in Listeners : ReceiveEmpty(l)
    \/ \E l \in Listeners, m \in Msgs : Receive(l, m)
    \/ Wake
    \/ \E t \in Threads : Spin(t) \/ TestLock(t) \/ SetLock(t)
    \/ \E l \in Listeners :
          \/ OwnMessage(l) \/ LoopDone(l) \/ LineRaises(l) \/ SecondUnlock(l)
          \/ SplitHorizon(l) \/ ReadLine(l) \/ WriteLine(l)
    \/ ClientBody

Spec == Init /\ [][Next]_vars
-----------------------------------------------------------------------------
TypeOK ==
    /\ N!TypeOK
    /\ locked \in BOOLEAN
    /\ pc \in [Threads -> {"idle", "test", "set", "cs", "write", "unlock2"}]
    /\ msg \in [Listeners -> Msgs \cup {None}]

(***************************************************************************)
(* The threads implement the node whose handlers are atomic: every step    *)
(* of a listener or of the advertiser is a step of DndNode or leaves its   *)
(* state alone.  This is what messageProcessingMutex is for; it fails when *)
(* a write of processMessage acts on what it read before another thread's *)
(* critical section changed the RIB or the daemon.                         *)
(***************************************************************************)
ImplementsDndNode == N!Spec

(***************************************************************************)
(* Whatever the threads interleave, a learned route in the daemon still    *)
(* goes over the link to the next hop of the RIB entry for exactly its     *)
(* destination (DndNode's RouteMatchesRIB).  A write of processMessage     *)
(* acting on a stale read, and the reaper running inside it, must not      *)
(* leave the daemon routing over a neighbour the RIB no longer names.      *)
(***************************************************************************)
RouteMatchesRIB == N!RouteMatchesRIB
=============================================================================
