------------------------------ MODULE DndLock ------------------------------
(***************************************************************************)
(* messageProcessingMutex of dnd.py and the threads that take it: one      *)
(* listener thread per bind spec, each running processMessage for every    *)
(* datagram, and the advertiser thread doClient.  Both take the mutex by   *)
(* spinning on mutex.testandset() with sleep(1) between attempts and give  *)
(* it back with mutex.unlock().  testandset() of Python's mutex module is  *)
(* "if not self.locked: self.locked = True", a test and a store between    *)
(* which the interpreter may switch threads; AtomicTestAndSet = TRUE       *)
(* models the lock the comment above the mutex assumes.  unlock() with an  *)
(* empty queue sets locked to FALSE, whoever holds it.  What a handler     *)
(* does inside the mutex is DndNode's business; here it only ends, either  *)
(* by returning or by raising.                                             *)
(***************************************************************************)
EXTENDS Naturals, FiniteSets

CONSTANTS
    Listeners,         \* listener threads
    Client,            \* the advertiser thread
    AtomicTestAndSet,  \* testandset() runs without a thread switch
    ListenerMayRaise,  \* processMessage's body may raise
    ClientMayRaise,    \* doClient's loop body may raise
    ConsoleMayClose    \* the daemon may close a console connection early

Threads == Listeners \cup {Client}

VARIABLES
    locked,  \* messageProcessingMutex.locked
    pc       \* pc[t]: where thread t is

vars == <<locked, pc>>

Init ==
    /\ locked = FALSE
    /\ pc = [t \in Threads |-> "idle"]

\* A listener's recvfrom returns a datagram: processMessage starts spinning.
Receive(t) ==
    /\ t \in Listeners
    /\ pc[t] = "idle"
    /\ pc' = [pc EXCEPT ![t] = "test"]
    /\ UNCHANGED locked

\* The advertiser wakes from sleep(broadcastInterval) and starts spinning.
Wake ==
    /\ pc[Client] = "idle"
    /\ pc' = [pc EXCEPT ![Client] = "test"]
    /\ UNCHANGED locked

\* testandset() finds the mutex taken: the thread sleeps and tries again.
Spin(t) ==
    /\ pc[t] = "test"
    /\ locked
    /\ UNCHANGED vars

\* Mutant: testandset() does not look at the flag it sets.
TestLockUnguarded(t) ==
    /\ pc[t] = "test"
    /\ IF AtomicTestAndSet
       THEN locked' = TRUE /\ pc' = [pc EXCEPT ![t] = "cs"]
       ELSE pc' = [pc EXCEPT ![t] = "set"] /\ UNCHANGED locked

\* testandset() reads locked = FALSE.
TestLock(t) ==
    /\ pc[t] = "test"
    /\ ~locked
    /\ IF AtomicTestAndSet
       THEN locked' = TRUE /\ pc' = [pc EXCEPT ![t] = "cs"]
       ELSE pc' = [pc EXCEPT ![t] = "set"] /\ UNCHANGED locked

\* ... and then stores locked = TRUE and returns True.
SetLock(t) ==
    /\ pc[t] = "set"
    /\ locked' = TRUE
    /\ pc' = [pc EXCEPT ![t] = "cs"]

(***************************************************************************)
(* processMessage ends: its own message (return after unlock), the end of  *)
(* the try block (unlock), or an exception, whose except clause unlocks    *)
(* and then falls through to the unlock after the try statement.           *)
(***************************************************************************)
\* Mutant: the early return for our own message forgets the unlock.
ListenerExitKeepsLock(t) ==
    /\ t \in Listeners
    /\ pc[t] = "cs"
    /\ \E raised \in IF ListenerMayRaise THEN BOOLEAN ELSE {FALSE} :
           /\ pc' = [pc EXCEPT ![t] = IF raised THEN "unlock2" ELSE "idle"]
           /\ locked' = (locked /\ ~raised)

ListenerExit(t) ==
    /\ t \in Listeners
    /\ pc[t] = "cs"
    /\ locked' = FALSE
    /\ \E raised \in IF ListenerMayRaise THEN BOOLEAN ELSE {FALSE} :
           pc' = [pc EXCEPT ![t] = IF raised THEN "unlock2" ELSE "idle"]

SecondUnlock(t) ==
    /\ pc[t] = "unlock2"
    /\ locked' = FALSE
    /\ pc' = [pc EXCEPT ![t] = "idle"]

(***************************************************************************)
(* doClient's loop body ends: "continue" after unlock when the daemon does *)
(* not answer, or unlock after sending and timeOutOldRoutes.  The body has *)
(* no try statement: an exception ends the thread with the mutex held.     *)
(***************************************************************************)
(***************************************************************************)
(* Inside the mutex both handlers call talktcl.  Its receive loop ends     *)
(* only when two prompts have arrived; if the daemon closes the connection *)
(* first, sock.recv returns "" for ever, no exception is raised, and the   *)
(* thread spins in the loop with the mutex held.                           *)
(***************************************************************************)
ConsoleClosed(t) ==
    /\ ConsoleMayClose
    /\ pc[t] = "cs"
    /\ pc' = [pc EXCEPT ![t] = "talktcl"]
    /\ UNCHANGED locked

ClientExit ==
    /\ pc[Client] = "cs"
    /\ \E raised \in IF ClientMayRaise THEN BOOLEAN ELSE {FALSE} :
           /\ pc' = [pc EXCEPT ![Client] = IF raised THEN "dead" ELSE "idle"]
           /\ locked' = (raised /\ locked)

Next ==
    \/ \E t \in Listeners : Receive(t)
    \/ Wake
    \/ \E t \in Threads : Spin(t) \/ TestLock(t) \/ SetLock(t)
    \/ \E t \in Listeners : ListenerExit(t) \/ SecondUnlock(t)
    \/ ClientExit
    \/ \E t \in Threads : ConsoleClosed(t)

(***************************************************************************)
(* Threads are scheduled fairly once runnable; the advertiser's sleep      *)
(* always ends.  Datagram arrival is up to the peers and is not fair.      *)
(***************************************************************************)
Fairness ==
    /\ WF_vars(Wake) /\ WF_vars(ClientExit)
    /\ \A t \in Threads : WF_vars(TestLock(t)) /\ WF_vars(SetLock(t))
    /\ \A t \in Listeners : WF_vars(ListenerExit(t)) /\ WF_vars(SecondUnlock(t))

Spec == Init /\ [][Next]_vars /\ Fairness
-----------------------------------------------------------------------------
InCS == {t \in Threads : pc[t] \in {"cs", "talktcl"}}

(***************************************************************************)
(* The comment above messageProcessingMutex: the listener threads and the *)
(* advertiser never run their handlers at the same time.                  *)
(***************************************************************************)
MutualExclusion == Cardinality(InCS) <= 1

=============================================================================
