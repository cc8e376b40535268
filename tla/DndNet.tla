------------------------------- MODULE DndNet -------------------------------
(***************************************************************************)
(* Several dnd.py nodes, each beside its own routing daemon, in broadcast  *)
(* range of one another.  Node(n) is DndNode for the node n: its           *)
(* Advertisement, timeOutOldRoutes and ProcessMessage are the handlers of  *)
(* this node, applied to its share of the state.                           *)
(*                                                                         *)
(* Time advances in periods of broadcastInterval.  In every period each    *)
(* running node's doClient sends one advertisement to every other node     *)
(* and then runs timeOutOldRoutes; Tick ends the period once all of them   *)
(* have.  ROUTE_TIMEOUT is counted in periods.  UDP may lose a datagram or *)
(* deliver it twice, and its delay is far below broadcastInterval, so a    *)
(* datagram not delivered by the end of its period is lost.  One node,     *)
(* Victim, may stop for good (its host goes down or dnd.py is killed).     *)
(***************************************************************************)
EXTENDS Integers, Sequences, FiniteSets

CONSTANTS
    Nodes, Services, None, ConfigLinks, INFINITY, ROUTE_TIMEOUT,
    AddLocalEIDWildcard, RebroadcastRoutes,
    Victim,     \* the node that may stop
    MaxDist,    \* bound: datagrams with a distance past it are not delivered
    MaxSince,   \* bound: periods counted after the stop
    StrayEmpty  \* a zero-length datagram can reach a node

\* MaxSince leaves every hop of the longest path ROUTE_TIMEOUT + 1 periods
\* to let a dead entry time out.
ASSUME Victim \in Nodes /\ MaxSince >= (ROUTE_TIMEOUT + 1) * Cardinality(Nodes)

VARIABLES
    ribs,      \* ribs[n]: myRIB of node n
    routesOf,  \* routesOf[n]: the route table of n's daemon
    linksOf,   \* linksOf[n]: the links of n's daemon
    chan,      \* chan[<<f, t>>]: f's advertisement on its way to t, or None
    sent,      \* sent[n]: n's doClient has advertised in this period
    running,   \* running[n]: n's dnd.py is running
    listening, \* listening[n]: n's doServer loop is still receiving
    since      \* periods since Victim stopped, -1 before

vars == <<ribs, routesOf, linksOf, chan, sent, running, listening, since>>

Node(n) == INSTANCE DndNode
    WITH Me <- n, Registrations <- <<>>, Listeners <- {}, DefaultRoutes <- <<>>,
         ConfigRoutes <- {}, AdvDests <- {}, AdvDists <- {}, MaxLines <- 1,
         Malformed <- None, MaxRestarts <- 0, MaxOutages <- 0, Modes <- {"both"}, SetupMayFail <- FALSE,
         rib <- ribs[n], routes <- routesOf[n], links <- linksOf[n], up <- TRUE,
         alive <- <<>>, outbox <- None, phase <- "running",
         restarts <- 0, outages <- 0

Pairs == {p \in Nodes \X Nodes : p[1] # p[2]}

\* Node n's handler returned s: its RIB and its daemon take s's values.
SetNode(n, s) ==
    /\ ribs' = [ribs EXCEPT ![n] = s.rib]
    /\ routesOf' = [routesOf EXCEPT ![n] = s.routes]
    /\ linksOf' = [linksOf EXCEPT ![n] = s.links]

\* main() has run: no routes (no default routes are configured), empty RIB.
Init ==
    /\ ribs = [n \in Nodes |-> <<>>]
    /\ routesOf = [n \in Nodes |-> {}]
    /\ linksOf = [n \in Nodes |-> ConfigLinks]
    /\ chan = [p \in Pairs |-> None]
    /\ sent = [n \in Nodes |-> FALSE]
    /\ running = [n \in Nodes |-> TRUE]
    /\ listening = [n \in Nodes |-> TRUE]
    /\ since = -1

\* One pass of doClient's loop: send to everyone, then timeOutOldRoutes.
Advertise(n) ==
    /\ running[n]
    /\ ~sent[n]
    /\ chan' = [p \in Pairs |->
                  IF p[1] = n THEN Node(n)!Advertisement(Node(n)!S) ELSE chan[p]]
    /\ SetNode(n, Node(n)!timeOutOldRoutes(Node(n)!S))
    /\ sent' = [sent EXCEPT ![n] = TRUE]
    /\ UNCHANGED <<running, listening, since>>

Bounded(m) == \A i \in DOMAIN m.lines : m.lines[i].dist < MaxDist

\* doServer hands the datagram to processMessage; a copy may stay in the
\* network and arrive again.
Deliver(f, t) ==
    /\ running[t]
    /\ listening[t]
    /\ chan[<<f, t>>] # None
    /\ Bounded(chan[<<f, t>>])
    /\ SetNode(t, Node(t)!ProcessMessage(Node(t)!S, chan[<<f, t>>]))
    /\ \E again \in BOOLEAN :
          chan' = IF again THEN chan ELSE [chan EXCEPT ![<<f, t>>] = None]
    /\ UNCHANGED <<sent, running, listening, since>>

Lose(f, t) ==
    /\ chan[<<f, t>>] # None
    /\ chan' = [chan EXCEPT ![<<f, t>>] = None]
    /\ UNCHANGED <<ribs, routesOf, linksOf, sent, running, listening, since>>

\* The period ends: every RIB entry is one period older.
Tick ==
    /\ \A n \in Nodes : running[n] => sent[n]
    /\ ribs' = [n \in Nodes |->
                  [i \in DOMAIN ribs[n] |->
                     [ribs[n][i] EXCEPT !.age = IF @ > ROUTE_TIMEOUT THEN @ ELSE @ + 1]]]
    /\ chan' = [p \in Pairs |-> None]
    /\ sent' = [n \in Nodes |-> FALSE]
    /\ since' = IF since >= 0 /\ since < MaxSince THEN since + 1 ELSE since
    /\ UNCHANGED <<routesOf, linksOf, running, listening>>

Stop ==
    /\ running[Victim]
    /\ running' = [running EXCEPT ![Victim] = FALSE]
    /\ since' = 0
    /\ UNCHANGED <<ribs, routesOf, linksOf, chan, sent, listening>>

\* Anyone may send n a zero-length datagram; "if not data: break" ends
\* n's receive loop (lines 630-632), and nothing restarts it.
EmptyDatagram(n) ==
    /\ StrayEmpty
    /\ running[n]
    /\ listening[n]
    /\ listening' = [listening EXCEPT ![n] = FALSE]
    /\ UNCHANGED <<ribs, routesOf, linksOf, chan, sent, running, since>>

Next ==
    \/ \E n \in Nodes : Advertise(n)
    \/ \E p \in Pairs : Deliver(p[1], p[2]) \/ Lose(p[1], p[2])
    \/ Tick
    \/ Stop
    \/ \E n \in Nodes : EmptyDatagram(n)

Spec == Init /\ [][Next]_vars

(***************************************************************************)
(* doClient's loop sleeps broadcastInterval and sends again, and the       *)
(* periods go on (weak fairness of Advertise and Tick).  UDP loses         *)
(* datagrams at random, not forever: a datagram that is sent again and     *)
(* again is delivered at some point (strong fairness of Deliver).  Lose    *)
(* and Stop need not happen.                                               *)
(***************************************************************************)
FairSpec ==
    /\ Spec
    /\ \A n \in Nodes : WF_vars(Advertise(n))
    /\ WF_vars(Tick)
    /\ \A p \in Pairs : SF_vars(Deliver(p[1], p[2]))
-----------------------------------------------------------------------------
TypeOK ==
    /\ \A n \in Nodes : ribs[n] \in Seq(Node(n)!RIBEntry)
    /\ sent \in [Nodes -> BOOLEAN]
    /\ running \in [Nodes -> BOOLEAN]
    /\ listening \in [Nodes -> BOOLEAN]
    /\ since \in -1 .. MaxSince

HasRouteTo(n, d) == \E r \in routesOf[n] : r.dest = Node(n)!Wildcard(d)

(***************************************************************************)
(* A stopped node's routes age out: MaxSince periods after Victim stopped, *)
(* time enough for an entry to time out at every hop of the longest path,  *)
(* no daemon still routes to dtn://Victim/*.  This is what the reaper      *)
(* timeOutOldRoutes is for; it fails if the nodes keep re-advertising the  *)
(* dead destination to one another.                                        *)
(***************************************************************************)
RetractedAfterStop ==
    since = MaxSince => \A n \in Nodes : ~HasRouteTo(n, Victim)

(***************************************************************************)
(* Discovery: two running nodes route to each other's dtn://node/* again   *)
(* and again.  The reaper may retract a route whose advertisements were    *)
(* lost, so it need not stay; processMessage must reinstall it when the    *)
(* next advertisement arrives, which it does only because it asks the      *)
(* daemon (daemonHasRoute) and not just the RIB.  Spec section 7 adds that *)
(* one bad peer cannot wedge the listener that learning depends on.        *)
(***************************************************************************)
Discovery ==
    \A n, m \in Nodes :
        n # m => []<>(running[n] /\ running[m] => HasRouteTo(n, m))

(***************************************************************************)
(* Discovery as far as the code keeps it: a node whose receive loop still *)
(* runs routes to every running node again and again, even when the other *)
(* node's listener has ended; the other node goes on advertising.          *)
(***************************************************************************)
DiscoveryWhileListening ==
    \A n, m \in Nodes :
        n # m => []<>(running[n] /\ listening[n] /\ running[m] => HasRouteTo(n, m))

\* n's daemon forwards bundles for d's wildcard over its link to m.
RoutesVia(n, d, m) == [dest |-> Node(n)!Wildcard(d), link |-> m] \in routesOf[n]

(***************************************************************************)
(* Split horizon (line 695) keeps two neighbours from routing a            *)
(* destination through each other: a node does not take a route that its  *)
(* neighbour learned from it.  Spec section 1 promises loop freedom to    *)
(* exactly this depth.                                                     *)
(***************************************************************************)
NoTwoNodeLoop ==
    \A n, m, d \in Nodes :
        ~(RoutesVia(n, d, m) /\ RoutesVia(m, d, n))
=============================================================================
