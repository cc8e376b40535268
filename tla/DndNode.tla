------------------------------ MODULE DndNode ------------------------------
(***************************************************************************)
(* One dnd.py process beside its routing daemon.  The listener threads     *)
(* (doServer / processMessage) and the advertiser thread (doClient, which  *)
(* ends every period with timeOutOldRoutes) each run a whole handler under *)
(* messageProcessingMutex, so each handler is one atomic step here; the    *)
(* mutex itself is modelled in DndLock.  Peers are the environment: any    *)
(* datagram of Datagram may arrive at any time, any number of times, or    *)
(* never, which is what best-effort UDP gives.  The daemon is environment  *)
(* too: its console may become unreachable and it may restart.            *)
(***************************************************************************)
EXTENDS Integers, Sequences, SequencesExt, DndControl

CONSTANTS
    Me,                  \* the node running dnd.py; myEID is NodeEID(Me)
    Listeners,           \* one listener thread per -L bind spec
    DefaultRoutes,       \* defaultRoutes, in list order (link "default")
    ConfigRoutes,        \* daemon routes at start and after a restart
    ConfigLinks,         \* daemon links at start and after a restart
    INFINITY,            \* the "unreachable" distance
    ROUTE_TIMEOUT,       \* age at which a RIB entry times out
    AddLocalEIDWildcard, \* addLocalEIDWildcard == 1
    RebroadcastRoutes,   \* rebroadcastRoutes == 1
    AdvDests,            \* destination EIDs peers advertise
    AdvDists,            \* distances peers advertise
    MaxLines,            \* route lines per datagram
    Malformed,           \* a route line that does not parse
    MaxRestarts,         \* bound on daemon restarts
    MaxOutages,          \* bound on console outages
    Modes,               \* how main() may be started: "both" (no flag),
                         \* "server" (-s), "client" (-c), "remove" (-R)
    SetupMayFail         \* a thread's socket setup may raise or sys.exit

ASSUME /\ Me \in Nodes /\ ROUTE_TIMEOUT \in Nat /\ INFINITY \in Nat
       /\ Modes \subseteq {"both", "server", "client", "remove"}
       /\ SetupMayFail \in BOOLEAN

VARIABLES
    rib,       \* myRIB: sequence of [eid, dist, age, nh]
    routes,    \* the daemon's route table
    links,     \* the daemon's link names
    up,        \* the daemon's console answers
    alive,     \* alive[l]: listener thread l is still in its receive loop
    outbox,    \* the last advertisement the advertiser sent
    phase,     \* "starting" until main() has reset the routes; then
               \* "running", or "serving" without the advertiser (-s),
               \* or "exited"
    restarts,  \* daemon restarts so far
    outages    \* console outages so far

vars == <<rib, routes, links, up, alive, outbox, phase, restarts, outages>>

MyEID == NodeEID(Me)
NoRIBEntry == 99999   \* currentDistanceTo's "no RIB entry"

\* A route line "destEID distance nextHopEID" and a received datagram.
Triple == [dest : AdvDests, dist : AdvDists, nh : {NodeEID(n) : n \in Nodes}]
Datagram ==
    [sender : Nodes, lines : BoundedSeq(Triple \cup {Malformed}, MaxLines) \ {<<>>}]

RIBEntry ==
    [eid : EID, dist : Nat, age : 0 .. ROUTE_TIMEOUT + 1, nh : {NodeEID(n) : n \in Nodes}]

\* The node's own state and the daemon's, as one record for the handlers.
S == [rib |-> rib, routes |-> routes, links |-> links, up |-> up]

SetState(s) == rib' = s.rib /\ routes' = s.routes /\ links' = s.links

\* Python 2 orders None below every integer.
PyLess(a, b) == a = None \/ a < b
-----------------------------------------------------------------------------
(* Queries and commands of dnd.py built on the control channel.           *)

haveRouteFor(s, eid) == \E r \in DumpedRoutes(s) : ReSearch(r.dest, eid)

haveNonDefaultRouteFor(s, eid) ==
    \E r \in DumpedRoutes(s) : ReSearch(r.dest, eid) /\ r.link # DefaultLink

\* Deletes routes for eid itself, whichever default route matched it.
removeDefaultRouteFor(s, eid) ==
    IF \E r \in DumpedRoutes(s) : ReSearch(r.dest, eid) /\ r.link = DefaultLink
    THEN TclRouteDel(s, eid)
    ELSE s

\* Mutant: the "route del" is lost and only the default is put back.
removeRouteKeepsRoute(s, eid) ==
    IF \E i \in DOMAIN DefaultRoutes : DefaultRoutes[i] = eid
    THEN TclRouteAdd(s, eid, DefaultLink)
    ELSE s

removeRoute(s, eid) ==
    LET s1 == TclRouteDel(s, eid)
    IN  IF \E i \in DOMAIN DefaultRoutes : DefaultRoutes[i] = eid
        THEN TclRouteAdd(s1, eid, DefaultLink)
        ELSE s1

haveRegistrationForEID(s, eid) ==
    \/ FindIn(eid, MyEID)
    \/ /\ RegistrationList(s) # None
       /\ \E i \in DOMAIN Registrations : FindIn(eid, Registrations[i])

(***************************************************************************)
(* Links: the link dnd.py creates to a peer's host:port is named after the *)
(* peer.  alreadyHaveLink finds it in the daemon's link list; genNewLink   *)
(* stands for the random name "dnd_XXXX" taken to be unused.  DndLinks     *)
(* models names and addresses as the code has them, collisions and        *)
(* substring matches included.                                             *)
(***************************************************************************)
alreadyHaveLink(s, peer) == IF peer \in DumpedLinks(s) THEN peer ELSE None

genNewLink(peer) == peer

\* The link tryAddRoute adds the route over.
LinkTo(s, peer) ==
    IF alreadyHaveLink(s, peer) # None THEN alreadyHaveLink(s, peer)
    ELSE genNewLink(peer)

\* Mutant: the covering-route test ignores routes over "default".
tryAddRouteIgnoresDefault(s, peer, eid) ==
    LET s1 == removeDefaultRouteFor(s, eid)
    IN  IF haveNonDefaultRouteFor(s1, eid) \/ haveRegistrationForEID(s1, eid)
        THEN s1
        ELSE TclRouteAdd(TclLinkAdd(s1, LinkTo(s1, peer)), eid, LinkTo(s1, peer))

tryAddRoute(s, peer, eid) ==
    LET s1 == removeDefaultRouteFor(s, eid)
    IN  IF haveRouteFor(s1, eid) \/ haveRegistrationForEID(s1, eid)
        THEN s1
        ELSE TclRouteAdd(TclLinkAdd(s1, LinkTo(s1, peer)), eid, LinkTo(s1, peer))
-----------------------------------------------------------------------------
(* The RIB.                                                                *)

haveRIBEntryForEID(r, eid) == \E i \in DOMAIN r : ReSearch(r[i].eid, eid)

haveExactRIBEIDMatch(r, eid) == \E i \in DOMAIN r : r[i].eid = eid

\* The loop returns on its first pass: the distance of the FIRST entry if
\* any entry matches, 99999 if none does, None for an empty RIB.
currentDistanceTo(r, eid) ==
    IF r = <<>> THEN None
    ELSE IF haveRIBEntryForEID(r, eid) THEN r[1].dist
    ELSE NoRIBEntry

removeRIBEntry(r, eid) == SelectSeq(r, LAMBDA e : e.eid # eid)

\* Mutant: a new entry has EID and NHEID swapped.
refreshSwapsEIDs(r, eid, distance, nheid) ==
    IF nheid = MyEID THEN r
    ELSE IF haveExactRIBEIDMatch(r, eid)
    THEN [i \in DOMAIN r |->
            IF r[i].eid = eid THEN [r[i] EXCEPT !.dist = distance, !.age = 0]
            ELSE r[i]]
    ELSE Append(r, [eid |-> eid, dist |-> distance, age |-> 0, nh |-> eid])

refreshInternalRouteList(r, eid, distance, nheid) ==
    IF nheid = MyEID THEN r
    ELSE IF haveExactRIBEIDMatch(r, eid)
    THEN [i \in DOMAIN r |->
            IF r[i].eid = eid THEN [r[i] EXCEPT !.dist = distance, !.age = 0]
            ELSE r[i]]
    ELSE Append(r, [eid |-> eid, dist |-> distance, age |-> 0, nh |-> nheid])
-----------------------------------------------------------------------------
(* processMessage: one route line from sender, then the whole datagram.   *)

\* Mutant: the decision trusts the RIB and ignores whether the daemon still
\* has the route.
ProcessTripleRIBOnly(s, sender, t, myDist, daemonHasRoute) ==
    LET distance  == t.dist + 1
        senderEID == NodeEID(sender)
    IN
    IF myDist # None /\ myDist <= distance
    THEN IF haveExactRIBEIDMatch(s.rib, t.dest)
         THEN [s EXCEPT !.rib =
                 refreshInternalRouteList(@, t.dest, distance, senderEID)]
         ELSE s
    ELSE LET s1 == IF PyLess(myDist, NoRIBEntry)
                   THEN [removeRoute(s, t.dest) EXCEPT
                           !.rib = removeRIBEntry(@, t.dest)]
                   ELSE s
             s2 == tryAddRoute(s1, sender, t.dest)
         IN  [s2 EXCEPT !.rib =
                 refreshInternalRouteList(@, t.dest, distance, senderEID)]

(***************************************************************************)
(* One route line, given what lines 701-702 read before the branch: myDist *)
(* and daemonHasRoute.  The rest of the line reads the RIB and the daemon  *)
(* afresh (haveExactRIBEIDMatch, tryAddRoute's own route dump).            *)
(***************************************************************************)
ProcessTripleWith(s, sender, t, myDist, daemonHasRoute) ==
    LET distance  == t.dist + 1
        senderEID == NodeEID(sender)
    IN
    IF daemonHasRoute /\ myDist # None /\ myDist <= distance
    THEN IF haveExactRIBEIDMatch(s.rib, t.dest)
         THEN [s EXCEPT !.rib =
                 refreshInternalRouteList(@, t.dest, distance, senderEID)]
         ELSE s
    ELSE LET s1 == IF PyLess(myDist, NoRIBEntry)
                   THEN [removeRoute(s, t.dest) EXCEPT
                           !.rib = removeRIBEntry(@, t.dest)]
                   ELSE s
             s2 == tryAddRoute(s1, sender, t.dest)
         IN  [s2 EXCEPT !.rib =
                 refreshInternalRouteList(@, t.dest, distance, senderEID)]

\* Split horizon, then the line with both reads taken from s.
ProcessTriple(s, sender, t) ==
    IF t.nh = MyEID THEN s
    ELSE ProcessTripleWith(s, sender, t, currentDistanceTo(s.rib, t.dest),
                           haveNonDefaultRouteFor(s, t.dest))

\* The lines up to the first one that raises; the except clause ends the
\* loop there, keeping what the earlier lines did.
ParsedLines(ls) ==
    LET bad == SelectInSeq(ls, LAMBDA x : x = Malformed)
    IN  IF bad = 0 THEN ls ELSE SubSeq(ls, 1, bad - 1)

ProcessMessage(s, m) ==
    IF NodeEID(m.sender) = MyEID THEN s                  \* my own message
    ELSE FoldLeft(LAMBDA acc, t : ProcessTriple(acc, m.sender, t),
                  s, ParsedLines(m.lines))
-----------------------------------------------------------------------------
(* doClient: the advertisement, and timeOutOldRoutes.                      *)

AdvLine(d, n, h) == [dest |-> d, dist |-> n, nh |-> h]

alreadyCovered(ls, eid) == \E i \in DOMAIN ls : ReSearch(ls[i].dest, eid)

Advertisement(s) ==
    LET wild == IF AddLocalEIDWildcard
                THEN <<AdvLine(Wildcard(Me), 0, MyEID)>> ELSE <<>>
        regs == FoldLeft(LAMBDA ls, reg :
                            IF alreadyCovered(ls, reg) THEN ls
                            ELSE Append(ls, AdvLine(reg, 0, MyEID)),
                         wild, Registrations)
        learned == IF RebroadcastRoutes
                   THEN [i \in DOMAIN s.rib |->
                           AdvLine(s.rib[i].eid, s.rib[i].dist, s.rib[i].nh)]
                   ELSE <<>>
    IN  [sender |-> Me, lines |-> regs \o learned]

TimedOut(e) == e.age > ROUTE_TIMEOUT

\* Every timed-out entry has its route removed; it is dropped from the RIB
\* if its distance is INFINITY, otherwise its timestamp is reset.
\* Mutant: only the entries at INFINITY have their route removed.
timeOutOnlyInfinite(s) ==
    LET s1 == FoldLeft(LAMBDA acc, e : removeRoute(acc, e.eid),
                       s, SelectSeq(s.rib, LAMBDA e : TimedOut(e) /\ e.dist = INFINITY))
        kept == SelectSeq(s.rib, LAMBDA e : ~(TimedOut(e) /\ e.dist = INFINITY))
    IN  [s1 EXCEPT !.rib = [i \in DOMAIN kept |->
                              IF TimedOut(kept[i]) THEN [kept[i] EXCEPT !.age = 0]
                              ELSE kept[i]]]

timeOutOldRoutes(s) ==
    LET s1 == FoldLeft(LAMBDA acc, e : removeRoute(acc, e.eid),
                       s, SelectSeq(s.rib, TimedOut))
        kept == SelectSeq(s.rib, LAMBDA e : ~(TimedOut(e) /\ e.dist = INFINITY))
    IN  [s1 EXCEPT !.rib = [i \in DOMAIN kept |->
                              IF TimedOut(kept[i]) THEN [kept[i] EXCEPT !.age = 0]
                              ELSE kept[i]]]
-----------------------------------------------------------------------------
(* main(): removeExistingRoutes() then installDefaultRoutes().             *)

removeExistingRoutes(s) ==
    FoldSet(LAMBDA r, acc : TclRouteDel(acc, r.dest), s, DumpedRoutes(s))

installDefaultRoutes(s) ==
    FoldLeft(LAMBDA acc, eid :
                IF haveRouteFor(acc, eid) THEN acc
                ELSE TclRouteAdd(acc, eid, DefaultLink),
             s, DefaultRoutes)
-----------------------------------------------------------------------------
Init ==
    /\ rib = <<>>
    /\ routes = ConfigRoutes
    /\ links = ConfigLinks
    /\ up = TRUE
    /\ alive = [l \in Listeners |-> FALSE]   \* no thread started yet
    /\ outbox = None
    /\ phase = "starting"
    /\ restarts = 0
    /\ outages = 0

\* The threads main() has started take steps.
Started == phase \in {"running", "serving"}

(***************************************************************************)
(* main() exits when myLocalEID() or findListeningPort() gets None from    *)
(* talktcl; the console may also fail after them (ConsoleFail below).      *)
(***************************************************************************)
StartupExit ==
    /\ phase = "starting"
    /\ ~up
    /\ phase' = "exited"
    /\ UNCHANGED <<rib, routes, links, up, alive, outbox, restarts, outages>>

\* -R: removeExistingRoutes() and sys.exit.
RemoveAndExit ==
    /\ phase = "starting"
    /\ "remove" \in Modes
    /\ SetState(removeExistingRoutes(S))
    /\ phase' = "exited"
    /\ UNCHANGED <<up, alive, outbox, restarts, outages>>

(***************************************************************************)
(* Whether a started thread reaches its loop.  socket(), and for a         *)
(* multicast listen address IP_MULTICAST_IF and IP_ADD_MEMBERSHIP, end the *)
(* thread with sys.exit(0) when they fail, and a failing bind() raises out *)
(* of it; main() is not told.  A first recvfrom() that fails leaves addr  *)
(* unbound and the NameError at line 628 ends the listener, here or, as    *)
(* ReceiveEmpty does, later.                                               *)
(***************************************************************************)
doServerSetup == IF SetupMayFail THEN BOOLEAN ELSE {TRUE}

\* socket() and SO_BROADCAST end doClient with sys.exit(0) when they fail.
doClientSetup == IF SetupMayFail THEN BOOLEAN ELSE {TRUE}

(***************************************************************************)
(* main() without -R: reset the routes, install the default routes, start  *)
(* the advertiser unless -s and a listener per bind spec unless -c.        *)
(* phase is "serving" when no advertiser runs, -s or a failed setup.       *)
(***************************************************************************)
Startup ==
    /\ phase = "starting"
    /\ \E mode \in Modes \ {"remove"} :
          /\ \E client \in IF mode = "server" THEN {FALSE} ELSE doClientSetup :
                phase' = IF client THEN "running" ELSE "serving"
          /\ alive' \in [Listeners -> IF mode = "client" THEN {FALSE}
                                     ELSE doServerSetup]
    /\ SetState(installDefaultRoutes(removeExistingRoutes(S)))
    /\ UNCHANGED <<up, outbox, restarts, outages>>

\* doServer receives a datagram and hands it to processMessage.
Receive(l, m) ==
    /\ Started
    /\ alive[l]
    /\ SetState(ProcessMessage(S, m))
    /\ UNCHANGED <<up, alive, outbox, phase, restarts, outages>>

\* A zero-length datagram ("Client has exited!") ends the receive loop; so
\* does a first recvfrom() that fails (NameError on addr, line 628).
ReceiveEmpty(l) ==
    /\ Started
    /\ alive[l]
    /\ alive' = [alive EXCEPT ![l] = FALSE]
    /\ UNCHANGED <<rib, routes, links, up, outbox, phase, restarts, outages>>

\* One period of doClient; with the console unreachable the tick is skipped
\* (getRegistrationList() is None) and changes nothing.
Advertise ==
    /\ phase = "running"
    /\ up
    /\ outbox' = Advertisement(S)
    /\ SetState(timeOutOldRoutes(S))
    /\ UNCHANGED <<up, alive, phase, restarts, outages>>

\* One unit of time passes: every RIB entry ages.
Tick ==
    /\ Started
    /\ rib' = [i \in DOMAIN rib |->
                 [rib[i] EXCEPT !.age = IF @ > ROUTE_TIMEOUT THEN @ ELSE @ + 1]]
    /\ UNCHANGED <<routes, links, up, alive, outbox, phase, restarts, outages>>

\* The console stops answering, also between main()'s myLocalEID() and
\* removeExistingRoutes().
ConsoleFail ==
    /\ up
    /\ outages < MaxOutages
    /\ up' = FALSE
    /\ outages' = outages + 1
    /\ UNCHANGED <<rib, routes, links, alive, outbox, phase, restarts>>

ConsoleRecover ==
    /\ ~up
    /\ up' = TRUE
    /\ UNCHANGED <<rib, routes, links, alive, outbox, phase, restarts, outages>>

\* The daemon restarts from its configuration; dnd.py keeps running.
DaemonRestart ==
    /\ Started
    /\ restarts < MaxRestarts
    /\ routes' = ConfigRoutes
    /\ links' = ConfigLinks
    /\ restarts' = restarts + 1
    /\ UNCHANGED <<rib, up, alive, outbox, phase, outages>>

Next ==
    \/ StartupExit
    \/ RemoveAndExit
    \/ Startup
    \/ \E l \in Listeners, m \in Datagram : Receive(l, m)
    \/ \E l \in Listeners : ReceiveEmpty(l)
    \/ Advertise
    \/ Tick
    \/ ConsoleFail
    \/ ConsoleRecover
    \/ DaemonRestart

Spec == Init /\ [][Next]_vars

(***************************************************************************)
(* doClient loops forever, sleeping broadcastInterval between periods, so  *)
(* a running advertiser with the console up does take its next period;    *)
(* time passes; and a console that is down comes back (dtnd answers again *)
(* once it is up, an assumption about the daemon).                        *)
(***************************************************************************)
FairSpec == Spec /\ WF_vars(Advertise) /\ WF_vars(Tick) /\ WF_vars(ConsoleRecover)
-----------------------------------------------------------------------------
(* Properties.                                                            *)

TypeOK ==
    /\ rib \in Seq(RIBEntry)
    /\ routes \subseteq [dest : EID, link : {DefaultLink} \cup Nodes]
    /\ links \subseteq {DefaultLink} \cup Nodes
    /\ up \in BOOLEAN
    /\ alive \in [Listeners -> BOOLEAN]
    /\ phase \in {"starting", "running", "serving", "exited"}

(***************************************************************************)
(* Every learned route in the daemon's table is shadowed by the RIB entry  *)
(* for exactly its destination, and goes over the link to that entry's     *)
(* next hop: processMessage, tryAddRoute and timeOutOldRoutes change the   *)
(* daemon and the RIB in separate calls, and only their order keeps the    *)
(* two in step.                                                            *)
(***************************************************************************)
RouteMatchesRIB ==
    \A r \in routes :
        r.link # DefaultLink =>
            \E i \in DOMAIN rib : rib[i].eid = r.dest /\ rib[i].nh = NodeEID(r.link)

(***************************************************************************)
(* Default-route precedence: while a learned route covered by a default   *)
(* route's pattern is installed, that default route is not (the comment   *)
(* above defaultRoutes: no duplicate bundles over both paths).            *)
(***************************************************************************)
DefaultPrecedence ==
    \A r \in routes, i \in DOMAIN DefaultRoutes :
        r.link # DefaultLink /\ ReSearch(DefaultRoutes[i], r.dest)
            => Route(DefaultRoutes[i], DefaultLink) \notin routes

(***************************************************************************)
(* A reaper pass leaves no learned route to a destination whose RIB entry  *)
(* had timed out: timeOutOldRoutes calls removeRoute for each of them, and *)
(* removeRoute may put back only the route over the "default" link.        *)
(***************************************************************************)
ReaperRetracts ==
    [][Advertise =>
         \A i \in DOMAIN rib, r \in routes' :
             TimedOut(rib[i]) /\ r.dest = rib[i].eid => r.link = DefaultLink]_vars

(***************************************************************************)
(* Monotonic improvement: an installed RIB entry (its route over the link  *)
(* to its next hop is in the daemon) is replaced by a route through        *)
(* another next hop only if that route is strictly shorter.                *)
(***************************************************************************)
Installed(e) == Route(e.eid, e.nh.node) \in routes

NoWorseReplacement ==
    [][\A i \in DOMAIN rib, j \in DOMAIN rib' :
          /\ Installed(rib[i])
          /\ rib'[j].eid = rib[i].eid
          /\ rib'[j].nh # rib[i].nh
          => rib'[j].dist < rib[i].dist]_vars

(***************************************************************************)
(* A duplicated datagram changes nothing: processMessage applied to the   *)
(* state it produced leaves the RIB's entries, routes and links as they    *)
(* are.  UDP may deliver any advertisement twice, and recvfrom's except   *)
(* clause re-processes the previous datagram.                              *)
(***************************************************************************)
Idempotent ==
    phase = "running" =>
        \A m \in Datagram :
            LET s1 == ProcessMessage(S, m)
                s2 == ProcessMessage(s1, m)
            IN  /\ ToSet(s2.rib) = ToSet(s1.rib)
                /\ s2.routes = s1.routes
                /\ s2.links = s1.links

(***************************************************************************)
(* Routes expire once nothing is learned: when every listener thread has   *)
(* ended (a zero-length datagram, a failed setup or first recvfrom) while  *)
(* the advertiser runs, the daemon eventually holds no learned route.  The *)
(* RIB entries age (Tick), the reaper at the end of each doClient period   *)
(* removes the route of every timed-out entry, across console outages and *)
(* daemon restarts; nothing re-adds one without a datagram.                *)
(***************************************************************************)
NoLearnedRoute == \A r \in routes : r.link = DefaultLink

ListenersGoneRoutesExpire ==
    (phase = "running" /\ \A l \in Listeners : ~alive[l]) ~> NoLearnedRoute

(***************************************************************************)
(* The comment above defaultRoutes: if there is no other way to reach a    *)
(* default route's destination, that route is instantiated.  Once dnd.py   *)
(* runs and the console answers, the daemon eventually has the default     *)
(* route or a route inside its pattern.  main() installs the default       *)
(* routes once (installDefaultRoutes), and only removeRoute adds one back. *)
(***************************************************************************)
Instantiated(p) == \E r \in routes : ReSearch(p, r.dest)

DefaultsInstantiated ==
    \A i \in DOMAIN DefaultRoutes :
        (Started /\ up) ~> Instantiated(DefaultRoutes[i])
=============================================================================
