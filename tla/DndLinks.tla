------------------------------ MODULE DndLinks ------------------------------
(***************************************************************************)
(* The daemon links dnd.py creates and reuses: tryAddRoute (499-527) with  *)
(* alreadyHaveLink (304-323), genNewLink (215-229) and the link list of    *)
(* getLinksRoutes (283-297), and the reaper's removeRoute (367-375).       *)
(* DndNode names a link after its peer; here a link has a name and the     *)
(* host:port it was added with, and hosts and ports are texts, so that     *)
(* string.find is the substring test it is in the code.                    *)
(*                                                                         *)
(* A link line of "route dump" starts with the link's name and holds the   *)
(* host:port the link connects to.  Names ("dnd_" and four letters or      *)
(* digits, or a configured name) hold neither ":" nor ".", so a host (it   *)
(* holds a ".") or a host:port is found in a link line exactly when it is  *)
(* found in the text of that link's host:port, and never at position 0.    *)
(* Destinations are EIDs none of which matches another's pattern.  Every   *)
(* talktcl call opens its own console connection, so with ConsoleMayFail   *)
(* each call of one tryAddRoute may get None while the next one answers.   *)
(***************************************************************************)
EXTENDS FiniteSets, SequencesExt

CONSTANTS
    Hosts,          \* host texts, sequences of one-character strings
    Ports,          \* port texts
    Peers,          \* the host:port pairs advertisements arrive from
    Dests,          \* destination EIDs advertised to this node
    Registered,     \* the Dests haveRegistrationForEID holds for
    DefaultRoutes,  \* the Dests of defaultRoutes, over the "default" link
    ConfigLinks,    \* the daemon's configured links: name -> [addr, opp]
    RandomNames,    \* "dnd_" + generateRandom(4): the names a draw can give
    ConsoleMayFail, \* a single talktcl call may find the console unreachable
    None

Addr == [host : Hosts, port : Ports]
LinkRec == [addr : Addr, opp : BOOLEAN]
DefaultLink == "default"

ASSUME /\ Peers \subseteq Addr
       /\ DefaultLink \in DOMAIN ConfigLinks
       /\ \A n \in DOMAIN ConfigLinks : ConfigLinks[n] \in LinkRec

VARIABLES
    links,   \* the daemon's links: name -> [addr, opp]
    routes,  \* the daemon's routes: a set of [dest, link]
    wanted   \* wanted[d]: the host:port tryAddRoute last added a route to d
             \* for, None once removeRoute took it away (history only)

vars == <<links, routes, wanted>>

(***************************************************************************)
(* The talktcl calls of one tryAddRoute, in the order it makes them, and   *)
(* whether each got an answer: the route dump and the "route del" of       *)
(* removeDefaultRouteFor, the route dump of haveRouteFor, the registration *)
(* list, the route dump of alreadyHaveLink, "link add" and "route add".    *)
(* A dump that gets None is read as no links and no routes, a registration *)
(* list that gets None as no registration, and a command that gets None   *)
(* is not carried out.  (The first dump only feeds genNewLink, which       *)
(* accepts any draw either way.)                                           *)
(***************************************************************************)
Calls == {"rdump", "rdel", "have", "reg", "alh", "linkadd", "routeadd"}
Answers == [Calls -> IF ConsoleMayFail THEN BOOLEAN ELSE {TRUE}]

\* host + ":" + port
Text(a) == a.host \o <<":">> \o a.port

\* string.find(t, s) >= 0
Occurs(s, t) == s \in SubSeqs(t)

(***************************************************************************)
(* The test alreadyHaveLink applies to one link line: the host:port is     *)
(* found in it, or the link is opportunistic and the host is found at a    *)
(* position > 0.                                                           *)
(***************************************************************************)
LinkMatches(l, a) ==
    \/ Occurs(Text(a), Text(l.addr))
    \/ l.opp /\ Occurs(a.host, Text(l.addr))

(***************************************************************************)
(* alreadyHaveLink(host:port) returns the name of the first matching link  *)
(* line.  The daemon lists its links in an order dnd.py does not set, so   *)
(* any matching link can come first: these are the names it can return,   *)
(* and the empty set stands for None.                                      *)
(***************************************************************************)
alreadyHaveLink(a) == {n \in DOMAIN links : LinkMatches(links[n], a)}

(***************************************************************************)
(* genNewLink(theLinks) draws four characters and accepts the draw as soon *)
(* as field 4 of one link line differs from it.  Link names carry the      *)
(* "dnd_" prefix, so no name ever equals the draw: every draw is accepted, *)
(* the name of a link in use included.                                     *)
(***************************************************************************)
genNewLink == RandomNames

\* "link add name host:port ONDEMAND tcp": a name in use is refused.
TclLinkAdd(n, a) ==
    IF n \in DOMAIN links THEN links
    ELSE links @@ (n :> [addr |-> a, opp |-> FALSE])

\* removeDefaultRouteFor(eid): "route del eid" if eid goes over "default".
removeDefaultRouteFor(rs, d) ==
    IF \E r \in rs : r.dest = d /\ r.link = DefaultLink
    THEN {r \in rs : r.dest # d}
    ELSE rs
-----------------------------------------------------------------------------
Init ==
    /\ links = ConfigLinks
    /\ routes = {[dest |-> d, link |-> DefaultLink] : d \in DefaultRoutes}
    /\ wanted = [d \in Dests |-> None]

(***************************************************************************)
(* tryAddRoute(host, port, eid), called by processMessage for a route line *)
(* from the peer at a.  After the default route is taken away, a route     *)
(* still there or a registration ends it; otherwise it adds a link (unless *)
(* the name is in use) and the route over the name.                        *)
(***************************************************************************)
AfterRemoveDefault(d, ok) ==
    IF ok["rdump"] /\ ok["rdel"] THEN removeDefaultRouteFor(routes, d) ELSE routes

Covered(d, ok) ==
    \/ ok["have"] /\ \E r \in AfterRemoveDefault(d, ok) : r.dest = d
    \/ ok["reg"] /\ d \in Registered

TryAddRouteCovered(a, d, ok) ==
    /\ Covered(d, ok)
    /\ routes' = AfterRemoveDefault(d, ok)
    /\ UNCHANGED <<links, wanted>>

\* "route add" over a name the daemon has no link for is refused.
TryAddRoute(a, d, ok) ==
    LET rs == AfterRemoveDefault(d, ok)
        found == IF ok["alh"] THEN alreadyHaveLink(a) ELSE {}
        names == IF found = {} THEN genNewLink ELSE found
    IN  /\ ~Covered(d, ok)
        /\ \E n \in names :
              /\ links' = IF ok["linkadd"] THEN TclLinkAdd(n, a) ELSE links
              /\ IF ok["routeadd"] /\ n \in DOMAIN links'
                 THEN /\ routes' = rs \cup {[dest |-> d, link |-> n]}
                      /\ wanted' = [wanted EXCEPT ![d] = a]
                 ELSE /\ routes' = rs
                      /\ UNCHANGED wanted

\* removeRoute(eid) from timeOutOldRoutes: "route del", then the default
\* route back for an EID of defaultRoutes.
RemoveRoute(d) ==
    /\ routes' = {r \in routes : r.dest # d}
                 \cup IF d \in DefaultRoutes
                     THEN {[dest |-> d, link |-> DefaultLink]} ELSE {}
    /\ wanted' = [wanted EXCEPT ![d] = None]
    /\ UNCHANGED links

Next ==
    \E a \in Peers, d \in Dests :
        \/ \E ok \in Answers : TryAddRouteCovered(a, d, ok) \/ TryAddRoute(a, d, ok)
        \/ RemoveRoute(d)

Spec == Init /\ [][Next]_vars
-----------------------------------------------------------------------------
(***************************************************************************)
(* Link reuse (spec section 8, idempotence): tryAddRoute adds a link only  *)
(* when alreadyHaveLink finds none for the host:port, so no two links go   *)
(* to the same host:port, even when a console call of tryAddRoute fails    *)
(* and a later one of the same call answers.                               *)
(***************************************************************************)
NoDuplicateLink ==
    \A n, m \in DOMAIN links : links[n].addr = links[m].addr => n = m

(***************************************************************************)
(* Every route tryAddRoute added for a destination goes over a link to the *)
(* host:port the advertisement came from, or an opportunistic link to its  *)
(* host (spec section 4.6: findOrCreateLink).                              *)
(***************************************************************************)
Reaches(l, a) == l.addr = a \/ (l.opp /\ l.addr.host = a.host)

RouteToPeer ==
    \A r \in routes : wanted[r.dest] # None => Reaches(links[r.link], wanted[r.dest])
=============================================================================
