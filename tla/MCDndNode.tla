----------------------------- MODULE MCDndNode -----------------------------
EXTENDS DndNode

\* Node names: "me" runs dnd.py, "p1" and "p2" are peers.
MCNodes == {"me", "p1", "p2"}
MCServices == {"s"}
MCRegistrations == << [node |-> "me", svc |-> "s"] >>
\* A default route to p1's wildcard over the link "default".
MCDefaultRoutes == << Wildcard("p1") >>
MCConfigLinks == {"default"}
MCAdvDests == {Wildcard("p1"), [node |-> "p1", svc |-> "s"], Wildcard("p2")}
MCAdvDists == 0 .. 1
\* p1's destinations only: the one the default route covers and one inside it.
MCAdvDestsP1 == {Wildcard("p1"), [node |-> "p1", svc |-> "s"]}

\* The advertisement sent is output only: nothing in this module reads it.
MCView == <<rib, routes, links, up, alive, phase, restarts, outages>>
=============================================================================
