---------------------------- MODULE MCDndThreads ----------------------------
EXTENDS DndThreads

\* The instance of MCDndNode: "me" runs dnd.py, "p1" and "p2" are peers.
MCNodes == {"me", "p1", "p2"}
MCServices == {"s"}
MCRegistrations == << [node |-> "me", svc |-> "s"] >>
MCDefaultRoutes == << [node |-> "p1", svc |-> "*"] >>
MCConfigLinks == {"default"}
MCAdvDests == {[node |-> "p1", svc |-> "*"], [node |-> "p1", svc |-> "s"], [node |-> "p2", svc |-> "*"]}
MCAdvDists == {0}

\* The advertisement sent is output only; a listener's datagram and line
\* index are read only between Receive and the unlock, and what it read
\* for a line only in "write", so elsewhere they are left out.
MCLocal(l) ==
    << IF pc[l] = "idle" THEN None ELSE msg[l],
       IF pc[l] = "idle" THEN 1 ELSE idx[l],
       IF pc[l] = "write" THEN dec[l] ELSE None >>

MCView == <<rib, routes, links, alive, phase, up, locked, pc,
            [l \in Listeners |-> MCLocal(l)]>>
=============================================================================
