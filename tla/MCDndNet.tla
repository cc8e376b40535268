------------------------------ MODULE MCDndNet ------------------------------
EXTENDS DndNet

\* Three nodes, all in range of one another; "a" may stop.
MCNodes == {"a", "b", "c"}

\* Two nodes: the fewest for discovery, small enough for liveness checking.
MCPair == {"a", "b"}
=============================================================================
