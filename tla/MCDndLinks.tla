----------------------------- MODULE MCDndLinks -----------------------------
EXTENDS DndLinks

\* Texts of the instance, one character per element.  "1.2:5" is found in
\* "11.2:50" as "10.0.0.1:500" is in "10.0.0.11:5000", and the host "1.2"
\* in every line of host "11.2".
H1 == <<"1", ".", "2">>
H2 == <<"1", "1", ".", "2">>
H9 == <<"9", ".", "9">>
P5 == <<"5">>
P50 == <<"5", "0">>
P7 == <<"7">>

MCHosts == {H1, H2, H9}
MCPorts == {P5, P50, P7}
MCPeers == {[host |-> H1, port |-> P5], [host |-> H2, port |-> P50]}

\* Three peers, one of them on a host an opportunistic link goes to.
MCPeers3 == MCPeers \cup {[host |-> H2, port |-> P5]}

\* The configured "default" link, and one opportunistic link dtnd opened
\* to a peer it discovered.
MCConfigLinks ==
    ("default" :> [addr |-> [host |-> H9, port |-> P5], opp |-> FALSE])
    @@ ("opportunistic-0" :> [addr |-> [host |-> H1, port |-> P7], opp |-> TRUE])

MCDefaultOnly ==
    "default" :> [addr |-> [host |-> H9, port |-> P5], opp |-> FALSE]
=============================================================================
