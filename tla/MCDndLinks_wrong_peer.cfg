CONSTANTS
    Hosts <- MCHosts
    Ports <- MCPorts
    Peers <- MCPeers
    Dests = {d1, d2}
    Registered = {}
    DefaultRoutes = {d1}
    ConfigLinks <- MCDefaultOnly
    RandomNames = {"dnd_a", "dnd_b"}
    ConsoleMayFail = FALSE
    None = None
SPECIFICATION Spec
INVARIANT RouteToPeer
