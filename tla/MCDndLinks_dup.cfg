CONSTANTS
    Hosts <- MCHosts
    Ports <- MCPorts
    Peers <- MCPeers
    Dests = {d1, d2}
    Registered = {}
    DefaultRoutes = {d1}
    ConfigLinks <- MCConfigLinks
    RandomNames = {"dnd_a", "dnd_b"}
    ConsoleMayFail = TRUE
    None = None
SPECIFICATION Spec
INVARIANT NoDuplicateLink
