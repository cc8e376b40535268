CONSTANTS
    Nodes <- MCPair
    Services = {}
    None = None
    ConfigLinks = {}
    INFINITY = 100
    ROUTE_TIMEOUT = 2
    AddLocalEIDWildcard = TRUE
    RebroadcastRoutes = TRUE
    Victim = "a"
    MaxDist = 6
    MaxSince = 6
    StrayEmpty = TRUE
SPECIFICATION FairSpec
INVARIANT TypeOK
PROPERTY DiscoveryWhileListening
