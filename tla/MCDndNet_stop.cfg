CONSTANTS
    Nodes <- MCNodes
    Services = {}
    None = None
    ConfigLinks = {}
    INFINITY = 100
    ROUTE_TIMEOUT = 0
    AddLocalEIDWildcard = TRUE
    RebroadcastRoutes = TRUE
    Victim = "a"
    MaxDist = 6
    MaxSince = 3
    StrayEmpty = FALSE
SPECIFICATION Spec
INVARIANT RetractedAfterStop
