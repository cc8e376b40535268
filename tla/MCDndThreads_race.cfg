CONSTANTS
    Nodes <- MCNodes
    Services <- MCServices
    Registrations <- MCRegistrations
    None = None
    Malformed = Malformed
    Me = "me"
    Listeners = {l1}
    Client = c
    DefaultRoutes <- MCDefaultRoutes
    ConfigRoutes = {}
    ConfigLinks <- MCConfigLinks
    INFINITY = 2
    ROUTE_TIMEOUT = 0
    AddLocalEIDWildcard = TRUE
    RebroadcastRoutes = TRUE
    AdvDests <- MCAdvDests
    AdvDists <- MCAdvDists
    MaxLines = 1
    AtomicTestAndSet = FALSE
    SendMalformed = FALSE
SPECIFICATION Spec
VIEW MCView
PROPERTY ImplementsDndNode
