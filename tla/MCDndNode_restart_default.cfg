CONSTANTS
    Nodes <- MCNodes
    Services <- MCServices
    Registrations <- MCRegistrations
    None = None
    Malformed = Malformed
    Me = "me"
    Listeners = {l1}
    DefaultRoutes <- MCDefaultRoutes
    ConfigRoutes = {}
    ConfigLinks <- MCConfigLinks
    INFINITY = 2
    ROUTE_TIMEOUT = 0
    AddLocalEIDWildcard = TRUE
    RebroadcastRoutes = TRUE
    AdvDests <- MCAdvDests
    AdvDists <- MCAdvDists
    MaxLines = 1
    MaxRestarts = 1
    MaxOutages = 0
    Modes = {"both"}
    SetupMayFail = FALSE
SPECIFICATION Spec
VIEW MCView
INVARIANT DefaultPrecedence
