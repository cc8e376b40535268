CONSTANTS
    Nodes <- MCNodes
    Services <- MCServices
    Registrations <- MCRegistrations
    None = None
    Malformed = Malformed
    Me = "me"
    Listeners = {l1}
    DefaultRoutes <- MCDefaultRoutes
    ConfigRoutes = {}
    ConfigLinks <- MCConfigLinks
    INFINITY = 2
    ROUTE_TIMEOUT = 0
    AddLocalEIDWildcard = TRUE
    RebroadcastRoutes = TRUE
    AdvDests <- MCAdvDestsP1
    AdvDists <- MCAdvDists
    MaxLines = 1
    MaxRestarts = 1
    MaxOutages = 1
    Modes = {"both", "server", "client", "remove"}
    SetupMayFail = TRUE
SPECIFICATION FairSpec
VIEW MCView
INVARIANT TypeOK
PROPERTY ListenersGoneRoutesExpire
CHECK_DEADLOCK FALSE
