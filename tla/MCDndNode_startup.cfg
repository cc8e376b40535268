CONSTANTS
    Nodes <- MCNodes
    Services <- MCServices
    Registrations <- MCRegistrations
    None = None
    Malformed = Malformed
    Me = "me"
    Listeners = {l1}
    DefaultRoutes <- MCDefaultRoutes
    ConfigRoutes = {}
    ConfigLinks <- MCConfigLinks
    INFINITY = 2
    ROUTE_TIMEOUT = 0
    AddLocalEIDWildcard = TRUE
    RebroadcastRoutes = TRUE
    AdvDests <- MCAdvDestsP1
    AdvDists <- MCAdvDists
    MaxLines = 1
    MaxRestarts = 0
    MaxOutages = 1
    Modes = {"both"}
    SetupMayFail = FALSE
SPECIFICATION FairSpec
VIEW MCView
PROPERTY DefaultsInstantiated
CHECK_DEADLOCK FALSE
