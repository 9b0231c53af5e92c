SPECIFICATION RulesSpec
CONSTANTS
    Star = "*"
    Unset = "unset"
    Names <- MCNames
    Hostnames <- MCHostnames
    MaxListeners = 2
    MaxHostnames = 2
    Parents = {p1, p2}
    MaxParents = 2
    MaxGeneration = 3
    MaxRoutes = 3
    MaxIndex = 2
    MaxMetric = 2
INVARIANTS
    HostsSound
    HostsExact
    AllowedIsReachable
    OneEntryEach
    DefaultIsGood
    OwnersConsent
PROPERTIES
    OthersKept
CHECK_DEADLOCK FALSE
