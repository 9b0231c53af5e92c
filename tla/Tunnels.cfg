SPECIFICATION FairSpec
CONSTANTS
    HTTPRoutes = {"h"}
    TCPRoutes = {"t"}
    Nics = {"eth0", "eth1", "ens5"}
    DefaultNic = "eth0"
    Enis = {"eth1"}
    OnEKS = TRUE
    Encaps = {"default"}
    Decaps = {"ens5"}
    Backends = {"here", "split", "nodeless"}
    MaxEvents = 2
INVARIANTS
    TypeOK
    WorkerHolds
    OnlyFailuresLeft
PROPERTIES
    TunnelsUp
    EventuallyReleased
CHECK_DEADLOCK FALSE
