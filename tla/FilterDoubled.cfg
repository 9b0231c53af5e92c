SPECIFICATION Spec
CONSTANTS
    HTTPRoutes = {"h"}
    TCPRoutes = {"t"}
    Nics = {"eth0", "eth1"}
    DefaultNic = "eth0"
    Enis = {"eth1"}
    OnEKS = TRUE
    Encaps = {"default"}
    Decaps = {"default"}
    Backends = {"here"}
    MaxEvents = 1
INVARIANTS
    AddedOnce
CHECK_DEADLOCK FALSE
