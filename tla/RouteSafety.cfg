SPECIFICATION Spec
CONSTANTS
    ParentCount = 2
    MaxChanges = 5
    MaxFaults = 1
    UserOps = {"createRoute", "deleteRoute", "editRoute", "createGateway", "deleteGateway", "setPolicy", "createService", "deleteService"}
INVARIANTS
    TypeOK
    LinkOwner
    Protected
    WorkerHolds
    AnnouncedComplete
    NoOrphan
PROPERTIES
    MirrorsRoute
CHECK_DEADLOCK FALSE
