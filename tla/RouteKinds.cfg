SPECIFICATION KindsSpec
CONSTANTS
    ParentCount = 2
    MaxChanges = 4
    MaxFaults = 2
    UserOps = {"createRoute", "deleteRoute", "editRoute", "createGateway", "deleteGateway", "setPolicy", "createService", "deleteService"}
PROPERTIES
    EventuallyServed
    EventuallyCleaned
CHECK_DEADLOCK FALSE
