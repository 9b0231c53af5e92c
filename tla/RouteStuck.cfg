SPECIFICATION FairSpec
CONSTANTS
    ParentCount = 1
    MaxChanges = 4
    MaxFaults = 1
    UserOps = {"createRoute", "createService", "deleteService"}
PROPERTIES
    EventuallyInSync
CHECK_DEADLOCK FALSE
