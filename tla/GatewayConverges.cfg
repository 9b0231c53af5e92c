SPECIFICATION FairSpec
CONSTANTS
    MaxChanges = 6
    MaxFaults = 0
    UserOps = {"createGateway", "deleteGateway", "setTLS", "createChild"}
    PatientRetries = TRUE
PROPERTIES
    EventuallyAddressed
    EventuallyNudged
    EventuallyReleased
CHECK_DEADLOCK FALSE
