SPECIFICATION FairSpec
CONSTANTS
    MaxChanges = 4
    MaxFaults = 2
    UserOps = {"createGateway", "deleteGateway", "setTLS", "setClass", "createChild"}
    PatientRetries = FALSE
INVARIANTS
    TypeOK
    LinkOwner
    NoOrphan
PROPERTIES
    MirrorsGateway
    EventuallyAnnounced
CHECK_DEADLOCK FALSE
