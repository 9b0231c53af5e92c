SPECIFICATION FairSpec
CONSTANTS
    Unset = "unset"
    Grants = {g1, g2}
    Gateways = {w1}
    GrantNs <- MCGrantNs
    Specs <- MCSpecs
    GatewayNs = "apps"
    CertRefs <- MCCertRefs
    Secrets <- MCSecrets
    MaxChanges = 3
    MaxFaults = 1
INVARIANTS
    TypeOK
PROPERTIES
    ReleasedWhenDeleted
    GatewaysJudged
    GrantsReleased
CHECK_DEADLOCK FALSE
