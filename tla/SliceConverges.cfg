SPECIFICATION FairSpec
CONSTANTS
    s1 = s1
    s2 = s2
    Backends = {{s1}, {s2}}
    MaxChanges = 3
    MaxFaults = 1
INVARIANTS
    TypeOK
    LinkWorks
PROPERTIES
    NeverBackwards
    EventuallyInSync
CHECK_DEADLOCK FALSE
