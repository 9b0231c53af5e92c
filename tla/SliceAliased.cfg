SPECIFICATION Spec
CONSTANTS
    s1 = s1
    s2 = s2
    Backends = {{s1, s2}}
    MaxChanges = 2
    MaxFaults = 0
PROPERTIES
    PassComplete
CHECK_DEADLOCK FALSE
