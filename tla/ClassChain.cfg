SPECIFICATION FairSpec
CONSTANTS
    Classes = {c1}
    Config = config
    MaxChanges = 4
    MaxFaults = 1
INVARIANTS
    TypeOK
PROPERTIES
    ClassJudged
    ConfigJudged
CHECK_DEADLOCK FALSE
