SPECIFICATION Spec
CONSTANTS
    MaxInstalls = 2
    MaxConfigs = 1
    MaxRequests = 2
INVARIANTS
    TypeOK
    OutcomeShown
PROPERTIES
    InstallationEnds
CHECK_DEADLOCK FALSE
