SPECIFICATION Spec
CONSTANTS
    Configs <- MCConfigs
    MaxConfigs = 2
    MaxAttempts = 1
INVARIANTS
    TypeOK
    RanOnce
    Tidy
    ScriptsSettle
    ServiceHasPackage
PROPERTIES
    HandlersEnd
CHECK_DEADLOCK FALSE
