SPECIFICATION Spec
CONSTANTS
    Patterns <- MCPatterns
    Packages <- MCPackages
    Aliases <- MCAliases
    Predefined <- MCPredefined
    Ids <- MCIds
    NoUrl = "no_url"
    MaxRetries = 1
    Products <- MCProducts
    Configs <- MCConfigs
    Asked <- MCAsked
    MaxRequests = 2
    MaxConfigs = 2
INVARIANT TypeOK
INVARIANT NoIssuesInSync
INVARIANT InstalledIsWanted
PROPERTY WantedByPriority
PROPERTY ServiceReturns
CHECK_DEADLOCK FALSE
