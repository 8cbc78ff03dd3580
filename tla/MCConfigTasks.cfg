SPECIFICATION Spec
CONSTANTS
    MaxConfigs = 1
    NoValue = NoValue
    Never = Never
    Targets = {"san", "other_san", "down"}
    Discovered = {"san"}
    Unreachable = {"down"}
    Unsaid = {"san"}
    Initiators = {"iqn"}
    Layouts = {"lvm", "btrfs"}
    Configs <- MCAnyShape
    Tasks <- MCAllTasks
    MayFail <- MCFailures
    MayRefuse <- MCRefusals
INVARIANTS
    TypeOK
    SoftwareSeesServices
    FailureContained
PROPERTIES
    ConfigEnds
CHECK_DEADLOCK FALSE
