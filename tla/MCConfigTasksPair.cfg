SPECIFICATION Spec
CONSTANTS
    MaxConfigs = 2
    NoValue = NoValue
    Never = Never
    Targets = {"san", "other_san", "down"}
    Discovered = {"san"}
    Unreachable = {"down"}
    Unsaid = {"san"}
    Initiators = {"iqn"}
    Layouts = {"lvm", "btrfs"}
    Configs <- MCTwoSystems
    Tasks <- MCCoreTasks
    MayFail = {}
    MayRefuse = {}
INVARIANTS
    SystemFollowsLast
CHECK_DEADLOCK FALSE
