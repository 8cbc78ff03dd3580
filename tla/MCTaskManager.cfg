SPECIFICATION Spec
CONSTANTS
    MaxTasks = 3
    MaxCallers = 2
INVARIANTS
    TypeOK
    NoLostWakeup
    FailurePropagates
    EventsFollowGraph
PROPERTIES
    EveryTaskEnds
    ImplementsGraph
CHECK_DEADLOCK FALSE
