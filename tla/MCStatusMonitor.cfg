SPECIFICATION MonitorSpec
CONSTANTS
    MaxTasks = 2
    MaxCallers = 1
    Scopes = {manager}
    MaxSize = 2
    MaxEvents = 1
    Capacity = 2
    StopOnIdle = TRUE
INVARIANTS
    MonitorTypeOK
    ViewConverges
PROPERTIES
    ClientsEnd
CHECK_DEADLOCK FALSE
