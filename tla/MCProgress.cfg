SPECIFICATION Spec
CONSTANTS
    Scopes = {manager, software}
    MaxSize = 2
    MaxEvents = 5
INVARIANTS
    TypeOK
    UniqueScopes
    StepInRange
CHECK_DEADLOCK FALSE
