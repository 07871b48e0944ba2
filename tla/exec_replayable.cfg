SPECIFICATION Spec
CONSTANTS
    a = a
    b = b
    Operation = {a}
    Dependencies <- SingleDependencies
    SideEffecting = {a}
    Authorizable = {a}
    MaxConcurrency = 1
    MaxAttempts = 2
    MaxInvocations = 3
    MaxAuthorizations = 0
INVARIANTS
    Replayable
CHECK_DEADLOCK FALSE
