SPECIFICATION Spec
CONSTANTS
    a = a
    b = b
    Operation = {a, b}
    Dependencies <- ChainDependencies
    SideEffecting = {a, b}
    Authorizable = {}
    MaxConcurrency = 2
    MaxAttempts = 2
    MaxInvocations = 3
    MaxAuthorizations = 0
INVARIANTS
    DependenciesFirst
PROPERTIES
    KeepsPromise
CHECK_DEADLOCK FALSE
