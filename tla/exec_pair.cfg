SPECIFICATION Spec
CONSTANTS
    a = a
    b = b
    Operation = {a, b}
    Dependencies <- PairDependencies
    SideEffecting = {a}
    Authorizable = {}
    MaxConcurrency = 2
    MaxAttempts = 1
    MaxInvocations = 2
    MaxAuthorizations = 0
INVARIANTS
    OnlyReconciliationBreaksReplay
CHECK_DEADLOCK FALSE
