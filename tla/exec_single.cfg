SPECIFICATION FairSpec
CONSTANTS
    a = a
    b = b
    Operation = {a}
    Dependencies <- SingleDependencies
    SideEffecting = {a}
    Authorizable = {a}
    MaxConcurrency = 1
    MaxAttempts = 2
    MaxInvocations = 3
    MaxAuthorizations = 1
INVARIANTS
    TypeOK
    PublicationAccounted
    OnlyReconciliationBreaksReplay
    AttemptBudget
    CleanReturn
PROPERTIES
    NoDuplicatePublication
    PublishesOnlyWhenAllowed
    DecisionsAreFinal
    KeepsPromise
    ExecuteReturns
CHECK_DEADLOCK FALSE
