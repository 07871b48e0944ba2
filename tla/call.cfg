CONSTANT
    Descendants = {d1, d2}
SPECIFICATION FairSpec
INVARIANTS
    TypeOK
    DispatchBeforeDelivery
    AnswersAreComplete
    LeftoversAreDispatched
PROPERTIES
    ContextEndsCall
CHECK_DEADLOCK FALSE
