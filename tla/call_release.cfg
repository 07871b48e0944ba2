CONSTANT
    Descendants = {d1, d2}
SPECIFICATION Spec
INVARIANTS
    JournaledBeforeRelease
CHECK_DEADLOCK FALSE
