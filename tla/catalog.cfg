CONSTANTS
    planA = planA
    planB = planB
    journalA = journalA
    journalB = journalB
    theRelease = theRelease
    Plan = {planA, planB}
    Release = {theRelease}
    ReleaseOf <- MCReleaseOf
    Journal = {journalA, journalB}
    DefaultJournal <- MCDefaultJournal
    Command = {c1, c2, c3}
    Verbs = {"plan", "publish", "apply", "reconcile", "resume", "retry"}
    None = None
SPECIFICATION Spec
SYMMETRY Symmetric
CHECK_DEADLOCK FALSE
INVARIANTS TypeOK OneRunPerPlan JournalsAreClaimed ExclusiveExecution InventoryBlockedOnlyBy
PROPERTY ClaimsArePermanent
