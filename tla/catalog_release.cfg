CONSTANTS
    planA = planA
    planB = planB
    journalA = journalA
    journalB = journalB
    theRelease = theRelease
    Plan = {planA, planB}
    Release = {theRelease}
    ReleaseOf <- MCReleaseOf
    Journal = {journalA, journalB}
    DefaultJournal <- MCDefaultJournal
    Command = {c1, c2}
    Verbs = {"publish"}
    None = None
SPECIFICATION Spec
CHECK_DEADLOCK FALSE
INVARIANT OnePlanPerRelease
