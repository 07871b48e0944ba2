CONSTANTS
    HomebrewConfigurations <- MCHomebrewConfigurations
    WingetConfigurations <- MCWingetConfigurations
    NpmConfigurations <- MCNpmConfigurations
    SdkmanConfigurations <- MCSdkmanConfigurations
    Trees <- MCTrees
    MaxCalls = 4
    MaxAuthorized = 1
    MaxTips = 3
    MaxMerges = 2
SPECIFICATION MCSpec
INVARIANTS
    TypeOK
    RepeatsAreSafe
    SubmittedOnce
    PlansAreSound
PROPERTIES
    PublishedIsTrue
    DefiniteFailuresAreOver
    RejectionsStand
    ReconcileOnlyObserves
CHECK_DEADLOCK FALSE
