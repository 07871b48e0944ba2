SPECIFICATION Spec
CONSTANTS
    Commands = {c1, c2}
    ProviderName = "provider"
    DefaultSources <- MCDefaultSources
    TargetOrder <- MCTargetOrder
    NoBuild = NoBuild
    NoReceipt = NoReceipt
    Builds <- MCBuilds
    Starts <- MCStarts
    Upgrades <- MCUpgrades
    Digests = {d1, d2}
    Sources = {"checkout", "other checkout"}
    Configurations <- MCConfigurations
    Mappings <- MCMappings
    MaxChanges = 2
INVARIANTS
    TypeOK
    ExecutedAsPlanned
    AmbientOnlyForInstalled
    SavedPlansCanRun
SYMMETRY MCSymmetry
CHECK_DEADLOCK FALSE
