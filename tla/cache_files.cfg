CONSTANTS
    None = None
    Ids = {a, b}
    Origins <- AnyOrigin
    Faults = TRUE
    Crashes = TRUE
    MaxOps = 4
    MaxCrashes = 2
    MaxFailures = 1
    MaxDamage = 1
SPECIFICATION Spec
INVARIANT DenialShields
INVARIANT ResetIsFinal
PROPERTY MigrationIsWhole
PROPERTY NothingLost
PROPERTY ImplementsTransactions
CHECK_DEADLOCK FALSE
