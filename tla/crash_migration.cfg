CONSTANTS
    None = None
    Ids = {a, b}
    Origins <- GenericOnly
    Faults = FALSE
    Crashes = TRUE
    MaxOps = 4
    MaxCrashes = 2
    MaxFailures = 0
    MaxDamage = 0
SPECIFICATION Spec
CHECK_DEADLOCK FALSE
INVARIANT MigratedStaysGone
