CONSTANTS
  Kinds = {"activate", "validate", "deactivate"}
  MaxRetries = 1
  BareGone = TRUE
  ClockRight = TRUE
  Modes = {"network_only", "always"}
SPECIFICATION Spec
PROPERTY ErasedOnlyWhenOver
CHECK_DEADLOCK FALSE
