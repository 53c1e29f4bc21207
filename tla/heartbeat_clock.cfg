CONSTANTS
  Kinds = {"activate", "validate", "heartbeat"}
  MaxRetries = 1
  BareGone = FALSE
  ClockRight = FALSE
  Modes = {"network_only", "always"}
SPECIFICATION Spec
PROPERTY ErasedOnlyWhenOver
CHECK_DEADLOCK FALSE
