CONSTANTS
  Kinds = {"activate", "validate", "heartbeat"}
  MaxRetries = 1
  BareGone = FALSE
  ClockRight = TRUE
  Modes = {"network_only", "always"}
SPECIFICATION Spec
PROPERTY AvailabilityFallsBack
CHECK_DEADLOCK FALSE
