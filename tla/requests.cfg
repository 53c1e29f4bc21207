CONSTANTS
  Kinds = {"activate", "validate", "heartbeat", "deactivate"}
  MaxRetries = 1
  BareGone = FALSE
  ClockRight = TRUE
  Modes = {"network_only", "always"}
SPECIFICATION FairSpec
INVARIANT DecisionStands
INVARIANT OfflineGrantProbes
PROPERTY ErasedOnlyWhenOver
PROPERTY DeactivationHeals
PROPERTY RequestsEnd
PROPERTY SeatLossIsNoticed
CHECK_DEADLOCK FALSE
