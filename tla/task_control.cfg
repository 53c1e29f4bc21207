CONSTANTS
  None = None
  Procs = {p1, p2}
  Ids = {a}
  Enabled = {"auto"}
  HostCalls = {"activate", "reset", "start", "stop"}
  SpawnFails = TRUE
  RetryDelays = 1
  MaxCalls = 2
  MaxChanges = 0
  MaxGen = 12
SPECIFICATION Spec
INVARIANT LiveLoopIsCurrent
INVARIANT RunningIsHonest
SYMMETRY HostSymmetry
CHECK_DEADLOCK FALSE
