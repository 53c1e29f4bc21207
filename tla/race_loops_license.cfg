CONSTANTS
  None = None
  Procs = {p1}
  Ids = {a, b}
  Enabled = {"auto", "support"}
  HostCalls = {"activate", "restore", "reset", "stop"}
  SpawnFails = FALSE
  RetryDelays = 1
  MaxCalls = 2
  MaxChanges = 1
  MaxGen = 8
SPECIFICATION Spec
INVARIANT LoopsServeCurrentLicense
CHECK_DEADLOCK FALSE
