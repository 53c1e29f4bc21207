CONSTANTS
  None = None
  Procs = {p1}
  Ids = {a}
  Enabled = {"auto", "support"}
  HostCalls = {"activate", "restore", "reset", "stop"}
  SpawnFails = FALSE
  RetryDelays = 1
  MaxCalls = 2
  MaxChanges = 1
  MaxGen = 8
SPECIFICATION Spec
\* SupportStaysStopped in its place fails in the same instance
INVARIANT TimersStayStopped
CHECK_DEADLOCK FALSE
