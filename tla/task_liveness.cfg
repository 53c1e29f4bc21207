CONSTANTS
  None = None
  Procs = {p1}
  Ids = {a}
  Enabled = {"auto", "support", "sync"}
  HostCalls = {"restore", "activate", "drop"}
  SpawnFails = FALSE
  RetryDelays = 1
  MaxCalls = 1
  MaxChanges = 1
  MaxGen = 12
SPECIFICATION FairSpec
PROPERTY OnlineAgain
PROPERTY TimersAgain
PROPERTY DroppedSdkEnds
PROPERTY StaleLoopsEnd
CHECK_DEADLOCK FALSE
