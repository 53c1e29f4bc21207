CONSTANTS
  p1 = p1
  p2 = p2
  i1 = i1
  i2 = i2
  Procs = {p1}
  Instances = {i1}
  InstOf <- OneInstance
  Ids = {a, b}
  None = None
  Kinds = {"activate", "validate", "heartbeat", "deactivate", "sync", "restore", "reset"}
  MaxOps = 4
  Faults = TRUE
  Crashes = TRUE
SPECIFICATION DSpec
INVARIANT TypeOK
INVARIANT NoTimersWithoutLicense
PROPERTY DenialOutranksArtifact
