CONSTANTS
  p1 = p1
  p2 = p2
  i1 = i1
  i2 = i2
  Procs = {p1, p2}
  Instances = {i1, i2}
  InstOf <- EachItsOwn
  Ids = {a, b}
  None = None
  Kinds = {"activate", "validate", "heartbeat", "deactivate", "sync", "restore", "reset"}
  MaxOps = 2
  Faults = FALSE
  Crashes = FALSE
SPECIFICATION DSpec
PROPERTY StartupKeepsDenial
