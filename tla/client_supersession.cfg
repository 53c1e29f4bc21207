CONSTANTS
  p1 = p1
  p2 = p2
  i1 = i1
  Procs = {p1, p2}
  Instances = {i1}
  InstOf <- OneInstance
  Ids = {a, b}
  None = None
  Kinds = {"activate", "validate", "deactivate", "sync", "restore", "reset"}
  MaxOps = 4
  Faults = FALSE
  Crashes = TRUE
SPECIFICATION SSpec
INVARIANT CurrentOpTargetsCurrent
INVARIANT SupersessionInv
PROPERTY StaleResponseIsInert
INVARIANT GrantIsBacked
PROPERTY DecisionsAreOwn
PROPERTY OtherDecisionKept
