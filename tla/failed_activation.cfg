CONSTANTS
  p1 = p1
  p2 = p2
  i1 = i1
  Procs = {p1, p2}
  Instances = {i1}
  InstOf <- OneInstance
  Ids = {a, b}
  None = None
  Kinds = {"activate","validate","restore","sync"}
  MaxOps = 4
  Faults = TRUE
  Crashes = TRUE
SPECIFICATION SSpec
INVARIANT CurrentOpTargetsCurrent
