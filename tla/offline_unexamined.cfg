CONSTANTS
  Syncers = {s1, loop}
  Loop = loop
  Ids = {a, b}
  Keys = {k1, k2}
  FirstKey = k1
  None = None
  Legacy = TRUE
  MaxChanges = 3
SPECIFICATION Spec
PROPERTY UnexaminedIsNoVerdict
CHECK_DEADLOCK FALSE
