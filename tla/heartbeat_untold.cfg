CONSTANTS
  Names = {n1}
  Capacity = 2
  MaxChanges = 1
  MaxChatter = 1
  MaxFailures = 0
SPECIFICATION FairSpec
PROPERTY EveryChangeIsTold
CHECK_DEADLOCK FALSE
