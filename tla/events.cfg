CONSTANTS
  Names = {n1, n2}
  Capacity = 2
  MaxChanges = 2
  MaxChatter = 2
  MaxFailures = 1
SPECIFICATION FairSpec
INVARIANT TypeOK
PROPERTY DeliveredInOrder
PROPERTY NothingAfterUnsubscribe
PROPERTY EventuallyTold
CHECK_DEADLOCK FALSE
