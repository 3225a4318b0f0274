SPECIFICATION FairSpec
CONSTANTS
  Callers = {e1, e2}
  Names = {n1}
  Slots = 0
  MaxOrders = 1
  None = None
INVARIANT
  OneOrderPerName
PROPERTY
  EnsureReturns
