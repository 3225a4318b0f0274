SPECIFICATION Spec
CONSTANTS
  Callers = {e1, e2}
  Names = {n1, n2}
  Slots = 1
  MaxOrders = 2
  None = None
SYMMETRY Symmetry
INVARIANTS
  SlotsMatchOrders
  EnsuredIsServed
  PairsFit
