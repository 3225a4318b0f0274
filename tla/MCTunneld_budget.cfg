SPECIFICATION Spec
CONSTANTS
  Conns = {c1, c2}
  Uniques = {u1}
  Keys = {k1}
  Ips = {i1}
  None = None
  Purges = TRUE
  Gated = FALSE
  IpMax = 4
  KeyMax = 2
  RefundMax = 1
SYMMETRY Symmetry
INVARIANTS
  
  AttemptBudget
