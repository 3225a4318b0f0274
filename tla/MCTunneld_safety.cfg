SPECIFICATION Spec
CONSTANTS
  Conns = {c1, c2}
  Uniques = {u1}
  Keys = {k1, k2}
  Ips = {i1}
  None = None
  Purges = FALSE
  Gated = TRUE
  IpMax = 0
  KeyMax = 0
  RefundMax = 0
SYMMETRY Symmetry
INVARIANTS
  RegistryMatchesHandlers
  OnlyInFlightEscapeRevoke
  
