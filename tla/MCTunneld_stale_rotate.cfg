SPECIFICATION Spec
CONSTANTS
  Conns = {c1, c2}
  Uniques = {u1}
  Keys = {k1, k2, k3}
  Ips = {i1}
  None = None
  Purges = FALSE
  Gated = FALSE
  IpMax = 0
  KeyMax = 0
  RefundMax = 0
SYMMETRY Symmetry
PROPERTY
  RotateReplacesProvenKey
