SPECIFICATION FairSystem
CONSTANTS
  Conns = {c1, c2}
  Uniques = {u1}
  Keys = {k1, k2}
  Ips = {i1}
  None = None
  Purges = TRUE
  Gated = TRUE
  IpMax = 0
  KeyMax = 0
  RefundMax = 0
  Me = k1
  Label = u1
  Addr = i1
  MaxFaults = 1
INVARIANTS
  ServedIsRouted
  InStep
  
CHECK_DEADLOCK FALSE
PROPERTIES
  NeverTakesOver
  Settles
