SPECIFICATION StoreSpec
CONSTANTS
  Labels = {l1, l2}
  Ports = {p1}
  Layout <- OwnNames
  None = None
SYMMETRY Symmetry
INVARIANTS
  IndexSound
  HandshakeCovered
