SPECIFICATION LimiterSpec
CONSTANTS
  Keys = {k1, k2}
  Callers = {h1, h2}
  Max = 2
  Window = 2
  MaxKeys = 1
  Stall = 1
  MaxTime = 4
  MaxRefunds = 1
  Nil = Nil
SYMMETRY Symmetry
INVARIANTS
  Bounded
  WindowBudget
  RetryHintExact
