SPECIFICATION FairSpec
CONSTANTS
  MaxAttempts = 4
  BackoffMin = 1
  BackoffMax = 3
  RateLimitFloor = 2
  RetryHints = {2, 9}
  AttemptCap = 6
  None = None
INVARIANTS
  CleanReturn
  
  GiveUpBound
  DelayIsRight
PROPERTIES
  EventOrder
  StopsOnCancel
CHECK_DEADLOCK FALSE
