SPECIFICATION Spec
CONSTANTS
  Period = 8
  Interval = 1
  MaxAway = 2
  MaxStart = 15
  MaxEvents = 1
  MaxLost = 30
INVARIANTS LiveFmuKeepsProcess
CHECK_DEADLOCK FALSE
