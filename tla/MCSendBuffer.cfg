CONSTANTS
  Dest = {d1, d2}
  BufSize = 2
  SendTimeout = 3
  Period = 1
  MaxPeriod = 2
  MaxOutstanding = 2
  MaxRequests = 1
  Empty = Empty
SPECIFICATION Spec
SYMMETRY Symmetry
INVARIANTS TypeOK NobodyForgotten WaitBounded RoutedMeansOverheard
PROPERTY OldestDisplaced
CHECK_DEADLOCK FALSE
