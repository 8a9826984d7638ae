\* The timer deletes itself when the queue is empty.
CHECK_DEADLOCK FALSE
CONSTANTS
  MaxPeriods = 3
  MaxTime = 6
SPECIFICATION TimerFairSpec
INVARIANTS TimerTypeOK FaultyAsScheduled
PROPERTY TimerEnds
