SPECIFICATION TimerSpec
CONSTANTS
  Base = 10
  Delay = 2
  Mul = 3
  Hz = 4
  MaxTime = 45
INVARIANTS TimerTypeOK ReadIsCurrent OneRetry
PROPERTY UptimeMonotone
CHECK_DEADLOCK FALSE
