SPECIFICATION Spec
CONSTANTS
  s1 = s1
  s2 = s2
  e1 = e1
  e2 = e2
  None = None
  Sessions <- OneSession
  Items <- TwoItems
  Progress <- NotFar
  DayLength = 6
  MaxWatchDelta = 3
  StaleAfter = 4
  LookbackDays = 1
  ClockSteps <- Forward
  MaxTime = 16
  MaxPolls = 6
  Faults <- AbortOnly
INVARIANT WatchWithinSpan
CHECK_DEADLOCK FALSE
