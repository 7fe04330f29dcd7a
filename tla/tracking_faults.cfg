SPECIFICATION Spec
CONSTANTS
  s1 = s1
  s2 = s2
  e1 = e1
  e2 = e2
  None = None
  Sessions <- OneSession
  Items <- TwoItems
  Progress <- NotFar
  DayLength = 6
  MaxWatchDelta = 3
  StaleAfter = 4
  LookbackDays = 1
  ClockSteps <- Skewed
  MaxTime = 10
  MaxPolls = 3
  Faults <- AllFaults
INVARIANT TypeOK
INVARIANT RollupNeverAhead
INVARIANT DriftOnlyWhereDeltaLost
PROPERTY WatchNeverDecreases
PROPERTY ReconcileLeavesNothingStale
PROPERTY KeepsLedger
CHECK_DEADLOCK FALSE
SYMMETRY Symmetry
