SPECIFICATION FairSpec
CONSTANTS
  JobCount = 3
  FastRetry <- Poll
  Daily <- Nightly
  Every <- Intervals
  TimeOfDay <- Targets
  DayTicks = 4
  Backoff = 4
  MaxReads = 1
  MaxFaults = 1
  MaxJobTicks <- FastPolls
INVARIANT NothingRunsAfterStop
