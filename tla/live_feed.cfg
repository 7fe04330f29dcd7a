SPECIFICATION Spec
CONSTANTS
  p1 = p1
  p2 = p2
  Probes <- TwoProbes
  MaxPublishes = 2
  MaxFaults = 2
  MaxMounts = 2
INVARIANT TypeOK
INVARIANT NoListIsSkipped
INVARIANT LagsOnePublish
INVARIANT StaleListIsMarked
PROPERTY NoFalseSignOut
PROPERTY ScreenRecovers
CHECK_DEADLOCK FALSE
