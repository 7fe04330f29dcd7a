SPECIFICATION Spec
CONSTANTS
  t1 = t1
  t2 = t2
  Tabs <- TwoTabs
INVARIANT TypeOK
INVARIANT ListenersAreReachable
INVARIANT PoolOutlivesItsUsers
PROPERTY LeftTabsAreReleased
PROPERTY SignalIsAnswered
