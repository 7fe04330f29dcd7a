SPECIFICATION Spec
CONSTANTS
  i1 = i1
  i2 = i2
  r1 = r1
  r2 = r2
  None = None
  Ids <- TwoIds
  Slots <- TwoSlots
  Ttl = 2
  Limit = 2
  Window = 2
  Retention = 2
  MaxReloads = 1
SYMMETRY Symmetry
CONSTRAINT Explored
INVARIANT TypeOK
INVARIANT ConfirmedLogoutIsFinal
INVARIANT SignedOutIsNotShown
INVARIANT CookieOutlivesRow
INVARIANT AttemptsAreBounded
INVARIANT RefusalHasCause
INVARIANT LoadingHasAnEnd
