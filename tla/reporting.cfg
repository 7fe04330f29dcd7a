SPECIFICATION Spec
CONSTANTS
  i1 = i1
  i2 = i2
  l1 = l1
  l2 = l2
  u1 = u1
  u2 = u2
  None = None
  Items <- TwoItems
  Libraries <- TwoLibraries
  Users <- TwoUsers
  Position <- Folders
  NameRank <- Names
  Days <- ThreeDays
  Budgets <- SevenCorners
  ChunkSize = 2
  PageSize = 1
  MaxLimit = 2
  DefaultLimit = 1
  MaxRangeDays = 2
INVARIANT TypeOK
INVARIANT DriftIsExplained
INVARIANT StatsAgree
INVARIANT NothingIsSkipped
INVARIANT TotalCoversPage
PROPERTY ArchivedWasMissing
PROPERTY AttributionIsKept
PROPERTY CatalogueCatchesUp
CHECK_DEADLOCK FALSE
