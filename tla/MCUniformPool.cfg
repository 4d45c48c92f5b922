SPECIFICATION Spec
CONSTANTS
  MaxAddr = 23
  SizeMax = 32
  PageSize = 3
  HugePageSize = 6
  InitialSize = 11
  GrowthSize = 5
  UseHugepages = TRUE
  Requests <- OneSize
  Garbage = Garbage
INVARIANTS TypeOK BlocksApart BlocksMapped BlocksAligned FreeListIntact
PROPERTIES GrowsOnlyWhenAllInUse
