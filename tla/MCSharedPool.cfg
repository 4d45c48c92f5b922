SPECIFICATION Spec
CONSTANTS
  MaxAddr = 15
  SizeMax = 32
  PageSize = 4
  HugePageSize = 8
  InitialSize = 4
  UseHugepages = FALSE
  Garbage = Garbage
  GrowthSize = 4
  Requests <- TwoSizes
INVARIANTS BlocksApart
