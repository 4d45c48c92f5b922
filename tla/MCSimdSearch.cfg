SPECIFICATION Spec
CONSTANTS
  Half = 128
  Searches <- AllSearches
INVARIANTS SameAsLinear LoadsAligned
PROPERTY EverySearchEnds
CHECK_DEADLOCK FALSE
