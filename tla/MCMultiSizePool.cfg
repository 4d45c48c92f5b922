SPECIFICATION Spec
CONSTANTS
  Types <- ThreeTypes
  Counts = {1, 3}
  SizeMax = 64
  Line = 2
  SmallMax = 8
  Quarter = 4
  MediumMax = 16
  InitialSize = 32
  GrowthSize = 32
  MaxRegions = 2
  MaxLive = 2
INVARIANTS TypeOK BlocksComeHome BlocksHoldTheirObjects BlocksAligned NullPoolUnused
