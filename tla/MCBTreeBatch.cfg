SPECIFICATION Spec
CONSTANTS
  Key <- Keys
  Value = {"odd", "even"}
  Node <- Nodes
  Null = Null
  None = None
  LeafNodeSize = 16
  InternalNodeSize = 8
  Loads <- LoadOrders
  MaxCalls = 1
  CallKeys <- EveryNth
  CallOps = {"insert", "erase", "erase_range"}
  KeyStep = 6
  MaxKey = 156
  MaxNode = 16
INVARIANT Occupancy
PROPERTIES AnswersAsMap
