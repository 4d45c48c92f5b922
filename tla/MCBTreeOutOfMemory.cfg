SPECIFICATION OomSpec
CONSTANTS
  MaxKey = 75
  MaxNode = 24
  Key <- Keys
  Value = {"a"}
  Node <- Nodes
  Null = Null
  None = None
  LeafNodeSize = 4
  InternalNodeSize = 4
  Loads <- LoadOrders
  CallOps <- AnyCall
  CallKeys <- Every4th
  MaxCalls = 2
  Faults = {"leaf", "inner", "value"}
INVARIANTS FindsAllButOrphans IntactOrFreed
