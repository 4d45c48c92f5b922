SPECIFICATION Spec
CONSTANTS
  Key <- Keys
  Value = {"odd", "even"}
  Node <- Nodes
  Null = Null
  None = None
  LeafNodeSize = 4
  InternalNodeSize = 4
  Loads <- LoadOrders
  MaxCalls = 2
  CallKeys <- EveryNth
  CallOps = {"insert", "erase", "erase_range", "clear"}
  KeyStep = 1
  MaxKey = 22
  MaxNode = 14
INVARIANTS ParentsAgree SeparatorsExact
PROPERTIES AnswersAsMap
