SPECIFICATION Spec
CONSTANTS
  MaxKey = 7
  Key <- Keys
  Value = {a}
  Node <- Nodes
  Null = Null
  None = None
  LeafNodeSize = 4
  InternalNodeSize = 4
  Loads <- Unloaded
  CallOps <- Ops
  CallKeys <- Keys
  MaxCalls <- Unlimited
INVARIANTS TypeOK NoDanglingPointer ParentsAgree SeparatorsExact Occupancy LeafChain SizeExact IterationExact
PROPERTIES LeftmostStays ImplementsMap EveryCallReturns
