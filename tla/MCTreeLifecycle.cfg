SPECIFICATION Spec
CONSTANTS
  Tree = {t1, t2}
  Node = {n1, n2, n3, n4, n5, n6, n7}
  Pool = {p1, p2, p3, p4}
  Elem = {e1, e2, e3}
  Null = Null
  LeafCapacity = 2
  Operations <- AllButMultiMove
  AcrossPools = FALSE
  MaxLost = 2
SYMMETRY Alike
INVARIANTS NodesMapped BlocksComeHome OnlyThrowsLeak RootsOwned BlocksOfOneType
