SPECIFICATION Spec
CONSTANTS
  Tree = {t1, t2}
  Node = {n1, n2, n3, n4, n5, n6, n7, n8}
  Pool = {p1, p2, p3, p4}
  Elem = {1, 2}
  Null = Null
  LeafCapacity = 1
  Operations <- MoveAssignOwn
  AcrossPools = TRUE
  MaxLost = 0
INVARIANTS NodesMapped
