SPECIFICATION Spec
CONSTANTS
  Tree = {t1, t2}
  Node = {n1, n2, n3, n4, n5, n6}
  Pool = {p1, p2}
  Elem = {1, 2}
  Null = Null
  LeafCapacity = 1
  Operations <- MoveMulti
  AcrossPools = FALSE
  MaxLost = 0
INVARIANTS NullPoolUnused
