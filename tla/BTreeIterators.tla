--------------------------- MODULE BTreeIterators ---------------------------
(***************************************************************************)
(* The iterators of btree (btree.hpp): begin(), end(), rbegin(), rend(),   *)
(* ++ and --, as functions of the tree they walk on.  An iterator is a     *)
(* leaf and an index into it; end() is one past the last element of the    *)
(* rightmost leaf, and a null leaf if the tree is empty; rend() always is  *)
(* a null leaf.  Nowhere is a step of these functions defined at an        *)
(* iterator that they assert not to be given.                              *)
(***************************************************************************)
EXTENDS BTree

At0(l, i) == [leaf |-> l, idx |-> i]

\* --data.end() of leaf l.
LastOf(l) == At0(l, Size(data[l]) - 1)

----------------------------------------------------------------------------
(* Forward iterators. *)

End   == IF size = 0 THEN EndIt ELSE At0(rightmostLeaf, Size(data[rightmostLeaf]))
Begin == IF size = 0 THEN End ELSE At0(leftmostLeaf, 0)

\* Mutant: past the last element of a leaf, whatever comes after it.
Increment_InLeaf(p) == At0(p.leaf, p.idx + 1)

\* ++p
Increment(p) ==
  IF p.idx + 1 = Size(data[p.leaf]) /\ nextLeaf[p.leaf] # Null
  THEN At0(nextLeaf[p.leaf], 0)
  ELSE At0(p.leaf, p.idx + 1)

\* --p
Decrement(p) ==
  IF p.idx = Size(data[p.leaf]) THEN LastOf(p.leaf)
  ELSE IF p.idx = 0 THEN LastOf(prevLeaf[p.leaf])
  ELSE At0(p.leaf, p.idx - 1)

----------------------------------------------------------------------------
(* Reverse iterators. *)

REnd   == EndIt
RBegin == IF size = 0 THEN REnd ELSE LastOf(rightmostLeaf)

\* ++p
RevIncrement(p) ==
  IF p.idx > 0 THEN At0(p.leaf, p.idx - 1)
  ELSE IF prevLeaf[p.leaf] # Null THEN LastOf(prevLeaf[p.leaf])
  ELSE REnd

\* --p; from rend() to the leftmost leaf.
RevDecrement(p) ==
  IF p.leaf = Null THEN At0(leftmostLeaf, 0)
  ELSE IF p = LastOf(p.leaf) THEN At0(nextLeaf[p.leaf], 0)
  ELSE At0(p.leaf, p.idx + 1)

----------------------------------------------------------------------------
(* Properties: between calls, when a client may iterate. *)

Total == Cardinality(Elements)

\* The key p points at has r smaller keys in the tree.
PointsAtRank(p, r) ==
  /\ p.leaf \in Node /\ IsLeaf(p.leaf)
  /\ \E x \in At(DOMAIN data[p.leaf], p.idx) : Rank(Elements, x) = r

\* ++ from begin() meets every element once, in order, and then is end(); -- from
\* end() goes the same way back.
ThereAndBack ==
  LET up[n \in 0 .. Total]   == IF n = 0 THEN Begin ELSE Increment(up[n - 1])
      down[n \in 0 .. Total] == IF n = 0 THEN End ELSE Decrement(down[n - 1])
  IN  /\ \A n \in 0 .. Total - 1 : PointsAtRank(up[n], n)
      /\ up[Total] = End
      /\ \A n \in 0 .. Total : down[n] = up[Total - n]

\* The same from rbegin() to rend() and back: rend() remembers no leaf, so the
\* way back starts from the cached leftmost leaf.
ReverseThereAndBack ==
  LET up[n \in 0 .. Total]   == IF n = 0 THEN RBegin ELSE RevIncrement(up[n - 1])
      down[n \in 0 .. Total] == IF n = 0 THEN REnd ELSE RevDecrement(down[n - 1])
  IN  /\ \A n \in 0 .. Total - 1 : PointsAtRank(up[n], Total - 1 - n)
      /\ up[Total] = REnd
      /\ \A n \in 0 .. Total : down[n] = up[Total - n]

\* Between calls, iteration in both directions meets every element once, in order,
\* and comes back the same way.  The cached leaves at both ends, the links in both
\* directions and the sizes all have to be right after whatever calls were made
\* before.
IterationExact == pc = "idle" => ThereAndBack /\ ReverseThereAndBack
=============================================================================
