--------------------------- MODULE BTreeRefinement ---------------------------
(***************************************************************************)
(* The B+tree implements the ordered map: the map is what the leaves hold, *)
(* and a call takes effect when it changes a leaf, before the rebalancing  *)
(* of the tree above.                                                      *)
(***************************************************************************)
EXTENDS BTree

Dict == [x \in Elements |-> data[CHOOSE l \in Leaves : x \in DOMAIN data[l]][x]]

\* The steps after a call other than a range erase has changed its leaf.
Rebalancing == {"promote", "fix", "leftmost", "underflow", "parent", "next"}

Phase ==
  IF pc \in {"idle", "done"} THEN pc
  ELSE IF pc = "answer" \/ (pc \in Rebalancing /\ call.op # "erase_range")
  THEN "applied" ELSE "called"

Map == INSTANCE OrderedMap WITH
         dict <- Dict, phase <- Phase, call <- call,
         flag <- Phase = "applied" /\ flag, ret <- ret

\* Every sequence of calls gives the answers of an ordered map: the iterator
\* that erase returns after borrowing and merging is the next element, the value
\* of an element survives every move between leaves, erase of a range removes
\* exactly that range, and each call returns.
ImplementsMap == Map!Spec

\* Its safety part: every answer is right, whether or not the call returns.
AnswersAsMap == Map!Init /\ [][Map!Next]_(Map!vars)
=============================================================================
