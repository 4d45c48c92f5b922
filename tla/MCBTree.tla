------------------------------ MODULE MCBTree ------------------------------
(***************************************************************************)
(* Every sequence of calls on a tree over a few keys, from an empty tree.  *)
(***************************************************************************)
EXTENDS BTreeRefinement, BTreeIterators

CONSTANT MaxKey

\* Enough keys for a second level and for every borrow and merge of leaves.
Keys == 1 .. MaxKey

\* Up to 8 keys, a tree has at most 4 leaves and a root; clear frees before it
\* allocates, a split allocates two nodes at most.
Nodes == 1 .. 7

Unloaded == {<<>>}

Unlimited == -1
=============================================================================
