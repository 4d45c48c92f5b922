--------------------------- MODULE MCBTreeLoaded ---------------------------
(***************************************************************************)
(* A few calls on a tree first filled by the range constructor: trees of   *)
(* three levels, and the node sizes the library allows (8 and more).       *)
(***************************************************************************)
EXTENDS BTreeRefinement

CONSTANTS
  KeyStep,          \* the client calls with every KeyStep-th key
  MaxKey, MaxNode

Keys      == 1 .. MaxKey
Nodes     == 1 .. MaxNode
EveryNth  == {x \in Keys : x % KeyStep = 0}

Evens == [i \in 1 .. MaxKey \div 2 |-> 2 * i]

\* Elements with the given keys; values alternate, so that an element that
\* takes a neighbour's value is noticed.
Elems(keys) == [i \in DOMAIN keys |-> <<keys[i], IF i % 2 = 0 THEN "even" ELSE "odd">>]

Descending(s) == [i \in DOMAIN s |-> s[Len(s) + 1 - i]]

\* From both ends to the middle.
Inward(s) == [i \in DOMAIN s |-> IF i % 2 = 1 THEN s[(i + 1) \div 2]
                                 ELSE s[Len(s) + 1 - i \div 2]]

LoadOrders == {Elems(Evens), Elems(Descending(Evens)), Elems(Inward(Evens))}
=============================================================================
