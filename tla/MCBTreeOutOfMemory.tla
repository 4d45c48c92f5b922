------------------------- MODULE MCBTreeOutOfMemory -------------------------
(* A few calls, one of which may throw, on trees whose nodes are full. *)
EXTENDS BTreeOutOfMemory

CONSTANTS MaxKey, MaxNode

Keys    == 1 .. MaxKey
Nodes   == 1 .. MaxNode
Every4th == {x \in Keys : x % 4 = 1}
AnyCall == {"insert", "find", "lower_bound", "upper_bound", "clear"}

Elems(s) == [i \in DOMAIN s |-> <<s[i], "a">>]

\* Every fourth key, which leaves half-full leaves and the last inner node of each
\* level full, then the keys between them, which fill the leaves.
Filling ==
  [i \in 1 .. MaxKey \div 4 |-> 4 * i] \o [i \in 1 .. MaxKey \div 4 |-> 4 * i + 2]

\* The mirror image: the first inner node of each level is full.
Mirrored == [i \in DOMAIN Filling |-> MaxKey + 3 - Filling[i]]

LoadOrders == {Elems(Filling), Elems(Mirrored)}
=============================================================================
