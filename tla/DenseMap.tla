------------------------------ MODULE DenseMap ------------------------------
(***************************************************************************)
(* The promise of dense_map (dense_map.hpp, dense_map.ipp) as the B+tree   *)
(* uses it: a map with integer keys in key order.  A map is a function     *)
(* whose domain is its set of keys; the two parallel arrays and their      *)
(* shifting are abstracted.  An iterator is the set holding the key it     *)
(* points at, the empty set standing for end(), so that a dereference of   *)
(* end() (\E x \in {} : ...) is never possible.                            *)
(***************************************************************************)
EXTENDS Integers, FiniteSets, Functions

Empty == [x \in {} |-> x]

Size(m) == Cardinality(DOMAIN m)

----------------------------------------------------------------------------
(* Positions in an ordered key set S. *)

\* begin()
First(S) == {s \in S : \A t \in S : s =< t}

\* lower_bound(x): the first key not less than x.
Ceil(S, x) == {s \in S : s >= x /\ \A t \in S : t >= x => s =< t}

\* The entry just before lower_bound(x): --it.
Floor(S, x) == {s \in S : s < x /\ \A t \in S : t < x => t =< s}

\* ++it on an iterator at x.
Above(S, x) == {s \in S : s > x /\ \A t \in S : t > x => s =< t}

\* The index of x: how many keys precede it.
Rank(S, x) == Cardinality({t \in S : t < x})

\* begin() advanced by i; end() when i is not the index of a key.
At(S, i) == {s \in S : Rank(S, s) = i}

\* The n smallest, the n largest keys.
LowestN(S, n)  == {s \in S : Rank(S, s) < n}
HighestN(S, n) == {s \in S : Rank(S, s) + n >= Cardinality(S)}

----------------------------------------------------------------------------
(* Operations that change a map. *)

\* insert, insert_hint of a key that is absent.
Insert(m, x, v) == [y \in DOMAIN m \cup {x} |-> IF y = x THEN v ELSE m[y]]

\* erase(key), and the source's side of a split or transfer.
Without(m, S) == Restrict(m, DOMAIN m \ S)

\* The entries that a split or transfer takes.
Only(m, S) == Restrict(m, DOMAIN m \cap S)

\* unsafe_update_key: the entry keeps its position, so the new key must lie
\* strictly between its neighbours.
KeepsOrder(S, old, new) == \A t \in S \ {old} : t # new /\ (t < old <=> t < new)

\* The destination's side of split_at, transfer_prefix_from and
\* transfer_suffix_from.
Join(m1, m2) ==
  [y \in DOMAIN m1 \cup DOMAIN m2 |-> IF y \in DOMAIN m1 THEN m1[y] ELSE m2[y]]

\* transfer_*: every key of lower must precede every key of upper, and the
\* destination must have room for both.
MayJoin(lower, upper, capacity) ==
  /\ \A s \in lower, t \in upper : s < t
  /\ Cardinality(lower) + Cardinality(upper) =< capacity

\* m is a map from keys in K to values in V.
IsMap(m, K, V) ==
  /\ m = [x \in DOMAIN m |-> m[x]]
  /\ DOMAIN m \subseteq K
  /\ \A x \in DOMAIN m : m[x] \in V
=============================================================================
