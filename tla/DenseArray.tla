----------------------------- MODULE DenseArray -----------------------------
(***************************************************************************)
(* The arrays of dense_map (dense_map.hpp, dense_map.ipp): keys_ and       *)
(* values_ in parallel, the first size_ slots in use, everything else      *)
(* shifted to make room or to close a gap.  A slot beyond size_, or one    *)
(* whose content has been moved away, holds Gone: if the code ever counted *)
(* such a slot as an element, Gone would be seen among the elements.       *)
(***************************************************************************)
EXTENDS DenseMap

CONSTANTS
  Array,        \* the dense_maps
  Length,       \* their capacities
  Key,          \* keys: positive integers with std::less
  Value,
  DefaultValue, \* Value{}
  Gone,         \* unspecified content
  MoveCopies,   \* moving leaves the source as it was (trivial types)
  Binary,       \* SearchMode::Binary; linear otherwise
  ValuesThrow   \* copying a value may throw

ASSUME KeyAssumption   == Key \subseteq Nat \ {0}
ASSUME ValueAssumption == DefaultValue \in Value /\ Gone \notin Value
ASSUME GoneAssumption  == Gone = 0
ASSUME LengthAssumption == Array # {} /\ Length \in [Array -> Nat \ {0}]
ASSUME ModeAssumption  ==
  MoveCopies \in BOOLEAN /\ Binary \in BOOLEAN /\ ValuesThrow \in BOOLEAN

VARIABLES keys, values, size,
          ret \* outcome of the last call

vars == <<keys, values, size, ret>>

Slots(a) == 0 .. Length[a] - 1
Used(a)  == 0 .. size[a] - 1

Outcomes == {"none", "inserted", "exists", "full", "threw", "written", "erased",
             "absent", "moved", "refused", "assigned", "taken", "cleared", "updated"}

TypeOK ==
  /\ \A a \in Array : /\ keys[a] \in [Slots(a) -> Key \cup {Gone}]
                      /\ values[a] \in [Slots(a) -> Value \cup {Gone}]
                      /\ size[a] \in 0 .. Length[a]
  /\ keys = [a \in Array |-> keys[a]] /\ values = [a \in Array |-> values[a]]
  /\ size = [a \in Array |-> size[a]]
  /\ ret \in [how : Outcomes, arr : Array, idx : Nat]

----------------------------------------------------------------------------
(* std::move and std::move_backward on slots, one element after the other. *)

Left(x) == IF MoveCopies THEN x ELSE Gone

MoveSlot(f, i, j) == [f EXCEPT ![j] = f[i], ![i] = Left(f[i])]

\* Slots [first, last) to those from dest on, the first one first.
MoveForward(f, first, last, dest) ==
  LET g[n \in 0 .. last - first] ==
        IF n = 0 THEN f ELSE MoveSlot(g[n - 1], first + n - 1, dest + n - 1)
  IN  g[last - first]

\* Mutant: std::move where std::move_backward is needed.
MoveBackward_Forward(f, first, last, destLast) ==
  MoveForward(f, first, last, destLast - (last - first))

\* Slots [first, last) to those before destLast, the last one first.
MoveBackward(f, first, last, destLast) ==
  LET g[n \in 0 .. last - first] ==
        IF n = 0 THEN f ELSE MoveSlot(g[n - 1], last - n, destLast - n)
  IN  g[last - first]

\* The target's side of a move of slots [first, last) of f to slot d of g on.
Onto(g, d, f, first, last) ==
  [i \in DOMAIN g |-> IF i \in d .. d + (last - first) - 1 THEN f[first + i - d]
                      ELSE g[i]]

\* f once only its first n slots count.
Cropped(f, n) == [i \in DOMAIN f |-> IF i < n THEN f[i] ELSE Gone]

----------------------------------------------------------------------------
(* lower_bound_key, and what is built on it. *)

LinearSearch(a, x) ==
  LET from[i \in 0 .. size[a]] ==
        IF i < size[a] /\ keys[a][i] < x THEN from[i + 1] ELSE i
  IN  from[0]

\* A range of keys: where it begins and how long it is.
Ranges(a) == {r \in (0 .. size[a]) \X (0 .. size[a]) : r[1] + r[2] =< size[a]}

\* Mutant: the upper half still contains the middle.
BinarySearch_Off(a, x) ==
  LET within[r \in Ranges(a)] ==
        LET half == r[2] \div 2
        IN  IF r[2] = 0 THEN r[1]
            ELSE IF keys[a][r[1] + half] < x /\ r[2] > 1
                 THEN within[<<r[1] + half, r[2] - half - 1>>]
                 ELSE within[<<r[1], half>>]
  IN  within[<<0, size[a]>>]

\* std::lower_bound.
BinarySearch(a, x) ==
  LET within[r \in Ranges(a)] ==
        LET half == r[2] \div 2
        IN  IF r[2] = 0 THEN r[1]
            ELSE IF keys[a][r[1] + half] < x
                 THEN within[<<r[1] + half + 1, r[2] - half - 1>>]
                 ELSE within[<<r[1], half>>]
  IN  within[<<0, size[a]>>]

LowerBoundKey(a, x) == IF Binary THEN BinarySearch(a, x) ELSE LinearSearch(a, x)

\* The key check that follows every search.
IsAt(a, i, x) == i < size[a] /\ keys[a][i] = x

\* find: an index, size_ for end().
Find(a, x) == IF IsAt(a, LowerBoundKey(a, x), x) THEN LowerBoundKey(a, x) ELSE size[a]

UpperBound(a, x) == LowerBoundKey(a, x) + IF IsAt(a, LowerBoundKey(a, x), x) THEN 1 ELSE 0

\* Dereferencing an iterator at index i; begin() is index 0, end() is size_.
KeyAt(a, i) == IF i < size[a] THEN {keys[a][i]} ELSE {}

----------------------------------------------------------------------------
(* Calls. *)

Store(a, ks, vs, n) ==
  /\ keys' = [keys EXCEPT ![a] = Cropped(ks, n)]
  /\ values' = [values EXCEPT ![a] = Cropped(vs, n)]
  /\ size' = [size EXCEPT ![a] = n]

Keep == UNCHANGED <<keys, values, size>>

Return(how, a, i) == ret' = [how |-> how, arr |-> a, idx |-> i]

\* insert_impl of an absent key at index i: both arrays are shifted, then the
\* key is written, then the value, then the element is counted.
InsertImpl(a, i, x, v) ==
  IF size[a] >= Length[a] THEN Keep /\ Return("full", a, size[a])
  ELSE LET ks == [MoveBackward(keys[a], i, size[a], size[a] + 1) EXCEPT ![i] = x]
           vs == MoveBackward(values[a], i, size[a], size[a] + 1)
       IN  \/ /\ Store(a, ks, [vs EXCEPT ![i] = v], size[a] + 1)
              /\ Return("inserted", a, i)
           \/ ValuesThrow /\ Store(a, ks, vs, size[a]) /\ Return("threw", a, i)

\* insert, insert_hint (with the hint lower_bound(x)), try_emplace.
InsertNew(a) ==
  \E x \in Key, v \in Value :
    LET i == LowerBoundKey(a, x)
    IN  \/ size[a] >= Length[a] /\ Keep /\ Return("full", a, size[a])
        \/ size[a] < Length[a] /\ IsAt(a, i, x) /\ Keep /\ Return("exists", a, i)
        \/ size[a] < Length[a] /\ ~IsAt(a, i, x) /\ InsertImpl(a, i, x, v)

InsertOrAssign(a) ==
  \E x \in Key, v \in Value :
    LET i == LowerBoundKey(a, x)
    IN  \/ /\ IsAt(a, i, x)
           /\ values' = [values EXCEPT ![a][i] = v]
           /\ UNCHANGED <<keys, size>>
           /\ Return("exists", a, i)
        \/ ValuesThrow /\ IsAt(a, i, x) /\ Keep /\ Return("threw", a, i)
        \/ ~IsAt(a, i, x) /\ InsertImpl(a, i, x, v)

\* operator[]
Subscript(a) ==
  \E x \in Key :
    LET i == LowerBoundKey(a, x)
    IN  \/ Find(a, x) # size[a] /\ Keep /\ Return("exists", a, Find(a, x))
        \/ Find(a, x) = size[a] /\ InsertImpl(a, i, x, DefaultValue)

\* The client assigns through a reference or an iterator.
Write(a) ==
  \E i \in Used(a), v \in Value :
    /\ values' = [values EXCEPT ![a][i] = v]
    /\ UNCHANGED <<keys, size>>
    /\ Return("written", a, i)

\* erase of an iterator, and of a key that is there.
Erase(a) ==
  \E i \in Used(a) :
    /\ Store(a, MoveForward(keys[a], i + 1, size[a], i),
                MoveForward(values[a], i + 1, size[a], i), size[a] - 1)
    /\ Return("erased", a, i)

EraseAbsent(a) ==
  /\ \E x \in Key : Find(a, x) = size[a]
  /\ Keep
  /\ Return("absent", a, size[a])

----------------------------------------------------------------------------
(* Calls on two arrays: elements move from src to dst. *)

Exchange(dst, kd, vd, nd, src, ks, vs, ns) ==
  /\ keys' = [keys EXCEPT ![dst] = Cropped(kd, nd), ![src] = Cropped(ks, ns)]
  /\ values' = [values EXCEPT ![dst] = Cropped(vd, nd), ![src] = Cropped(vs, ns)]
  /\ size' = [size EXCEPT ![dst] = nd, ![src] = ns]
  /\ Return("moved", dst, nd)

\* split_at an index i of a.
Split(a, b) ==
  \E i \in 0 .. size[a] :
    LET n == size[a] - i
    IN  IF size[b] = 0 /\ n =< Length[b]
        THEN Exchange(b, Onto(keys[b], 0, keys[a], i, size[a]),
                         Onto(values[b], 0, values[a], i, size[a]), n,
                      a, keys[a], values[a], i)
        ELSE Keep /\ Return("refused", b, size[b])

\* Mutant: the room in the target is not checked.
MayTransfer_NoCapacity(a, b, n) == n =< size[b]

\* The checks that transfers begin with.
MayTransfer(a, b, n) == n =< size[b] /\ size[a] + n =< Length[a]

TransferPrefix(a, b) ==
  \E n \in 0 .. size[b] + 1 :
    \/ ~MayTransfer(a, b, n) /\ Keep /\ Return("refused", a, size[a])
    \/ n = 0 /\ Keep /\ Return("moved", a, size[a])
    \/ /\ n > 0 /\ MayTransfer(a, b, n)
       /\ size[a] > 0 => keys[a][size[a] - 1] < keys[b][0]
       /\ Exchange(a, Onto(keys[a], size[a], keys[b], 0, n),
                      Onto(values[a], size[a], values[b], 0, n), size[a] + n,
                   b, MoveForward(keys[b], n, size[b], 0),
                      MoveForward(values[b], n, size[b], 0), size[b] - n)

TransferSuffix(a, b) ==
  \E n \in 0 .. size[b] + 1 :
    \/ ~MayTransfer(a, b, n) /\ Keep /\ Return("refused", a, size[a])
    \/ n = 0 /\ Keep /\ Return("moved", a, size[a])
    \/ /\ n > 0 /\ MayTransfer(a, b, n)
       /\ size[a] > 0 => keys[b][size[b] - 1] < keys[a][0]
       /\ LET start == size[b] - n
          IN  Exchange(a, Onto(MoveBackward(keys[a], 0, size[a], size[a] + n), 0,
                               keys[b], start, size[b]),
                          Onto(MoveBackward(values[a], 0, size[a], size[a] + n), 0,
                               values[b], start, size[b]), size[a] + n,
                       b, keys[b], values[b], start)

\* Copy assignment; copy construction is an assignment to an empty array.  The
\* n-th copy of a value may throw: size_ and the keys have been replaced by then.
CopyAssign(a, b) ==
  /\ Length[a] = Length[b]
  /\ \/ \* to itself as well, where it does nothing
        /\ Store(a, keys[b], values[b], size[b])
        /\ Return("assigned", a, size[b])
     \/ /\ ValuesThrow /\ a # b
        /\ \E n \in Used(b) :
             Store(a, keys[b], Onto(values[a], 0, values[b], 0, n), size[b])
        /\ Return("threw", a, size[b])

\* Move assignment and move construction; nothing happens on the array itself.
MoveAssign(a, b) ==
  /\ Length[a] = Length[b]
  /\ IF a = b THEN Keep ELSE
       /\ keys' = [keys EXCEPT ![a] = keys[b], ![b] = Cropped(keys[b], 0)]
       /\ values' = [values EXCEPT ![a] = values[b], ![b] = Cropped(values[b], 0)]
       /\ size' = [size EXCEPT ![a] = size[b], ![b] = 0]
  /\ Return("taken", a, size[b])

Clear(a) == Store(a, keys[a], values[a], 0) /\ Return("cleared", a, 0)

\* unsafe_update_key with its assertions, which are the caller's promise.
UpdateKey(a) ==
  \E i \in Used(a), x \in Key :
    /\ i > 0 => keys[a][i - 1] < x
    /\ i < size[a] - 1 => x < keys[a][i + 1]
    /\ keys' = [keys EXCEPT ![a][i] = x]
    /\ UNCHANGED <<values, size>>
    /\ Return("updated", a, i)

Init ==
  /\ keys = [a \in Array |-> [i \in Slots(a) |-> Gone]]
  /\ values = [a \in Array |-> [i \in Slots(a) |-> Gone]]
  /\ size = [a \in Array |-> 0]
  /\ ret = [how |-> "none", arr |-> CHOOSE a \in Array : TRUE, idx |-> 0]

Next ==
  \E a \in Array :
    \/ InsertNew(a) \/ InsertOrAssign(a) \/ Subscript(a) \/ Write(a)
    \/ Erase(a) \/ EraseAbsent(a) \/ Clear(a) \/ UpdateKey(a)
    \/ \E b \in Array \ {a} : Split(a, b) \/ TransferPrefix(a, b) \/ TransferSuffix(a, b)
    \/ \E b \in Array : CopyAssign(a, b) \/ MoveAssign(a, b)

Spec == Init /\ [][Next]_vars

----------------------------------------------------------------------------
(* Properties. *)

\* The search modes agree, and find, lower_bound and upper_bound point at what a
\* sorted map has there: binary search relies on the order, upper_bound on keys
\* being unique.
LookupsExact ==
  \A a \in Array, x \in Key :
    LET S == {keys[a][i] : i \in Used(a)}
    IN  /\ LinearSearch(a, x) = Rank(S, x) /\ BinarySearch(a, x) = Rank(S, x)
        /\ KeyAt(a, Find(a, x)) = S \cap {x}
        /\ KeyAt(a, LowerBoundKey(a, x)) = Ceil(S, x)
        /\ KeyAt(a, UpperBound(a, x)) = Above(S, x)

\* The arrays implement the maps: every value stays with its key through all the
\* shifting, both sides of a split or a transfer hold what they should, the outcome
\* is the one promised, and a call that throws does no more damage than DenseMaps
\* says.
Contents(a) ==
  [x \in {keys[a][i] : i \in Used(a)} |->
     values[a][CHOOSE i \in Used(a) : keys[a][i] = x]]

Abstract == INSTANCE DenseMaps WITH
  maps <- [a \in Array |-> Contents(a)],
  ret  <- [how |-> ret.how, arr |-> ret.arr,
           at  |-> IF ret.how \in {"inserted", "exists", "written", "erased", "updated"}
                   THEN KeyAt(ret.arr, ret.idx) ELSE {}]

ImplementsMaps == Abstract!Spec
=============================================================================
