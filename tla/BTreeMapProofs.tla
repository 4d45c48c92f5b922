--------------------------- MODULE BTreeMapProofs ---------------------------
(***************************************************************************)
(* The tree answers as the ordered map does, its iterators visit the       *)
(* elements in order, and a call that throws leaves a sound tree but for   *)
(* one node that has no parent.                                            *)
(*                                                                         *)
(* The shape of the tree says where a key can be; AInv says what a running *)
(* call has found out: which element its iterator points at, and after an  *)
(* erase where the next element is, whatever borrows and merges follow;    *)
(* OInv says what is left of the shape when a call has thrown.             *)
(***************************************************************************)
EXTENDS BTreeRefinement, BTreeIterators, BTreeOutOfMemory, BTreeShapeProofs

\* Elements S of a leaf, among all the elements E, are where c belongs: those before
\* them are before c, those after them are not.
Around(E, S, c) ==
  \A y \in E \ S, x \in S : (y < x => y < c) /\ (x < y => c =< y)

\* The index in S of the first element that is not before c; NoIndex if there is none.
IndexIn(S, c) == IF \E y \in S : c =< y THEN Rank(S, c) ELSE NoIndex

\* Iterator i points at the element in P; it is end() if P is empty.
Marks(i, P) ==
  \/ P = {} /\ i = EndIt
  \/ i.leaf \in Leaves /\ \E x \in P : PointsAt(i, x)

\* After an erase: the next element is where it and next_in_next_leaf say.
Tracked ==
  /\ it.leaf \in Leaves
  /\ Held[it.leaf] # {}
  /\ Around(Elements, Held[it.leaf], call.key)
  /\ it.idx = IndexIn(Held[it.leaf], call.key)

NextKnown == inNext = (it.idx = NoIndex /\ nextLeaf[it.leaf] # Null)

Erases == {"erase", "erase_range"}

Inserting == pc \in {"promote", "leftmost"} \/ (pc = "fix" /\ cont \in {"leftmost", "answer"})
Tracking  == pc \in {"underflow", "parent", "next"} \/ (pc = "fix" /\ cont \in {"underflow", "next"})

Quiet == pc \in {"idle", "start", "descend", "leaf", "range", "done"} => ~flag

RangeOK ==
  call.op = "erase_range" /\ call.stop # None =>
    call.stop \in Elements /\ call.key =< call.stop

SearchKnown ==
  pc \in {"descend", "leaf"} =>
    /\ call.op \in Ops \ {"clear"}
    /\ \/ k = call.key
       \/ call.op = "erase_range" /\ k = call.stop /\ Map!InRange = {}

InsertKnown == Inserting => call.op \in Inserts /\ flag /\ it.leaf \in Leaves /\ PointsAt(it, call.key)

\* The element about to be erased.
EraseKnown ==
  pc = "erase" =>
    /\ call.op \in Erases /\ flag = (call.op = "erase")
    /\ \E x \in Ceil(Elements, call.key) :
         /\ PointsAt(it, x)
         /\ call.op = "erase" => x = call.key
         /\ call.op = "erase_range" /\ call.stop # None => x < call.stop

TrackKnown ==
  Tracking =>
    /\ call.op \in Erases /\ flag = (call.op = "erase")
    /\ call.op = "erase" => call.key \notin Elements
    /\ Tracked
    /\ (pc = "fix" /\ cont = "underflow") \/ (pc = "underflow" /\ IsLeaf(node)) => NextKnown
    /\ pc = "underflow" /\ IsLeaf(node) => node = it.leaf

RangeKnown == pc = "range" => call.op = "erase_range" /\ Marks(it, Ceil(Elements, call.key))

AnswerKnown == pc = "answer" => call.op \in Ops /\ Marks(it, Map!Position)

AInv ==
  /\ Quiet /\ RangeOK /\ SearchKnown /\ InsertKnown /\ EraseKnown
  /\ TrackKnown /\ RangeKnown /\ AnswerKnown

----------------------------------------------------------------------------
(* The map as a relation. *)

\* Some node maps x to v.
Holds(x, v) == \E n \in Node : x \in DOMAIN data[n] /\ data[n][x] = v

\* A key is in one leaf.
LEMMA OneLeaf ==
  ASSUME SInv, NEW l \in Leaves, NEW m \in Leaves, NEW x, x \in DOMAIN data[l], x \in DOMAIN data[m]
  PROVE  l = m
<1> SUFFICES ASSUME l # m PROVE FALSE
  OBVIOUS
<1>1. PICK h : Shape(h)
  BY DEF SInv
<1>2. PICK O, Z, L : Sound(h, O, Z, L)
  BY <1>1 DEF Shape
<1>3. Basic
  BY HeldBasic DEF SInv
<1>4. /\ x \in Held[l] /\ x \in Held[m] /\ x \in Int
      /\ l \in Allocated /\ m \in Allocated /\ h[l] = 0 /\ h[m] = 0
  BY <1>2, <1>3 DEF Basic, Sound, Kinds, Leaves
<1>5. Precedes(Held, l, m) \/ Precedes(Held, m, l)
  BY <1>2, <1>4 DEF Sound, Levels, Layered
<1> QED
  BY <1>4, <1>5 DEF Precedes

\* Only leaves have elements.
LEMMA OnlyLeaves ==
  ASSUME SInv, NEW n \in Node, NEW x, x \in DOMAIN data[n]
  PROVE  n \in Leaves /\ x \in Elements
<1>1. PICK h : Shape(h)
  BY DEF SInv
<1>2. IsLeaf(n)
  BY <1>1 DEF Shape, Sound, Kinds
<1> QED
  BY <1>2 DEF Leaves, Elements

LEMMA DictHolds ==
  ASSUME SInv
  PROVE  /\ DOMAIN Dict = Elements
         /\ Dict = [x \in DOMAIN Dict |-> Dict[x]]
         /\ \A x, v : Holds(x, v) <=> x \in DOMAIN Dict /\ Dict[x] = v
<1>1. DOMAIN Dict = Elements /\ Dict = [x \in DOMAIN Dict |-> Dict[x]]
  BY DEF Dict
<1>2. ASSUME NEW x, NEW v, Holds(x, v)
      PROVE  x \in DOMAIN Dict /\ Dict[x] = v
  <2>1. PICK n \in Node : x \in DOMAIN data[n] /\ data[n][x] = v
    BY <1>2 DEF Holds
  <2>2. n \in Leaves /\ x \in Elements
    BY <2>1, OnlyLeaves
  <2>3. PICK l : l = CHOOSE m \in Leaves : x \in DOMAIN data[m]
    OBVIOUS
  <2>4. l \in Leaves /\ x \in DOMAIN data[l]
    BY <2>1, <2>2, <2>3
  <2>5. l = n
    BY <2>1, <2>2, <2>4, OneLeaf
  <2> QED
    BY <2>1, <2>2, <2>3, <2>5 DEF Dict
<1>3. ASSUME NEW x, NEW v, x \in DOMAIN Dict, Dict[x] = v
      PROVE  Holds(x, v)
  <2>1. PICK l : l = CHOOSE m \in Leaves : x \in DOMAIN data[m]
    OBVIOUS
  <2>2. \E n \in Leaves : x \in DOMAIN data[n]
    BY <1>1, <1>3 DEF Elements, Leaves
  <2>3. l \in Leaves /\ x \in DOMAIN data[l]
    BY <2>1, <2>2
  <2>4. v = data[l][x]
    BY <1>1, <1>3, <2>1 DEF Dict
  <2> QED
    BY <2>3, <2>4 DEF Holds, Leaves
<1> QED
  BY <1>1, <1>2, <1>3

MapOf ==
  SInv => /\ DOMAIN Dict = Elements
          /\ Dict = [x \in DOMAIN Dict |-> Dict[x]]
          /\ \A x, v : Holds(x, v) <=> x \in DOMAIN Dict /\ Dict[x] = v

LEMMA MapOfHolds == MapOf
BY DictHolds DEF MapOf

LEMMA MapOfHoldsNext == MapOf'
BY MapOfHolds, PTL

----------------------------------------------------------------------------
(* Indices. *)

\* A key that is not less than c comes at the index lower_bound(c) has, or later.
LEMMA IndexOf ==
  ASSUME NEW S \in SUBSET Int, IsFiniteSet(S), NEW c \in Int
  PROVE  /\ Rank(S, c) \in Nat /\ Cardinality(S) \in Nat /\ Rank(S, c) =< Cardinality(S)
         /\ Rank(S, c) < Cardinality(S) <=> \E y \in S : c =< y
         /\ At(S, Rank(S, c)) = Ceil(S, c)
         /\ Ceil(S, c) # {} <=> \E y \in S : c =< y
         /\ At(S, NoIndex) = {}
<1> DEFINE below(x) == {t \in S : t < x}
<1>1. \A x : /\ Rank(S, x) = Cardinality(below(x)) /\ below(x) \subseteq S
             /\ \A t \in S : t \in below(x) <=> t < x
  BY DEF Rank
<1> HIDE DEF below
<1>2. \A x : IsFiniteSet(below(x)) /\ Rank(S, x) \in Nat /\ Rank(S, x) =< Cardinality(S)
             /\ (Rank(S, x) = Cardinality(S) => below(x) = S)
  BY <1>1, FS_Subset, FS_CardinalityType
<1>3. Cardinality(S) \in Nat
  BY FS_CardinalityType
<1>4. /\ \A x \in S : Rank(S, x) \in Nat
      /\ \A x, y \in S : x < y => Rank(S, x) < Rank(S, y)
  BY RankOrder
<1>5. Rank(S, c) < Cardinality(S) <=> \E y \in S : c =< y
  <2>1. below(c) = S <=> \A y \in S : y < c
    BY <1>1
  <2>2. Rank(S, c) = Cardinality(S) <=> below(c) = S
    BY <1>1, <1>2
  <2>3. (\A y \in S : y < c) <=> ~ \E y \in S : c =< y
    OBVIOUS
  <2> QED
    BY <1>2, <1>3, <2>1, <2>2, <2>3
<1>6. ASSUME NEW y \in S, y < c
      PROVE  Rank(S, y) < Rank(S, c)
  <2>1. (\A t \in S : t < y => t < c) /\ ~(y < y)
    BY <1>6
  <2>2. below(y) \subseteq below(c) /\ y \in below(c) /\ y \notin below(y)
    BY ONLY <1>1, <1>6, <2>1
  <2> QED
    BY <1>1, <1>2, <2>2, FS_Subset
<1>7. ASSUME NEW x \in Ceil(S, c)
      PROVE  x \in S /\ c =< x /\ Rank(S, x) = Rank(S, c)
  <2>1. x \in S /\ c =< x /\ \A t \in S : c =< t => x =< t
    BY <1>7 DEF Ceil
  <2>2. \A t \in S : t < x <=> t < c
    BY <2>1
  <2>3. below(x) = below(c)
    <3>1. \A t : t \in below(x) <=> t \in below(c)
      BY <1>1, <2>2, Zenon
    <3> QED
      BY ONLY <3>1
  <2> QED
    BY <1>1, <2>1, <2>3
<1>8. ASSUME NEW y \in S, c =< y
      PROVE  \E x : x \in Ceil(S, c)
  <2>1. PICK T : T = {t \in S : c =< t}
    OBVIOUS
  <2>2. T \in SUBSET Int /\ IsFiniteSet(T) /\ T # {}
    BY <1>8, <2>1, FS_Subset
  <2>3. PICK x \in First(T) : TRUE
    BY <2>2, HasFirst
  <2> QED
    BY <2>1, <2>3 DEF First, Ceil
<1>9. ASSUME NEW y \in S, Rank(S, y) = Rank(S, c)
      PROVE  y \in Ceil(S, c)
  <2>1. c =< y
    BY <1>2, <1>6, <1>9
  <2>2. PICK x : x \in Ceil(S, c)
    BY <1>8, <2>1
  <2>3. x = y
    <3>1. x \in S /\ y \in S /\ x \in Int /\ y \in Int /\ ~(x < y) /\ ~(y < x)
      <4>1. x \in S /\ Rank(S, x) = Rank(S, y) /\ Rank(S, y) \in Nat
        BY <1>4, <1>7, <1>9, <2>2
      <4> QED
        BY ONLY <1>4, <1>9, <4>1, S \in SUBSET Int
    <3> QED
      BY <3>1
  <2> QED
    BY <2>2, <2>3
<1>10. At(S, Rank(S, c)) = Ceil(S, c)
  BY <1>7, <1>9 DEF At
<1>11. Ceil(S, c) # {} <=> \E y \in S : c =< y
  BY <1>7, <1>8
<1>12. At(S, NoIndex) = {}
  <2>1. \A y \in S : Rank(S, y) # -1
    BY <1>4
  <2> QED
    BY ONLY <2>1 DEF At, NoIndex
<1> QED
  BY <1>2, <1>3, <1>5, <1>10, <1>11, <1>12

\* A set has one key in a place.
LEMMA OneCeil ==
  ASSUME NEW S \in SUBSET Int, NEW c, NEW x \in Ceil(S, c), NEW y \in Ceil(S, c)
  PROVE  x = y
BY DEF Ceil

\* A key that is there is its own lower_bound.
LEMMA CeilOfMember ==
  ASSUME NEW S \in SUBSET Int, NEW c \in S
  PROVE  Ceil(S, c) = {c} /\ S \cap {c} = {c}
<1>1. c =< c /\ \A t \in S : c =< t /\ t =< c => t = c
  OBVIOUS
<1>2. \A t \in S : t >= c => c =< t
  OBVIOUS
<1>3. \A x : x \in Ceil(S, c) <=> x = c
  BY <1>1, <1>2 DEF Ceil
<1> QED
  BY ONLY <1>3, c \in S

\* upper_bound is the lower_bound of the next key.
LEMMA AboveIsCeil ==
  ASSUME NEW S \in SUBSET Int, IsFiniteSet(S), NEW c \in Int
  PROVE  /\ Above(S, c) = Ceil(S, c + 1)
         /\ Rank(S, c) + (IF c \in S THEN 1 ELSE 0) = Rank(S, c + 1)
<1>1. \A s \in S : s \in Int /\ (s > c <=> s >= c + 1)
  OBVIOUS
<1>2. Above(S, c) = Ceil(S, c + 1)
  BY <1>1 DEF Above, Ceil
<1>3. PICK T : T = {t \in S : t < c}
  OBVIOUS
<1>4. PICK U : U = {t \in S : t < c + 1}
  OBVIOUS
<1>5. IsFiniteSet(T) /\ Cardinality(T) \in Nat
  BY <1>3, FS_Subset, FS_CardinalityType
<1>6. CASE c \in S
  <2>1. U = T \cup {c} /\ c \notin T
    <3>1. \A t \in S : t < c + 1 <=> t < c \/ t = c
      OBVIOUS
    <3>2. \A t : t \in U <=> t \in T \/ t = c
      BY ONLY <1>3, <1>4, <1>6, <3>1
    <3> QED
      BY <1>3, <3>2
  <2>2. Cardinality(U) = Cardinality(T) + 1
    BY ONLY <1>5, <2>1, FS_AddElement
  <2> QED
    BY <1>2, <1>3, <1>4, <1>6, <2>2 DEF Rank
<1>7. CASE c \notin S
  <2>1. U = T
    <3>1. \A t \in S : t < c + 1 <=> t < c
      BY <1>7
    <3> QED
      BY ONLY <1>3, <1>4, <3>1
  <2> QED
    BY <1>2, <1>3, <1>4, <1>5, <1>7, <2>1 DEF Rank
<1> QED
  BY <1>6, <1>7

\* Where S has an element that is not before c, the first one is the first of all.
LEMMA LocalCeil ==
  ASSUME NEW E \in SUBSET Int, NEW S \in SUBSET E, IsFiniteSet(S), NEW c \in Int, Around(E, S, c),
         \E y \in S : c =< y
  PROVE  Ceil(E, c) = Ceil(S, c) /\ \E x : x \in Ceil(S, c)
<1>1. S \in SUBSET Int
  OBVIOUS
<1>2. PICK x : x \in Ceil(S, c)
  BY <1>1, IndexOf
<1>3. x \in S /\ c =< x /\ \A t \in S : c =< t => x =< t
  BY <1>2 DEF Ceil
<1>4. \A z \in E : c =< z => x =< z
  <2> TAKE z \in E
  <2>1. CASE z \in S
    BY <1>3, <2>1
  <2>2. CASE z \notin S
    <3>1. (z < x => z < c) /\ z \in Int /\ x \in Int
      BY <1>1, <1>3, <2>2 DEF Around
    <3> QED
      BY <3>1
  <2> QED
    BY <2>1, <2>2
<1>5. x \in Ceil(E, c)
  BY <1>3, <1>4 DEF Ceil
<1>6. \A y \in Ceil(E, c) : y = x
  BY <1>5, OneCeil
<1>7. \A y \in Ceil(S, c) : y = x
  BY <1>1, <1>2, OneCeil
<1> QED
  BY <1>2, <1>5, <1>6, <1>7

\* Keys of E that are not in S are on one side of all of S.
Segment(E, S) ==
  /\ S \subseteq E
  /\ \A y \in E \ S, x, z \in S : (x < y => z < y) /\ (y < x => y < z)

\* A leaf that takes in elements next to it stays around c.
LEMMA GrowAround ==
  ASSUME NEW E \in SUBSET Int, NEW S, NEW S1, S # {}, S \subseteq S1, Segment(E, S1), NEW c \in Int,
         Around(E, S, c)
  PROVE  Around(E, S1, c)
<1>1. PICK z \in S : TRUE
  OBVIOUS
<1>2. ASSUME NEW y \in E \ S1, NEW x \in S1
      PROVE  (y < x => y < c) /\ (x < y => c =< y)
  <2>1. (x < y => z < y) /\ (y < x => y < z)
    BY <1>1, <1>2 DEF Segment
  <2>2. (y < z => y < c) /\ (z < y => c =< y)
    BY <1>1, <1>2 DEF Around
  <2> QED
    BY <2>1, <2>2
<1> QED
  BY <1>2 DEF Around

\* Elements B join S, all of them before c.
LEMMA GrowFront ==
  ASSUME NEW S \in SUBSET Int, NEW B \in SUBSET Int, IsFiniteSet(S), IsFiniteSet(B), B \cap S = {},
         NEW S1, S1 = S \cup B, NEW c \in Int, \A y \in B : y < c
  PROVE  IndexIn(S1, c) = IF IndexIn(S, c) = NoIndex THEN NoIndex
                          ELSE IndexIn(S, c) + Cardinality(B)
<1>1. (\E y \in S1 : c =< y) <=> (\E y \in S : c =< y)
  <2>1. \A y \in B : ~(c =< y)
    OBVIOUS
  <2> QED
    BY <2>1
<1>2. Rank(S, c) \in Nat
  BY IndexOf
<1>3. Rank(S1, c) = Rank(S, c) + Cardinality(B)
  <2>1. PICK T : T = {t \in S : t < c}
    OBVIOUS
  <2>2. PICK T1 : T1 = {t \in S1 : t < c}
    OBVIOUS
  <2>3. T1 = T \cup B /\ T \cap B = {}
    BY <2>1, <2>2
  <2>4. IsFiniteSet(T) /\ Cardinality(T) \in Nat /\ Cardinality(B) \in Nat
    BY <2>1, FS_Subset, FS_CardinalityType
  <2>5. Cardinality(T1) = Cardinality(T) + Cardinality(B)
    <3>1. Cardinality(T1) = Cardinality(T) + Cardinality(B) - Cardinality(T \cap B)
      BY ONLY <2>3, <2>4, IsFiniteSet(B), FS_Union
    <3>2. Cardinality(T \cap B) = 0
      BY <2>3, FS_EmptySet
    <3> QED
      BY <2>4, <3>1, <3>2
  <2> QED
    BY <2>1, <2>2, <2>5 DEF Rank
<1>4. CASE \E y \in S : c =< y
  <2>1. IndexIn(S, c) = Rank(S, c) /\ IndexIn(S1, c) = Rank(S1, c)
    BY <1>1, <1>4 DEF IndexIn
  <2> QED
    BY <1>2, <1>3, <2>1 DEF NoIndex
<1>5. CASE ~ \E y \in S : c =< y
  BY <1>1, <1>5 DEF IndexIn
<1> QED
  BY <1>4, <1>5

\* Elements B join S, none of them before c.
LEMMA GrowBack ==
  ASSUME NEW S \in SUBSET Int, NEW B \in SUBSET Int, IsFiniteSet(S), B # {},
         NEW S1, S1 = S \cup B, NEW c \in Int, \A y \in B : c =< y
  PROVE  IndexIn(S1, c) = IF IndexIn(S, c) = NoIndex THEN Cardinality(S) ELSE IndexIn(S, c)
<1>1. \E y \in S1 : c =< y
  OBVIOUS
<1>2. Rank(S1, c) = Rank(S, c)
  <2>1. \A y \in B : ~(y < c)
    OBVIOUS
  <2>2. \A y : y \in S1 /\ y < c <=> y \in S /\ y < c
    BY <2>1
  <2>3. {t \in S1 : t < c} = {t \in S : t < c}
    BY ONLY <2>2
  <2> QED
    BY <2>3 DEF Rank
<1>3. /\ Rank(S, c) \in Nat /\ Rank(S, c) =< Cardinality(S) /\ Cardinality(S) \in Nat
      /\ Rank(S, c) < Cardinality(S) <=> \E y \in S : c =< y
  BY IndexOf
<1>4. CASE \E y \in S : c =< y
  <2>1. IndexIn(S, c) = Rank(S, c) /\ IndexIn(S1, c) = Rank(S1, c)
    BY <1>1, <1>4 DEF IndexIn
  <2> QED
    BY <1>2, <1>3, <2>1 DEF NoIndex
<1>5. CASE ~ \E y \in S : c =< y
  <2>1. IndexIn(S, c) = NoIndex /\ IndexIn(S1, c) = Rank(S1, c)
    BY <1>1, <1>5 DEF IndexIn
  <2> QED
    BY <1>2, <1>3, <1>5, <2>1
<1> QED
  BY <1>4, <1>5

----------------------------------------------------------------------------
(* Where a key is. *)

\* The elements of a leaf lie together.
LeafSegment ==
  SInv => /\ Elements \in SUBSET Int /\ IsFiniteSet(Elements) /\ Elements \subseteq Key
          /\ \A l \in Leaves : Segment(Elements, Held[l])

LEMMA LeafSegmentHolds == LeafSegment
<1> SUFFICES ASSUME SInv
             PROVE  /\ Elements \in SUBSET Int /\ IsFiniteSet(Elements) /\ Elements \subseteq Key
                    /\ \A l \in Leaves : Segment(Elements, Held[l])
  BY DEF LeafSegment
<1>1. PICK h : Shape(h)
  BY DEF SInv
<1>2. Kinds(h) /\ Levels(h)
  BY <1>1 DEF Shape, Sound
<1>3. Basic
  BY HeldBasic DEF SInv
<1>4. Elements \in SUBSET Int /\ IsFiniteSet(Elements) /\ Elements \subseteq Key
  BY <1>3, ElementsFinite, KeyAssumption
<1>5. ASSUME NEW l \in Leaves
      PROVE  Segment(Elements, Held[l])
  <2>1. \A x : x \in Elements <=> x \in Held[l] \/ \E m \in Leaves \ {l} : x \in Held[m]
    BY <1>3, <1>5, ElementsOf
  <2>2. ASSUME NEW y \in Elements \ Held[l], NEW x \in Held[l], NEW z \in Held[l]
        PROVE  (x < y => z < y) /\ (y < x => y < z)
    <3>1. PICK m \in Leaves \ {l} : y \in Held[m]
      BY <2>1, <2>2
    <3>2. l \in Allocated /\ m \in Allocated /\ h[l] = h[m] /\ Held[l] \subseteq Int /\ Held[m] \subseteq Int
      BY <1>2, <1>3, <1>5, <3>1 DEF Kinds, Basic, Leaves
    <3>3. Precedes(Held, l, m) \/ Precedes(Held, m, l)
      BY <1>2, <3>1, <3>2 DEF Levels, Layered
    <3> QED
      BY <2>2, <3>1, <3>2, <3>3 DEF Precedes
  <2> QED
    BY <2>1, <2>2 DEF Segment
<1> QED
  BY <1>4, <1>5

LEMMA LeafSegmentNext == LeafSegment'
BY LeafSegmentHolds, PTL

\* A tree at rest, or one that has all its nodes in place.
Placed == Basic /\ \E h : Sound(h, {}, {}, {})

\* A leaf without elements is the only one.
LEMMA EmptyLeaf ==
  ASSUME Placed, NEW l \in Leaves, NEW m \in Leaves, l # m
  PROVE  Held[l] # {} /\ Held[m] # {}
<1>1. PICK h : Sound(h, {}, {}, {})
  BY DEF Placed
<1>2. Basic
  BY DEF Placed
<1>3. /\ l \in Allocated /\ m \in Allocated /\ h[l] = 0 /\ h[m] = 0
  BY <1>1, <1>2 DEF Sound, Kinds, Basic, Leaves
<1>4. \A n \in Allocated \ {root} : h[n] < h[root]
  BY <1>1, <1>2, RootAlone DEF Sound
<1>5. l # root /\ m # root
  BY <1>3, <1>4
<1> QED
  BY <1>1, <1>3, <1>5 DEF Sound, Populated

\* find_leaf_for_key ends at a leaf around its key, and around the next key.
LEMMA FoundAround ==
  ASSUME Basic, NEW h, Sound(h, {}, {}, {}), NEW l \in Leaves, NEW x \in Key, Covers(h, l, x)
  PROVE  /\ x \in Int
         /\ Around(Elements, Held[l], x) /\ Around(Elements, Held[l], x + 1)
         /\ x \in Elements <=> x \in Held[l]
         /\ Held[l] = {} => Elements = {}
<1>1. x \in Int /\ \A n \in Leaves : Held[n] \subseteq Int
  BY KeyAssumption DEF Basic
<1>2. /\ \A m \in Allocated \ {l} : h[m] = h[l] =>
            /\ Precedes(Held, l, m) => \A y \in Held[m] : x < y
            /\ Precedes(Held, m, l) => \A y \in Held[m] : y < x
      /\ \A m \in Leaves \ {l} : x \notin Held[m]
  BY CoveredKey DEF Sound
<1>3. \A y : y \in Elements <=> y \in Held[l] \/ \E m \in Leaves \ {l} : y \in Held[m]
  BY ElementsOf
<1>4. ASSUME NEW y \in Elements \ Held[l], NEW z \in Held[l]
      PROVE  (y < z => y < x) /\ (z < y => x < y) /\ y \in Int
  <2>1. PICK m \in Leaves \ {l} : y \in Held[m]
    BY <1>3, <1>4
  <2>2. l \in Allocated /\ m \in Allocated /\ h[l] = h[m]
    BY <2>1 DEF Sound, Kinds, Basic, Leaves
  <2>3. Precedes(Held, l, m) \/ Precedes(Held, m, l)
    BY <2>1, <2>2 DEF Sound, Levels, Layered
  <2>4. z \in Int /\ y \in Int
    BY <1>1, <1>4, <2>1
  <2>5. CASE Precedes(Held, l, m)
    <3>1. z < y /\ x < y
      BY <1>2, <1>4, <2>1, <2>2, <2>5 DEF Precedes
    <3> QED
      BY <2>4, <3>1
  <2>6. CASE Precedes(Held, m, l)
    <3>1. y < z /\ y < x
      BY <1>2, <1>4, <2>1, <2>2, <2>6 DEF Precedes
    <3> QED
      BY <2>4, <3>1
  <2> QED
    BY <2>3, <2>5, <2>6
<1>5. Around(Elements, Held[l], x) /\ Around(Elements, Held[l], x + 1)
  BY <1>1, <1>4 DEF Around
<1>6. Held[l] = {} => Elements = {}
  BY <1>3, EmptyLeaf DEF Placed
<1> QED
  BY <1>1, <1>2, <1>3, <1>5, <1>6

\* The element at an index of a leaf around c, or the first of the next leaf, or end().
LEMMA ResolveMarks ==
  ASSUME Basic, NEW h, Sound(h, {}, {}, {}), Elements \in SUBSET Int, NEW l \in Leaves,
         Held[l] = {} => Elements = {}, NEW c \in Int, Around(Elements, Held[l], c), NEW i,
         IF \E y \in Held[l] : c =< y THEN i = Rank(Held[l], c) ELSE At(Held[l], i) = {}
  PROVE  Marks(Resolve(l, i), Ceil(Elements, c))
<1> DEFINE E == Elements
           S == Held[l]
<1>1. /\ S \in SUBSET Int /\ IsFiniteSet(S) /\ S \subseteq E
      /\ DOMAIN data[l] = S /\ l # Null /\ l \in Node
      /\ \A z \in E : \E m \in Leaves : z \in Held[m]
      /\ \A m \in Leaves : Held[m] \subseteq E /\ Held[m] \in SUBSET Int /\ IsFiniteSet(Held[m])
  BY ElementsOf DEF Basic, Elements, Leaves, Allocated
<1>2. ASSUME NEW z \in E \ S, NEW x \in S
      PROVE  (z < x => z < c) /\ (x < z => c =< z)
  BY <1>2 DEF Around
<1>3. \/ nextLeaf[l] = Null /\ \A j \in Leaves \ {l} : Precedes(Held, j, l)
      \/ nextLeaf[l] # Null /\ Neighbours(Leaves, Held, l, nextLeaf[l])
  BY DEF Sound, Chained, Linked
<1> HIDE DEF E, S
<1>4. CASE \E y \in S : c =< y
  <2>1. Around(E, S, c) /\ i = Rank(S, c) /\ E \in SUBSET Int
    BY <1>4 DEF E, S
  <2>2. PICK x : x \in Ceil(S, c) /\ Ceil(E, c) = Ceil(S, c)
    BY <1>1, <1>4, <2>1, LocalCeil
  <2>3. At(S, i) = Ceil(S, c)
    BY <1>1, <2>1, IndexOf
  <2>4. Resolve(l, i) = [leaf |-> l, idx |-> i]
    BY <1>1, <2>2, <2>3 DEF Resolve
  <2>5. PointsAt(Resolve(l, i), x)
    BY <1>1, <2>2, <2>3, <2>4 DEF PointsAt
  <2> QED
    BY <2>2, <2>4, <2>5 DEF Marks, E
<1>5. CASE ~ \E y \in S : c =< y
  <2>1. At(S, i) = {} /\ \A y \in S : y < c
    BY <1>1, <1>5 DEF S
  <2>2. \A z \in E, x \in S : c =< z => x < z /\ z \notin S
    <3> SUFFICES ASSUME NEW z \in E, NEW x \in S, c =< z PROVE x < z /\ z \notin S
      OBVIOUS
    <3>1. z \notin S /\ z \in Int /\ x \in Int
      BY <1>1, <2>1 DEF E
    <3>2. ~(z < x)
      BY <1>2, <3>1
    <3> QED
      BY <3>1, <3>2
  <2>3. CASE nextLeaf[l] = Null
    <3>1. Resolve(l, i) = EndIt
      BY <1>1, <2>1, <2>3 DEF Resolve
    <3>2. \A j \in Leaves \ {l} : Precedes(Held, j, l)
      BY <1>3, <2>3
    <3>3. ASSUME NEW z \in Ceil(E, c) PROVE FALSE
      <4>1. z \in E /\ c =< z
        BY <3>3 DEF Ceil
      <4>2. PICK m \in Leaves : z \in Held[m]
        BY <1>1, <4>1
      <4>3. PICK x \in S : TRUE
        BY <4>1 DEF E, S
      <4>4. x < z /\ z \notin S /\ z \in Int /\ x \in Int
        BY <1>1, <2>2, <4>1, <4>3 DEF E
      <4>5. m # l
        BY <4>2, <4>4 DEF S
      <4>6. z < x
        BY <3>2, <4>2, <4>3, <4>5 DEF Precedes, S
      <4> QED
        BY <4>4, <4>6
    <3> QED
      BY <3>1, <3>3 DEF Marks, E
  <2>4. CASE nextLeaf[l] # Null
    <3>1. PICK n : n = nextLeaf[l]
      OBVIOUS
    <3>2. Neighbours(Leaves, Held, l, n)
      BY <1>3, <2>4, <3>1
    <3>3. /\ n \in Leaves /\ l # n /\ Precedes(Held, l, n)
          /\ \A j \in Leaves \ {l, n} : Precedes(Held, j, l) \/ Precedes(Held, n, j)
      BY <3>2 DEF Neighbours
    <3>4. Held[n] # {} /\ S # {}
      BY <3>3, EmptyLeaf DEF Placed, S
    <3>5. PICK x \in S : TRUE
      BY <3>4
    <3>6. PICK y \in First(Held[n]) : TRUE
      BY <1>1, <3>3, <3>4, HasFirst
    <3>7. /\ y \in Held[n] /\ y \in E /\ y \in Int /\ x \in Int /\ x < y
          /\ \A t \in Held[n] : y =< t
      BY <1>1, <3>3, <3>5, <3>6 DEF First, Precedes, S
    <3>8. c =< y
      <4>1. y \notin S
        BY <3>3, <3>7 DEF Precedes, S
      <4> QED
        BY <1>2, <3>5, <3>7, <4>1
    <3>9. ASSUME NEW z \in E, c =< z PROVE y =< z
      <4>1. x < z /\ z \notin S /\ z \in Int
        BY <1>1, <2>2, <3>5, <3>9 DEF E
      <4>2. PICK m \in Leaves : z \in Held[m]
        BY <1>1
      <4>3. m # l
        BY <4>1, <4>2 DEF S
      <4>4. CASE m = n
        BY <3>7, <4>2, <4>4
      <4>5. CASE m # n
        <5>1. ~Precedes(Held, m, l)
          BY <3>5, <3>7, <4>1, <4>2 DEF Precedes, S
        <5>2. Precedes(Held, n, m)
          BY <3>3, <4>3, <4>5, <5>1
        <5> QED
          BY <3>7, <4>1, <4>2, <5>2 DEF Precedes
      <4> QED
        BY <4>4, <4>5
    <3>10. y \in Ceil(E, c)
      BY <3>7, <3>8, <3>9 DEF Ceil
    <3>11. Resolve(l, i) = [leaf |-> n, idx |-> 0]
      BY <1>1, <2>1, <2>4, <3>1 DEF Resolve
    <3>12. y \in At(Held[n], 0)
      <4>1. {t \in Held[n] : t < y} = {}
        BY <1>1, <3>3, <3>7
      <4>2. Rank(Held[n], y) = 0
        BY <4>1, FS_EmptySet DEF Rank
      <4> QED
        BY <3>7, <4>2 DEF At
    <3>13. n # Null /\ DOMAIN data[n] = Held[n]
      BY <3>3 DEF Basic
    <3>14. PointsAt(Resolve(l, i), y)
      BY <3>11, <3>12, <3>13 DEF PointsAt
    <3> QED
      BY <3>3, <3>10, <3>11, <3>14 DEF Marks, E
  <2> QED
    BY <2>3, <2>4
<1> QED
  BY <1>4, <1>5

----------------------------------------------------------------------------
(* Steps that leave the map as it is. *)

\* A step of the tree is a step of the map or none.
MapStep == [Map!Next]_(Map!vars)

LEMMA SameDict ==
  ASSUME SInv, SInv', \A x, v : Holds(x, v)' <=> Holds(x, v)
  PROVE  Dict' = Dict /\ Elements' = Elements
<1>1. /\ DOMAIN Dict = Elements
      /\ Dict = [x \in DOMAIN Dict |-> Dict[x]]
      /\ \A x, v : Holds(x, v) <=> x \in DOMAIN Dict /\ Dict[x] = v
  BY MapOfHolds DEF MapOf
<1>2. /\ DOMAIN Dict' = Elements'
      /\ Dict' = [x \in DOMAIN Dict' |-> Dict'[x]]
      /\ \A x, v : Holds(x, v)' <=> x \in DOMAIN Dict' /\ Dict'[x] = v
  BY MapOfHoldsNext DEF MapOf
<1>3. PICK d, e, D, E : d = Dict /\ e = Dict' /\ D = DOMAIN Dict /\ E = DOMAIN Dict'
  OBVIOUS
<1>4. \A x, v : x \in D /\ d[x] = v <=> x \in E /\ e[x] = v
  BY <1>1, <1>2, <1>3
<1>5. D = E /\ \A x \in D : d[x] = e[x]
  BY ONLY <1>4
<1>6. d = e
  BY <1>1, <1>2, <1>3, <1>5
<1> QED
  BY <1>1, <1>2, <1>3, <1>5, <1>6

\* The nodes with elements stay.
LEMMA SameData ==
  ASSUME SInv, SInv', data' = data
  PROVE  Dict' = Dict /\ Elements' = Elements
<1>1. \A x, v : Holds(x, v)' <=> Holds(x, v)
  BY DEF Holds
<1> QED
  BY <1>1, SameDict

LEMMA MapStutters ==
  ASSUME Dict' = Dict, Phase' = Phase, call' = call, ret' = ret, Phase = "applied" => flag' = flag,
         flag \in BOOLEAN, flag' \in BOOLEAN
  PROVE  MapStep
<1>1. (Phase = "applied" /\ flag)' = (Phase = "applied" /\ flag)
  OBVIOUS
<1> QED
  BY <1>1 DEF MapStep, Map!vars

LEMMA InvokeAnswers ==
  ASSUME SInv, SInv', AInv, NEW o \in Ops, NEW x \in Key \cup {None}, NEW v \in Value \cup {None},
         NEW s \in Elements \cup {None}, Invoke(Request(o, x, v, s)),
         o = "erase_range" => x # None /\ (s # None => x =< s)
  PROVE  AInv' /\ MapStep
<1>1. /\ pc = "idle" /\ pc' = "start"
      /\ call' = [op |-> o, key |-> x, val |-> v, stop |-> s]
      /\ UNCHANGED <<data, flag, ret>>
  BY DEF Invoke, Request, heap
<1>2. Dict' = Dict /\ Elements' = Elements
  BY <1>1, SameData
<1>3. flag = FALSE
  BY <1>1 DEF AInv, Quiet
<1>4. RangeOK'
  BY <1>1, <1>2 DEF RangeOK
<1>5. AInv'
  BY <1>1, <1>2, <1>3, <1>4
     DEF AInv, Quiet, SearchKnown, InsertKnown, Inserting, EraseKnown, TrackKnown, Tracking,
         RangeKnown, AnswerKnown
<1>6. MapStep
  <2>1. Phase = "idle" /\ Phase' = "called"
    BY <1>1 DEF Phase, Rebalancing
  <2>2. o \in {"insert", "insert_or_assign", "find", "lower_bound", "upper_bound",
                "erase", "erase_range", "clear"}
    BY DEF Ops, Inserts, Lookups
  <2>3. DOMAIN Dict = Elements
    BY MapOfHolds DEF MapOf
  <2>4. Map!Call
    BY <1>1, <1>2, <1>3, <1>4, <2>1, <2>2, <2>3 DEF Map!Call
  <2> QED
    BY <2>4 DEF MapStep, Map!Next
<1> QED
  BY <1>5, <1>6

LEMMA LoadAnswers == ASSUME SInv, SInv', AInv, Load PROVE AInv' /\ MapStep
<1>1. load \in Seq(Key \X Value) /\ load # <<>>
  BY DEF SInv, IInv, TypeOK, Load
<1>2. Head(load)[1] \in Key /\ Head(load)[2] \in Value
  BY <1>1
<1>3. Invoke(Request("insert", Head(load)[1], Head(load)[2], None))
  BY DEF Load
<1> QED
  BY <1>2, <1>3, InvokeAnswers DEF Ops, Inserts

LEMMA ClientAnswers == ASSUME SInv, SInv', AInv, Client PROVE AInv' /\ MapStep
<1>1. PICK c \in Requests : Invoke(c) /\ (c.op = "erase_range" /\ c.stop # None => c.key =< c.stop)
  BY DEF Client
<1>2. PICK o, x, v, s : /\ c = Request(o, x, v, s)
                        /\ o \in Ops /\ x \in Key \cup {None} /\ v \in Value \cup {None}
                        /\ s \in Elements \cup {None}
                        /\ o = "erase_range" => x # None
  BY CallAssumption, KeyAssumption DEF Requests, Request, Ops, Inserts, Lookups
<1>3. o = "erase_range" => x # None /\ (s # None => x =< s)
  BY <1>1, <1>2 DEF Request
<1> QED
  BY <1>1, <1>2, <1>3, InvokeAnswers

\* A call takes effect without a change of the map.
LEMMA ApplyKeeps ==
  ASSUME SInv, Phase = "called", Phase' = "applied", call' = call, ret' = ret, Dict' = Dict,
         flag' \in BOOLEAN,
         \/ call.op \in Lookups /\ flag' = (call.op = "find" /\ call.key \in Elements)
         \/ call.op = "erase" /\ call.key \notin Elements /\ ~flag'
         \/ call.op = "erase_range" /\ Map!InRange = {} /\ ~flag'
         \/ call.op = "insert" /\ call.key \in Elements /\ ~flag'
  PROVE  MapStep
<1>1. DOMAIN Dict = Elements /\ Dict = [x \in DOMAIN Dict |-> Dict[x]]
  BY MapOfHolds DEF MapOf
<1>2. call.key \notin Elements => Dict = Map!Without(Dict, {call.key})
  <2> SUFFICES ASSUME call.key \notin Elements PROVE Dict = Map!Without(Dict, {call.key})
    OBVIOUS
  <2>1. DOMAIN Dict \ {call.key} = DOMAIN Dict
    BY <1>1
  <2> QED
    BY ONLY <1>1, <2>1 DEF Map!Without, Map!Restrict
<1>3. Map!Effect
  <2>1. CASE call.op \in Lookups /\ flag' = (call.op = "find" /\ call.key \in Elements)
    BY <1>1, <2>1 DEF Map!Effect, Lookups
  <2>2. CASE call.op = "erase" /\ call.key \notin Elements /\ ~flag'
    BY <1>1, <1>2, <2>2 DEF Map!Effect
  <2>3. CASE call.op = "erase_range" /\ Map!InRange = {} /\ ~flag'
    BY <1>1, <2>3 DEF Map!Effect
  <2>4. CASE call.op = "insert" /\ call.key \in Elements /\ ~flag'
    BY <1>1, <2>4 DEF Map!Effect
  <2> QED
    BY <2>1, <2>2, <2>3, <2>4
<1>4. Map!Apply
  BY <1>3 DEF Map!Apply
<1> QED
  BY <1>4 DEF MapStep, Map!Next, Map!Serve

LEMMA StartOnEmptyAnswers == ASSUME SInv, SInv', AInv, StartOnEmpty PROVE AInv' /\ MapStep
<1>1. /\ pc = "start" /\ pc' = "answer" /\ it' = EndIt /\ size = 0
      /\ call.op \notin Inserts \cup {"clear"}
      /\ UNCHANGED <<data, flag, ret, call>>
  BY DEF StartOnEmpty, Start, heap
<1>2. Dict' = Dict /\ Elements' = Elements /\ DOMAIN Dict = Elements
  BY <1>1, SameData, MapOfHolds DEF MapOf
<1>3. Elements = {}
  <2>1. IsFiniteSet(Elements) /\ Cardinality(Elements) = 0
    BY <1>1, LeafSegmentHolds DEF LeafSegment, SInv, Counted
  <2> QED
    BY <2>1, FS_EmptySet
<1>4. flag = FALSE /\ call.op \in Ops
  BY <1>1 DEF AInv, Quiet, SInv, IInv, ArgumentsOK
<1>5. Map!Position' = {}
  <2>1. DOMAIN Dict' = {}
    BY <1>2, <1>3
  <2> QED
    BY <1>4, <2>1 DEF Map!Position, Map!Ceil, Map!Above
<1>6. AInv'
  <2>1. RangeOK'
    BY <1>1, <1>2 DEF AInv, RangeOK
  <2>2. AnswerKnown'
    BY <1>1, <1>4, <1>5 DEF AnswerKnown, Marks
  <2> QED
    BY <1>1, <1>4, <2>1, <2>2
       DEF AInv, Quiet, SearchKnown, InsertKnown, Inserting, EraseKnown, TrackKnown, Tracking, RangeKnown
<1>7. MapStep
  <2>1. Phase = "called" /\ Phase' = "applied"
    BY <1>1 DEF Phase, Rebalancing
  <2>2. Map!InRange = {}
    BY <1>2, <1>3 DEF Map!InRange
  <2> QED
    BY <1>1, <1>2, <1>3, <1>4, <2>1, <2>2, ApplyKeeps DEF Ops
<1> QED
  BY <1>6, <1>7

\* A step on the way to a leaf.
LEMMA SearchAnswers ==
  ASSUME SInv, SInv', AInv, UNCHANGED <<data, flag, ret, call>>, ~flag,
         pc \in {"start", "descend", "range"}, pc' \in {"descend", "leaf"},
         call.op \in Ops \ {"clear"},
         \/ k' = call.key
         \/ call.op = "erase_range" /\ k' = call.stop /\ Map!InRange = {}
  PROVE  AInv' /\ MapStep
<1>1. Dict' = Dict /\ Elements' = Elements
  BY SameData
<1>2. RangeOK'
  BY <1>1 DEF AInv, RangeOK
<1>3. SearchKnown'
  BY <1>1 DEF SearchKnown, Map!InRange
<1>4. AInv'
  BY <1>2, <1>3
     DEF AInv, Quiet, InsertKnown, Inserting, EraseKnown, TrackKnown, Tracking, RangeKnown, AnswerKnown
<1>5. Phase = "called" /\ Phase' = "called"
  BY DEF Phase, Rebalancing
<1>6. MapStep
  BY <1>1, <1>5, MapStutters DEF SInv, IInv, TypeOK
<1> QED
  BY <1>4, <1>6

LEMMA StartSearchAnswers == ASSUME SInv, SInv', AInv, StartSearch PROVE AInv' /\ MapStep
<1>1. /\ pc = "start" /\ pc' \in {"descend", "leaf"} /\ k' = call.key
      /\ call.op # "clear" /\ UNCHANGED <<data, flag, ret, call>>
  BY DEF StartSearch, Start, FindLeaf, heap
<1>2. ~flag /\ call.op \in Ops
  BY <1>1 DEF AInv, Quiet, SInv, IInv, ArgumentsOK
<1> QED
  BY <1>1, <1>2, SearchAnswers

LEMMA DescendAnswers == ASSUME SInv, SInv', AInv, Descend PROVE AInv' /\ MapStep
<1>1. /\ pc = "descend" /\ pc' \in {"descend", "leaf"} /\ k' = k
      /\ UNCHANGED <<data, flag, ret, call>>
  BY DEF Descend, heap
<1>2. /\ ~flag /\ call.op \in Ops \ {"clear"}
      /\ \/ k = call.key
         \/ call.op = "erase_range" /\ k = call.stop /\ Map!InRange = {}
  BY <1>1 DEF AInv, Quiet, SearchKnown
<1> QED
  BY <1>1, <1>2, SearchAnswers

\* What the map answers, in terms of the elements.
PositionOf ==
  SInv /\ pc = "answer" =>
    /\ call.op \in Inserts \cup {"find"} => Map!Position = Elements \cap {call.key}
    /\ call.op = "lower_bound" => Map!Position = Ceil(Elements, call.key)
    /\ call.op = "upper_bound" => Map!Position = Above(Elements, call.key)
    /\ call.op = "erase" => Map!Position = IF flag THEN Above(Elements, call.key) ELSE {}
    /\ call.op = "erase_range" => Map!Position = Elements \cap {call.stop}
    /\ call.op = "clear" => Map!Position = {}

LEMMA PositionOfHolds == PositionOf
<1> SUFFICES ASSUME SInv, pc = "answer"
             PROVE  /\ call.op \in Inserts \cup {"find"} => Map!Position = Elements \cap {call.key}
                    /\ call.op = "lower_bound" => Map!Position = Ceil(Elements, call.key)
                    /\ call.op = "upper_bound" => Map!Position = Above(Elements, call.key)
                    /\ call.op = "erase" =>
                         Map!Position = IF flag THEN Above(Elements, call.key) ELSE {}
                    /\ call.op = "erase_range" => Map!Position = Elements \cap {call.stop}
                    /\ call.op = "clear" => Map!Position = {}
  BY DEF PositionOf
<1>1. DOMAIN Dict = Elements
  BY MapOfHolds DEF MapOf
<1>2. \A S, x : Map!Ceil(S, x) = Ceil(S, x) /\ Map!Above(S, x) = Above(S, x)
  BY DEF Map!Ceil, Map!Above, Ceil, Above
<1>3. Phase = "applied"
  BY DEF Phase
<1> QED
  BY <1>1, <1>2, <1>3 DEF Map!Position, Inserts

LEMMA PositionOfNext == PositionOf'
BY PositionOfHolds, PTL

\* The iterator that is returned points at the element the map answers.
LEMMA AnswerMarks ==
  ASSUME SInv', pc' = "answer", Leaves' = Leaves, data' = data, call'.op \in Ops,
         NEW P, Marks(it', P), Map!Position' = P
  PROVE  AnswerKnown'
BY DEF AnswerKnown, Marks, PointsAt

LEMMA ClearAnswers ==
  ASSUME SInv, SInv', AInv, ClearLeaf \/ ClearTree
  PROVE  AInv' /\ MapStep
<1>1. /\ pc = "start" /\ pc' = "answer" /\ it' = EndIt /\ size' = 0 /\ call.op = "clear"
      /\ UNCHANGED <<flag, ret, call>>
  BY DEF ClearLeaf, ClearTree, Clear, Start
<1>2. Elements' = {}
  <2>1. IsFiniteSet(Elements') /\ Cardinality(Elements') = 0
    BY <1>1, LeafSegmentNext DEF LeafSegment, SInv, Counted
  <2> QED
    BY <2>1, FS_EmptySet
<1>3. flag = FALSE
  BY <1>1 DEF AInv, Quiet
<1>4. AnswerKnown'
  BY <1>1, PositionOfNext DEF AnswerKnown, Marks, PositionOf, Ops
<1>5. AInv'
  BY <1>1, <1>3, <1>4
     DEF AInv, Quiet, RangeOK, SearchKnown, InsertKnown, Inserting, EraseKnown, TrackKnown, Tracking,
         RangeKnown
<1>6. MapStep
  <2>1. Phase = "called" /\ Phase' = "applied"
    BY <1>1 DEF Phase, Rebalancing
  <2>2. Dict' = Map!Empty
    <3>1. DOMAIN Dict' = {} /\ Dict' = [x \in DOMAIN Dict' |-> Dict'[x]]
      BY <1>2, MapOfHoldsNext DEF MapOf
    <3> QED
      BY ONLY <3>1 DEF Map!Empty
  <2>3. Map!Apply
    BY <1>1, <1>3, <2>1, <2>2 DEF Map!Apply, Map!Effect
  <2> QED
    BY <2>3 DEF MapStep, Map!Next, Map!Serve
<1> QED
  BY <1>5, <1>6

\* The iterator to a key that is there, or end().
LEMMA ExactMarks ==
  ASSUME Basic, Elements \in SUBSET Int, NEW l \in Leaves, NEW x, x \in Elements <=> x \in Held[l],
         NEW i, i = IF x \in Held[l] THEN [leaf |-> l, idx |-> Rank(Held[l], x)] ELSE EndIt
  PROVE  /\ Marks(i, Elements \cap {x})
         /\ x \in Held[l] => i.leaf \in Leaves /\ PointsAt(i, x) /\ Ceil(Elements, x) = {x}
<1>1. l # Null /\ DOMAIN data[l] = Held[l] /\ Held[l] \subseteq Elements
  BY ElementsOf DEF Basic
<1>2. CASE x \in Held[l]
  <2>1. i = [leaf |-> l, idx |-> Rank(Held[l], x)] /\ x \in At(Held[l], i.idx)
    BY <1>2 DEF At
  <2>2. PointsAt(i, x)
    BY <1>1, <2>1 DEF PointsAt
  <2>3. Ceil(Elements, x) = {x} /\ Elements \cap {x} = {x}
    BY <1>1, <1>2, CeilOfMember
  <2> QED
    BY <2>1, <2>2, <2>3 DEF Marks
<1>3. CASE x \notin Held[l]
  BY <1>3 DEF Marks
<1> QED
  BY <1>2, <1>3

----------------------------------------------------------------------------
(* At the leaf found for k. *)

\* The leaf is around k.
LEMMA LeafFound ==
  ASSUME SInv, pc = "leaf"
  PROVE  /\ Basic /\ node \in Leaves /\ k \in Key /\ k \in Int
         /\ Elements \in SUBSET Int /\ IsFiniteSet(Elements)
         /\ Around(Elements, Held[node], k) /\ Around(Elements, Held[node], k + 1)
         /\ k \in Elements <=> k \in Held[node]
         /\ Held[node] = {} => Elements = {}
         /\ Held[node] = DOMAIN data[node]
         /\ Held[node] \in SUBSET Int /\ IsFiniteSet(Held[node])
         /\ \E h : Sound(h, {}, {}, {})
<1>1. PICK h : Shape(h)
  BY DEF SInv
<1>2. Sound(h, {}, {}, {}) /\ Basic
  BY <1>1, Settled, HeldBasic DEF SInv
<1>3. node \in Leaves /\ Covers(h, node, k) /\ k \in Key
  BY <1>1, <1>2 DEF Shape, Running, Searching, Leaves, Basic, Allocated, SInv, IInv, ArgumentsOK
<1>4. /\ k \in Int
      /\ Around(Elements, Held[node], k) /\ Around(Elements, Held[node], k + 1)
      /\ k \in Elements <=> k \in Held[node]
      /\ Held[node] = {} => Elements = {}
  BY <1>2, <1>3, FoundAround
<1>5. /\ Elements \in SUBSET Int /\ IsFiniteSet(Elements)
      /\ Held[node] = DOMAIN data[node] /\ Held[node] \in SUBSET Int /\ IsFiniteSet(Held[node])
  BY <1>2, <1>3, LeafSegmentHolds DEF LeafSegment, Basic
<1> QED
  BY <1>2, <1>3, <1>4, <1>5

\* What find, lower_bound and upper_bound of k give there.
LEMMA LeafAnswers ==
  ASSUME SInv, pc = "leaf", NEW e,
         e = IF k \in DOMAIN data[node] THEN [leaf |-> node, idx |-> Rank(DOMAIN data[node], k)]
             ELSE EndIt
  PROVE  /\ Marks(e, Elements \cap {k})
         /\ k \in Elements => e.leaf \in Leaves /\ PointsAt(e, k) /\ k \in Ceil(Elements, k)
         /\ Marks(Resolve(node, Rank(DOMAIN data[node], k)), Ceil(Elements, k))
         /\ Marks(Resolve(node, Rank(DOMAIN data[node], k) + IF k \in DOMAIN data[node] THEN 1 ELSE 0),
                  Above(Elements, k))
<1>1. PICK S : S = Held[node]
  OBVIOUS
<1>2. /\ Basic /\ node \in Leaves /\ k \in Int
      /\ Elements \in SUBSET Int /\ IsFiniteSet(Elements)
      /\ Around(Elements, Held[node], k) /\ Around(Elements, Held[node], k + 1)
      /\ k \in Elements <=> k \in Held[node]
      /\ Held[node] = {} => Elements = {}
      /\ S = DOMAIN data[node] /\ S \in SUBSET Int /\ IsFiniteSet(S)
  BY <1>1, LeafFound
<1>3. PICK h : Sound(h, {}, {}, {})
  BY LeafFound
<1>4. \A c \in Int : ~(\E y \in S : c =< y) => At(S, Rank(S, c)) = {}
  BY <1>2, IndexOf
<1>5. Marks(Resolve(node, Rank(S, k)), Ceil(Elements, k))
  BY <1>1, <1>2, <1>3, <1>4, ResolveMarks
<1>6. /\ Above(Elements, k) = Ceil(Elements, k + 1)
      /\ Rank(S, k) + (IF k \in S THEN 1 ELSE 0) = Rank(S, k + 1)
  BY <1>2, AboveIsCeil
<1>7. Marks(Resolve(node, Rank(S, k + 1)), Ceil(Elements, k + 1))
  <2>1. PICK c \in Int : c = k + 1
    BY <1>2
  <2>2. Around(Elements, Held[node], c)
    BY <1>2, <2>1
  <2>3. Marks(Resolve(node, Rank(S, c)), Ceil(Elements, c))
    BY <1>1, <1>2, <1>3, <1>4, <2>2, ResolveMarks
  <2> QED
    BY <2>1, <2>3
<1>8. /\ Marks(e, Elements \cap {k})
      /\ k \in Elements => e.leaf \in Leaves /\ PointsAt(e, k) /\ k \in Ceil(Elements, k)
  BY <1>1, <1>2, ExactMarks
<1> QED
  BY <1>2, <1>5, <1>6, <1>7, <1>8

\* What the search has found.
LEMMA LookupFinds ==
  ASSUME SInv, AInv, Lookup
  PROVE  /\ pc = "leaf" /\ UNCHANGED <<data, kind, ret, call>> /\ flag = FALSE
         /\ \/ /\ call.op \in Lookups /\ pc' = "answer"
               /\ flag' = (call.op = "find" /\ call.key \in Elements)
               /\ call.op = "find" => Marks(it', Elements \cap {call.key})
               /\ call.op = "lower_bound" => Marks(it', Ceil(Elements, call.key))
               /\ call.op = "upper_bound" => Marks(it', Above(Elements, call.key))
            \/ /\ call.op = "erase" /\ pc' = "erase" /\ flag' = TRUE
               /\ it'.leaf \in Leaves /\ PointsAt(it', call.key)
               /\ call.key \in Ceil(Elements, call.key)
            \/ /\ call.op = "erase" /\ pc' = "answer" /\ flag' = FALSE
               /\ call.key \notin Elements /\ it' = EndIt
            \/ /\ call.op = "erase_range" /\ pc' = "range" /\ flag' = FALSE
               /\ Marks(it', Ceil(Elements, call.key))
            \/ /\ call.op = "erase_range" /\ pc' = "answer" /\ flag' = FALSE
               /\ Map!InRange = {} /\ Marks(it', Elements \cap {call.stop})
<1>1. /\ pc = "leaf" /\ UNCHANGED <<data, kind, ret, call>> /\ flag = FALSE
      /\ call.op \in Ops \ {"clear"}
      /\ \/ k = call.key
         \/ call.op = "erase_range" /\ k = call.stop /\ Map!InRange = {}
  BY DEF Lookup, AtLeaf, heap, AInv, Quiet, SearchKnown
<1>2. k = call.stop => Map!InRange = {}
  <2> SUFFICES ASSUME k = call.stop, k = call.key PROVE Map!InRange = {}
    BY <1>1
  <2>1. /\ DOMAIN Dict = Elements /\ Elements \in SUBSET Int /\ k \in Int /\ call.stop # None
    BY <1>1, MapOfHolds, LeafFound, KeyAssumption DEF MapOf
  <2>2. \A x \in Elements : ~(x >= k /\ x < k)
    BY <2>1
  <2> QED
    BY <2>1, <2>2 DEF Map!InRange
<1>3. PICK e : e = IF k \in DOMAIN data[node]
                   THEN [leaf |-> node, idx |-> Rank(DOMAIN data[node], k)] ELSE EndIt
  OBVIOUS
<1>4. PICK lo, up :
        /\ lo = Resolve(node, Rank(DOMAIN data[node], k))
        /\ up = Resolve(node, Rank(DOMAIN data[node], k) + IF k \in DOMAIN data[node] THEN 1 ELSE 0)
  OBVIOUS
<1>5. /\ Marks(e, Elements \cap {k})
      /\ k \in Elements => e.leaf \in Leaves /\ PointsAt(e, k) /\ k \in Ceil(Elements, k)
      /\ Marks(lo, Ceil(Elements, k)) /\ Marks(up, Above(Elements, k))
  BY <1>1, <1>3, <1>4, LeafAnswers
<1>6. k \in DOMAIN data[node] <=> k \in Elements
  BY <1>1, LeafFound
<1>7. \/ call.op = "find" /\ it' = e /\ pc' = "answer" /\ flag' = (k \in DOMAIN data[node])
      \/ call.op = "lower_bound" /\ it' = lo /\ pc' = "answer" /\ flag' = flag
      \/ call.op = "upper_bound" /\ it' = up /\ pc' = "answer" /\ flag' = flag
      \/ /\ call.op = "erase" /\ it' = e /\ flag' = (k \in DOMAIN data[node])
         /\ pc' = IF k \in DOMAIN data[node] THEN "erase" ELSE "answer"
      \/ call.op = "erase_range" /\ k # call.stop /\ it' = lo /\ pc' = "range" /\ flag' = flag
      \/ call.op = "erase_range" /\ k = call.stop /\ it' = e /\ pc' = "answer" /\ flag' = flag
  BY <1>3, <1>4 DEF Lookup
<1>8. CASE call.op = "find" /\ it' = e /\ pc' = "answer" /\ flag' = (k \in DOMAIN data[node])
  BY <1>1, <1>5, <1>6, <1>8 DEF Lookups
<1>9. CASE call.op = "lower_bound" /\ it' = lo /\ pc' = "answer" /\ flag' = flag
  BY <1>1, <1>5, <1>9 DEF Lookups
<1>10. CASE call.op = "upper_bound" /\ it' = up /\ pc' = "answer" /\ flag' = flag
  BY <1>1, <1>5, <1>10 DEF Lookups
<1>11. CASE /\ call.op = "erase" /\ it' = e /\ flag' = (k \in DOMAIN data[node])
            /\ pc' = IF k \in DOMAIN data[node] THEN "erase" ELSE "answer"
  <2>1. k = call.key
    BY <1>1, <1>11
  <2>2. CASE k \in Elements
    BY <1>1, <1>5, <1>6, <1>11, <2>1, <2>2
  <2>3. CASE k \notin Elements
    <3>0. (k \in DOMAIN data[node]) = FALSE
      BY <1>6, <2>3
    <3>1. flag' = FALSE /\ pc' = "answer" /\ it' = EndIt
      BY <1>3, <1>11, <3>0, Zenon
    <3> QED
      BY <1>1, <1>11, <2>1, <2>3, <3>1
  <2> QED
    BY <2>2, <2>3
<1>12. CASE call.op = "erase_range" /\ k # call.stop /\ it' = lo /\ pc' = "range" /\ flag' = flag
  BY <1>1, <1>5, <1>12
<1>13. CASE call.op = "erase_range" /\ k = call.stop /\ it' = e /\ pc' = "answer" /\ flag' = flag
  BY <1>1, <1>2, <1>5, <1>13
<1> QED
  BY <1>1, <1>7, <1>8, <1>9, <1>10, <1>11, <1>12, <1>13

\* Marks, read in the next state.
LEMMA MarksNext ==
  ASSUME Leaves' = Leaves, data' = data, NEW P, Marks(it', P)
  PROVE  Marks(it, P)'
BY DEF Marks, PointsAt

LEMMA LookupAnswers == ASSUME SInv, SInv', AInv, Lookup PROVE AInv' /\ MapStep
<1>1. /\ pc = "leaf" /\ UNCHANGED <<data, kind, ret, call>> /\ flag = FALSE
      /\ \/ /\ call.op \in Lookups /\ pc' = "answer"
            /\ flag' = (call.op = "find" /\ call.key \in Elements)
            /\ call.op = "find" => Marks(it', Elements \cap {call.key})
            /\ call.op = "lower_bound" => Marks(it', Ceil(Elements, call.key))
            /\ call.op = "upper_bound" => Marks(it', Above(Elements, call.key))
         \/ /\ call.op = "erase" /\ pc' = "erase" /\ flag' = TRUE
            /\ it'.leaf \in Leaves /\ PointsAt(it', call.key)
            /\ call.key \in Ceil(Elements, call.key)
         \/ /\ call.op = "erase" /\ pc' = "answer" /\ flag' = FALSE
            /\ call.key \notin Elements /\ it' = EndIt
         \/ /\ call.op = "erase_range" /\ pc' = "range" /\ flag' = FALSE
            /\ Marks(it', Ceil(Elements, call.key))
         \/ /\ call.op = "erase_range" /\ pc' = "answer" /\ flag' = FALSE
            /\ Map!InRange = {} /\ Marks(it', Elements \cap {call.stop})
  BY LookupFinds
<1>2. Dict' = Dict /\ Elements' = Elements
  BY <1>1, SameData
<1>3. Leaves' = Leaves
  BY <1>1 DEF Leaves, IsLeaf
<1>4. RangeOK'
  BY <1>1, <1>2 DEF AInv, RangeOK
<1>5. Quiet' /\ SearchKnown' /\ InsertKnown' /\ TrackKnown'
  BY <1>1 DEF Quiet, SearchKnown, InsertKnown, Inserting, TrackKnown, Tracking
<1>6. Phase = "called"
  BY <1>1 DEF Phase, Rebalancing
<1>7. /\ call.op = "find" => (pc' = "answer" => Map!Position' = Elements \cap {call.key})
      /\ call.op = "lower_bound" => (pc' = "answer" => Map!Position' = Ceil(Elements, call.key))
      /\ call.op = "upper_bound" => (pc' = "answer" => Map!Position' = Above(Elements, call.key))
      /\ call.op = "erase" => (pc' = "answer" /\ ~flag' => Map!Position' = {})
      /\ call.op = "erase_range" => (pc' = "answer" => Map!Position' = Elements \cap {call.stop})
  BY <1>1, <1>2, PositionOfNext DEF PositionOf
<1>8. CASE pc' = "answer"
  <2>1. Phase' = "applied"
    BY <1>8 DEF Phase
  <2>2. /\ EraseKnown' /\ RangeKnown'
    BY <1>8 DEF EraseKnown, RangeKnown
  <2>3. AnswerKnown'
    <3>1. PICK P : P = Map!Position'
      OBVIOUS
    <3>2. Marks(it', P)
      <4>1. CASE call.op \in Lookups
        BY <1>1, <1>7, <1>8, <3>1, <4>1 DEF Lookups
      <4>2. CASE call.op = "erase"
        BY <1>1, <1>7, <1>8, <3>1, <4>2 DEF Marks, Lookups
      <4>3. CASE call.op = "erase_range"
        BY <1>1, <1>7, <1>8, <3>1, <4>3 DEF Lookups
      <4> QED
        BY <1>1, <1>8, <4>1, <4>2, <4>3
    <3>3. call'.op \in Ops
      BY <1>1 DEF Ops, Lookups
    <3> QED
      BY <1>1, <1>3, <1>8, <3>1, <3>2, <3>3, AnswerMarks
  <2>4. MapStep
    <3>1. flag' \in BOOLEAN
      BY DEF SInv, IInv, TypeOK
    <3> QED
      BY <1>1, <1>2, <1>6, <1>8, <2>1, <3>1, ApplyKeeps
  <2> QED
    BY <1>4, <1>5, <2>2, <2>3, <2>4 DEF AInv
<1>9. CASE pc' # "answer"
  <2>1. Phase' = "called"
    BY <1>1, <1>9 DEF Phase, Rebalancing
  <2>2. MapStep
    BY <1>1, <1>2, <1>6, <2>1, MapStutters DEF SInv, IInv, TypeOK
  <2>3. EraseKnown'
    <3>1. pc' = "erase" => PointsAt(it, call.key)'
      BY <1>1, <1>9 DEF PointsAt, Lookups
    <3> QED
      BY <1>1, <1>2, <1>9, <3>1 DEF EraseKnown, Erases, Lookups
  <2>4. RangeKnown'
    <3> SUFFICES ASSUME pc' = "range" PROVE RangeKnown'
      BY DEF RangeKnown
    <3>1. PICK P : P = Ceil(Elements, call.key)
      OBVIOUS
    <3>2. call.op = "erase_range" /\ Marks(it', P)
      BY <1>1, <3>1
    <3>3. Marks(it, P)'
      BY <1>1, <1>3, <3>2, MarksNext
    <3> QED
      BY <1>1, <1>2, <3>1, <3>2, <3>3 DEF RangeKnown
  <2>5. AnswerKnown'
    BY <1>9 DEF AnswerKnown
  <2> QED
    BY <1>4, <1>5, <2>2, <2>3, <2>4, <2>5 DEF AInv
<1> QED
  BY <1>8, <1>9

----------------------------------------------------------------------------
(* Inserting. *)

\* What the leaves hold once x is mapped to v.
Adds(x, v) == \A z, w : Holds(z, w)' <=> (z = x /\ w = v) \/ (z # x /\ Holds(z, w))

LEMMA AddsToDict ==
  ASSUME SInv, SInv', NEW x, NEW v, Adds(x, v)
  PROVE  Dict' = Map!Insert(Dict, x, v) /\ \A z : z \in Elements' <=> z \in Elements \/ z = x
<1>1. /\ DOMAIN Dict = Elements
      /\ \A z, w : Holds(z, w) <=> z \in DOMAIN Dict /\ Dict[z] = w
  BY MapOfHolds DEF MapOf
<1>2. /\ DOMAIN Dict' = Elements'
      /\ Dict' = [z \in DOMAIN Dict' |-> Dict'[z]]
      /\ \A z, w : Holds(z, w)' <=> z \in DOMAIN Dict' /\ Dict'[z] = w
  BY MapOfHoldsNext DEF MapOf
<1>3. PICK d, e, D, E : d = Dict /\ e = Dict' /\ D = DOMAIN Dict /\ E = DOMAIN Dict'
  OBVIOUS
<1>4. \A z, w : z \in E /\ e[z] = w <=> (z = x /\ w = v) \/ (z # x /\ z \in D /\ d[z] = w)
  BY <1>1, <1>2, <1>3 DEF Adds
<1>5. /\ \A z : z \in E <=> z \in D \/ z = x
      /\ \A z \in E : e[z] = IF z = x THEN v ELSE d[z]
  <2>1. ASSUME NEW z \in E PROVE (z \in D \/ z = x) /\ e[z] = IF z = x THEN v ELSE d[z]
    BY <1>4, <2>1
  <2>2. ASSUME NEW z, z \in D \/ z = x PROVE z \in E
    BY <1>4, <2>2
  <2> QED
    BY <2>1, <2>2
<1>6. E = D \cup {x}
  BY ONLY <1>5
<1>7. e = [z \in D \cup {x} |-> IF z = x THEN v ELSE d[z]]
  <2>1. e = [z \in E |-> e[z]]
    BY <1>2, <1>3
  <2> QED
    BY ONLY <1>5, <1>6, <2>1
<1>8. e = Map!Insert(d, x, v)
  BY <1>3, <1>7 DEF Map!Insert
<1> QED
  BY <1>1, <1>2, <1>3, <1>5, <1>8

\* A leaf takes in x.
LEMMA LeafAdds ==
  ASSUME NEW l \in Node, NEW x, NEW v, \A n \in Node \ {l} : x \notin DOMAIN data[n],
         data'[l] = Insert(data[l], x, v), \A n \in Node \ {l} : data'[n] = data[n]
  PROVE  Adds(x, v)
<1>1. /\ \A z : z \in DOMAIN data'[l] <=> z \in DOMAIN data[l] \/ z = x
      /\ \A z \in DOMAIN data'[l] : data'[l][z] = IF z = x THEN v ELSE data[l][z]
  BY DEF Insert
<1>2. ASSUME NEW z, NEW w, NEW n \in Node, z \in DOMAIN data'[n], data'[n][z] = w
      PROVE  (z = x /\ w = v) \/ (z # x /\ z \in DOMAIN data[n] /\ data[n][z] = w)
  BY <1>1, <1>2
<1>3. ASSUME NEW z, NEW w, NEW n \in Node, z # x, z \in DOMAIN data[n], data[n][z] = w
      PROVE  z \in DOMAIN data'[n] /\ data'[n][z] = w
  BY <1>1, <1>3
<1>4. x \in DOMAIN data'[l] /\ data'[l][x] = v
  BY <1>1
<1> QED
  BY <1>2, <1>3, <1>4 DEF Adds, Holds

\* Leaf p is split with q, and x put into one of them.
LEMMA SplitAdds ==
  ASSUME NEW p \in Node, NEW q \in Node, p # q, DOMAIN data[q] = {},
         NEW hi, hi \subseteq DOMAIN data[p], NEW x, \A n \in Node : x \notin DOMAIN data[n],
         NEW v, NEW target \in {p, q}, SplitDone(data, data', p, q, hi, x, v, target)
  PROVE  Adds(x, v)
<1>1. /\ \A z : z \in DOMAIN data'[p] <=> (z \in DOMAIN data[p] /\ z \notin hi) \/ (target = p /\ z = x)
      /\ \A z : z \in DOMAIN data'[q] <=> z \in hi \/ (target # p /\ z = x)
      /\ \A n \in Node \ {p, q} : data'[n] = data[n]
      /\ \A t \in DOMAIN data[p] \ hi : data'[p][t] = data[p][t]
      /\ \A t \in hi : data'[q][t] = data[p][t]
      /\ data'[target][x] = v
  BY DEF SplitDone
<1>2. ASSUME NEW z, NEW w, NEW n \in Node, z \in DOMAIN data'[n], data'[n][z] = w
      PROVE  (z = x /\ w = v) \/ (z # x /\ \E m \in Node : z \in DOMAIN data[m] /\ data[m][z] = w)
  <2>1. CASE n = p
    BY <1>1, <1>2, <2>1
  <2>2. CASE n = q
    BY <1>1, <1>2, <2>2
  <2>3. CASE n \notin {p, q}
    BY <1>1, <1>2, <2>3
  <2> QED
    BY <2>1, <2>2, <2>3
<1>3. ASSUME NEW z, NEW w, NEW n \in Node, z \in DOMAIN data[n], data[n][z] = w
      PROVE  \E m \in Node : z \in DOMAIN data'[m] /\ data'[m][z] = w
  <2>1. CASE n = p /\ z \in hi
    BY <1>1, <1>3, <2>1
  <2>2. CASE n = p /\ z \notin hi
    BY <1>1, <1>3, <2>2
  <2>3. CASE n # p
    BY <1>1, <1>3, <2>3
  <2> QED
    BY <2>1, <2>2, <2>3
<1>4. x \in DOMAIN data'[target] /\ target \in Node
  BY <1>1
<1>5. \A z, w : Holds(z, w) => z # x
  BY DEF Holds
<1> QED
  BY <1>1, <1>2, <1>3, <1>4, <1>5 DEF Adds, Holds

\* A key has the index it is put at.
LEMMA RankOfNew ==
  ASSUME NEW S \in SUBSET Int, NEW x \in Int, NEW T, \A t : t \in T <=> t \in S \/ t = x
  PROVE  Rank(T, x) = Rank(S, x) /\ x \in At(T, Rank(S, x))
<1>1. ~(x < x)
  OBVIOUS
<1>2. \A t : t \in T /\ t < x <=> t \in S /\ t < x
  BY <1>1
<1>3. {t \in T : t < x} = {t \in S : t < x}
  BY ONLY <1>2
<1> QED
  BY <1>3 DEF Rank, At

\* An insert of a leaf takes effect; the iterator points at its key.
LEMMA InsertTakesEffect ==
  ASSUME SInv, SInv', AInv, pc = "leaf", call.op \in Inserts, UNCHANGED <<call, ret>>,
         pc' \in {"promote", "fix", "answer"}, pc' = "fix" => cont' = "answer",
         it'.leaf \in Leaves', PointsAt(it, call.key)',
         \/ /\ call.op = "insert" /\ call.key \in Elements /\ pc' = "answer" /\ flag' = FALSE
            /\ data' = data
         \/ /\ Adds(call.key, call.val) /\ pc' = "answer" /\ flag' = FALSE
            /\ call.op = "insert_or_assign" /\ call.key \in Elements
         \/ /\ Adds(call.key, call.val) /\ flag' = TRUE /\ call.key \notin Elements
  PROVE  AInv' /\ MapStep
<1>1. /\ \A x : x \in Elements' <=> x \in Elements \/ x = call.key
      /\ call.op = "insert" /\ call.key \in Elements => Dict' = Dict
      /\ ~(call.op = "insert" /\ call.key \in Elements) => Dict' = Map!Insert(Dict, call.key, call.val)
  <2>1. CASE data' = data /\ call.op = "insert" /\ call.key \in Elements
    BY <2>1, SameData
  <2>2. CASE Adds(call.key, call.val) /\ ~(call.op = "insert" /\ call.key \in Elements)
    BY <2>2, AddsToDict
  <2> QED
    BY <2>1, <2>2
<1>2. RangeOK'
  BY DEF RangeOK, Inserts
<1>3. AnswerKnown'
  <2> SUFFICES ASSUME pc' = "answer" PROVE AnswerKnown'
    BY DEF AnswerKnown
  <2>1. Map!Position' = Elements' \cap {call.key}
    BY PositionOfNext DEF PositionOf
  <2>2. call.key \in Map!Position'
    BY <1>1, <2>1
  <2> QED
    BY <2>2 DEF AnswerKnown, Marks, Ops
<1>4. AInv'
  <2>1. InsertKnown'
    BY DEF InsertKnown, Inserting
  <2> QED
    BY <1>2, <1>3, <2>1
       DEF AInv, Quiet, SearchKnown, EraseKnown, TrackKnown, Tracking, RangeKnown
<1>5. Phase = "called" /\ Phase' = "applied"
  BY DEF Phase, Rebalancing, Inserts
<1>6. DOMAIN Dict = Elements
  BY MapOfHolds DEF MapOf
<1>7. flag' = (call.key \notin DOMAIN Dict)
  BY <1>6
<1>8. MapStep
  <2>1. Map!Effect
    <3>1. CASE call.op = "insert"
      BY <1>1, <1>5, <1>6, <1>7, <3>1 DEF Map!Effect
    <3>2. CASE call.op = "insert_or_assign"
      BY <1>1, <1>5, <1>6, <1>7, <3>2 DEF Map!Effect
    <3> QED
      BY <3>1, <3>2 DEF Inserts
  <2>2. Map!Apply
    BY <1>5, <2>1 DEF Map!Apply
  <2> QED
    BY <2>2 DEF MapStep, Map!Next, Map!Serve
<1> QED
  BY <1>4, <1>8

\* The key of an insert is in the leaf found for it, or nowhere.
LEMMA InsertAt ==
  ASSUME SInv, AInv, AtLeaf, call.op \in Inserts
  PROVE  /\ pc = "leaf" /\ k = call.key /\ UNCHANGED <<call, ret>> /\ flag = FALSE
         /\ node \in Node /\ node \in Leaves /\ node # Null /\ k \in Int
         /\ DOMAIN data[node] \in SUBSET Int
         /\ \A n \in Node \ {node} : k \notin DOMAIN data[n]
         /\ k \in Elements <=> k \in DOMAIN data[node]
         /\ data = [n \in Node |-> data[n]]
<1>1. pc = "leaf" /\ k = call.key /\ UNCHANGED <<call, ret>> /\ flag = FALSE
  BY DEF AtLeaf, AInv, Quiet, SearchKnown, Inserts
<1>2. /\ Basic /\ node \in Leaves /\ k \in Int /\ (k \in Elements <=> k \in Held[node])
      /\ Held[node] = DOMAIN data[node] /\ Held[node] \in SUBSET Int
  BY <1>1, LeafFound
<1>3. node \in Node /\ node # Null
  BY <1>2 DEF Basic
<1>4. ASSUME NEW n \in Node \ {node}, k \in DOMAIN data[n] PROVE FALSE
  <2>1. n \in Leaves /\ k \in Elements
    BY <1>4, OnlyLeaves
  <2> QED
    BY <1>2, <1>4, <2>1, OneLeaf
<1>5. data = [n \in Node |-> data[n]]
  BY DEF SInv, IInv, TypeOK, Maps
<1> QED
  BY <1>1, <1>2, <1>3, <1>4, <1>5

LEMMA InsertExistingAnswers == ASSUME SInv, SInv', AInv, InsertExisting PROVE AInv' /\ MapStep
<1>1. /\ AtLeaf /\ call.op \in Inserts /\ k \in DOMAIN data[node] /\ pc' = "answer"
      /\ it' = [leaf |-> node, idx |-> Rank(DOMAIN data[node], k)]
      /\ UNCHANGED <<kind, flag>>
      /\ data' = IF call.op = "insert_or_assign"
                 THEN [data EXCEPT ![node] = Insert(data[node], k, call.val)] ELSE data
  BY DEF InsertExisting
<1>2. /\ pc = "leaf" /\ k = call.key /\ UNCHANGED <<call, ret>> /\ flag = FALSE
      /\ node \in Node /\ node \in Leaves /\ node # Null /\ k \in Int
      /\ DOMAIN data[node] \in SUBSET Int
      /\ \A n \in Node \ {node} : k \notin DOMAIN data[n]
      /\ k \in Elements <=> k \in DOMAIN data[node]
      /\ data = [n \in Node |-> data[n]]
  BY <1>1, InsertAt
<1>3. PICK l, S : l = node /\ S = DOMAIN data[node]
  OBVIOUS
<1>4. CASE call.op = "insert_or_assign"
  <2>1. data'[l] = Insert(data[l], k, call.val) /\ \A n \in Node \ {l} : data'[n] = data[n]
    BY <1>1, <1>2, <1>3, <1>4
  <2>2. Adds(k, call.val)
    BY <1>2, <1>3, <2>1, LeafAdds
  <2>3. DOMAIN data'[l] = S
    BY <1>1, <1>3, <2>1 DEF Insert
  <2>4. it'.leaf = l /\ it'.leaf # Null /\ k \in At(S, it'.idx)
    BY <1>1, <1>2, <1>3 DEF At
  <2>5. PointsAt(it, call.key)'
    BY <1>2, <2>3, <2>4 DEF PointsAt
  <2>6. Leaves' = Leaves
    BY <1>1 DEF Leaves, IsLeaf
  <2> QED
    BY <1>1, <1>2, <1>3, <1>4, <2>2, <2>4, <2>5, <2>6, InsertTakesEffect
<1>5. CASE call.op = "insert"
  <2>1. data' = data
    BY <1>1, <1>5
  <2>2. it'.leaf = l /\ it'.leaf # Null /\ k \in At(S, it'.idx)
    BY <1>1, <1>2, <1>3 DEF At
  <2>3. PointsAt(it, call.key)'
    BY <1>2, <1>3, <2>1, <2>2 DEF PointsAt
  <2>4. Leaves' = Leaves
    BY <1>1 DEF Leaves, IsLeaf
  <2> QED
    BY <1>1, <1>2, <1>3, <1>5, <2>1, <2>2, <2>3, <2>4, InsertTakesEffect
<1> QED
  BY <1>1, <1>4, <1>5 DEF Inserts

LEMMA InsertRoomAnswers == ASSUME SInv, SInv', AInv, InsertRoom PROVE AInv' /\ MapStep
<1>1. /\ AtLeaf /\ call.op \in Inserts /\ k \notin DOMAIN data[node]
      /\ pc' \in {"fix", "answer"} /\ cont' = "answer"
      /\ it' = [leaf |-> node, idx |-> Rank(DOMAIN data[node], k)]
      /\ flag' = TRUE /\ kind' = kind
      /\ data' = [data EXCEPT ![node] = Insert(data[node], k, call.val)]
  BY DEF InsertRoom
<1>2. /\ pc = "leaf" /\ k = call.key /\ UNCHANGED <<call, ret>>
      /\ node \in Node /\ node \in Leaves /\ node # Null /\ k \in Int
      /\ DOMAIN data[node] \in SUBSET Int
      /\ \A n \in Node \ {node} : k \notin DOMAIN data[n]
      /\ k \in Elements <=> k \in DOMAIN data[node]
      /\ data = [n \in Node |-> data[n]]
  BY <1>1, InsertAt
<1>3. PICK l, S, T : l = node /\ S = DOMAIN data[node] /\ T = DOMAIN data'[node]
  OBVIOUS
<1>4. data'[l] = Insert(data[l], k, call.val) /\ \A n \in Node \ {l} : data'[n] = data[n]
  BY <1>1, <1>2, <1>3
<1>5. Adds(k, call.val)
  BY <1>2, <1>3, <1>4, LeafAdds
<1>6. \A t : t \in T <=> t \in S \/ t = k
  BY <1>3, <1>4 DEF Insert
<1>7. it'.leaf = l /\ it'.leaf # Null /\ k \in At(T, it'.idx)
  BY <1>1, <1>2, <1>3, <1>6, RankOfNew
<1>8. PointsAt(it, call.key)'
  BY <1>2, <1>3, <1>7 DEF PointsAt
<1>9. Leaves' = Leaves
  BY <1>1 DEF Leaves, IsLeaf
<1> QED
  BY <1>1, <1>2, <1>3, <1>5, <1>7, <1>8, <1>9, InsertTakesEffect

LEMMA SplitLeafAnswers == ASSUME SInv, SInv', AInv, SplitLeaf PROVE AInv' /\ MapStep
<1>1. AtLeaf /\ call.op \in Inserts /\ k \notin DOMAIN data[node] /\ flag' = TRUE /\ pc' = "promote"
  BY DEF SplitLeaf
<1>2. /\ pc = "leaf" /\ k = call.key /\ UNCHANGED <<call, ret>>
      /\ node \in Node /\ node \in Leaves /\ node # Null /\ k \in Int
      /\ DOMAIN data[node] \in SUBSET Int
      /\ \A n \in Node \ {node} : k \notin DOMAIN data[n]
      /\ k \in Elements <=> k \in DOMAIN data[node]
  BY <1>1, InsertAt
<1>3. PICK upper : upper = DOMAIN data[node] \ LowestN(DOMAIN data[node], (LeafNodeSize + 1) \div 2)
  OBVIOUS
<1>4. PICK q \in OneOf(Free), mid \in First(upper) :
        LET target == IF k < mid THEN node ELSE q
            split  == Move(data, node, q, upper)
        IN  /\ kind' = [kind EXCEPT ![q] = "leaf"]
            /\ data' = [split EXCEPT ![target] = Insert(@, k, call.val)]
            /\ it' = [leaf |-> target, idx |-> Rank(DOMAIN split[target], k)]
  BY <1>3 DEF SplitLeaf
<1>5. PICK split, target, x, v, f1 :
        /\ target = IF k < mid THEN node ELSE q
        /\ split = Move(data, node, q, upper)
        /\ x = k /\ v = call.val /\ f1 = data'
  OBVIOUS
<1>6. /\ kind' = [kind EXCEPT ![q] = "leaf"]
      /\ f1 = [split EXCEPT ![target] = Insert(split[target], x, v)]
      /\ it' = [leaf |-> target, idx |-> Rank(DOMAIN split[target], x)]
      /\ target \in {node, q} /\ upper \subseteq DOMAIN data[node]
  BY <1>3, <1>4, <1>5
<1>7. Maps(data, Value) /\ kind \in [Node -> {"free", "leaf", "low", "high"}]
  BY DEF SInv, IInv, TypeOK
<1>8. /\ q \in Node /\ q # node /\ DOMAIN data[q] = {} /\ q # Null
  <2>1. q \in Node /\ kind[q] = "free"
    BY <1>4 DEF OneOf, Free
  <2>2. q \notin Leaves /\ q # Null
    BY <2>1, NodeAssumption DEF Leaves, IsLeaf
  <2>3. \A z \in DOMAIN data[q] : FALSE
    BY <2>1, <2>2, OnlyLeaves
  <2> QED
    BY <1>2, <2>1, <2>2, <2>3
<1>9. \A n \in Node : x \notin DOMAIN data[n]
  BY <1>1, <1>2, <1>5
<1>10. target \in Node /\ DOMAIN split = Node
  BY <1>2, <1>5, <1>6, <1>7, <1>8 DEF Maps, Move
<1>11. f1[target] = Insert(split[target], x, v) /\ \A n \in Node \ {target} : f1[n] = split[n]
  BY ONLY <1>6, <1>10
<1>12. SplitStep(data, f1, node, q, upper, x, v, target)
  BY ONLY <1>5, <1>11 DEF SplitStep
<1>13. SplitDone(data, f1, node, q, upper, x, v, target)
  BY ONLY <1>2, <1>6, <1>7, <1>8, <1>9, <1>12, SplitMap
<1>14. Adds(x, v)
  <2>1. SplitDone(data, data', node, q, upper, x, v, target)
    BY ONLY <1>5, <1>13
  <2>2. node \in Node /\ q \in Node /\ node # q
    BY <1>2, <1>8
  <2> QED
    BY ONLY <1>6, <1>8, <1>9, <2>1, <2>2, SplitAdds
<1>15. target \in Leaves'
  BY <1>2, <1>6, <1>7, <1>8 DEF Leaves, IsLeaf
<1>16. x \in At(DOMAIN f1[target], it'.idx)
  <2>1. PICK S, T : S = DOMAIN split[target] /\ T = DOMAIN f1[target]
    OBVIOUS
  <2>2. \A t : t \in T <=> t \in S \/ t = x
    BY <1>11, <2>1 DEF Insert
  <2>3. S \in SUBSET Int
    <3>1. T \subseteq Int
      BY <1>5, <1>7, <2>1, <1>10, KeyAssumption, SInv' DEF SInv, IInv, TypeOK, Maps, IsMap
    <3> QED
      BY <2>2, <3>1
  <2>4. x \in At(T, Rank(S, x))
    BY <1>2, <1>5, <2>2, <2>3, RankOfNew
  <2> QED
    BY <1>6, <2>1, <2>4
<1>17. PointsAt(it, call.key)'
  <2>1. it'.leaf = target /\ target # Null
    BY <1>2, <1>6, <1>8
  <2> QED
    BY <1>2, <1>5, <1>16, <2>1 DEF PointsAt
<1> QED
  BY <1>1, <1>2, <1>5, <1>6, <1>14, <1>15, <1>17, InsertTakesEffect

----------------------------------------------------------------------------
(* Steps that change the tree above the leaves. *)

\* While separators are inserted, the iterator keeps pointing at the new element.
LEMMA InsertGoesOn ==
  ASSUME SInv, SInv', AInv, Inserting, UNCHANGED <<data, call, it, flag, ret>>,
         Inserting' \/ pc' = "answer", Leaves \subseteq Leaves'
  PROVE  AInv' /\ MapStep
<1>1. call.op \in Inserts /\ flag /\ it.leaf \in Leaves /\ PointsAt(it, call.key)
  BY DEF AInv, InsertKnown
<1>2. Dict' = Dict /\ Elements' = Elements
  BY SameData
<1>3. it'.leaf \in Leaves' /\ PointsAt(it, call.key)'
  BY <1>1 DEF PointsAt
<1>4. /\ pc' \in {"promote", "leftmost", "answer"} \/ (pc' = "fix" /\ cont' \in {"leftmost", "answer"})
      /\ pc \in {"promote", "leftmost", "fix"}
  BY DEF Inserting
<1>5. Phase = "applied" /\ Phase' = "applied"
  BY <1>1, <1>4 DEF Phase, Rebalancing, Inserts
<1>6. MapStep
  BY <1>2, <1>5, MapStutters DEF SInv, IInv, TypeOK
<1>7. AnswerKnown'
  <2> SUFFICES ASSUME pc' = "answer" PROVE AnswerKnown'
    BY DEF AnswerKnown
  <2>1. Map!Position' = Elements \cap {call.key}
    BY <1>1, <1>2, PositionOfNext DEF PositionOf
  <2>2. call.key \in Elements
    <3>1. call.key \in DOMAIN data[it.leaf] /\ it.leaf \in Node
      BY <1>1 DEF PointsAt, At, Leaves
    <3> QED
      BY <3>1, OnlyLeaves
  <2>3. call.key \in Map!Position'
    BY <2>1, <2>2
  <2> QED
    BY <1>1, <1>3, <2>3 DEF AnswerKnown, Marks, Ops
<1>8. InsertKnown'
  BY <1>1, <1>3 DEF InsertKnown
<1>9. Quiet' /\ RangeOK' /\ SearchKnown' /\ EraseKnown' /\ TrackKnown' /\ RangeKnown'
  BY <1>1, <1>4 DEF Quiet, RangeOK, Inserts, SearchKnown, EraseKnown, TrackKnown, Tracking, RangeKnown
<1> QED
  BY <1>6, <1>7, <1>8, <1>9 DEF AInv

LEMMA LeavesKept ==
  ASSUME SInv, SInv', Leaves \subseteq Leaves', data' = data
  PROVE  \A l \in Leaves : Held'[l] = Held[l]
<1>1. Basic /\ Basic'
  BY HeldBasic, HeldBasicNext DEF SInv
<1> QED
  BY <1>1 DEF Basic

\* While separators are removed, the tracked iterator stays where it is.
LEMMA TrackGoesOn ==
  ASSUME SInv, SInv', AInv, Tracking, UNCHANGED <<data, call, it, inNext, flag, ret, nextLeaf>>,
         Tracking', Leaves \subseteq Leaves',
         (pc' = "fix" /\ cont' = "underflow") \/ (pc' = "underflow" /\ IsLeaf(node)')
           => pc = "fix" /\ cont = "underflow",
         pc' = "underflow" /\ IsLeaf(node)' => node' = it.leaf
  PROVE  AInv' /\ MapStep
<1>1. /\ call.op \in Erases /\ flag = (call.op = "erase")
      /\ call.op = "erase" => call.key \notin Elements
      /\ Tracked
      /\ (pc = "fix" /\ cont = "underflow") \/ (pc = "underflow" /\ IsLeaf(node)) => NextKnown
  BY DEF AInv, TrackKnown
<1>2. Dict' = Dict /\ Elements' = Elements
  BY SameData
<1>3. Held'[it.leaf] = Held[it.leaf]
  BY <1>1, LeavesKept DEF Tracked
<1>4. Tracked' /\ NextKnown' = NextKnown
  BY <1>1, <1>2, <1>3 DEF Tracked, NextKnown
<1>5. TrackKnown'
  BY <1>1, <1>2, <1>4 DEF TrackKnown
<1>6. /\ pc' \in {"underflow", "parent", "next"} \/ (pc' = "fix" /\ cont' \in {"underflow", "next"})
      /\ pc \in {"underflow", "parent", "next", "fix"}
  BY DEF Tracking
<1>7. Phase' = Phase
  BY <1>6 DEF Phase, Rebalancing
<1>8. MapStep
  BY <1>2, <1>7, MapStutters DEF SInv, IInv, TypeOK
<1>9. RangeOK'
  BY <1>2 DEF AInv, RangeOK
<1>10. Quiet' /\ SearchKnown' /\ InsertKnown' /\ EraseKnown' /\ RangeKnown' /\ AnswerKnown'
  BY <1>6 DEF Quiet, SearchKnown, InsertKnown, Inserting, EraseKnown, RangeKnown, AnswerKnown
<1> QED
  BY <1>5, <1>8, <1>9, <1>10 DEF AInv

LEMMA PromoteAnswers ==
  ASSUME SInv, SInv', AInv, PromoteNewRoot \/ PromoteRoom \/ PromoteSplit
  PROVE  AInv' /\ MapStep
<1>1. Promote
  BY DEF PromoteNewRoot, PromoteRoom, PromoteSplit
<1>2. pc = "promote" /\ UNCHANGED <<data, call, it, flag, ret>> /\ cont \in {"fixLeft", "answer"}
  BY <1>1 DEF Promote, SInv, IInv, ArgumentsOK
<1>3. \/ pc' = "fix" /\ cont' = "leftmost"
      \/ pc' = "answer"
      \/ pc' = pc
  BY DEF PromoteNewRoot, PromoteRoom, PromoteSplit, AfterPromote
<1>4. kind' = kind \/ \E q \in Free : \E x : kind' = [kind EXCEPT ![q] = x]
  BY DEF PromoteNewRoot, PromoteRoom, PromoteSplit, OneOf
<1>5. Leaves \subseteq Leaves'
  <2>1. ASSUME NEW l \in Leaves PROVE l \in Leaves'
    <3>1. CASE kind' = kind
      BY <3>1 DEF Leaves, IsLeaf
    <3>2. ASSUME NEW q \in Free, NEW x, kind' = [kind EXCEPT ![q] = x] PROVE l \in Leaves'
      BY <3>2 DEF Free, Leaves, IsLeaf
    <3> QED
      BY <1>4, <3>1, <3>2
  <2> QED
    BY <2>1
<1>6. Inserting /\ (Inserting' \/ pc' = "answer")
  BY <1>2, <1>3 DEF Inserting
<1> QED
  BY <1>2, <1>5, <1>6, InsertGoesOn

LEMMA UpdateLeftmostAnswers == ASSUME SInv, SInv', AInv, UpdateLeftmost PROVE AInv' /\ MapStep
<1>1. pc = "leftmost" /\ pc' = "answer" /\ UNCHANGED <<data, kind, call, it, flag, ret>>
  BY DEF UpdateLeftmost, heap
<1>2. Leaves' = Leaves
  BY <1>1 DEF Leaves, IsLeaf
<1> QED
  BY <1>1, <1>2, InsertGoesOn DEF Inserting

LEMMA FixSeparatorAnswers == ASSUME SInv, SInv', AInv, FixSeparator PROVE AInv' /\ MapStep
<1>1. /\ pc = "fix" /\ UNCHANGED <<data, kind, nextLeaf, call, it, inNext, flag, ret, cont>>
      /\ cont \in {"leftmost", "underflow", "next", "answer"}
  BY DEF FixSeparator, Fix, chain, SInv, IInv, TypeOK, ArgumentsOK, Conts
<1>2. pc' = "fix" \/ (pc' = cont /\ node' = it.leaf)
  BY <1>1 DEF FixSeparator, FixReturns
<1>3. Leaves' = Leaves
  BY <1>1 DEF Leaves, IsLeaf
<1>4. CASE cont \in {"leftmost", "answer"}
  <2>1. Inserting /\ (Inserting' \/ pc' = "answer")
    BY <1>1, <1>2, <1>4 DEF Inserting
  <2> QED
    BY <1>1, <1>3, <2>1, InsertGoesOn
<1>5. CASE cont \in {"underflow", "next"}
  <2>1. Tracking /\ Tracking'
    BY <1>1, <1>2, <1>5 DEF Tracking
  <2>2. /\ (pc' = "fix" /\ cont' = "underflow") \/ (pc' = "underflow" /\ IsLeaf(node)')
             => pc = "fix" /\ cont = "underflow"
        /\ pc' = "underflow" /\ IsLeaf(node)' => node' = it.leaf
    BY <1>1, <1>2, <1>5
  <2> QED
    BY <1>1, <1>3, <2>1, <2>2, TrackGoesOn
<1> QED
  BY <1>1, <1>4, <1>5

LEMMA ParentAnswers ==
  ASSUME SInv, SInv', AInv, ParentUnderflows \/ CollapseRoot \/ ParentStands
  PROVE  AInv' /\ MapStep
<1>1. pc = "parent" /\ UNCHANGED <<data, nextLeaf, call, it, inNext, flag, ret, cont>>
  BY DEF ParentUnderflows, CollapseRoot, ParentStands, AfterMerge, chain
<1>2. node \in Inner /\ ~IsLeaf(node)
  BY <1>1 DEF SInv, Shape, Running, Erasing, Inner, Allocated, Leaves
<1>3. /\ pc' = "next" \/ (pc' = "underflow" /\ UNCHANGED <<node, kind>>)
      /\ kind' = kind \/ kind' = [kind EXCEPT ![node] = "free"]
  BY DEF ParentUnderflows, CollapseRoot, ParentStands
<1>4. Leaves \subseteq Leaves'
  <2> SUFFICES ASSUME NEW l \in Leaves PROVE l \in Leaves'
    OBVIOUS
  <2>1. l # node /\ l \in Node /\ kind[l] = "leaf" /\ kind \in [Node -> {"free", "leaf", "low", "high"}]
    BY <1>2 DEF Leaves, IsLeaf, SInv, IInv, TypeOK
  <2>2. kind'[l] = "leaf"
    BY <1>3, <2>1
  <2> QED
    BY <2>1, <2>2 DEF Leaves, IsLeaf
<1>5. Tracking /\ Tracking' /\ ~(pc' = "underflow" /\ IsLeaf(node)') /\ pc' # "fix"
  BY <1>1, <1>2, <1>3 DEF Tracking, IsLeaf
<1> QED
  BY <1>1, <1>4, <1>5, TrackGoesOn

----------------------------------------------------------------------------
(* The loop of a range erase, and returning. *)

\* An iterator points at one key.
LEMMA PointsAtOne ==
  ASSUME SInv, NEW i, i.leaf \in Leaves, NEW x, PointsAt(i, x)
  PROVE  /\ x \in DOMAIN data[i.leaf] /\ i # EndIt /\ x \in Elements
         /\ \A y : PointsAt(i, y) => y = x
<1>1. PICK S : S = DOMAIN data[i.leaf]
  OBVIOUS
<1>2. Basic
  BY HeldBasic DEF SInv
<1>3. S \in SUBSET Int /\ IsFiniteSet(S) /\ i.leaf \in Node /\ i.leaf # Null
  BY <1>1, <1>2 DEF Basic
<1>4. \A y : PointsAt(i, y) => y \in S /\ Rank(S, y) = i.idx
  BY <1>1 DEF PointsAt, At
<1>5. \A y, z \in S : y < z => Rank(S, y) < Rank(S, z)
  BY <1>3, RankOrder
<1>6. \A y \in S : Rank(S, y) \in Nat
  BY <1>3, RankOrder
<1>7. ASSUME NEW y, PointsAt(i, y) PROVE y = x
  <2>1. y \in S /\ x \in S /\ Rank(S, y) = Rank(S, x) /\ Rank(S, x) \in Nat /\ y \in Int /\ x \in Int
    BY <1>3, <1>4, <1>6, <1>7
  <2>2. ~(y < x) /\ ~(x < y)
    BY <1>5, <2>1
  <2> QED
    BY <2>1, <2>2
<1>8. x \in S
  BY <1>4
<1> QED
  BY <1>1, <1>3, <1>7, <1>8, OnlyLeaves DEF EndIt

\* An end iterator points at nothing.
LEMMA EndMarksNothing ==
  ASSUME NEW P, Marks(EndIt, P)
  PROVE  P = {}
BY DEF Marks, PointsAt, EndIt

\* Next of a key that is not there.
LEMMA AboveAbsent ==
  ASSUME NEW S \in SUBSET Int, NEW c \in Int, c \notin S
  PROVE  Above(S, c) = Ceil(S, c)
<1>1. \A s \in S : s > c <=> s >= c
  OBVIOUS
<1> QED
  BY <1>1 DEF Above, Ceil

LEMMA NextElementAnswers == ASSUME SInv, SInv', AInv, NextElement PROVE AInv' /\ MapStep
<1>1. /\ pc = "next" /\ it' = Resolve(it.leaf, it.idx)
      /\ pc' = IF call.op = "erase_range" THEN "range" ELSE "answer"
      /\ UNCHANGED <<data, kind, call, flag, ret>>
  BY DEF NextElement, EraseReturns, heap
<1>2. /\ call.op \in Erases /\ flag = (call.op = "erase")
      /\ call.op = "erase" => call.key \notin Elements
      /\ Tracked
  BY <1>1 DEF AInv, TrackKnown, Tracking
<1>3. call.key \in Int
  BY <1>2, KeyAssumption DEF SInv, IInv, ArgumentsOK, Erases, Ops, Inserts, Lookups
<1>4. PICK h : Shape(h)
  BY DEF SInv
<1>5. Basic /\ Sound(h, {}, {}, {})
  BY <1>1, <1>4, Settled, HeldBasic DEF SInv
<1>6. Elements \in SUBSET Int
  BY LeafSegmentHolds DEF LeafSegment
<1>7. PICK c, l, i : c = call.key /\ l = it.leaf /\ i = it.idx
  OBVIOUS
<1>8. /\ l \in Leaves /\ Held[l] # {} /\ Around(Elements, Held[l], c) /\ c \in Int
      /\ i = IndexIn(Held[l], c)
  BY <1>2, <1>3, <1>7 DEF Tracked
<1>9. IF \E y \in Held[l] : c =< y THEN i = Rank(Held[l], c) ELSE At(Held[l], i) = {}
  <2>1. PICK S : S = Held[l]
    OBVIOUS
  <2>2. S \in SUBSET Int /\ IsFiniteSet(S)
    BY <1>5, <1>8, <2>1 DEF Basic
  <2>3. At(S, NoIndex) = {}
    BY <1>8, <2>2, IndexOf
  <2> QED
    BY <1>8, <2>1, <2>3 DEF IndexIn
<1>10. Marks(Resolve(l, i), Ceil(Elements, c))
  BY <1>5, <1>6, <1>8, <1>9, ResolveMarks
<1>11. Dict' = Dict /\ Elements' = Elements
  BY <1>1, SameData
<1>12. Leaves' = Leaves
  BY <1>1 DEF Leaves, IsLeaf
<1>13. PICK P : P = Ceil(Elements, call.key)
  OBVIOUS
<1>14. Marks(it', P)
  BY <1>1, <1>7, <1>10, <1>13
<1>15. RangeOK'
  BY <1>1, <1>11 DEF AInv, RangeOK
<1>16. CASE call.op = "erase"
  <2>1. pc' = "answer" /\ flag'
    BY <1>1, <1>2, <1>16
  <2>2. Map!Position' = Above(Elements, call.key)
    BY <1>1, <1>11, <1>16, <2>1, PositionOfNext DEF PositionOf
  <2>3. Map!Position' = P
    BY <1>2, <1>3, <1>6, <1>13, <1>16, <2>2, AboveAbsent
  <2>4. AnswerKnown'
    BY <1>1, <1>12, <1>14, <1>16, <2>1, <2>3, AnswerMarks DEF Ops
  <2>5. AInv'
    BY <1>15, <2>1, <2>4
       DEF AInv, Quiet, SearchKnown, InsertKnown, Inserting, EraseKnown, TrackKnown, Tracking, RangeKnown
  <2>6. Phase = "applied" /\ Phase' = "applied"
    BY <1>1, <1>16, <2>1 DEF Phase, Rebalancing
  <2> QED
    BY <1>1, <1>11, <2>5, <2>6, MapStutters DEF SInv, IInv, TypeOK
<1>17. CASE call.op = "erase_range"
  <2>1. pc' = "range" /\ ~flag'
    BY <1>1, <1>2, <1>17
  <2>2. Marks(it, P)'
    BY <1>1, <1>12, <1>14, MarksNext
  <2>3. RangeKnown'
    BY <1>1, <1>11, <1>13, <1>17, <2>2 DEF RangeKnown
  <2>4. AInv'
    BY <1>15, <2>1, <2>3
       DEF AInv, Quiet, SearchKnown, InsertKnown, Inserting, EraseKnown, TrackKnown, Tracking, AnswerKnown
  <2>5. Phase = "called" /\ Phase' = "called"
    BY <1>1, <1>17, <2>1 DEF Phase, Rebalancing
  <2> QED
    BY <1>1, <1>11, <2>4, <2>5, MapStutters DEF SInv, IInv, TypeOK
<1> QED
  BY <1>2, <1>16, <1>17 DEF Erases

\* Where the loop is: at the first element of what is left of the range, or at its end.
LEMMA RangeFacts ==
  ASSUME SInv, AInv, EraseRange
  PROVE  /\ pc = "range" /\ call.op = "erase_range" /\ flag = FALSE
         /\ UNCHANGED <<data, kind, call, flag, ret>>
         /\ AtStop => Map!InRange = {}
         /\ AtStop /\ call.stop = None => it = EndIt
         /\ ~AtStop => \E x \in Ceil(Elements, call.key) :
                         PointsAt(it, x) /\ (call.stop # None => x < call.stop)
<1>1. /\ pc = "range" /\ call.op = "erase_range" /\ flag = FALSE
      /\ UNCHANGED <<data, kind, call, flag, ret>>
      /\ Marks(it, Ceil(Elements, call.key))
      /\ call.stop # None => call.stop \in Elements /\ call.key =< call.stop
  BY DEF EraseRange, heap, AInv, RangeKnown, Quiet, RangeOK
<1>2. /\ call.key \in Int /\ None \notin Elements
      /\ Elements \in SUBSET Int /\ IsFiniteSet(Elements) /\ DOMAIN Dict = Elements
  BY <1>1, KeyAssumption, LeafSegmentHolds, MapOfHolds
     DEF SInv, IInv, ArgumentsOK, Ops, LeafSegment, MapOf
<1>3. CASE it = EndIt
  <2>1. Ceil(Elements, call.key) = {}
    BY <1>1, <1>3, EndMarksNothing
  <2>2. \A y \in Elements : ~(call.key =< y)
    BY <1>2, <2>1, IndexOf
  <2>3. \A y \in Elements : ~(y >= call.key)
    BY <1>2, <2>2
  <2>4. Map!InRange = {}
    BY <1>2, <2>3 DEF Map!InRange
  <2> QED
    BY <1>1, <1>3, <2>4 DEF AtStop
<1>4. CASE it # EndIt
  <2>1. PICK x \in Ceil(Elements, call.key) : it.leaf \in Leaves /\ PointsAt(it, x)
    BY <1>1, <1>4 DEF Marks
  <2>2. /\ x \in Elements /\ call.key =< x /\ x \in Int
        /\ \A t \in Elements : t >= call.key => x =< t
    BY <1>2, <2>1 DEF Ceil
  <2>3. \A y : PointsAt(it, y) => y = x
    BY <2>1, PointsAtOne
  <2>4. CASE AtStop
    <3>1. call.stop = x
      BY <1>4, <2>3, <2>4 DEF AtStop
    <3>2. \A t \in Elements : t >= call.key => ~(t < x)
      BY <1>2, <2>2
    <3>3. Map!InRange = {} /\ call.stop # None
      BY <1>2, <2>2, <3>1, <3>2 DEF Map!InRange
    <3> QED
      BY <1>1, <2>4, <3>3
  <2>5. CASE ~AtStop
    <3>1. call.stop # None => x < call.stop
      <4> SUFFICES ASSUME call.stop # None PROVE x < call.stop
        OBVIOUS
      <4>1. call.stop \in Elements /\ call.stop \in Int /\ call.key =< call.stop
        BY <1>1, <1>2
      <4>2. x # call.stop /\ x =< call.stop
        BY <1>2, <2>1, <2>2, <2>5, <4>1 DEF AtStop
      <4> QED
        BY <2>2, <4>1, <4>2
    <3> QED
      BY <1>1, <2>1, <2>5, <3>1
  <2> QED
    BY <2>4, <2>5
<1> QED
  BY <1>3, <1>4

LEMMA RangeEraseAnswers == ASSUME SInv, SInv', AInv, RangeErase PROVE AInv' /\ MapStep
<1>1. EraseRange /\ ~AtStop /\ pc' = "erase" /\ it' = it
  BY DEF RangeErase
<1>2. /\ pc = "range" /\ call.op = "erase_range" /\ flag = FALSE
      /\ UNCHANGED <<data, kind, call, flag, ret>>
  BY <1>1, RangeFacts
<1>3. PICK x \in Ceil(Elements, call.key) : PointsAt(it, x) /\ (call.stop # None => x < call.stop)
  BY <1>1, RangeFacts
<1>4. Dict' = Dict /\ Elements' = Elements
  BY <1>2, SameData
<1>5. PointsAt(it, x)'
  BY <1>1, <1>2, <1>3 DEF PointsAt
<1>6. EraseKnown'
  BY <1>2, <1>3, <1>4, <1>5 DEF EraseKnown, Erases
<1>7. RangeOK'
  BY <1>2, <1>4 DEF AInv, RangeOK
<1>8. AInv'
  BY <1>1, <1>6, <1>7
     DEF AInv, Quiet, SearchKnown, InsertKnown, Inserting, TrackKnown, Tracking, RangeKnown, AnswerKnown
<1>9. Phase = "called" /\ Phase' = "called"
  BY <1>1, <1>2 DEF Phase, Rebalancing
<1> QED
  BY <1>2, <1>4, <1>8, <1>9, MapStutters DEF SInv, IInv, TypeOK

LEMMA RangeFindLastAnswers == ASSUME SInv, SInv', AInv, RangeFindLast PROVE AInv' /\ MapStep
<1>1. EraseRange /\ AtStop /\ pc' \in {"descend", "leaf"} /\ k' = call.stop
  BY DEF RangeFindLast, FindLeaf
<1>2. /\ pc = "range" /\ call.op = "erase_range" /\ flag = FALSE
      /\ UNCHANGED <<data, kind, call, flag, ret>> /\ Map!InRange = {}
  BY <1>1, RangeFacts
<1> QED
  BY <1>1, <1>2, SearchAnswers DEF Ops

LEMMA RangeEndAnswers == ASSUME SInv, SInv', AInv, RangeEnd PROVE AInv' /\ MapStep
<1>1. EraseRange /\ AtStop /\ call.stop = None /\ pc' = "answer" /\ it' = EndIt
  BY DEF RangeEnd
<1>2. /\ pc = "range" /\ call.op = "erase_range" /\ flag = FALSE
      /\ UNCHANGED <<data, kind, call, flag, ret>> /\ Map!InRange = {}
  BY <1>1, RangeFacts
<1>3. Dict' = Dict /\ Elements' = Elements /\ None \notin Elements
  BY <1>2, SameData, KeyAssumption, LeafSegmentHolds DEF LeafSegment
<1>4. Map!Position' = {}
  <2>1. Map!Position' = Elements \cap {None}
    BY <1>1, <1>2, <1>3, PositionOfNext DEF PositionOf
  <2> QED
    BY <1>3, <2>1
<1>5. AnswerKnown'
  BY <1>1, <1>2, <1>4 DEF AnswerKnown, Marks, Ops
<1>6. RangeOK'
  BY <1>1, <1>2 DEF RangeOK
<1>7. AInv'
  BY <1>1, <1>2, <1>5, <1>6
     DEF AInv, Quiet, SearchKnown, InsertKnown, Inserting, EraseKnown, TrackKnown, Tracking, RangeKnown
<1>8. Phase = "called" /\ Phase' = "applied"
  BY <1>1, <1>2 DEF Phase, Rebalancing
<1> QED
  BY <1>2, <1>3, <1>7, <1>8, ApplyKeeps

\* The result is what the map has at its position.
LEMMA AnswerAnswers == ASSUME SInv, SInv', AInv, Answer PROVE AInv' /\ MapStep
<1>1. /\ pc = "answer" /\ pc' = "done" /\ flag' = FALSE /\ UNCHANGED <<data, kind, call>>
      /\ \/ it = EndIt /\ ret' = [flag |-> flag, key |-> None, val |-> None]
         \/ \E x \in Key : /\ PointsAt(it, x)
                           /\ ret' = [flag |-> flag, key |-> x, val |-> data[it.leaf][x]]
  BY DEF Answer, heap
<1>2. Dict' = Dict /\ Elements' = Elements
  BY <1>1, SameData
<1>3. Marks(it, Map!Position)
  BY <1>1 DEF AInv, AnswerKnown
<1>4. PICK P : P = Map!Position
  OBVIOUS
<1>5. Phase = "applied" /\ Phase' = "done"
  BY <1>1 DEF Phase
<1>6. \/ P = {} /\ ret' = [flag |-> flag, key |-> None, val |-> None]
      \/ \E x \in P : ret' = [flag |-> flag, key |-> x, val |-> Dict[x]]
  <2>1. CASE it = EndIt /\ ret' = [flag |-> flag, key |-> None, val |-> None]
    BY <1>3, <1>4, <2>1, EndMarksNothing
  <2>2. ASSUME NEW x \in Key, PointsAt(it, x),
               ret' = [flag |-> flag, key |-> x, val |-> data[it.leaf][x]]
        PROVE  \E y \in P : ret' = [flag |-> flag, key |-> y, val |-> Dict[y]]
    <3>1. it # EndIt
      BY <2>2 DEF PointsAt, EndIt
    <3>2. PICK y \in P : it.leaf \in Leaves /\ PointsAt(it, y)
      BY <1>3, <1>4, <3>1 DEF Marks
    <3>3. x = y /\ x \in DOMAIN data[it.leaf]
      BY <2>2, <3>2, PointsAtOne
    <3>4. Holds(x, data[it.leaf][x])
      BY <3>2, <3>3 DEF Holds, Leaves
    <3>5. Dict[x] = data[it.leaf][x]
      BY <3>4, MapOfHolds DEF MapOf
    <3> QED
      BY <2>2, <3>3, <3>5
  <2> QED
    BY <1>1, <2>1, <2>2
<1>7. PICK f : f = (Phase = "applied" /\ flag)
  OBVIOUS
<1>8. f = flag
  <2>1. flag \in BOOLEAN
    BY DEF SInv, IInv, TypeOK
  <2> QED
    BY <1>5, <1>7, <2>1
<1>9. ret' \in IF P = {} THEN {[flag |-> f, key |-> None, val |-> None]}
               ELSE {[flag |-> f, key |-> x, val |-> Dict[x]] : x \in P}
  BY <1>6, <1>8
<1>10. (Phase = "applied" /\ flag)' = FALSE
  BY <1>5
<1>11. Map!Answer
  BY <1>1, <1>2, <1>4, <1>5, <1>7, <1>9, <1>10 DEF Map!Answer
<1>12. AInv'
  <2>1. RangeOK'
    BY <1>1, <1>2 DEF AInv, RangeOK
  <2> QED
    BY <1>1, <2>1
       DEF AInv, Quiet, SearchKnown, InsertKnown, Inserting, EraseKnown, TrackKnown, Tracking,
           RangeKnown, AnswerKnown
<1> QED
  BY <1>11, <1>12 DEF MapStep, Map!Next, Map!Serve

LEMMA FinishAnswers == ASSUME SInv, SInv', AInv, Finish PROVE AInv' /\ MapStep
<1>1. /\ pc = "done" /\ pc' = "idle" /\ call' = NoCall /\ ret' = NoRet /\ UNCHANGED <<data, flag>>
  BY DEF Finish, heap
<1>2. Dict' = Dict
  BY <1>1, SameData
<1>3. Phase = "done" /\ Phase' = "idle"
  BY <1>1 DEF Phase
<1>4. Map!Return
  BY <1>1, <1>2, <1>3 DEF Map!Return, Map!NoCall, Map!NoRet, NoCall, NoRet
<1>5. AInv'
  BY <1>1
     DEF AInv, Quiet, RangeOK, NoCall, SearchKnown, InsertKnown, Inserting, EraseKnown, TrackKnown,
         Tracking, RangeKnown, AnswerKnown
<1> QED
  BY <1>4, <1>5 DEF MapStep, Map!Next, Map!Serve

LEMMA StutterAnswers == ASSUME SInv, AInv, UNCHANGED vars PROVE AInv' /\ MapStep
<1> USE DEF vars, tree, heap, client, args, chain
<1>1. Dict' = Dict /\ Elements' = Elements /\ Phase' = Phase
  BY DEF Dict, Elements, Leaves, IsLeaf, Phase
<1>2. MapStep
  BY <1>1, MapStutters DEF SInv, IInv, TypeOK
<1>3. Held' = Held /\ Leaves' = Leaves
  BY DEF Held, KeysOf, IsLeaf, Leaves
<1>4. Quiet' /\ RangeOK' /\ InsertKnown' /\ EraseKnown'
  BY <1>1, <1>3 DEF AInv, Quiet, RangeOK, InsertKnown, Inserting, EraseKnown, PointsAt
<1>5. SearchKnown'
  BY <1>1 DEF AInv, SearchKnown, Map!InRange
<1>6. Tracked' = Tracked /\ NextKnown' = NextKnown
  BY <1>1, <1>3 DEF Tracked, NextKnown
<1>7. TrackKnown'
  BY <1>1, <1>6 DEF AInv, TrackKnown, Tracking, IsLeaf
<1>8. RangeKnown' /\ AnswerKnown'
  <2>1. Map!Position' = Map!Position
    BY <1>1 DEF Map!Position
  <2> QED
    BY <1>1, <1>3, <2>1 DEF AInv, RangeKnown, AnswerKnown, Marks, PointsAt
<1> QED
  BY <1>2, <1>4, <1>5, <1>7, <1>8 DEF AInv

----------------------------------------------------------------------------
(* Erasing an element. *)

\* What the leaves hold once x is gone.
Removes(x) == \A z, w : Holds(z, w)' <=> z # x /\ Holds(z, w)

LEMMA RemovesFromDict ==
  ASSUME SInv, SInv', NEW x, Removes(x)
  PROVE  Dict' = Map!Without(Dict, {x}) /\ \A z : z \in Elements' <=> z \in Elements /\ z # x
<1>1. /\ DOMAIN Dict = Elements
      /\ \A z, w : Holds(z, w) <=> z \in DOMAIN Dict /\ Dict[z] = w
  BY MapOfHolds DEF MapOf
<1>2. /\ DOMAIN Dict' = Elements'
      /\ Dict' = [z \in DOMAIN Dict' |-> Dict'[z]]
      /\ \A z, w : Holds(z, w)' <=> z \in DOMAIN Dict' /\ Dict'[z] = w
  BY MapOfHoldsNext DEF MapOf
<1>3. PICK d, e, D, E : d = Dict /\ e = Dict' /\ D = DOMAIN Dict /\ E = DOMAIN Dict'
  OBVIOUS
<1>4. \A z, w : z \in E /\ e[z] = w <=> z # x /\ z \in D /\ d[z] = w
  BY <1>1, <1>2, <1>3 DEF Removes
<1>5. (\A z : z \in E <=> z \in D /\ z # x) /\ \A z \in E : e[z] = d[z]
  BY ONLY <1>4
<1>6. PICK F : F = D \cap (D \ {x})
  OBVIOUS
<1>7. E = F
  BY <1>5, <1>6
<1>8. e = [z \in F |-> d[z]]
  <2>1. e = [z \in E |-> e[z]]
    BY <1>2, <1>3
  <2> QED
    BY ONLY <1>5, <1>7, <2>1
<1>9. e = Map!Without(d, {x})
  BY <1>3, <1>5, <1>6, <1>7, <1>8 DEF Map!Without, Map!Restrict
<1> QED
  BY <1>1, <1>2, <1>3, <1>5, <1>9

LEMMA LeafRemoves ==
  ASSUME NEW l \in Node, NEW x, \A n \in Node \ {l} : x \notin DOMAIN data[n],
         data'[l] = Without(data[l], {x}), \A n \in Node \ {l} : data'[n] = data[n]
  PROVE  Removes(x)
<1>1. /\ \A z : z \in DOMAIN data'[l] <=> z \in DOMAIN data[l] /\ z # x
      /\ \A z \in DOMAIN data'[l] : data'[l][z] = data[l][z]
  BY DEF Without, Restrict
<1>2. ASSUME NEW z, NEW w, NEW n \in Node, z \in DOMAIN data'[n], data'[n][z] = w
      PROVE  z # x /\ z \in DOMAIN data[n] /\ data[n][z] = w
  BY <1>1, <1>2
<1>3. ASSUME NEW z, NEW w, NEW n \in Node, z # x, z \in DOMAIN data[n], data[n][z] = w
      PROVE  z \in DOMAIN data'[n] /\ data'[n][z] = w
  BY <1>1, <1>3
<1> QED
  BY <1>2, <1>3 DEF Removes, Holds

\* The first element x of E that is not before c, the one with index i among the
\* elements S of its leaf, is erased; E1 and S1 are left.
FirstErased(E, S, c, x, i, E1, S1) ==
  /\ E \in SUBSET Int /\ IsFiniteSet(S) /\ Segment(E, S) /\ c \in Int
  /\ x \in S /\ x \in Ceil(E, c) /\ i = Rank(S, x)
  /\ \A y : y \in E1 <=> y \in E /\ y # x
  /\ \A y : y \in S1 <=> y \in S /\ y # x

\* Where c is then.
LEMMA AfterErase ==
  ASSUME NEW E, NEW S, NEW c, NEW x, NEW i, NEW E1, NEW S1, FirstErased(E, S, c, x, i, E1, S1)
  PROVE  /\ Around(E1, S1, c) /\ c \notin E1
         /\ i \in Nat /\ Cardinality(S1) \in Nat /\ Cardinality(S) = Cardinality(S1) + 1
         /\ IndexIn(S1, c) = IF i < Cardinality(S1) THEN i ELSE NoIndex
         /\ Ceil(S1, c) = IF i < Cardinality(S1) THEN At(S1, i) ELSE {}
         /\ i < Cardinality(S1) => \E y : y \in At(S1, i)
<1>0. /\ E \in SUBSET Int /\ IsFiniteSet(S) /\ Segment(E, S) /\ c \in Int
      /\ x \in S /\ x \in Ceil(E, c) /\ i = Rank(S, x)
      /\ \A y : y \in E1 <=> y \in E /\ y # x
      /\ \A y : y \in S1 <=> y \in S /\ y # x
  BY DEF FirstErased
<1>1. S \subseteq E /\ \A y \in E \ S, u, z \in S : (u < y => z < y) /\ (y < u => y < z)
  BY <1>0 DEF Segment
<1>2. x \in E /\ x \in Int /\ c =< x /\ \A t \in E : t >= c => x =< t
  BY <1>0 DEF Ceil
<1>3. ASSUME NEW y \in E1 \ S1, NEW z \in S1
      PROVE  (y < z => y < c) /\ (z < y => c =< y)
  <2>1. y \in E \ S /\ z \in S /\ y \in Int /\ z \in Int
    BY <1>0, <1>1, <1>3
  <2>2. (y < z => y < x) /\ (z < y => x < y)
    BY <1>0, <1>1, <2>1
  <2>3. y < x => y < c
    BY <1>0, <1>2, <2>1
  <2> QED
    BY <1>0, <1>2, <2>1, <2>2, <2>3
<1>4. Around(E1, S1, c)
  BY <1>3 DEF Around
<1>5. c \notin E1
  <2> SUFFICES ASSUME c \in E1 PROVE FALSE
    OBVIOUS
  <2>1. c \in E /\ c # x /\ c >= c
    BY <1>0
  <2>2. x =< c
    BY <1>0, <1>2, <2>1
  <2> QED
    BY <1>0, <1>2, <2>1, <2>2
<1>6. S1 \in SUBSET Int /\ IsFiniteSet(S1) /\ S \in SUBSET Int
  BY <1>0, <1>1, FS_Subset
<1>7. i = Rank(S1, c)
  <2>1. \A t \in S : t < c <=> t < x
    BY <1>0, <1>1, <1>2
  <2>2. ~(x < x)
    BY <1>2
  <2>3. \A t : t \in S1 /\ t < c <=> t \in S /\ t < x
    BY <1>0, <2>1, <2>2
  <2>4. {t \in S1 : t < c} = {t \in S : t < x}
    BY ONLY <2>3
  <2> QED
    BY <1>0, <2>4 DEF Rank
<1>8. /\ Rank(S1, c) \in Nat /\ Cardinality(S1) \in Nat
      /\ Rank(S1, c) < Cardinality(S1) <=> \E y \in S1 : c =< y
      /\ At(S1, Rank(S1, c)) = Ceil(S1, c)
      /\ Ceil(S1, c) # {} <=> \E y \in S1 : c =< y
  <2>1. S1 \in SUBSET Int /\ IsFiniteSet(S1) /\ c \in Int
    BY <1>0, <1>6
  <2> QED
    BY ONLY <2>1, IndexOf
<1>9. Cardinality(S) = Cardinality(S1) + 1
  <2>1. S1 = S \ {x} /\ x \in S /\ IsFiniteSet(S)
    BY <1>0
  <2>2. Cardinality(S1) = Cardinality(S) - 1 /\ Cardinality(S) \in Nat
    BY <2>1, FS_RemoveElement, FS_CardinalityType
  <2> QED
    BY <1>6, <2>2, FS_CardinalityType
<1>10. IndexIn(S1, c) = IF i < Cardinality(S1) THEN i ELSE NoIndex
  BY <1>7, <1>8 DEF IndexIn
<1> QED
  BY <1>4, <1>5, <1>7, <1>8, <1>9, <1>10

\* An erase takes x out of its leaf l.
LEMMA EraseTakesEffect ==
  ASSUME SInv, SInv', AInv, pc = "erase", NEW x \in DOMAIN data[it.leaf], Erase(x),
         call.op = "erase" => pc' \in {"answer", "fix", "underflow", "next"},
         call.op = "erase_range" => pc' \in {"range", "fix", "underflow", "next"}
  PROVE  /\ MapStep /\ RangeOK'
         /\ call.op \in Erases /\ flag' = (call.op = "erase") /\ UNCHANGED <<kind, call, flag, ret>>
         /\ it.leaf \in Leaves /\ Basic /\ Basic' /\ call.key \in Int
         /\ x \in Held[it.leaf] /\ it.idx = Rank(Held[it.leaf], x)
         /\ x \in Ceil(Elements, call.key)
         /\ Elements \in SUBSET Int /\ Elements' \in SUBSET Int
         /\ \A y : y \in Elements' <=> y \in Elements /\ y # x
         /\ Segment(Elements, Held[it.leaf])
         /\ Held'[it.leaf] = Held[it.leaf] \ {x}
         /\ \A n \in Node \ {it.leaf} : data'[n] = data[n]
<1>1. /\ call.op \in Erases /\ flag = (call.op = "erase")
      /\ \E y \in Ceil(Elements, call.key) :
           /\ PointsAt(it, y)
           /\ call.op = "erase" => y = call.key
           /\ call.op = "erase_range" /\ call.stop # None => y < call.stop
  BY DEF AInv, EraseKnown
<1>2. /\ x \in At(DOMAIN data[it.leaf], it.idx)
      /\ data' = [data EXCEPT ![it.leaf] = Without(data[it.leaf], {x})]
      /\ UNCHANGED <<kind, call, flag, ret>>
  BY DEF Erase
<1>3. PICK h : Shape(h)
  BY DEF SInv
<1>4. Basic /\ Basic' /\ it.leaf \in Leaves
  BY <1>3, HeldBasic, HeldBasicNext DEF SInv, Shape, Running, Erasing
<1>5. PICK l : l = it.leaf
  OBVIOUS
<1>6. l \in Leaves /\ l \in Node /\ l # Null /\ Held[l] = DOMAIN data[l]
  BY <1>4, <1>5 DEF Basic
<1>7. PointsAt(it, x)
  BY <1>2, <1>5, <1>6 DEF PointsAt
<1>8. /\ x \in Ceil(Elements, call.key)
      /\ call.op = "erase" => x = call.key
      /\ call.op = "erase_range" /\ call.stop # None => x < call.stop
  BY <1>1, <1>4, <1>7, PointsAtOne
<1>9. /\ data'[l] = Without(data[l], {x}) /\ \A n \in Node \ {l} : data'[n] = data[n]
  BY <1>2, <1>5, <1>6 DEF SInv, IInv, TypeOK, Maps
<1>10. \A n \in Node \ {l} : x \notin DOMAIN data[n]
  <2> SUFFICES ASSUME NEW n \in Node \ {l}, x \in DOMAIN data[n] PROVE FALSE
    OBVIOUS
  <2>1. n \in Leaves
    BY OnlyLeaves
  <2> QED
    BY <1>5, <1>6, <2>1, OneLeaf
<1>11. Removes(x)
  BY <1>6, <1>9, <1>10, LeafRemoves
<1>12. Dict' = Map!Without(Dict, {x}) /\ \A y : y \in Elements' <=> y \in Elements /\ y # x
  BY <1>11, RemovesFromDict
<1>13. /\ Elements \in SUBSET Int /\ Elements' \in SUBSET Int /\ Segment(Elements, Held[l])
       /\ DOMAIN Dict = Elements
  BY <1>6, LeafSegmentHolds, LeafSegmentNext, MapOfHolds DEF LeafSegment, MapOf
<1>14. call.key \in Int
  BY <1>1, KeyAssumption DEF SInv, IInv, ArgumentsOK, Erases, Ops, Inserts, Lookups
<1>15. x \in Elements /\ x \in Int /\ \A t \in Elements : t >= call.key => x =< t
  BY <1>8, <1>13 DEF Ceil
<1>16. RangeOK'
  <2> SUFFICES ASSUME call.op = "erase_range", call.stop # None
               PROVE  call.stop \in Elements' /\ call.key =< call.stop
    BY <1>2 DEF RangeOK
  <2>1. call.stop \in Elements /\ call.key =< call.stop
    BY DEF AInv, RangeOK
  <2>2. x # call.stop
    BY <1>8, <1>13, <1>15, <2>1
  <2> QED
    BY <1>12, <2>1, <2>2
<1>17. Held'[l] = Held[l] \ {x}
  <2>1. Leaves' = Leaves
    BY <1>2 DEF Leaves, IsLeaf
  <2>2. Held'[l] = DOMAIN data'[l]
    BY <1>4, <1>6, <2>1 DEF Basic
  <2> QED
    BY <1>6, <1>9, <2>2 DEF Without, Restrict
<1>18. MapStep
  <2>1. CASE call.op = "erase"
    <3>1. Phase = "called" /\ Phase' = "applied" /\ flag' = TRUE
      BY <1>1, <1>2, <2>1 DEF Phase, Rebalancing
    <3>2. Map!Effect
      BY <1>8, <1>12, <1>13, <1>15, <2>1, <3>1 DEF Map!Effect
    <3>3. Map!Apply
      BY <1>2, <3>1, <3>2 DEF Map!Apply
    <3> QED
      BY <3>3 DEF MapStep, Map!Next, Map!Serve
  <2>2. CASE call.op = "erase_range"
    <3>1. Phase = "called" /\ Phase' = "called"
      BY <1>2, <2>2 DEF Phase, Rebalancing
    <3>2. PICK R : R = Map!InRange
      OBVIOUS
    <3>3. \A y : y \in R <=> /\ y \in Elements /\ y >= call.key
                             /\ call.stop # None => y < call.stop
      BY <1>13, <3>2 DEF Map!InRange
    <3>4. x >= call.key
      BY <1>8 DEF Ceil
    <3>5. x \in R /\ \A y \in R : x =< y
      BY <1>8, <1>15, <2>2, <3>3, <3>4
    <3>6. x \in Map!First(R)
      BY <3>5 DEF Map!First
    <3>7. Map!EraseNext
      BY <1>2, <1>12, <2>2, <3>1, <3>2, <3>6 DEF Map!EraseNext
    <3> QED
      BY <3>7 DEF MapStep, Map!Next, Map!Serve
  <2> QED
    BY <1>1, <2>1, <2>2 DEF Erases
<1>19. x \in Held[it.leaf] /\ it.idx = Rank(Held[it.leaf], x) /\ Held'[it.leaf] = Held[it.leaf] \ {x}
  BY <1>2, <1>5, <1>6, <1>17 DEF At
<1> QED
  BY <1>1, <1>2, <1>4, <1>5, <1>8, <1>9, <1>12, <1>13, <1>14, <1>16, <1>18, <1>19

LEMMA EraseFromRootAnswers == ASSUME SInv, SInv', AInv, EraseFromRoot PROVE AInv' /\ MapStep
<1>1. /\ pc = "erase" /\ it.leaf = root
      /\ pc' = IF call.op = "erase_range" THEN "range" ELSE "answer"
      /\ it' = IF it.idx + 1 < Size(data[it.leaf]) THEN it ELSE EndIt
  BY DEF EraseFromRoot, EraseReturns
<1>2. PICK x \in DOMAIN data[it.leaf] : Erase(x)
  BY DEF EraseFromRoot
<1>3. PICK l, c, i, S, E, E1 :
        l = it.leaf /\ c = call.key /\ i = it.idx /\ S = Held[it.leaf] /\ E = Elements /\ E1 = Elements'
  OBVIOUS
<1>4. /\ MapStep /\ RangeOK'
      /\ call.op \in Erases /\ flag' = (call.op = "erase") /\ UNCHANGED <<kind, call, flag, ret>>
      /\ l \in Leaves /\ Basic /\ Basic' /\ c \in Int
      /\ x \in S /\ i = Rank(S, x) /\ x \in Ceil(E, c)
      /\ E \in SUBSET Int /\ E1 \in SUBSET Int
      /\ \A y : y \in E1 <=> y \in E /\ y # x
      /\ Segment(E, S) /\ Held'[l] = S \ {x}
  BY <1>1, <1>2, <1>3, EraseTakesEffect
<1>5. PICK S1 : S1 = S \ {x}
  OBVIOUS
<1>6. S = DOMAIN data[l] /\ IsFiniteSet(S) /\ l # Null
  BY <1>3, <1>4 DEF Basic
<1>7. /\ c \notin E1 /\ i \in Nat /\ Cardinality(S1) \in Nat /\ Cardinality(S) = Cardinality(S1) + 1
      /\ Ceil(S1, c) = IF i < Cardinality(S1) THEN At(S1, i) ELSE {}
      /\ i < Cardinality(S1) => \E y : y \in At(S1, i)
  <2>1. /\ E \in SUBSET Int /\ IsFiniteSet(S) /\ Segment(E, S) /\ c \in Int
        /\ x \in S /\ x \in Ceil(E, c) /\ i = Rank(S, x)
    BY <1>4, <1>6
  <2>2. (\A y : y \in E1 <=> y \in E /\ y # x) /\ (\A y : y \in S1 <=> y \in S /\ y # x)
    BY <1>4, <1>5
  <2>3. FirstErased(E, S, c, x, i, E1, S1)
    BY ONLY <2>1, <2>2 DEF FirstErased
  <2> QED
    BY ONLY <2>3, AfterErase
<1>8. E1 = S1
  <2>1. PICK h : Shape(h)
    BY DEF SInv
  <2>2. Sound(h, {}, {}, {})
    BY <1>1, <2>1, Settled
  <2>3. \A m \in Leaves : m = l
    <3> SUFFICES ASSUME NEW m \in Leaves, m # l PROVE FALSE
      OBVIOUS
    <3>1. m \in Allocated \ {root} /\ h[m] < h[root]
      BY <1>1, <1>3, <1>4, <2>2, RootAlone DEF Sound, Basic
    <3>2. h[m] = 0 /\ h[root] = 0
      BY <1>1, <1>3, <1>4, <2>2, <3>1 DEF Sound, Kinds, Basic, Leaves
    <3> QED
      BY <3>1, <3>2
  <2>4. \A y : y \in E <=> y \in S
    BY <1>3, <1>4, <2>3, ElementsOf
  <2>5. \A y : y \in E1 <=> y \in S1
    BY <1>4, <1>5, <2>4
  <2> QED
    BY ONLY <2>5
<1>9. Leaves' = Leaves /\ DOMAIN data'[l] = S1
  <2>1. Leaves' = Leaves
    BY <1>4 DEF Leaves, IsLeaf
  <2> QED
    BY <1>4, <1>5, <2>1 DEF Basic
<1>10. PICK P : P = Ceil(E1, c)
  OBVIOUS
<1>11. Marks(it, P)'
  <2>1. CASE i < Cardinality(S1)
    <3>1. it' = it
      BY <1>1, <1>3, <1>6, <1>7, <2>1 DEF Size
    <3>2. P = At(S1, i)
      BY <1>7, <1>8, <1>10, <2>1
    <3>3. PICK y : y \in P
      BY <1>7, <2>1, <3>2
    <3>4. PointsAt(it, y)'
      BY <1>3, <1>6, <1>9, <3>1, <3>2, <3>3 DEF PointsAt
    <3> QED
      BY <1>3, <1>4, <1>9, <3>1, <3>3, <3>4 DEF Marks
  <2>2. CASE ~(i < Cardinality(S1))
    <3>1. it' = EndIt
      BY <1>1, <1>3, <1>6, <1>7, <2>2 DEF Size
    <3>2. P = {}
      BY <1>7, <1>8, <1>10, <2>2
    <3> QED
      BY <3>1, <3>2 DEF Marks
  <2> QED
    BY <2>1, <2>2
<1>12. CASE call.op = "erase"
  <2>1. pc' = "answer" /\ flag'
    BY <1>1, <1>4, <1>12
  <2>2. Map!Position' = P
    <3>1. Map!Position' = Above(E1, c)
      BY <1>3, <1>4, <1>12, <2>1, PositionOfNext DEF PositionOf
    <3> QED
      BY <1>4, <1>7, <1>10, <3>1, AboveAbsent
  <2>3. AnswerKnown'
    BY <1>4, <1>11, <1>12, <2>2 DEF AnswerKnown, Ops
  <2> QED
    BY <1>4, <2>1, <2>3
       DEF AInv, Quiet, SearchKnown, InsertKnown, Inserting, EraseKnown, TrackKnown, Tracking, RangeKnown
<1>13. CASE call.op = "erase_range"
  <2>1. pc' = "range" /\ ~flag'
    BY <1>1, <1>4, <1>13
  <2>2. RangeKnown'
    BY <1>3, <1>4, <1>10, <1>11, <1>13 DEF RangeKnown
  <2> QED
    BY <1>4, <2>1, <2>2
       DEF AInv, Quiet, SearchKnown, InsertKnown, Inserting, EraseKnown, TrackKnown, Tracking, AnswerKnown
<1> QED
  BY <1>4, <1>12, <1>13 DEF Erases

LEMMA EraseFromLeafAnswers == ASSUME SInv, SInv', AInv, EraseFromLeaf PROVE AInv' /\ MapStep
<1>1. pc = "erase" /\ ~(rootIsLeaf /\ it.leaf = root)
  BY DEF EraseFromLeaf
<1>2. PICK x \in DOMAIN data[it.leaf] :
        /\ Erase(x)
        /\ LET l     == it.leaf
               left  == Size(data[l]) - 1
               rebalance == left = 0 \/ left < UnderflowThreshold(l)
               after == IF rebalance THEN "underflow" ELSE "next"
               newMin == ChangesMin(l, left)
           IN  /\ it' = [leaf |-> l, idx |-> IF it.idx < left THEN it.idx ELSE NoIndex]
               /\ inNext' = (rebalance /\ it.idx >= left /\ nextLeaf[l] # Null)
               /\ node' = l
               /\ pc' = IF newMin THEN "fix" ELSE after
               /\ cont' = after
  BY DEF EraseFromLeaf
<1>3. PICK l, c, i, S, E, E1, left, rebalance :
        /\ l = it.leaf /\ c = call.key /\ i = it.idx /\ S = Held[it.leaf]
        /\ E = Elements /\ E1 = Elements'
        /\ left = Size(data[it.leaf]) - 1
        /\ rebalance = (left = 0 \/ left < UnderflowThreshold(l))
  OBVIOUS
<1>4. /\ it' = [leaf |-> l, idx |-> IF i < left THEN i ELSE NoIndex]
      /\ inNext' = (rebalance /\ i >= left /\ nextLeaf[l] # Null)
      /\ node' = l
      /\ cont' = IF rebalance THEN "underflow" ELSE "next"
      /\ pc' \in {"fix", cont'}
  BY <1>2, <1>3
<1>5. /\ MapStep /\ RangeOK'
      /\ call.op \in Erases /\ flag' = (call.op = "erase") /\ UNCHANGED <<kind, call, flag, ret>>
      /\ l \in Leaves /\ Basic /\ Basic' /\ c \in Int
      /\ x \in S /\ i = Rank(S, x) /\ x \in Ceil(E, c)
      /\ E \in SUBSET Int /\ E1 \in SUBSET Int
      /\ \A y : y \in E1 <=> y \in E /\ y # x
      /\ Segment(E, S) /\ Held'[l] = S \ {x}
  <2>1. pc' \in {"fix", "underflow", "next"}
    BY <1>4
  <2> QED
    BY <1>1, <1>2, <1>3, <2>1, EraseTakesEffect
<1>6. PICK S1 : S1 = S \ {x}
  OBVIOUS
<1>7. S = DOMAIN data[l] /\ IsFiniteSet(S) /\ l # Null
  BY <1>3, <1>5 DEF Basic
<1>8. /\ Around(E1, S1, c) /\ c \notin E1
      /\ i \in Nat /\ Cardinality(S1) \in Nat /\ Cardinality(S) = Cardinality(S1) + 1
      /\ IndexIn(S1, c) = IF i < Cardinality(S1) THEN i ELSE NoIndex
  <2>1. /\ E \in SUBSET Int /\ IsFiniteSet(S) /\ Segment(E, S) /\ c \in Int
        /\ x \in S /\ x \in Ceil(E, c) /\ i = Rank(S, x)
    BY <1>5, <1>7
  <2>2. (\A y : y \in E1 <=> y \in E /\ y # x) /\ (\A y : y \in S1 <=> y \in S /\ y # x)
    BY <1>5, <1>6
  <2>3. FirstErased(E, S, c, x, i, E1, S1)
    BY ONLY <2>1, <2>2 DEF FirstErased
  <2> QED
    BY ONLY <2>3, AfterErase
<1>9. left = Cardinality(S1)
  BY <1>3, <1>7, <1>8 DEF Size
<1>10. S1 # {}
  <2>1. PICK h : Shape(h)
    BY DEF SInv
  <2>2. Sound(h, {}, {}, {})
    BY <1>1, <2>1, Settled
  <2>3. l # root
    BY <1>1, <1>3, <1>5, <2>2 DEF Sound, Top, Leaves
  <2>4. \E y, z \in S : y # z
    BY <1>3, <1>5, <2>2, <2>3 DEF Sound, Populated, Basic
  <2> QED
    BY <1>6, <2>4
<1>11. Leaves' = Leaves /\ nextLeaf' = nextLeaf
  <2>1. nextLeaf' = nextLeaf
    BY <1>2 DEF Erase, chain
  <2> QED
    BY <1>5, <2>1 DEF Leaves, IsLeaf
<1>12. it'.leaf = l /\ it'.idx = IndexIn(S1, c)
  BY <1>4, <1>8, <1>9
<1>13. Tracked'
  <2>1. Held'[l] = S1
    BY <1>5, <1>6
  <2> QED
    BY <1>3, <1>5, <1>8, <1>10, <1>11, <1>12, <2>1 DEF Tracked
<1>14. rebalance => NextKnown'
  <2> SUFFICES ASSUME rebalance PROVE NextKnown'
    OBVIOUS
  <2>1. it'.idx = NoIndex <=> ~(i < left)
    BY <1>4, <1>8 DEF NoIndex
  <2>2. i >= left <=> ~(i < left)
    BY <1>8, <1>9
  <2>3. inNext' = (it'.idx = NoIndex /\ nextLeaf'[it'.leaf] # Null)
    BY <1>4, <1>11, <2>1, <2>2
  <2> QED
    BY <2>3 DEF NextKnown
<1>15. TrackKnown'
  <2>1. call'.key \notin Elements'
    BY <1>3, <1>5, <1>8
  <2>2. (pc' = "fix" /\ cont' = "underflow") \/ (pc' = "underflow" /\ IsLeaf(node)') => rebalance
    BY <1>4
  <2> QED
    BY <1>4, <1>5, <1>12, <1>13, <1>14, <2>1, <2>2 DEF TrackKnown
<1>16. AInv'
  <2>1. pc' \in {"fix", "underflow", "next"} /\ cont' \in {"underflow", "next"}
    BY <1>4
  <2> QED
    BY <1>5, <1>15, <2>1
       DEF AInv, Quiet, SearchKnown, InsertKnown, Inserting, EraseKnown, RangeKnown, AnswerKnown
<1> QED
  BY <1>5, <1>16

----------------------------------------------------------------------------
(* Borrowing and merging. *)

\* Entries that move from one node to another stay in the map.
LEMMA MoveKeeps ==
  ASSUME Maps(data, Value), NEW p \in Node, NEW q \in Node, p # q,
         NEW B, B \subseteq DOMAIN data[p], B \cap DOMAIN data[q] = {}, data' = Move(data, p, q, B)
  PROVE  \A x, v : Holds(x, v)' <=> Holds(x, v)
<1>1. /\ DOMAIN data'[p] = DOMAIN data[p] \ B
      /\ DOMAIN data'[q] = DOMAIN data[q] \cup B
      /\ \A n \in Node \ {p, q} : data'[n] = data[n]
      /\ \A t \in DOMAIN data[p] \ B : data'[p][t] = data[p][t]
      /\ \A t \in DOMAIN data[q] : data'[q][t] = data[q][t]
      /\ \A t \in B \ DOMAIN data[q] : data'[q][t] = data[p][t]
  BY ShiftMap
<1>2. ASSUME NEW x, NEW v, NEW n \in Node, x \in DOMAIN data[n], data[n][x] = v
      PROVE  \E m \in Node : x \in DOMAIN data'[m] /\ data'[m][x] = v
  <2>1. CASE n = p /\ x \in B
    BY <1>1, <1>2, <2>1
  <2>2. CASE n = p /\ x \notin B
    BY <1>1, <1>2, <2>2
  <2>3. CASE n # p
    BY <1>1, <1>2, <2>3
  <2> QED
    BY <2>1, <2>2, <2>3
<1>3. ASSUME NEW x, NEW v, NEW n \in Node, x \in DOMAIN data'[n], data'[n][x] = v
      PROVE  \E m \in Node : x \in DOMAIN data[m] /\ data[m][x] = v
  <2>1. CASE n = q
    BY <1>1, <1>3, <2>1
  <2>2. CASE n # q
    BY <1>1, <1>3, <2>2
  <2> QED
    BY <2>1, <2>2
<1> QED
  BY <1>2, <1>3 DEF Holds

\* What such a step leaves to show: where the next element is.
LEMMA RebalanceGoesOn ==
  ASSUME SInv, SInv', AInv, pc = "underflow", UNCHANGED <<call, flag, ret>>,
         Dict' = Dict, Elements' = Elements,
         (pc' = "fix" /\ cont' = "next") \/ pc' = "parent", Tracked'
  PROVE  AInv' /\ MapStep
<1>1. /\ call.op \in Erases /\ flag = (call.op = "erase")
      /\ call.op = "erase" => call.key \notin Elements
  BY DEF AInv, TrackKnown, Tracking
<1>2. TrackKnown'
  BY <1>1 DEF TrackKnown
<1>3. Phase' = Phase
  BY DEF Phase, Rebalancing
<1>4. MapStep
  BY <1>3, MapStutters DEF SInv, IInv, TypeOK
<1>5. RangeOK'
  BY DEF AInv, RangeOK
<1>6. Quiet' /\ SearchKnown' /\ InsertKnown' /\ EraseKnown' /\ RangeKnown' /\ AnswerKnown'
  BY DEF Quiet, SearchKnown, InsertKnown, Inserting, EraseKnown, RangeKnown, AnswerKnown
<1> QED
  BY <1>2, <1>4, <1>5, <1>6 DEF AInv

\* The tracked leaf gets the elements B of a neighbour, in front or behind; it is l now.
Grows(l, B) ==
  /\ Elements' = Elements /\ call' = call
  /\ it'.leaf = l /\ l \in Leaves'
  /\ Held'[l] = Held[it.leaf] \cup B /\ B \cap Held[it.leaf] = {} /\ B \in SUBSET Elements

LEMMA GrowsInFront ==
  ASSUME SInv, SInv', Tracked, NextKnown, call.key \in Int, NEW l, NEW B, Grows(l, B),
         \A y \in B, x \in Held[it.leaf] : y < x, it'.idx = Shifted(Cardinality(B))
  PROVE  Tracked'
<1>1. PICK S, S1, E, c : S = Held[it.leaf] /\ S1 = Held'[l] /\ E = Elements /\ c = call.key
  OBVIOUS
<1>2. /\ E \in SUBSET Int /\ IsFiniteSet(E) /\ S \subseteq E
  BY <1>1, LeafSegmentHolds DEF LeafSegment, Tracked, Segment
<1>3. Segment(E, S1)
  BY <1>1, LeafSegmentNext DEF LeafSegment, Grows
<1>4. S # {} /\ S1 = S \cup B /\ B \cap S = {} /\ B \subseteq E /\ Around(E, S, c) /\ c \in Int
  BY <1>1 DEF Tracked, Grows
<1>5. Around(E, S1, c)
  <2>1. S \subseteq S1
    BY <1>4
  <2> QED
    BY ONLY <1>2, <1>3, <1>4, <2>1, GrowAround
<1>6. \A y \in B : y < c
  BY <1>1, <1>2, <1>4 DEF Around
<1>7. IndexIn(S1, c) = IF IndexIn(S, c) = NoIndex THEN NoIndex ELSE IndexIn(S, c) + Cardinality(B)
  <2>1. S \in SUBSET Int /\ B \in SUBSET Int /\ IsFiniteSet(S) /\ IsFiniteSet(B)
    BY <1>2, <1>4, FS_Subset
  <2> QED
    BY ONLY <1>4, <1>6, <2>1, GrowFront
<1>8. it.idx = IndexIn(S, c) /\ (inNext => it.idx = NoIndex)
  BY <1>1 DEF Tracked, NextKnown
<1>9. it'.idx = IndexIn(S1, c)
  BY <1>1, <1>7, <1>8 DEF Shifted, Tracked
<1> QED
  BY <1>1, <1>4, <1>5, <1>9 DEF Tracked, Grows

LEMMA GrowsBehind ==
  ASSUME SInv, SInv', Tracked, NextKnown, call.key \in Int, NEW l, NEW B, Grows(l, B), B # {},
         \A y \in B, x \in Held[it.leaf] : x < y, nextLeaf[it.leaf] # Null,
         it'.idx = IF inNext THEN Cardinality(Held[it.leaf]) ELSE it.idx
  PROVE  Tracked'
<1>1. PICK S, S1, E, c : S = Held[it.leaf] /\ S1 = Held'[l] /\ E = Elements /\ c = call.key
  OBVIOUS
<1>2. /\ E \in SUBSET Int /\ IsFiniteSet(E) /\ S \subseteq E
  BY <1>1, LeafSegmentHolds DEF LeafSegment, Tracked, Segment
<1>3. Segment(E, S1)
  BY <1>1, LeafSegmentNext DEF LeafSegment, Grows
<1>4. S # {} /\ S1 = S \cup B /\ B \cap S = {} /\ B \subseteq E /\ Around(E, S, c) /\ c \in Int
  BY <1>1 DEF Tracked, Grows
<1>5. Around(E, S1, c)
  <2>1. S \subseteq S1
    BY <1>4
  <2> QED
    BY ONLY <1>2, <1>3, <1>4, <2>1, GrowAround
<1>6. \A y \in B : c =< y
  BY <1>1, <1>2, <1>4 DEF Around
<1>7. IndexIn(S1, c) = IF IndexIn(S, c) = NoIndex THEN Cardinality(S) ELSE IndexIn(S, c)
  <2>1. S \in SUBSET Int /\ B \in SUBSET Int /\ IsFiniteSet(S) /\ B # {}
    BY <1>2, <1>4, FS_Subset
  <2> QED
    BY ONLY <1>4, <1>6, <2>1, GrowBack
<1>8. it.idx = IndexIn(S, c) /\ inNext = (it.idx = NoIndex)
  BY <1>1 DEF Tracked, NextKnown
<1>9. it'.idx = IndexIn(S1, c)
  BY <1>1, <1>7, <1>8
<1> QED
  BY <1>1, <1>4, <1>5, <1>9 DEF Tracked, Grows

\* A leaf with a neighbour after it is not the last one.
LEMMA NotLast ==
  ASSUME Basic, NEW h, NEW n \in Leaves, NEW m \in Allocated, NEW L, Sound(h, {}, {}, L),
         Neighbours(Level(h, n), Held, n, m), Held[n] # {}, Held[m] # {}
  PROVE  nextLeaf[n] # Null
<1> SUFFICES ASSUME nextLeaf[n] = Null PROVE FALSE
  OBVIOUS
<1>1. m \in Leaves /\ m # n /\ Precedes(Held, n, m)
  BY DEF Neighbours, Level, Sound, Kinds, Basic, Leaves
<1>2. Precedes(Held, m, n)
  BY <1>1 DEF Sound, Chained, Linked, Neighbours
<1>3. PICK x \in Held[n], y \in Held[m] : TRUE
  OBVIOUS
<1>4. x < y /\ y < x /\ x \in Int /\ y \in Int
  BY <1>1, <1>2, <1>3 DEF Precedes, Basic
<1> QED
  BY <1>4

\* Above the leaves nothing of the map moves.
LEMMA InnerGoesOn ==
  ASSUME SInv, SInv', AInv, pc = "underflow", UNCHANGED <<data, call, it, inNext, flag, ret, nextLeaf>>,
         (pc' = "fix" /\ cont' = "next") \/ pc' = "parent", Leaves \subseteq Leaves'
  PROVE  AInv' /\ MapStep
BY TrackGoesOn DEF Tracking

\* What the call knows when it rebalances a leaf.
LEMMA LeafUnderflows ==
  ASSUME SInv, AInv, pc = "underflow", IsLeaf(node)
  PROVE  /\ node = it.leaf /\ Tracked /\ NextKnown /\ call.key \in Int
<1>1. node = it.leaf /\ Tracked /\ NextKnown /\ call.op \in Erases
  BY DEF AInv, TrackKnown, Tracking
<1>2. call.key \in Key
  BY <1>1 DEF SInv, IInv, ArgumentsOK, Erases, Ops
<1> QED
  BY <1>1, <1>2, KeyAssumption

LEMMA BorrowFromLeftAnswers == ASSUME SInv, SInv', AInv, BorrowFromLeft PROVE AInv' /\ MapStep
<1>1. PICK h : Shape(h)
  BY DEF SInv
<1>2. IInv /\ IInv' /\ Basic'
  BY HeldBasicNext DEF SInv
<1>3. PICK n, p, s :
        /\ n = node /\ p = parent[n] /\ Basic /\ HeapOK /\ Sound(h, {}, {}, {n})
        /\ n \in Allocated /\ n # root /\ p \in Inner /\ p # n
        /\ s \in Held[p] /\ children[p][s] = n /\ s \in First(Held[n]) /\ s \in Int
        /\ h[p] = h[n] + 1 /\ h[n] \in Nat
        /\ it.leaf \in Leaves /\ sib = Null /\ pc = "underflow"
        /\ OwnSlot(n) = {s}
        /\ Cardinality(KeysOf(n)) < UnderflowThreshold(n)
  <2>1. Underflow
    BY DEF BorrowFromLeft
  <2> QED
    BY <1>1, <1>2, <2>1, UnderflowStart, Zenon
<1>4. PICK m \in LeftSibling(n) :
        LET c == BorrowCount(n, m)
            B == HighestN(KeysOf(m), c)
        IN  /\ c > 0
            /\ MayJoin(B, KeysOf(n), Capacity(n))
            /\ Borrow(m, n, B)
            /\ Track(n, Shifted(c))
  BY <1>3 DEF BorrowFromLeft
<1>5. PICK c, B : c = BorrowCount(n, m) /\ B = HighestN(KeysOf(m), c)
  OBVIOUS
<1>6. /\ c > 0 /\ MayJoin(B, KeysOf(n), Capacity(n)) /\ Borrow(m, n, B)
      /\ it' = IF IsLeaf(n) THEN [leaf |-> n, idx |-> Shifted(c)] ELSE it
      /\ UNCHANGED <<call, inNext, flag, ret>>
  BY <1>3, <1>4, <1>5 DEF BorrowFromLeft, Underflow, Track
<1>7. PICK t \in Held[p] :
        IsSibling(h, n, p, m, t) /\ t < s /\ Neighbours(Level(h, m), Held, m, n)
  BY <1>3, SiblingsOf
<1>8. /\ m \in Allocated /\ m # n /\ (IsLeaf(m) <=> IsLeaf(n))
      /\ m \in Node /\ n \in Node
      /\ Held[m] = KeysOf(m) /\ Held[m] \in SUBSET Int /\ IsFiniteSet(Held[m])
      /\ Held[n] = KeysOf(n) /\ Held[n] \in SUBSET Int
  BY <1>3, <1>7 DEF IsSibling, Basic
<1>9. /\ pc' = "fix" /\ cont' = "next" /\ UNCHANGED <<kind, nextLeaf>>
      /\ data' = IF IsLeaf(n) THEN Move(data, m, n, B) ELSE data
  BY <1>6 DEF Borrow, chain
<1>10. Leaves' = Leaves
  BY <1>9 DEF Leaves, IsLeaf
<1>11. CASE ~IsLeaf(n)
  BY <1>3, <1>6, <1>9, <1>10, <1>11, InnerGoesOn
<1>12. CASE IsLeaf(n)
  <2>1. node = it.leaf /\ Tracked /\ NextKnown /\ call.key \in Int
    BY <1>3, <1>12, LeafUnderflows
  <2>2. /\ c \in Nat /\ B \subseteq Held[m] /\ Cardinality(B) = c
    <3>1. c \in Nat /\ c =< Cardinality(Held[m])
      BY <1>5, <1>6, <1>8, BorrowLeaves
    <3> QED
      BY <1>5, <1>8, <3>1, HighestFacts
  <2>3. (\A x \in B, y \in Held[n] : x < y) /\ B \cap Held[n] = {}
    <3>1. \A x \in B, y \in Held[n] : x < y
      BY <1>6, <1>8 DEF MayJoin
    <3> QED
      BY <1>8, <2>2, <3>1
  <2>4. n \in Leaves /\ m \in Leaves /\ Held[m] = DOMAIN data[m] /\ Held[n] = DOMAIN data[n]
    BY <1>8, <1>12 DEF Leaves, KeysOf
  <2>5. Dict' = Dict /\ Elements' = Elements
    <3>1. Maps(data, Value) /\ data' = Move(data, m, n, B)
      BY <1>3, <1>9, <1>12 DEF HeapOK
    <3>2. \A x, v : Holds(x, v)' <=> Holds(x, v)
      BY <1>8, <2>2, <2>3, <2>4, <3>1, MoveKeeps
    <3> QED
      BY <3>2, SameDict
  <2>6. Held'[n] = Held[n] \cup B
    <3>1. Passed(m, n, B)
      BY <1>2, <1>3, <1>6, <1>8, <2>2, <2>3, BorrowPasses DEF Sound
    <3> QED
      BY <3>1 DEF Passed
  <2>7. Grows(n, B)
    <3>1. B \subseteq Elements
      BY <2>2, <2>4, LeafSegmentHolds DEF LeafSegment, Segment
    <3> QED
      BY <1>3, <1>6, <1>10, <1>12, <2>1, <2>3, <2>4, <2>5, <2>6, <3>1 DEF Grows
  <2>8. Tracked'
    <3>1. it'.idx = Shifted(Cardinality(B))
      BY <1>6, <1>12, <2>2
    <3>2. \A y \in B, x \in Held[it.leaf] : y < x
      BY <1>3, <2>1, <2>3
    <3> QED
      BY <2>1, <2>7, <3>1, <3>2, GrowsInFront
  <2> QED
    BY <1>3, <1>6, <1>9, <2>5, <2>8, RebalanceGoesOn
<1> QED
  BY <1>11, <1>12

LEMMA BorrowFromRightAnswers == ASSUME SInv, SInv', AInv, BorrowFromRight PROVE AInv' /\ MapStep
<1>1. PICK h : Shape(h)
  BY DEF SInv
<1>2. IInv /\ IInv' /\ Basic'
  BY HeldBasicNext DEF SInv
<1>3. PICK n, p, s :
        /\ n = node /\ p = parent[n] /\ Basic /\ HeapOK /\ Sound(h, {}, {}, {n})
        /\ n \in Allocated /\ n # root /\ p \in Inner /\ p # n
        /\ s \in Held[p] /\ children[p][s] = n /\ s \in First(Held[n]) /\ s \in Int
        /\ h[p] = h[n] + 1 /\ h[n] \in Nat
        /\ it.leaf \in Leaves /\ sib = Null /\ pc = "underflow"
        /\ OwnSlot(n) = {s}
        /\ Cardinality(KeysOf(n)) < UnderflowThreshold(n)
  <2>1. Underflow
    BY DEF BorrowFromRight
  <2> QED
    BY <1>1, <1>2, <2>1, UnderflowStart, Zenon
<1>4. PICK m \in RightSibling(n) :
        LET c == BorrowCount(n, m)
            B == LowestN(KeysOf(m), c)
        IN  /\ c > 0
            /\ MayJoin(KeysOf(n), B, Capacity(n))
            /\ Borrow(m, n, B)
            /\ Track(n, IF inNext THEN Cardinality(KeysOf(n)) ELSE it.idx)
  BY <1>3 DEF BorrowFromRight
<1>5. PICK c, B : c = BorrowCount(n, m) /\ B = LowestN(KeysOf(m), c)
  OBVIOUS
<1>6. /\ c > 0 /\ MayJoin(KeysOf(n), B, Capacity(n)) /\ Borrow(m, n, B)
      /\ it' = IF IsLeaf(n) THEN [leaf |-> n, idx |-> IF inNext THEN Cardinality(KeysOf(n)) ELSE it.idx] ELSE it
      /\ UNCHANGED <<call, inNext, flag, ret>>
  BY <1>3, <1>4, <1>5 DEF BorrowFromRight, Underflow, Track
<1>7. PICK t \in Held[p] :
        IsSibling(h, n, p, m, t) /\ s < t /\ Neighbours(Level(h, n), Held, n, m)
  BY <1>3, SiblingsOf
<1>8. /\ m \in Allocated /\ m # n /\ (IsLeaf(m) <=> IsLeaf(n))
      /\ m \in Node /\ n \in Node
      /\ Held[m] = KeysOf(m) /\ Held[m] \in SUBSET Int /\ IsFiniteSet(Held[m])
      /\ Held[n] = KeysOf(n) /\ Held[n] \in SUBSET Int
  BY <1>3, <1>7 DEF IsSibling, Basic
<1>9. /\ pc' = "fix" /\ cont' = "next" /\ UNCHANGED <<kind, nextLeaf>>
      /\ data' = IF IsLeaf(n) THEN Move(data, m, n, B) ELSE data
  BY <1>6 DEF Borrow, chain
<1>10. Leaves' = Leaves
  BY <1>9 DEF Leaves, IsLeaf
<1>11. CASE ~IsLeaf(n)
  BY <1>3, <1>6, <1>9, <1>10, <1>11, InnerGoesOn
<1>12. CASE IsLeaf(n)
  <2>1. node = it.leaf /\ Tracked /\ NextKnown /\ call.key \in Int
    BY <1>3, <1>12, LeafUnderflows
  <2>2. /\ c \in Nat /\ B \subseteq Held[m] /\ B # {}
    <3>1. c \in Nat /\ c =< Cardinality(Held[m])
      BY <1>5, <1>6, <1>8, BorrowLeaves, Zenon
    <3>2. B \subseteq Held[m] /\ Cardinality(B) = c
      BY <1>5, <1>8, <3>1, LowestFacts
    <3>3. B # {}
      BY ONLY <1>6, <3>2, FS_EmptySet
    <3> QED
      BY <3>1, <3>2, <3>3
  <2>3. (\A x \in B, y \in Held[n] : y < x) /\ B \cap Held[n] = {}
    <3>1. \A x \in B, y \in Held[n] : y < x
      BY <1>6, <1>8 DEF MayJoin
    <3> QED
      BY <1>8, <2>2, <3>1
  <2>4. n \in Leaves /\ m \in Leaves /\ Held[m] = DOMAIN data[m] /\ Held[n] = DOMAIN data[n]
    BY <1>8, <1>12 DEF Leaves, KeysOf
  <2>5. Dict' = Dict /\ Elements' = Elements
    <3>1. Maps(data, Value) /\ data' = Move(data, m, n, B)
      BY <1>3, <1>9, <1>12 DEF HeapOK
    <3>2. \A x, v : Holds(x, v)' <=> Holds(x, v)
      BY <1>8, <2>2, <2>3, <2>4, <3>1, MoveKeeps
    <3> QED
      BY <3>2, SameDict
  <2>6. Held'[n] = Held[n] \cup B
    <3>1. Passed(m, n, B)
      BY <1>2, <1>3, <1>6, <1>8, <2>2, <2>3, BorrowPasses DEF Sound
    <3> QED
      BY <3>1 DEF Passed
  <2>7. Grows(n, B)
    <3>1. B \subseteq Elements
      BY <2>2, <2>4, LeafSegmentHolds DEF LeafSegment, Segment
    <3> QED
      BY <1>3, <1>6, <1>10, <1>12, <2>1, <2>3, <2>4, <2>5, <2>6, <3>1 DEF Grows
  <2>8. Tracked'
    <3>1. it'.idx = IF inNext THEN Cardinality(Held[it.leaf]) ELSE it.idx
      BY <1>3, <1>6, <1>8, <1>12, <2>1
    <3>2. \A y \in B, x \in Held[it.leaf] : x < y
      BY <1>3, <2>1, <2>3
    <3>3. nextLeaf[it.leaf] # Null
      <4>1. Held[n] # {} /\ Held[m] # {}
        BY <1>3, <1>7 DEF First, IsSibling
      <4> QED
        BY <1>3, <1>7, <1>8, <2>1, <2>4, <4>1, NotLast
    <3> QED
      BY <2>1, <2>2, <2>7, <3>1, <3>2, <3>3, GrowsBehind
  <2> QED
    BY <1>3, <1>6, <1>9, <2>5, <2>8, RebalanceGoesOn
<1> QED
  BY <1>11, <1>12

\* A merge of two leaves loses no element, and one of internal nodes touches none.
LEMMA MergeKeeps ==
  ASSUME SInv, SInv', Basic, HeapOK, NEW h, NEW n, n = node, NEW p, NEW dst, NEW from,
         NEW s, NEW x, dst \in Allocated, from \in Allocated,
         Merged(h, n, p, dst, from, s, x), Merge(dst, from)
  PROVE  /\ Dict' = Dict /\ Elements' = Elements
         /\ IsLeaf(dst) => dst \in Leaves' /\ Held'[dst] = Held[dst] \cup Held[from]
         /\ ~IsLeaf(dst) => UNCHANGED <<data, nextLeaf>> /\ Leaves \subseteq Leaves'
<1>1. /\ dst \in Node /\ from \in Node /\ dst # from /\ (IsLeaf(from) <=> IsLeaf(dst))
      /\ Held[dst] = KeysOf(dst) /\ Held[from] = KeysOf(from)
      /\ Held[dst] \cap Held[from] = {} /\ Held'[dst] = Held[dst] \cup Held[from]
      /\ \A m : m \in Leaves' <=> m \in Leaves /\ m # from
  BY DEF Merged, Joined, Basic
<1>2. /\ data' = IF IsLeaf(dst) THEN Move(data, from, dst, KeysOf(from)) ELSE data
      /\ ~IsLeaf(dst) => nextLeaf' = nextLeaf
  BY DEF Merge, chain
<1>3. CASE IsLeaf(dst)
  <2>1. DOMAIN data[from] = Held[from] /\ DOMAIN data[dst] = Held[dst]
    BY <1>1, <1>3 DEF KeysOf
  <2>2. Maps(data, Value) /\ data' = Move(data, from, dst, Held[from])
    BY <1>1, <1>2, <1>3 DEF HeapOK
  <2>3. \A y, v : Holds(y, v)' <=> Holds(y, v)
    BY <1>1, <2>1, <2>2, MoveKeeps
  <2> QED
    BY <1>1, <1>3, <2>3, SameDict DEF Leaves
<1>4. CASE ~IsLeaf(dst)
  BY <1>1, <1>2, <1>4, SameData DEF Leaves
<1> QED
  BY <1>3, <1>4

LEMMA MergeWithLeftAnswers == ASSUME SInv, SInv', AInv, MergeWithLeft PROVE AInv' /\ MapStep
<1>1. PICK h : Shape(h)
  BY DEF SInv
<1>2. IInv /\ IInv' /\ Basic'
  BY HeldBasicNext DEF SInv
<1>3. PICK n, p, s :
        /\ n = node /\ p = parent[n] /\ Basic /\ HeapOK /\ Sound(h, {}, {}, {n})
        /\ n \in Allocated /\ n # root /\ p \in Inner /\ p # n
        /\ s \in Held[p] /\ children[p][s] = n /\ s \in First(Held[n]) /\ s \in Int
        /\ h[p] = h[n] + 1 /\ h[n] \in Nat
        /\ it.leaf \in Leaves /\ sib = Null /\ pc = "underflow"
        /\ OwnSlot(n) = {s}
        /\ Cardinality(KeysOf(n)) < UnderflowThreshold(n)
  <2>1. Underflow
    BY DEF MergeWithLeft, MustMerge
  <2> QED
    BY <1>1, <1>2, <2>1, UnderflowStart, Zenon
<1>4. PICK m \in LeftSibling(n) : Merge(m, n) /\ Track(m, Shifted(Cardinality(KeysOf(m))))
  BY <1>3 DEF MergeWithLeft
<1>5. /\ it' = IF IsLeaf(n) THEN [leaf |-> m, idx |-> Shifted(Cardinality(KeysOf(m)))] ELSE it
      /\ UNCHANGED <<size, call, inNext, flag, ret>>
  BY <1>3, <1>4 DEF MergeWithLeft, MustMerge, Underflow, Track
<1>6. PICK t \in Held[p] :
        IsSibling(h, n, p, m, t) /\ t < s /\ Neighbours(Level(h, m), Held, m, n)
  BY <1>3, <1>4, SiblingsOf
<1>7. /\ m \in Allocated /\ m # n /\ m # root /\ h[m] = h[n] /\ (IsLeaf(m) <=> IsLeaf(n))
      /\ children[p][t] = m /\ n \in {m, n} /\ h[p] = h[m] + 1 /\ h[m] \in Nat
      /\ Held[m] = KeysOf(m) /\ Held[m] \in SUBSET Int /\ Held[n] \in SUBSET Int
  BY <1>3, <1>6 DEF IsSibling, Basic
<1>8. Merged(h, n, p, m, n, t, s) /\ pc' = "parent"
  BY ONLY <1>2, <1>3, <1>4, <1>5, <1>6, <1>7, MergeStep
<1>9. /\ Dict' = Dict /\ Elements' = Elements
      /\ IsLeaf(m) => m \in Leaves' /\ Held'[m] = Held[m] \cup Held[n]
      /\ ~IsLeaf(m) => UNCHANGED <<data, nextLeaf>> /\ Leaves \subseteq Leaves'
  BY ONLY SInv, SInv', <1>3, <1>4, <1>7, <1>8, MergeKeeps
<1>10. CASE ~IsLeaf(n)
  BY <1>3, <1>5, <1>7, <1>8, <1>9, <1>10, InnerGoesOn
<1>11. CASE IsLeaf(n)
  <2>1. node = it.leaf /\ Tracked /\ NextKnown /\ call.key \in Int
    BY <1>3, <1>11, LeafUnderflows
  <2>2. (\A x \in Held[m], y \in Held[n] : x < y) /\ Held[m] \cap Held[n] = {}
    BY <1>6, <1>8 DEF Neighbours, Precedes, Merged
  <2>3. Grows(m, Held[m])
    <3>1. m \in Leaves
      BY <1>7, <1>11 DEF Leaves, Allocated
    <3>2. Held[m] \in SUBSET Elements
      BY <3>1, LeafSegmentHolds DEF LeafSegment, Segment
    <3> QED
      BY <1>3, <1>5, <1>7, <1>9, <1>11, <2>1, <2>2, <3>2 DEF Grows
  <2>4. Tracked'
    <3>1. PICK B : B = Held[m]
      OBVIOUS
    <3>2. it'.idx = Shifted(Cardinality(B))
      BY <1>5, <1>7, <1>11, <3>1
    <3>3. \A y \in B, x \in Held[it.leaf] : y < x
      BY <1>3, <2>1, <2>2, <3>1
    <3> QED
      BY <2>1, <2>3, <3>1, <3>2, <3>3, GrowsInFront
  <2> QED
    BY <1>3, <1>5, <1>8, <1>9, <2>4, RebalanceGoesOn
<1> QED
  BY <1>10, <1>11

LEMMA MergeWithRightAnswers == ASSUME SInv, SInv', AInv, MergeWithRight PROVE AInv' /\ MapStep
<1>1. PICK h : Shape(h)
  BY DEF SInv
<1>2. IInv /\ IInv' /\ Basic'
  BY HeldBasicNext DEF SInv
<1>3. PICK n, p, s :
        /\ n = node /\ p = parent[n] /\ Basic /\ HeapOK /\ Sound(h, {}, {}, {n})
        /\ n \in Allocated /\ n # root /\ p \in Inner /\ p # n
        /\ s \in Held[p] /\ children[p][s] = n /\ s \in First(Held[n]) /\ s \in Int
        /\ h[p] = h[n] + 1 /\ h[n] \in Nat
        /\ it.leaf \in Leaves /\ sib = Null /\ pc = "underflow"
        /\ OwnSlot(n) = {s}
        /\ Cardinality(KeysOf(n)) < UnderflowThreshold(n)
  <2>1. Underflow
    BY DEF MergeWithRight, MustMerge
  <2> QED
    BY <1>1, <1>2, <2>1, UnderflowStart, Zenon
<1>4. PICK m \in RightSibling(n) : Merge(n, m)
  BY <1>3 DEF MergeWithRight
<1>5. /\ it' = IF IsLeaf(n) THEN [leaf |-> n, idx |-> IF inNext THEN Cardinality(KeysOf(n)) ELSE it.idx]
               ELSE it
      /\ UNCHANGED <<size, call, inNext, flag, ret>>
  BY <1>3 DEF MergeWithRight, MustMerge, Underflow, Track
<1>6. PICK t \in Held[p] :
        IsSibling(h, n, p, m, t) /\ s < t /\ Neighbours(Level(h, n), Held, n, m)
  BY <1>3, <1>4, SiblingsOf
<1>7. /\ m \in Allocated /\ m # n /\ m # root /\ h[m] = h[n] /\ (IsLeaf(m) <=> IsLeaf(n))
      /\ children[p][t] = m /\ n \in {n, m}
      /\ Held[n] = KeysOf(n) /\ Held[m] \in SUBSET Int /\ Held[n] \in SUBSET Int
      /\ Held[n] # {} /\ Held[m] # {}
  BY <1>3, <1>6 DEF IsSibling, Basic, First
<1>8. Merged(h, n, p, n, m, s, t) /\ pc' = "parent"
  BY ONLY <1>2, <1>3, <1>4, <1>5, <1>6, <1>7, MergeStep
<1>9. /\ Dict' = Dict /\ Elements' = Elements
      /\ IsLeaf(n) => n \in Leaves' /\ Held'[n] = Held[n] \cup Held[m]
      /\ ~IsLeaf(n) => UNCHANGED <<data, nextLeaf>> /\ Leaves \subseteq Leaves'
  BY ONLY SInv, SInv', <1>3, <1>4, <1>7, <1>8, MergeKeeps
<1>10. CASE ~IsLeaf(n)
  BY <1>3, <1>5, <1>8, <1>9, <1>10, InnerGoesOn
<1>11. CASE IsLeaf(n)
  <2>1. node = it.leaf /\ Tracked /\ NextKnown /\ call.key \in Int
    BY <1>3, <1>11, LeafUnderflows
  <2>2. (\A x \in Held[n], y \in Held[m] : x < y) /\ Held[m] \cap Held[n] = {}
    BY <1>6, <1>8 DEF Neighbours, Precedes, Merged
  <2>3. m \in Leaves /\ n \in Leaves
    BY <1>3, <1>7, <1>11 DEF Leaves, Allocated
  <2>4. Grows(n, Held[m])
    <3>1. Held[m] \in SUBSET Elements
      BY <2>3, LeafSegmentHolds DEF LeafSegment, Segment
    <3> QED
      BY <1>3, <1>5, <1>7, <1>9, <1>11, <2>1, <2>2, <3>1 DEF Grows
  <2>5. Tracked'
    <3>1. PICK B : B = Held[m]
      OBVIOUS
    <3>2. it'.idx = IF inNext THEN Cardinality(Held[it.leaf]) ELSE it.idx
      BY <1>3, <1>5, <1>7, <1>11, <2>1
    <3>3. B # {} /\ \A y \in B, x \in Held[it.leaf] : x < y
      BY <1>3, <1>7, <2>1, <2>2, <3>1
    <3>4. nextLeaf[it.leaf] # Null
      BY <1>3, <1>6, <1>7, <2>1, <2>3, NotLast
    <3> QED
      BY <2>1, <2>4, <3>1, <3>2, <3>3, <3>4, GrowsBehind
  <2> QED
    BY <1>3, <1>5, <1>8, <1>9, <2>5, RebalanceGoesOn
<1> QED
  BY <1>10, <1>11

----------------------------------------------------------------------------
(* Every step of the tree is a step of the map, or none. *)

\* The empty tree is the empty map.
LEMMA InitAnswers == Init => AInv /\ Map!Init
<1> SUFFICES ASSUME Init PROVE AInv /\ Map!Init
  OBVIOUS
<1>1. Elements = {}
  BY DEF Init, Elements, Empty
<1>2. Dict = Map!Empty
  BY <1>1 DEF Dict, Map!Empty
<1>3. Map!Init
  BY <1>2 DEF Init, Map!Init, Phase, Rebalancing, NoCall, NoRet, Map!NoCall, Map!NoRet
<1>4. AInv
  BY DEF Init, AInv, Quiet, RangeOK, NoCall, SearchKnown, InsertKnown, Inserting, EraseKnown,
         TrackKnown, Tracking, RangeKnown, AnswerKnown
<1> QED
  BY <1>3, <1>4

LEMMA RunAnswers == ASSUME SInv, SInv', AInv, Run PROVE AInv' /\ MapStep
<1>1. CASE StartOnEmpty \/ StartSearch \/ ClearLeaf \/ ClearTree \/ Descend \/ Lookup
  BY <1>1, StartOnEmptyAnswers, StartSearchAnswers, ClearAnswers, DescendAnswers, LookupAnswers
<1>2. CASE InsertExisting \/ InsertRoom \/ SplitLeaf
  BY <1>2, InsertExistingAnswers, InsertRoomAnswers, SplitLeafAnswers
<1>3. CASE PromoteNewRoot \/ PromoteRoom \/ PromoteSplit \/ FixSeparator \/ UpdateLeftmost
  BY <1>3, PromoteAnswers, FixSeparatorAnswers, UpdateLeftmostAnswers
<1>4. CASE EraseFromRoot \/ EraseFromLeaf
  BY <1>4, EraseFromRootAnswers, EraseFromLeafAnswers
<1>5. CASE BorrowFromLeft \/ BorrowFromRight
  BY <1>5, BorrowFromLeftAnswers, BorrowFromRightAnswers
<1>6. CASE MergeWithLeft \/ MergeWithRight
  BY <1>6, MergeWithLeftAnswers, MergeWithRightAnswers
<1>7. CASE ParentUnderflows \/ CollapseRoot \/ ParentStands
  BY <1>7, ParentAnswers
<1>8. CASE NextElement \/ RangeErase \/ RangeFindLast \/ RangeEnd \/ Answer \/ Finish
  BY <1>8, NextElementAnswers, RangeEraseAnswers, RangeFindLastAnswers, RangeEndAnswers,
     AnswerAnswers, FinishAnswers
<1> QED
  BY <1>1, <1>2, <1>3, <1>4, <1>5, <1>6, <1>7, <1>8 DEF Run

LEMMA NextAnswers == SInv /\ SInv' /\ AInv /\ [Next]_vars => AInv' /\ MapStep
<1> SUFFICES ASSUME SInv, SInv', AInv, [Next]_vars PROVE AInv' /\ MapStep
  OBVIOUS
<1>1. CASE Load \/ Client
  BY <1>1, LoadAnswers, ClientAnswers
<1>2. CASE Run
  BY <1>2, RunAnswers
<1>3. CASE Finished \/ UNCHANGED vars
  BY <1>3, StutterAnswers DEF Finished
<1> QED
  BY <1>1, <1>2, <1>3 DEF Next

\* What a running call has found out stays true until it answers.
LEMMA AnswersKnown == Spec => []AInv
BY ShapeHolds, InitAnswers, NextAnswers, PTL DEF Spec

\* For every capacity, key set and sequence of calls: each answer of the tree is
\* the answer of the ordered map.  The map changes when a leaf does (InsertRoom,
\* SplitLeaf, EraseFromLeaf, ...), once in a call, and no split, promotion, borrow,
\* merge or collapse changes it again; the iterator a call returns is the element
\* the map names, after erase the one that follows, wherever it has moved to.
THEOREM TreeAnswersAsMap == Spec => AnswersAsMap
<1>1. Init => Map!Init
  BY InitAnswers
<1>2. SInv /\ SInv' /\ AInv /\ [Next]_vars => [Map!Next]_(Map!vars)
  BY NextAnswers DEF MapStep
<1> QED
  BY <1>1, <1>2, ShapeHolds, AnswersKnown, PTL DEF Spec, AnswersAsMap

----------------------------------------------------------------------------
(* Ranks: the elements one after another. *)

\* A rank for every element, an element for every rank.
LEMMA RankHit ==
  ASSUME NEW S \in SUBSET Int, IsFiniteSet(S)
  PROVE  /\ Cardinality(S) \in Nat
         /\ \A x \in S : Rank(S, x) \in Nat /\ Rank(S, x) < Cardinality(S)
         /\ \A n \in Nat : n < Cardinality(S) => \E x \in S : Rank(S, x) = n
<1>1. PICK c \in Nat : c = Cardinality(S)
  BY FS_CardinalityType
<1>2. ASSUME NEW x \in S PROVE Rank(S, x) \in Nat /\ Rank(S, x) < c
  <2>1. x \in Int /\ x =< x
    OBVIOUS
  <2>2. Rank(S, x) \in Nat /\ (Rank(S, x) < Cardinality(S) <=> \E y \in S : x =< y)
    BY <2>1, IndexOf
  <2> QED
    BY <1>1, <2>1, <2>2
<1>3. ASSUME NEW n \in Nat, n < c PROVE \E x \in S : Rank(S, x) = n
  <2>1. PICK m \in Nat : m = n + 1 /\ m =< c /\ n =< c
    BY <1>3
  <2>2. Cardinality(LowestN(S, n)) = n /\ Cardinality(LowestN(S, m)) = m
    BY <1>1, <2>1, LowestFacts
  <2>3. LowestN(S, n) \subseteq S /\ IsFiniteSet(LowestN(S, n))
    BY FS_Subset DEF LowestN
  <2>4. PICK x \in LowestN(S, m) : x \notin LowestN(S, n)
    <3> SUFFICES ASSUME LowestN(S, m) \subseteq LowestN(S, n) PROVE FALSE
      OBVIOUS
    <3>1. Cardinality(LowestN(S, m)) =< Cardinality(LowestN(S, n))
      BY <2>3, FS_Subset
    <3> QED
      BY <2>1, <2>2, <3>1
  <2>5. x \in S /\ Rank(S, x) < m /\ ~(Rank(S, x) < n)
    BY <2>4 DEF LowestN
  <2> QED
    BY <1>2, <2>1, <2>5
<1> QED
  BY <1>1, <1>2, <1>3

\* The next rank is that of the next element.
LEMMA RankNext ==
  ASSUME NEW S \in SUBSET Int, IsFiniteSet(S), NEW x \in S, NEW y \in S
  PROVE  y \in Above(S, x) <=> Rank(S, y) = Rank(S, x) + 1
<1>1. \A z \in S : z \in Int /\ Rank(S, z) \in Nat
  BY RankHit
<1>2. \A z, t \in S : z < t => Rank(S, z) < Rank(S, t)
  BY RankOrder
<1>3. ASSUME y \in Above(S, x) PROVE Rank(S, y) = Rank(S, x) + 1
  <2>1. x < y /\ \A t \in S : x < t => y =< t
    BY <1>3 DEF Above
  <2>2. PICK B, C : B = {t \in S : t < x} /\ C = {t \in S : t < y}
    OBVIOUS
  <2>3. \A t : t \in C <=> t \in B \/ t = x
    <3>1. \A t \in S : t < y <=> t < x \/ t = x
      BY <1>1, <2>1
    <3>2. x < y /\ x \in S
      BY <2>1
    <3> QED
      BY ONLY <2>2, <3>1, <3>2
  <2>4. C = B \cup {x} /\ x \notin B
    BY <1>1, <2>2, <2>3
  <2>5. IsFiniteSet(B)
    BY <2>2, FS_Subset
  <2>6. Cardinality(C) = Cardinality(B) + 1
    BY <2>4, <2>5, FS_AddElement
  <2> QED
    BY <2>2, <2>6 DEF Rank
<1>4. ASSUME Rank(S, y) = Rank(S, x) + 1 PROVE y \in Above(S, x)
  <2>1. PICK r \in Nat : r = Rank(S, x) /\ Rank(S, y) = r + 1
    BY <1>1, <1>4
  <2>2. x < y
    BY <1>1, <1>2, <2>1
  <2>3. ASSUME NEW t \in S, x < t PROVE y =< t
    <3>1. r < Rank(S, t) /\ Rank(S, t) \in Nat
      BY <1>1, <1>2, <2>1, <2>3
    <3>2. ~(Rank(S, t) < r + 1)
      BY <3>1
    <3> QED
      BY <1>1, <1>2, <2>1, <3>2
  <2> QED
    BY <2>2, <2>3 DEF Above
<1> QED
  BY <1>3, <1>4

\* The ends.
LEMMA RankEnds ==
  ASSUME NEW S \in SUBSET Int, IsFiniteSet(S), NEW x \in S
  PROVE  /\ Rank(S, x) = 0 <=> \A t \in S : x =< t
         /\ Rank(S, x) + 1 = Cardinality(S) <=> \A t \in S : t =< x
<1>1. /\ Cardinality(S) \in Nat
      /\ \A z \in S : z \in Int /\ Rank(S, z) \in Nat /\ Rank(S, z) < Cardinality(S)
  BY RankHit
<1>2. \A z, t \in S : z < t => Rank(S, z) < Rank(S, t)
  BY RankOrder
<1>3. \A n \in Nat : n < Cardinality(S) => \E z \in S : Rank(S, z) = n
  BY RankHit
<1>4. PICK r \in Nat, c \in Nat : r = Rank(S, x) /\ c = Cardinality(S) /\ r < c
  BY <1>1
<1>5. ASSUME r = 0, NEW t \in S PROVE x =< t
  <2>1. ~(Rank(S, t) < r) /\ t \in Int /\ x \in Int
    BY <1>1, <1>5
  <2> QED
    BY <1>2, <1>4, <2>1
<1>6. ASSUME \A t \in S : x =< t PROVE r = 0
  <2>1. PICK z \in S : Rank(S, z) = 0
    BY <1>3, <1>4
  <2> QED
    BY <1>1, <1>2, <1>4, <1>6, <2>1
<1>7. ASSUME r + 1 = c, NEW t \in S PROVE t =< x
  BY <1>1, <1>2, <1>4, <1>7
<1>8. ASSUME \A t \in S : t =< x PROVE r + 1 = c
  <2>1. PICK n \in Nat : n = c - 1 /\ n < c
    BY <1>4
  <2>2. PICK z \in S : Rank(S, z) = n
    BY <1>3, <1>4, <2>1
  <2>3. z = x \/ z < x
    BY <1>1, <1>8
  <2>4. ~(Rank(S, z) < Rank(S, x))
    BY <1>4, <2>1, <2>2
  <2> QED
    BY <1>2, <1>4, <2>1, <2>2, <2>3, <2>4
<1> QED
  BY <1>4, <1>5, <1>6, <1>7, <1>8

----------------------------------------------------------------------------
(* Iteration between calls. *)

\* What a tree at rest is.
LEMMA IdleTree ==
  ASSUME SInv, pc = "idle"
  PROVE  /\ Placed /\ Basic /\ Chained
         /\ Elements \in SUBSET Int /\ IsFiniteSet(Elements)
         /\ size = Total /\ Total \in Nat
         /\ \E h : Kinds(h) /\ Levels(h)
<1>1. PICK h : Shape(h)
  BY DEF SInv
<1>2. Sound(h, {}, {}, {})
  BY <1>1, Settled
<1>3. Basic
  BY HeldBasic DEF SInv
<1>4. Elements \in SUBSET Int /\ IsFiniteSet(Elements)
  BY LeafSegmentHolds DEF LeafSegment
<1>5. size = Total /\ Total \in Nat
  BY <1>4, FS_CardinalityType DEF SInv, Counted, Total
<1> QED
  BY <1>2, <1>3, <1>4, <1>5 DEF Placed, Sound

\* Of two elements one after the other, either the second is next in the same leaf, or
\* it is the first of the next leaf and the first is the last of its leaf.
LEMMA NextPlace ==
  ASSUME SInv, pc = "idle", NEW l \in Leaves, NEW m \in Leaves,
         NEW x \in Held[l], NEW y \in Held[m], y \in Above(Elements, x)
  PROVE  \/ m = l /\ Rank(Held[l], y) = Rank(Held[l], x) + 1
         \/ /\ nextLeaf[l] = m /\ prevLeaf[m] = l
            /\ Rank(Held[l], x) + 1 = Cardinality(Held[l]) /\ Rank(Held[m], y) = 0
<1>1. Placed /\ Basic /\ Chained
  BY IdleTree
<1>2. PICK h : Kinds(h) /\ Levels(h)
  BY IdleTree
<1>3. /\ \A n \in Leaves : Held[n] \in SUBSET Int /\ IsFiniteSet(Held[n])
      /\ \A n \in Leaves : n \in Allocated /\ h[n] = 0
  BY <1>1, <1>2 DEF Basic, Kinds, Leaves
<1>4. \A n \in Leaves : \A z \in Held[n] : z \in Elements
  BY <1>1, ElementsOf
<1>5. x < y /\ \A t \in Elements : x < t => y =< t
  BY DEF Above
<1>6. x \in Int /\ y \in Int
  BY <1>3
<1>7. CASE m = l
  <2>1. y \in Above(Held[l], x)
    BY <1>4, <1>5, <1>7 DEF Above
  <2>2. PICK S : S = Held[l]
    OBVIOUS
  <2>3. S \in SUBSET Int /\ IsFiniteSet(S) /\ x \in S /\ y \in S /\ y \in Above(S, x)
    BY <1>3, <1>7, <2>1, <2>2
  <2>4. Rank(S, y) = Rank(S, x) + 1
    BY ONLY <2>3, RankNext
  <2> QED
    BY <1>7, <2>2, <2>4
<1>8. CASE m # l
  <2>1. Precedes(Held, l, m)
    <3>1. Precedes(Held, l, m) \/ Precedes(Held, m, l)
      BY <1>2, <1>3, <1>8 DEF Levels, Layered
    <3>2. ~ Precedes(Held, m, l)
      BY <1>5, <1>6 DEF Precedes
    <3> QED
      BY <3>1, <3>2
  <2>2. ~ Precedes(Held, m, l)
    BY <1>5, <1>6 DEF Precedes
  <2>3. ASSUME NEW n \in Leaves, n # l, n # m
        PROVE  ~(Precedes(Held, l, n) /\ Precedes(Held, n, m))
    <3> SUFFICES ASSUME Precedes(Held, l, n), Precedes(Held, n, m) PROVE FALSE
      OBVIOUS
    <3>1. PICK z : z \in Held[n]
      BY <1>1, <2>3, EmptyLeaf
    <3>2. x < z /\ z < y /\ z \in Elements /\ z \in Int
      BY <1>3, <1>4, <3>1 DEF Precedes
    <3> QED
      BY <1>5, <1>6, <3>2
  <2>4. nextLeaf[l] = m
    <3>1. nextLeaf[l] # Null /\ Neighbours(Leaves, Held, l, nextLeaf[l])
      BY <1>1, <1>8, <2>2 DEF Chained, Linked
    <3>2. PICK n \in Leaves : n = nextLeaf[l]
      BY <3>1 DEF Neighbours
    <3>3. /\ l # n /\ Precedes(Held, l, n)
          /\ \A j \in Leaves \ {l, n} : Precedes(Held, j, l) \/ Precedes(Held, n, j)
      BY <3>1, <3>2 DEF Neighbours
    <3>4. n = m
      BY <1>8, <2>2, <2>3, <3>3
    <3> QED
      BY <3>2, <3>4
  <2>5. prevLeaf[m] = l
    <3>1. prevLeaf[m] # Null /\ Neighbours(Leaves, Held, prevLeaf[m], m)
      BY <1>1, <1>8, <2>2 DEF Chained, Linked
    <3>2. PICK n \in Leaves : n = prevLeaf[m]
      BY <3>1 DEF Neighbours
    <3>3. /\ m # n /\ Precedes(Held, n, m)
          /\ \A j \in Leaves \ {n, m} : Precedes(Held, j, n) \/ Precedes(Held, m, j)
      BY <3>1, <3>2 DEF Neighbours
    <3>4. n = l
      BY <1>8, <2>2, <2>3, <3>3
    <3> QED
      BY <3>2, <3>4
  <2>6. \A t \in Held[l] : t =< x
    BY <1>3, <1>4, <1>5, <1>6, <2>1 DEF Precedes
  <2>7. \A t \in Held[m] : y =< t
    BY <1>4, <1>5, <2>1 DEF Precedes
  <2>8. Rank(Held[l], x) + 1 = Cardinality(Held[l])
    BY <1>3, <2>6, RankEnds
  <2>9. Rank(Held[m], y) = 0
    BY <1>3, <2>7, RankEnds
  <2> QED
    BY <2>4, <2>5, <2>8, <2>9
<1> QED
  BY <1>7, <1>8

\* The ends: the smallest element is the first of the leftmost leaf, the greatest the
\* last of the rightmost.
LEMMA EndPlaces ==
  ASSUME SInv, pc = "idle", NEW l \in Leaves, NEW x \in Held[l]
  PROVE  /\ (\A t \in Elements : x =< t) =>
              l = leftmostLeaf /\ prevLeaf[l] = Null /\ Rank(Held[l], x) = 0
         /\ (\A t \in Elements : t =< x) =>
              l = rightmostLeaf /\ nextLeaf[l] = Null /\ Rank(Held[l], x) + 1 = Cardinality(Held[l])
<1>1. Placed /\ Basic /\ Chained
  BY IdleTree
<1>2. \A n \in Leaves : Held[n] \in SUBSET Int /\ IsFiniteSet(Held[n])
  BY <1>1 DEF Basic
<1>3. \A n \in Leaves : \A z \in Held[n] : z \in Elements
  BY <1>1, ElementsOf
<1>4. ASSUME \A t \in Elements : x =< t
      PROVE  l = leftmostLeaf /\ prevLeaf[l] = Null /\ Rank(Held[l], x) = 0
  <2>1. ASSUME prevLeaf[l] # Null PROVE FALSE
    <3>1. Neighbours(Leaves, Held, prevLeaf[l], l)
      BY <1>1, <2>1 DEF Chained, Linked
    <3>2. PICK n \in Leaves : n # l /\ Precedes(Held, n, l)
      BY <3>1 DEF Neighbours
    <3>3. PICK z : z \in Held[n]
      BY <1>1, <3>2, EmptyLeaf
    <3>4. z < x /\ x =< z /\ z \in Int /\ x \in Int
      BY <1>2, <1>3, <1>4, <3>2, <3>3 DEF Precedes
    <3> QED
      BY <3>4
  <2>2. l = leftmostLeaf
    BY <1>1, <2>1 DEF Chained, Linked
  <2>3. Rank(Held[l], x) = 0
    BY <1>2, <1>3, <1>4, RankEnds
  <2> QED
    BY <2>1, <2>2, <2>3
<1>5. ASSUME \A t \in Elements : t =< x
      PROVE  l = rightmostLeaf /\ nextLeaf[l] = Null /\ Rank(Held[l], x) + 1 = Cardinality(Held[l])
  <2>1. ASSUME nextLeaf[l] # Null PROVE FALSE
    <3>1. Neighbours(Leaves, Held, l, nextLeaf[l])
      BY <1>1, <2>1 DEF Chained, Linked
    <3>2. PICK n \in Leaves : n # l /\ Precedes(Held, l, n)
      BY <3>1 DEF Neighbours
    <3>3. PICK z : z \in Held[n]
      BY <1>1, <3>2, EmptyLeaf
    <3>4. x < z /\ z =< x /\ z \in Int /\ x \in Int
      BY <1>2, <1>3, <1>5, <3>2, <3>3 DEF Precedes
    <3> QED
      BY <3>4
  <2>2. l = rightmostLeaf
    BY <1>1, <2>1 DEF Chained, Linked
  <2>3. Rank(Held[l], x) + 1 = Cardinality(Held[l])
    BY <1>2, <1>3, <1>5, RankEnds
  <2> QED
    BY <2>1, <2>2, <2>3
<1> QED
  BY <1>4, <1>5

\* The iterator at element x of leaf l.
Spot(l, x) == At0(l, Rank(Held[l], x))

\* What Spot and the size of a leaf are made of.
LEMMA SpotFacts ==
  ASSUME Basic, NEW l \in Leaves, NEW x \in Held[l]
  PROVE  /\ Spot(l, x).leaf = l /\ Spot(l, x).idx = Rank(Held[l], x)
         /\ Size(data[l]) = Cardinality(Held[l]) /\ Cardinality(Held[l]) \in Nat
         /\ Rank(Held[l], x) \in Nat /\ Rank(Held[l], x) < Cardinality(Held[l])
         /\ l \in Node /\ l # Null /\ IsLeaf(l)
<1>1. l \in Node /\ l # Null /\ IsLeaf(l) /\ Held[l] = DOMAIN data[l]
      /\ Held[l] \in SUBSET Int /\ IsFiniteSet(Held[l])
  BY DEF Basic, Leaves
<1>2. Spot(l, x).leaf = l /\ Spot(l, x).idx = Rank(Held[l], x)
  BY DEF Spot, At0
<1>3. Size(data[l]) = Cardinality(Held[l])
  BY <1>1 DEF Size
<1>4. /\ Cardinality(Held[l]) \in Nat
      /\ Rank(Held[l], x) \in Nat /\ Rank(Held[l], x) < Cardinality(Held[l])
  BY <1>1, RankHit
<1> QED
  BY <1>1, <1>2, <1>3, <1>4

\* A step between two elements, one after the other, in each of the four ways.
LEMMA StepBetween ==
  ASSUME SInv, pc = "idle", NEW l \in Leaves, NEW m \in Leaves,
         NEW x \in Held[l], NEW y \in Held[m], y \in Above(Elements, x)
  PROVE  /\ Increment(Spot(l, x)) = Spot(m, y) /\ Decrement(Spot(m, y)) = Spot(l, x)
         /\ RevIncrement(Spot(m, y)) = Spot(l, x) /\ RevDecrement(Spot(l, x)) = Spot(m, y)
<1>1. Basic
  BY IdleTree
<1>2. PICK p, q, i, j, c, d :
        /\ p = Spot(l, x) /\ q = Spot(m, y)
        /\ i = Rank(Held[l], x) /\ j = Rank(Held[m], y)
        /\ c = Cardinality(Held[l]) /\ d = Cardinality(Held[m])
  OBVIOUS
<1>3. /\ p.leaf = l /\ p.idx = i /\ q.leaf = m /\ q.idx = j
      /\ p = At0(l, i) /\ q = At0(m, j)
      /\ Size(data[l]) = c /\ Size(data[m]) = d
      /\ i \in Nat /\ j \in Nat /\ c \in Nat /\ d \in Nat /\ i < c /\ j < d
      /\ l # Null /\ m # Null
  BY <1>1, <1>2, SpotFacts DEF Spot
<1>4. CASE m = l /\ j = i + 1
  <2>1. c = d /\ i + 1 # c /\ j # d /\ j # 0 /\ j - 1 = i /\ j > 0 /\ i # c - 1
    BY <1>2, <1>3, <1>4
  <2>2. Increment(p) = q
    BY <1>3, <1>4, <2>1 DEF Increment
  <2>3. Decrement(q) = p
    BY <1>3, <1>4, <2>1 DEF Decrement
  <2>4. RevIncrement(q) = p
    BY <1>3, <1>4, <2>1 DEF RevIncrement
  <2>5. p # LastOf(l)
    BY <1>3, <2>1 DEF LastOf, At0
  <2>6. RevDecrement(p) = q
    BY <1>3, <1>4, <2>5 DEF RevDecrement
  <2> QED
    BY <1>2, <2>2, <2>3, <2>4, <2>6
<1>5. CASE nextLeaf[l] = m /\ prevLeaf[m] = l /\ i + 1 = c /\ j = 0
  <2>1. c - 1 = i /\ d # 0 /\ ~(j > 0) /\ j # d
    BY <1>3, <1>5
  <2>2. LastOf(l) = p /\ At0(m, 0) = q
    BY <1>3, <1>5, <2>1 DEF LastOf
  <2>3. Increment(p) = q
    BY <1>3, <1>5, <2>2 DEF Increment
  <2>4. Decrement(q) = p
    BY <1>3, <1>5, <2>1, <2>2 DEF Decrement
  <2>5. RevIncrement(q) = p
    BY <1>3, <1>5, <2>1, <2>2 DEF RevIncrement
  <2>6. RevDecrement(p) = q
    BY <1>3, <1>5, <2>2 DEF RevDecrement
  <2> QED
    BY <1>2, <2>3, <2>4, <2>5, <2>6
<1> QED
  BY <1>2, <1>4, <1>5, NextPlace

\* The steps at the ends.
LEMMA StepAtEnds ==
  ASSUME SInv, pc = "idle", NEW l \in Leaves, NEW x \in Held[l]
  PROVE  /\ (\A t \in Elements : x =< t) =>
              /\ Begin = Spot(l, x)
              /\ RevIncrement(Spot(l, x)) = REnd /\ RevDecrement(REnd) = Spot(l, x)
         /\ (\A t \in Elements : t =< x) =>
              /\ RBegin = Spot(l, x)
              /\ Increment(Spot(l, x)) = End /\ Decrement(End) = Spot(l, x)
<1>1. Basic /\ size = Total /\ IsFiniteSet(Elements)
  BY IdleTree
<1>2. PICK p, i, c : p = Spot(l, x) /\ i = Rank(Held[l], x) /\ c = Cardinality(Held[l])
  OBVIOUS
<1>3. /\ p.leaf = l /\ p.idx = i /\ p = At0(l, i) /\ Size(data[l]) = c
      /\ i \in Nat /\ c \in Nat /\ i < c /\ l # Null
  BY <1>1, <1>2, SpotFacts DEF Spot
<1>4. size # 0
  <2>1. x \in Elements
    BY <1>1, ElementsOf
  <2> QED
    BY <1>1, <2>1, FS_EmptySet DEF Total
<1>5. ASSUME \A t \in Elements : x =< t
      PROVE  Begin = p /\ RevIncrement(p) = REnd /\ RevDecrement(REnd) = p
  <2>1. l = leftmostLeaf /\ prevLeaf[l] = Null /\ i = 0
    BY <1>2, <1>5, EndPlaces
  <2>2. Begin = p
    BY <1>3, <1>4, <2>1 DEF Begin
  <2>3. RevIncrement(p) = REnd
    BY <1>3, <2>1 DEF RevIncrement
  <2>4. RevDecrement(REnd) = p
    BY <1>3, <2>1 DEF RevDecrement, REnd, EndIt
  <2> QED
    BY <2>2, <2>3, <2>4
<1>6. ASSUME \A t \in Elements : t =< x
      PROVE  RBegin = p /\ Increment(p) = End /\ Decrement(End) = p
  <2>1. l = rightmostLeaf /\ nextLeaf[l] = Null /\ i + 1 = c
    BY <1>2, <1>6, EndPlaces
  <2>2. LastOf(l) = p
    <3>1. c - 1 = i
      BY <1>3, <2>1
    <3> QED
      BY <1>3, <3>1 DEF LastOf
  <2>3. End = At0(l, c)
    BY <1>3, <1>4, <2>1 DEF End
  <2>4. End.leaf = l /\ End.idx = c
    BY <2>3 DEF At0
  <2>5. RBegin = p
    BY <1>4, <2>1, <2>2 DEF RBegin
  <2>6. Increment(p) = End
    BY <1>3, <2>1, <2>3 DEF Increment
  <2>7. Decrement(End) = p
    BY <1>3, <2>2, <2>4 DEF Decrement
  <2> QED
    BY <2>5, <2>6, <2>7
<1> QED
  BY <1>2, <1>5, <1>6

\* Spot(l, x) points at x.
LEMMA SpotPoints ==
  ASSUME SInv, pc = "idle", NEW l \in Leaves, NEW x \in Held[l]
  PROVE  PointsAtRank(Spot(l, x), Rank(Elements, x))
<1>1. Basic
  BY IdleTree
<1>2. PICK p : p = Spot(l, x)
  OBVIOUS
<1>3. p.leaf = l /\ p.idx = Rank(Held[l], x) /\ l \in Node /\ IsLeaf(l) /\ Held[l] = DOMAIN data[l]
  BY <1>1, <1>2, SpotFacts DEF Basic
<1>4. x \in At(DOMAIN data[p.leaf], p.idx)
  BY <1>3 DEF At
<1> QED
  BY <1>2, <1>3, <1>4 DEF PointsAtRank

\* The iterators at the elements, one after the other, s[0], ..., s[c - 1].
Visits(s, c) ==
  /\ \A n \in 0 .. c - 1 : PointsAtRank(s[n], n)
  /\ \A n \in Nat : n + 1 < c =>
       /\ Increment(s[n]) = s[n + 1] /\ Decrement(s[n + 1]) = s[n]
       /\ RevIncrement(s[n + 1]) = s[n] /\ RevDecrement(s[n]) = s[n + 1]
  /\ Begin = s[0] /\ RevIncrement(s[0]) = REnd /\ RevDecrement(REnd) = s[0]
  /\ RBegin = s[c - 1] /\ Increment(s[c - 1]) = End /\ Decrement(End) = s[c - 1]

LEMMA VisitsElements ==
  ASSUME SInv, pc = "idle", NEW c \in Nat, c = Total, c # 0
  PROVE  \E s : Visits(s, c)
<1>1. Basic /\ Elements \in SUBSET Int /\ IsFiniteSet(Elements)
  BY IdleTree
<1>2. /\ Cardinality(Elements) = c
      /\ \A x \in Elements : x \in Int /\ Rank(Elements, x) \in Nat /\ Rank(Elements, x) < c
      /\ \A n \in Nat : n < c => \E x \in Elements : Rank(Elements, x) = n
  BY <1>1, RankHit DEF Total
<1>3. \A x \in Elements : \E l \in Leaves : x \in Held[l]
  BY <1>1 DEF Elements, Basic, Leaves
<1> DEFINE elem(n) == CHOOSE x \in Elements : Rank(Elements, x) = n
           leaf(n) == CHOOSE l \in Leaves : elem(n) \in Held[l]
           f == [n \in Nat |-> elem(n)]
           g == [n \in Nat |-> leaf(n)]
           v == [n \in Nat |-> Spot(g[n], f[n])]
<1>4. \A n \in Nat : n < c => elem(n) \in Elements /\ Rank(Elements, elem(n)) = n
  BY <1>2
<1>5. \A n \in Nat : n < c => leaf(n) \in Leaves /\ elem(n) \in Held[leaf(n)]
  BY <1>3, <1>4
<1>6. \A n \in Nat : f[n] = elem(n) /\ g[n] = leaf(n) /\ v[n] = Spot(g[n], f[n])
  OBVIOUS
<1> HIDE DEF elem, leaf, f, g, v
<1>7. \A n \in Nat : n < c =>
        g[n] \in Leaves /\ f[n] \in Held[g[n]] /\ f[n] \in Elements /\ Rank(Elements, f[n]) = n
  BY <1>4, <1>5, <1>6
<1>8. ASSUME NEW n \in 0 .. c - 1 PROVE PointsAtRank(v[n], n)
  <2>1. n \in Nat /\ n < c
    BY <1>8
  <2>2. PICK l, x : l \in Leaves /\ x \in Held[l] /\ l = g[n] /\ x = f[n] /\ Rank(Elements, x) = n
    BY <1>7, <2>1
  <2>3. v[n] = Spot(l, x)
    BY <1>6, <2>1, <2>2
  <2> QED
    BY <2>2, <2>3, SpotPoints
<1>9. ASSUME NEW n \in Nat, n + 1 < c
      PROVE  /\ Increment(v[n]) = v[n + 1] /\ Decrement(v[n + 1]) = v[n]
             /\ RevIncrement(v[n + 1]) = v[n] /\ RevDecrement(v[n]) = v[n + 1]
  <2>1. PICK m \in Nat : m = n + 1 /\ n < c /\ m < c
    BY <1>9
  <2>2. PICK l, x : l \in Leaves /\ x \in Held[l] /\
          l = g[n] /\ x = f[n] /\ x \in Elements /\ Rank(Elements, x) = n
    BY <1>7, <2>1
  <2>3. PICK k1, y : k1 \in Leaves /\ y \in Held[k1] /\
          k1 = g[m] /\ y = f[m] /\ y \in Elements /\ Rank(Elements, y) = m
    BY <1>7, <2>1
  <2>4. y \in Above(Elements, x)
    BY <1>1, <2>1, <2>2, <2>3, RankNext
  <2>5. v[n] = Spot(l, x) /\ v[m] = Spot(k1, y)
    BY <1>6, <2>1, <2>2, <2>3
  <2>6. /\ Increment(Spot(l, x)) = Spot(k1, y) /\ Decrement(Spot(k1, y)) = Spot(l, x)
        /\ RevIncrement(Spot(k1, y)) = Spot(l, x) /\ RevDecrement(Spot(l, x)) = Spot(k1, y)
    BY <2>2, <2>3, <2>4, StepBetween
  <2> QED
    BY <2>1, <2>5, <2>6
<1>10. Begin = v[0] /\ RevIncrement(v[0]) = REnd /\ RevDecrement(REnd) = v[0]
  <2>1. PICK l, x : l \in Leaves /\ x \in Held[l] /\
          l = g[0] /\ x = f[0] /\ x \in Elements /\ Rank(Elements, x) = 0
    BY <1>7
  <2>2. \A t \in Elements : x =< t
    BY <1>1, <2>1, RankEnds
  <2>3. v[0] = Spot(l, x)
    BY <1>6, <2>1
  <2> QED
    BY <2>1, <2>2, <2>3, StepAtEnds
<1>11. RBegin = v[c - 1] /\ Increment(v[c - 1]) = End /\ Decrement(End) = v[c - 1]
  <2>1. PICK n \in Nat : n = c - 1 /\ n < c /\ n + 1 = c
    OBVIOUS
  <2>2. PICK l, x : l \in Leaves /\ x \in Held[l] /\
          l = g[n] /\ x = f[n] /\ x \in Elements /\ Rank(Elements, x) = n
    BY <1>7, <2>1
  <2>3. \A t \in Elements : t =< x
    <3>1. Rank(Elements, x) + 1 = Cardinality(Elements)
      BY <1>2, <2>1, <2>2
    <3> QED
      BY <1>1, <2>2, <3>1, RankEnds
  <2>4. v[n] = Spot(l, x)
    BY <1>6, <2>1, <2>2
  <2> QED
    BY <2>1, <2>2, <2>3, <2>4, StepAtEnds
<1>12. Visits(v, c)
  BY <1>8, <1>9, <1>10, <1>11 DEF Visits
<1> QED
  BY <1>12

\* What a recursive function on 0 .. c computes is what its equations say.
LEMMA SameSequence ==
  ASSUME NEW c \in Nat, NEW f, NEW g, f[0] = g[0],
         \A n \in Nat : n + 1 \in 0 .. c /\ f[n] = g[n] => f[n + 1] = g[n + 1]
  PROVE  \A n \in 0 .. c : f[n] = g[n]
<1>1. PICK S : S = {n \in Nat : n =< c => f[n] = g[n]}
  OBVIOUS
<1>2. 0 \in S
  BY <1>1
<1>3. ASSUME NEW n \in Nat, n \in S PROVE n + 1 \in S
  <2>1. n + 1 =< c => f[n] = g[n] /\ n + 1 \in 0 .. c
    BY <1>1, <1>3
  <2>2. n + 1 =< c => f[n + 1] = g[n + 1]
    BY <2>1
  <2> QED
    BY <1>1, <2>2
<1>4. Nat \subseteq S
  BY <1>2, <1>3, SetInduction
<1> QED
  BY <1>1, <1>4

\* Begin and end of an empty tree.
LEMMA EmptyEnds ==
  ASSUME SInv, pc = "idle", Total = 0
  PROVE  Begin = End /\ RBegin = REnd
<1>1. size = 0
  BY IdleTree
<1> QED
  BY <1>1 DEF Begin, End, RBegin, REnd

\* The forward iterators.
LEMMA Forward == ASSUME SInv, pc = "idle" PROVE ThereAndBack
<1>1. PICK c \in Nat : c = Total
  BY IdleTree
<1> DEFINE up == CHOOSE up : up = [n \in 0 .. Total |-> IF n = 0 THEN Begin ELSE Increment(up[n - 1])]
           down == CHOOSE down : down = [n \in 0 .. Total |-> IF n = 0 THEN End ELSE Decrement(down[n - 1])]
<1>2. ThereAndBack <=> /\ \A n \in 0 .. Total - 1 : PointsAtRank(up[n], n)
                       /\ up[Total] = End
                       /\ \A n \in 0 .. Total : down[n] = up[Total - n]
  BY Zenon DEF ThereAndBack
<1>3. \E s : (c # 0 => Visits(s, c))
  BY <1>1, VisitsElements
<1>4. PICK s : c # 0 => Visits(s, c)
  BY <1>3
<1> DEFINE w == [n \in 0 .. c |-> IF n = c THEN End ELSE s[n]]
           d == [n \in 0 .. c |-> w[c - n]]
<1>5. w[0] = Begin /\ \A n \in Nat : n + 1 \in 0 .. c => w[n + 1] = Increment(w[n])
  <2>1. CASE c = 0
    BY <1>1, <2>1, EmptyEnds
  <2>2. CASE c # 0
    <3>1. Visits(s, c)
      BY <1>4, <2>2
    <3>2. w[0] = Begin
      BY <2>2, <3>1 DEF Visits
    <3>3. ASSUME NEW n \in Nat, n + 1 \in 0 .. c PROVE w[n + 1] = Increment(w[n])
      <4>1. n \in 0 .. c /\ n # c /\ w[n] = s[n]
        BY <3>3
      <4>2. CASE n + 1 = c
        <5>1. n = c - 1
          BY <4>2
        <5>2. w[n + 1] = End /\ Increment(s[n]) = End
          BY <3>1, <4>2, <5>1 DEF Visits
        <5> QED
          BY <4>1, <5>2
      <4>3. CASE n + 1 # c
        <5>1. n + 1 < c /\ w[n + 1] = s[n + 1]
          BY <3>3, <4>3
        <5>2. Increment(s[n]) = s[n + 1]
          BY <3>1, <5>1 DEF Visits
        <5> QED
          BY <4>1, <5>1, <5>2
      <4> QED
        BY <4>2, <4>3
    <3> QED
      BY <3>2, <3>3
  <2> QED
    BY <2>1, <2>2
<1>6. d[0] = End /\ \A n \in Nat : n + 1 \in 0 .. c => d[n + 1] = Decrement(d[n])
  <2>1. d[0] = End
    OBVIOUS
  <2>2. ASSUME NEW n \in Nat, n + 1 \in 0 .. c PROVE d[n + 1] = Decrement(d[n])
    <3>1. Visits(s, c)
      BY <1>4, <2>2
    <3>2. PICK m \in Nat : m = c - (n + 1) /\ m + 1 = c - n /\ m \in 0 .. c /\ m + 1 \in 0 .. c /\ m # c
      BY <2>2
    <3>3. d[n + 1] = s[m] /\ d[n] = w[m + 1]
      BY <2>2, <3>2
    <3>4. CASE m + 1 = c
      <4>1. m = c - 1 /\ w[m + 1] = End
        BY <3>2, <3>4
      <4>2. Decrement(End) = s[m]
        BY <3>1, <4>1 DEF Visits
      <4> QED
        BY <3>3, <4>1, <4>2
    <3>5. CASE m + 1 # c
      <4>1. m + 1 < c /\ w[m + 1] = s[m + 1]
        BY <3>2, <3>5
      <4>2. Decrement(s[m + 1]) = s[m]
        BY <3>1, <4>1 DEF Visits
      <4> QED
        BY <3>3, <4>1, <4>2
    <3> QED
      BY <3>4, <3>5
  <2> QED
    BY <2>1, <2>2
<1>7. w = [n \in 0 .. c |-> w[n]] /\ d = [n \in 0 .. c |-> d[n]]
  OBVIOUS
<1>8. w[c] = End /\ (\A n \in 0 .. c - 1 : w[n] = s[n]) /\ \A n \in 0 .. c : d[n] = w[c - n]
  OBVIOUS
<1> HIDE DEF w, d
<1>9. \A n \in 0 .. c : n # 0 => n - 1 \in Nat /\ (n - 1) + 1 = n
  OBVIOUS
<1>10. w = [n \in 0 .. Total |-> IF n = 0 THEN Begin ELSE Increment(w[n - 1])]
  <2>1. \A n \in 0 .. c : w[n] = IF n = 0 THEN Begin ELSE Increment(w[n - 1])
    BY <1>5, <1>9
  <2> QED
    BY <1>1, <1>7, <2>1, Zenon
<1>11. d = [n \in 0 .. Total |-> IF n = 0 THEN End ELSE Decrement(d[n - 1])]
  <2>1. \A n \in 0 .. c : d[n] = IF n = 0 THEN End ELSE Decrement(d[n - 1])
    BY <1>6, <1>9
  <2> QED
    BY <1>1, <1>7, <2>1, Zenon
<1>12. up = [n \in 0 .. Total |-> IF n = 0 THEN Begin ELSE Increment(up[n - 1])]
  BY <1>10
<1>13. down = [n \in 0 .. Total |-> IF n = 0 THEN End ELSE Decrement(down[n - 1])]
  BY <1>11
<1> HIDE DEF up, down
<1>14. \A n \in 0 .. c : up[n] = w[n]
  <2>1. \A n \in 0 .. c : up[n] = IF n = 0 THEN Begin ELSE Increment(up[n - 1])
    BY <1>1, <1>12
  <2>2. up[0] = w[0]
    BY <1>5, <2>1
  <2>3. ASSUME NEW n \in Nat, n + 1 \in 0 .. c, up[n] = w[n] PROVE up[n + 1] = w[n + 1]
    BY <1>5, <2>1, <2>3
  <2> QED
    BY ONLY c \in Nat, <2>2, <2>3, SameSequence
<1>15. \A n \in 0 .. c : down[n] = d[n]
  <2>1. \A n \in 0 .. c : down[n] = IF n = 0 THEN End ELSE Decrement(down[n - 1])
    BY <1>1, <1>13
  <2>2. down[0] = d[0]
    BY <1>6, <2>1
  <2>3. ASSUME NEW n \in Nat, n + 1 \in 0 .. c, down[n] = d[n] PROVE down[n + 1] = d[n + 1]
    BY <1>6, <2>1, <2>3
  <2> QED
    BY ONLY c \in Nat, <2>2, <2>3, SameSequence
<1>16. \A n \in 0 .. c - 1 : PointsAtRank(up[n], n)
  <2> SUFFICES ASSUME NEW n \in 0 .. c - 1 PROVE PointsAtRank(up[n], n)
    OBVIOUS
  <2>1. c # 0 /\ n \in 0 .. c
    OBVIOUS
  <2>2. PointsAtRank(s[n], n)
    BY <1>4, <2>1 DEF Visits
  <2> QED
    BY <1>8, <1>14, <2>1, <2>2
<1>17. up[c] = End
  BY <1>8, <1>14
<1>18. \A n \in 0 .. c : down[n] = up[c - n]
  <2> SUFFICES ASSUME NEW n \in 0 .. c PROVE down[n] = up[c - n]
    OBVIOUS
  <2>1. c - n \in 0 .. c
    OBVIOUS
  <2> QED
    BY <1>8, <1>14, <1>15, <2>1
<1> QED
  BY <1>1, <1>2, <1>16, <1>17, <1>18

\* The reverse iterators.
LEMMA Backward == ASSUME SInv, pc = "idle" PROVE ReverseThereAndBack
<1>1. PICK c \in Nat : c = Total
  BY IdleTree
<1> DEFINE up == CHOOSE up : up = [n \in 0 .. Total |-> IF n = 0 THEN RBegin ELSE RevIncrement(up[n - 1])]
           down == CHOOSE down : down = [n \in 0 .. Total |-> IF n = 0 THEN REnd ELSE RevDecrement(down[n - 1])]
<1>2. ReverseThereAndBack <=> /\ \A n \in 0 .. Total - 1 : PointsAtRank(up[n], Total - 1 - n)
                              /\ up[Total] = REnd
                              /\ \A n \in 0 .. Total : down[n] = up[Total - n]
  BY Zenon DEF ReverseThereAndBack
<1>3. \E s : (c # 0 => Visits(s, c))
  BY <1>1, VisitsElements
<1>4. PICK s : c # 0 => Visits(s, c)
  BY <1>3
<1> DEFINE w == [n \in 0 .. c |-> IF n = c THEN REnd ELSE s[(c - 1) - n]]
           d == [n \in 0 .. c |-> w[c - n]]
<1>5. w[0] = RBegin /\ \A n \in Nat : n + 1 \in 0 .. c => w[n + 1] = RevIncrement(w[n])
  <2>1. CASE c = 0
    BY <1>1, <2>1, EmptyEnds
  <2>2. CASE c # 0
    <3>1. Visits(s, c)
      BY <1>4, <2>2
    <3>2. w[0] = RBegin
      <4>1. (c - 1) - 0 = c - 1 /\ 0 \in 0 .. c /\ 0 # c
        BY <2>2
      <4>2. w[0] = s[c - 1]
        BY <4>1
      <4>3. RBegin = s[c - 1]
        BY <3>1 DEF Visits
      <4> QED
        BY ONLY <4>2, <4>3, Zenon
    <3>3. ASSUME NEW n \in Nat, n + 1 \in 0 .. c PROVE w[n + 1] = RevIncrement(w[n])
      <4>1. PICK m \in Nat : m = (c - 1) - n /\ w[n] = s[m] /\ m < c
        BY <3>3
      <4>2. CASE n + 1 = c
        <5>1. m = 0 /\ w[n + 1] = REnd
          BY <4>1, <4>2
        <5> QED
          BY <3>1, <4>1, <5>1 DEF Visits
      <4>3. CASE n + 1 # c
        <5>1. PICK p \in Nat : p + 1 = m /\ w[n + 1] = s[p]
          <6>1. m - 1 \in Nat /\ (m - 1) + 1 = m /\ (c - 1) - (n + 1) = m - 1
            BY <3>3, <4>1, <4>3
          <6>2. w[n + 1] = s[(c - 1) - (n + 1)]
            BY <3>3, <4>3
          <6> QED
            BY <6>1, <6>2
        <5>2. RevIncrement(s[m]) = s[p]
          BY <3>1, <4>1, <5>1 DEF Visits
        <5> QED
          BY <4>1, <5>1, <5>2
      <4> QED
        BY <4>2, <4>3
    <3> QED
      BY <3>2, <3>3
  <2> QED
    BY <2>1, <2>2
<1>6. d[0] = REnd /\ \A n \in Nat : n + 1 \in 0 .. c => d[n + 1] = RevDecrement(d[n])
  <2>1. d[0] = REnd
    OBVIOUS
  <2>2. ASSUME NEW n \in Nat, n + 1 \in 0 .. c PROVE d[n + 1] = RevDecrement(d[n])
    <3>1. Visits(s, c)
      BY <1>4, <2>2
    <3>2. d[n + 1] = s[n]
      <4>1. c - (n + 1) \in 0 .. c /\ c - (n + 1) # c /\ (c - 1) - (c - (n + 1)) = n
        BY <2>2
      <4>2. d[n + 1] = w[c - (n + 1)]
        BY <2>2
      <4> QED
        BY <4>1, <4>2
    <3>3. CASE n = 0
      <4>1. d[n] = REnd
        BY <2>1, <3>3
      <4>2. RevDecrement(REnd) = s[0]
        BY <3>1 DEF Visits
      <4> QED
        BY <3>2, <3>3, <4>1, <4>2
    <3>4. CASE n # 0
      <4>1. PICK m \in Nat : m + 1 = n /\ n < c /\ d[n] = s[m]
        <5>1. /\ n - 1 \in Nat /\ (n - 1) + 1 = n /\ n < c /\ n \in 0 .. c
              /\ c - n \in 0 .. c /\ c - n # c /\ (c - 1) - (c - n) = n - 1
          BY <2>2, <3>4
        <5>2. d[n] = w[c - n]
          BY <5>1
        <5>3. d[n] = s[n - 1]
          BY <5>1, <5>2
        <5> QED
          BY <5>1, <5>3
      <4>2. RevDecrement(s[m]) = s[n]
        BY <3>1, <4>1 DEF Visits
      <4> QED
        BY <3>2, <4>1, <4>2
    <3> QED
      BY <3>3, <3>4
  <2> QED
    BY <2>1, <2>2
<1>7. w = [n \in 0 .. c |-> w[n]] /\ d = [n \in 0 .. c |-> d[n]]
  OBVIOUS
<1>8. w[c] = REnd /\ (\A n \in 0 .. c - 1 : w[n] = s[(c - 1) - n]) /\ \A n \in 0 .. c : d[n] = w[c - n]
  OBVIOUS
<1> HIDE DEF w, d
<1>9. \A n \in 0 .. c : n # 0 => n - 1 \in Nat /\ (n - 1) + 1 = n
  OBVIOUS
<1>10. w = [n \in 0 .. Total |-> IF n = 0 THEN RBegin ELSE RevIncrement(w[n - 1])]
  <2>1. \A n \in 0 .. c : w[n] = IF n = 0 THEN RBegin ELSE RevIncrement(w[n - 1])
    BY <1>5, <1>9
  <2> QED
    BY <1>1, <1>7, <2>1, Zenon
<1>11. d = [n \in 0 .. Total |-> IF n = 0 THEN REnd ELSE RevDecrement(d[n - 1])]
  <2>1. \A n \in 0 .. c : d[n] = IF n = 0 THEN REnd ELSE RevDecrement(d[n - 1])
    BY <1>6, <1>9
  <2> QED
    BY <1>1, <1>7, <2>1, Zenon
<1>12. up = [n \in 0 .. Total |-> IF n = 0 THEN RBegin ELSE RevIncrement(up[n - 1])]
  BY <1>10
<1>13. down = [n \in 0 .. Total |-> IF n = 0 THEN REnd ELSE RevDecrement(down[n - 1])]
  BY <1>11
<1> HIDE DEF up, down
<1>14. \A n \in 0 .. c : up[n] = w[n]
  <2>1. \A n \in 0 .. c : up[n] = IF n = 0 THEN RBegin ELSE RevIncrement(up[n - 1])
    BY <1>1, <1>12
  <2>2. up[0] = w[0]
    BY <1>5, <2>1
  <2>3. ASSUME NEW n \in Nat, n + 1 \in 0 .. c, up[n] = w[n] PROVE up[n + 1] = w[n + 1]
    BY <1>5, <2>1, <2>3
  <2> QED
    BY ONLY c \in Nat, <2>2, <2>3, SameSequence
<1>15. \A n \in 0 .. c : down[n] = d[n]
  <2>1. \A n \in 0 .. c : down[n] = IF n = 0 THEN REnd ELSE RevDecrement(down[n - 1])
    BY <1>1, <1>13
  <2>2. down[0] = d[0]
    BY <1>6, <2>1
  <2>3. ASSUME NEW n \in Nat, n + 1 \in 0 .. c, down[n] = d[n] PROVE down[n + 1] = d[n + 1]
    BY <1>6, <2>1, <2>3
  <2> QED
    BY ONLY c \in Nat, <2>2, <2>3, SameSequence
<1>16. \A n \in 0 .. c - 1 : PointsAtRank(up[n], c - 1 - n)
  <2> SUFFICES ASSUME NEW n \in 0 .. c - 1 PROVE PointsAtRank(up[n], c - 1 - n)
    OBVIOUS
  <2>1. PICK m \in 0 .. c - 1 : m = (c - 1) - n /\ c # 0 /\ n \in 0 .. c /\ c - 1 - n = m
    OBVIOUS
  <2>2. PointsAtRank(s[m], m)
    BY <1>4, <2>1 DEF Visits
  <2> QED
    BY <1>8, <1>14, <2>1, <2>2
<1>17. up[c] = REnd
  BY <1>8, <1>14
<1>18. \A n \in 0 .. c : down[n] = up[c - n]
  <2> SUFFICES ASSUME NEW n \in 0 .. c PROVE down[n] = up[c - n]
    OBVIOUS
  <2>1. c - n \in 0 .. c
    OBVIOUS
  <2> QED
    BY <1>8, <1>14, <1>15, <2>1
<1> QED
  BY <1>1, <1>2, <1>16, <1>17, <1>18

\* For every capacity, key set and sequence of calls, those of the range constructor
\* included: between calls, ++ from begin() and from rbegin() meets every element once,
\* in order, and comes to the end; -- comes back the same way.  In a B+tree whose
\* leaves are chained in key order, an iterator's next place is that of the next
\* element, whichever leaf that is in.
THEOREM IterationIsExact == Spec => []IterationExact
<1>1. SInv => IterationExact
  BY Forward, Backward DEF IterationExact
<1> QED
  BY <1>1, ShapeHolds, PTL

(***************************************************************************)
(* What a call that throws leaves behind.                                  *)
(*                                                                         *)
(* The tree stands without one node, the right half of a split that never  *)
(* got a parent, and the separators over it, to the first leaf, where a    *)
(* key below all the others may have been put, may still be the old ones.  *)
(***************************************************************************)

\* The tree with the heights h is sound but for the nodes O, which have no place in it,
\* and the separators of Z.
Standing(h, O, Z) ==
  /\ Sound(h, O, Z, {}) /\ SlotsHeld /\ Counted
  /\ Z \subseteq {leftmostLeaf}
  /\ \A m, n \in O : m = n
  /\ O # {} => Held[root] # {}

\* A call that threw has left such a tree, or it was clear and has left none.
Damaged ==
  \/ \E h \in [Node -> Nat] : \E O, Z \in SUBSET Node : Standing(h, O, Z)
  \/ Allocated = {} /\ pc = "idle"

\* Until a call throws the tree keeps its shape; after that only lookups run.
OInv ==
  /\ IInv /\ failed \in BOOLEAN
  /\ load # <<>> => callsLeft = MaxCalls
  /\ ~failed => SInv
  /\ failed =>
       /\ load = <<>> /\ AtRest /\ Damaged
       /\ pc # "idle" => call.op \in Lookups

----------------------------------------------------------------------------
(* The types. *)

\* The exception ends the call.
LEMMA UnwindTypes ==
  ASSUME IInv, Unwind
  PROVE  CallOK' /\ ArgumentsOK'
<1> USE Parts, Addresses
<1>1. CallOK'
  BY DEF IInv, CallOK, Unwind, Steps, Conts, NoCall, NoRet, EndIt, OptKey, Pointer, NoIndex, client
<1>2. ArgumentsOK'
  BY DEF ArgumentsOK, Unwind, NoCall, Ops, Inserts, Lookups
<1> QED
  BY <1>1, <1>2

LEMMA ThrowInSplitTypes == ASSUME IInv, ThrowInSplit PROVE TreeOK' /\ HeapOK'
<1> USE Parts, PartsNext, Addresses
<1>0. node \in Node
  BY DEF IInv, ArgumentsOK, ThrowInSplit, InsertsAtLeaf
<1>1. PICK hi : hi = DOMAIN data[node] \ LowestN(DOMAIN data[node], (LeafNodeSize + 1) \div 2)
  OBVIOUS
<1>2. PICK new \in OneOf(Free) :
        /\ kind' = [kind EXCEPT ![new] = "leaf"]
        /\ data' = Move(data, node, new, hi)
        /\ LinkAfter(node, new)
  BY <1>1 DEF ThrowInSplit
<1>3. new \in Node
  BY <1>2 DEF OneOf, Free
<1>4. Maps(data', Value)
  BY <1>0, <1>2, <1>3, MoveMaps DEF IInv, HeapOK
<1>5. HeapOK'
  BY <1>0, <1>2, <1>3, <1>4 DEF IInv, HeapOK, ThrowInSplit, LinkAfter
<1>6. TreeOK'
  BY <1>2, <1>3 DEF IInv, TreeOK, ThrowInSplit, LinkAfter
<1> QED
  BY <1>5, <1>6

LEMMA ThrowInClearTypes == ASSUME IInv, ThrowInClear PROVE TreeOK' /\ HeapOK'
<1> USE Parts, PartsNext, Addresses
<1>1. PICK gone : gone = Subtree(root)
  OBVIOUS
<1>2. /\ data' = [n \in Node |-> IF n \in gone THEN Empty ELSE data[n]]
      /\ children' = [n \in Node |-> IF n \in gone THEN Empty ELSE children[n]]
      /\ nextLeaf' = [n \in Node |-> IF n \in gone THEN Null ELSE nextLeaf[n]]
      /\ prevLeaf' = [n \in Node |-> IF n \in gone THEN Null ELSE prevLeaf[n]]
      /\ parent' = [n \in Node |-> IF n \in gone THEN Null ELSE parent[n]]
      /\ kind' = [n \in Node |-> IF n \in gone THEN "free" ELSE kind[n]]
      /\ UNCHANGED tree
  BY <1>1 DEF ThrowInClear
<1>3. Maps(data', Value) /\ Maps(children', Node)
  BY <1>2, EmptyIsMap DEF IInv, HeapOK, Maps
<1>4. HeapOK'
  BY <1>2, <1>3 DEF IInv, HeapOK
<1>5. TreeOK'
  BY <1>2 DEF IInv, TreeOK, tree
<1> QED
  BY <1>4, <1>5

LEMMA ThrowTypes == ASSUME IInv, Throw PROVE IInv'
<1>1. Unwind
  BY DEF Throw, ThrowEarly, ThrowInSplit, ThrowInPromotion, ThrowInClear
<1>2. TreeOK' /\ HeapOK'
  <2>1. CASE ThrowEarly \/ ThrowInPromotion
    <3>1. UNCHANGED <<tree, heap>>
      BY <2>1 DEF ThrowEarly, ThrowInPromotion
    <3> QED
      BY <3>1, Parts DEF IInv, TreeOK, HeapOK, tree, heap, chain
  <2>2. CASE ThrowInSplit
    BY <2>2, ThrowInSplitTypes
  <2>3. CASE ThrowInClear
    BY <2>3, ThrowInClearTypes
  <2> QED
    BY <2>1, <2>2, <2>3 DEF Throw
<1>3. CallOK' /\ ArgumentsOK'
  BY <1>1, UnwindTypes
<1> QED
  BY <1>2, <1>3, PartsNext DEF IInv

\* The code does not count the client's calls.
LEMMA RunClient == ASSUME Run PROVE UNCHANGED client
<1>1. CASE StartOnEmpty \/ StartSearch \/ ClearLeaf \/ ClearTree \/ Descend
  BY <1>1 DEF StartOnEmpty, StartSearch, ClearLeaf, ClearTree, Clear, Start, Descend
<1>2. CASE Lookup \/ InsertExisting \/ InsertRoom \/ SplitLeaf
  BY <1>2 DEF Lookup, InsertExisting, InsertRoom, SplitLeaf, AtLeaf
<1>3. CASE PromoteNewRoot \/ PromoteRoom \/ PromoteSplit \/ FixSeparator \/ UpdateLeftmost
  BY <1>3 DEF PromoteNewRoot, PromoteRoom, PromoteSplit, Promote, FixSeparator, Fix, UpdateLeftmost
<1>4. CASE EraseFromRoot \/ EraseFromLeaf
  BY <1>4 DEF EraseFromRoot, EraseFromLeaf, Erase
<1>5. CASE BorrowFromLeft \/ BorrowFromRight \/ MergeWithLeft \/ MergeWithRight
  BY <1>5 DEF BorrowFromLeft, BorrowFromRight, MergeWithLeft, MergeWithRight, MustMerge, Underflow
<1>6. CASE ParentUnderflows \/ CollapseRoot \/ ParentStands
  BY <1>6 DEF ParentUnderflows, CollapseRoot, ParentStands, AfterMerge
<1>7. CASE NextElement \/ RangeErase \/ RangeFindLast \/ RangeEnd
  BY <1>7 DEF NextElement, RangeErase, RangeFindLast, RangeEnd, EraseRange
<1>8. CASE Answer \/ Finish
  BY <1>8 DEF Answer, Finish
<1> QED
  BY <1>1, <1>2, <1>3, <1>4, <1>5, <1>6, <1>7, <1>8 DEF Run

----------------------------------------------------------------------------
(* What each of the failures leaves. *)

LEMMA SameStanding ==
  ASSUME NEW h, NEW O, NEW Z, Standing(h, O, Z), UNCHANGED <<tree, heap>>
  PROVE  Standing(h, O, Z)'
<1>1. UNCHANGED shapeVars /\ UNCHANGED <<heap, size>>
  BY DEF tree, shapeVars
<1>2. /\ Held' = Held /\ Inner' = Inner /\ children' = children
      /\ root' = root /\ leftmostLeaf' = leftmostLeaf
  BY <1>1, SameNodes DEF heap, tree
<1>3. Sound(h, O, Z, {})' /\ Counted'
  BY <1>1, SameTree, SameElements DEF Standing
<1>4. SlotsHeld'
  BY <1>2 DEF Standing, SlotsHeld
<1> QED
  BY <1>2, <1>3, <1>4 DEF Standing

\* Before anything has failed the whole tree stands between calls.
LEMMA RestStands ==
  ASSUME SInv, AtRest
  PROVE  \E h \in [Node -> Nat] : Standing(h, {}, {})
<1>1. PICK h \in [Node -> Nat] : Basic /\ Sound(h, {}, {}, {})
  BY RestIsSound
<1>2. SlotsHeld
  BY <1>1 DEF Sound, Exact, SlotsHeld, Basic, First
<1> QED
  BY <1>1, <1>2 DEF Standing, SInv

LEMMA EarlyDamage == ASSUME SInv, ThrowEarly PROVE Damaged'
<1>1. AtRest /\ UNCHANGED <<tree, heap>>
  BY DEF ThrowEarly, InsertsAtLeaf, AtRest
<1>2. PICK h \in [Node -> Nat] : Standing(h, {}, {})
  BY <1>1, RestStands
<1>3. PICK O \in SUBSET Node : O = {}
  OBVIOUS
<1>4. Standing(h, O, O)'
  BY <1>1, <1>2, <1>3, SameStanding
<1> QED
  BY <1>4 DEF Damaged

\* While a node waits for its parent, a root leaf has elements.
LEMMA RootNotEmpty ==
  ASSUME Basic, NEW h, pc = "promote", Shape(h)
  PROVE  Held[root] # {}
<1>1. Sound(h, {sib}, Stale, {})
  BY DEF Shape, Unplaced, Light
<1>2. /\ node \in Allocated /\ h[sib] = h[node] /\ node # sib /\ Held[node] # {}
  BY DEF Shape, Running, Promoting, Neighbours
<1>3. root \in Allocated /\ root \in Node /\ node \in Node
  BY <1>1, <1>2 DEF Sound, Top, Basic
<1>4. CASE root \in Inner
  BY <1>1, <1>3, <1>4 DEF Sound, Populated
<1>5. CASE root \notin Inner
  <2>1. h[root] = 0
    BY <1>1, <1>3, <1>5 DEF Sound, Kinds, Basic, Leaves
  <2>2. ASSUME node # root PROVE FALSE
    <3>1. parent[node] \in Allocated /\ h[parent[node]] = h[node] + 1
      BY <1>1, <1>2, <2>2, OwnParent DEF Sound, Basic
    <3>2. h[parent[node]] =< h[root] /\ h[node] \in Nat
      BY <1>1, <1>3, <3>1 DEF Sound, Top, Kinds
    <3> QED
      BY <2>1, <3>1, <3>2
  <2> QED
    BY <1>2, <2>2
<1> QED
  BY <1>4, <1>5

LEMMA PromotionDamage == ASSUME SInv, ThrowInPromotion PROVE Damaged'
<1>1. PICK h \in [Node -> Nat] : Shape(h)
  BY DEF SInv
<1>2. pc = "promote" /\ UNCHANGED <<tree, heap>> /\ Basic /\ Counted
  BY HeldBasic DEF ThrowInPromotion, SInv
<1>3. Sound(h, {sib}, Stale, {}) /\ Promoting(h)
  BY <1>1, <1>2 DEF Shape, Unplaced, Light, Running
<1>4. PICK Z \in SUBSET Node : Z \subseteq {leftmostLeaf} /\ Sound(h, {sib}, Z, {})
  <2>1. CASE cont = "fixLeft" /\ it.leaf = leftmostLeaf
    <3>1. Stale = {leftmostLeaf} /\ leftmostLeaf \in Node
      BY <1>2, <1>3, <2>1 DEF Stale, Promoting, Basic
    <3> QED
      BY <1>3, <3>1
  <2>2. CASE ~(cont = "fixLeft" /\ it.leaf = leftmostLeaf)
    <3>1. Exact({})
      BY <1>2, <1>3, <2>2 DEF Stale, Promoting, Sound
    <3>2. StaleOK(h, {})
      BY DEF StaleOK
    <3>3. Sound(h, {sib}, {}, {})
      BY <1>3, <3>1, <3>2 DEF Sound
    <3> QED
      BY <3>3
  <2> QED
    BY <2>1, <2>2
<1>5. PICK O \in SUBSET Node : O = {sib}
  BY <1>2, <1>3 DEF Promoting, Basic
<1>6. Standing(h, O, Z)
  <2>1. Held[root] # {} /\ SlotsHeld
    BY <1>1, <1>2, <1>3, RootNotEmpty DEF Promoting
  <2> QED
    BY <1>2, <1>4, <1>5, <2>1 DEF Standing
<1>7. Standing(h, O, Z)'
  BY <1>2, <1>6, SameStanding
<1> QED
  BY <1>7 DEF Damaged

\* clear() has freed every node before it throws.
LEMMA ClearDamage == ASSUME SInv, ThrowInClear PROVE Damaged'
<1>1. PICK h \in [Node -> Nat] : Basic /\ Sound(h, {}, {}, {})
  BY RestIsSound DEF ThrowInClear, AtRest
<1>2. Subtree(root) = Allocated
  BY <1>1, SubtreeOfRoot
<1>3. PICK gone : gone = Allocated
  OBVIOUS
<1>4. kind' = [n \in Node |-> IF n \in gone THEN "free" ELSE kind[n]]
  BY <1>2, <1>3 DEF ThrowInClear
<1>5. Allocated' = {}
  <2>1. \A n \in Node : kind'[n] = "free"
    BY <1>3, <1>4 DEF Allocated
  <2> QED
    BY <2>1 DEF Allocated
<1>6. pc' = "idle"
  BY DEF ThrowInClear, Unwind
<1> QED
  BY <1>5, <1>6 DEF Damaged

\* The halves of a full node.
LEMMA HalvesFacts ==
  ASSUME NEW S \in SUBSET Int, IsFiniteSet(S), NEW cap \in Nat, cap >= 4, cap =< Cardinality(S),
         NEW lo, NEW hi, lo = LowestN(S, (cap + 1) \div 2), hi = S \ lo
  PROVE  /\ S = lo \cup hi /\ \A y \in lo, z \in hi : y < z
         /\ \E y, z \in lo : y # z
         /\ \E y, z \in hi : y # z
         /\ First(S) \subseteq lo
<1>1. PICK n \in Nat : n = (cap + 1) \div 2 /\ n >= 2 /\ n + 2 =< cap
  OBVIOUS
<1>2. Cardinality(S) \in Nat
  BY FS_CardinalityType
<1>3. /\ lo \subseteq S /\ Cardinality(lo) = n
      /\ Cardinality(hi) = Cardinality(S) - n
      /\ \A y \in lo, z \in hi : y < z
  <2>1. n =< Cardinality(S) /\ lo = LowestN(S, n)
    BY <1>1, <1>2
  <2>2. /\ LowestN(S, n) \subseteq S /\ Cardinality(LowestN(S, n)) = n
        /\ Cardinality(S \ LowestN(S, n)) = Cardinality(S) - n
        /\ \A y \in LowestN(S, n), z \in S \ LowestN(S, n) : y < z
    BY <2>1, LowestFacts
  <2> QED
    BY <2>1, <2>2
<1>4. \E y, z \in lo : y # z
  <2>1. IsFiniteSet(lo) /\ lo # {} /\ Cardinality(lo) # 1
    BY <1>1, <1>3, FS_Subset, FS_EmptySet
  <2> QED
    BY <2>1, TwoKeys
<1>5. \E y, z \in hi : y # z
  <2>1. IsFiniteSet(hi) /\ hi # {} /\ Cardinality(hi) # 1
    BY <1>1, <1>2, <1>3, FS_Subset, FS_EmptySet
  <2> QED
    BY <2>1, TwoKeys
<1>6. S = lo \cup hi
  BY <1>3
<1>7. First(S) \subseteq lo
  <2> SUFFICES ASSUME NEW y \in First(S), y \notin lo PROVE FALSE
    OBVIOUS
  <2>1. y \in hi /\ \A z \in S : y =< z
    BY <1>6 DEF First
  <2>2. PICK z \in lo : z < y /\ z \in S
    BY <1>3, <1>4, <2>1
  <2>3. y =< z /\ y \in Int /\ z \in Int
    BY <1>6, <2>1, <2>2
  <2> QED
    BY <2>2, <2>3
<1> QED
  BY <1>3, <1>4, <1>5, <1>6, <1>7

\* The entries hi of leaf l go to the empty node new.
LEMMA MovedTo ==
  ASSUME NEW V, NEW f, Maps(f, V), NEW l \in Node, NEW new \in Node, l # new,
         DOMAIN f[new] = {}, NEW hi, hi \subseteq DOMAIN f[l], NEW f1, f1 = Move(f, l, new, hi)
  PROVE  /\ DOMAIN f1[l] = DOMAIN f[l] \ hi /\ DOMAIN f1[new] = hi
         /\ \A n \in Node \ {l, new} : f1[n] = f[n]
<1>1. f = [n \in Node |-> f[n]]
  BY DEF Maps
<1>2. /\ f1[l] = Without(f[l], hi) /\ f1[new] = Join(f[new], Only(f[l], hi))
      /\ \A n \in Node \ {l, new} : f1[n] = f[n]
  BY <1>1 DEF Move
<1>3. DOMAIN Without(f[l], hi) = DOMAIN f[l] \ hi
  BY DEF Without, Restrict
<1>4. DOMAIN Join(f[new], Only(f[l], hi)) = hi
  <2>1. DOMAIN Only(f[l], hi) = hi
    BY DEF Only, Restrict
  <2> QED
    BY <2>1 DEF Join
<1> QED
  BY <1>2, <1>3, <1>4

\* The leaf has been split, and its upper half is in the list but not in the tree.
LEMMA SplitDamage == ASSUME SInv, IInv', ThrowInSplit PROVE Damaged'
<1>0. PICK h \in [Node -> Nat] : Shape(h)
  BY DEF SInv
<1>1. /\ Sound(h, {}, {}, {}) /\ Basic /\ Basic' /\ node \in Leaves
      /\ Cardinality(DOMAIN data[node]) >= LeafNodeSize /\ Counted
  <2>1. pc = "leaf" /\ IInv
    BY DEF ThrowInSplit, InsertsAtLeaf, SInv
  <2>2. node \in Leaves
    BY <1>0, <2>1, HeldBasic DEF Shape, Running, Searching, Leaves, Basic
  <2> QED
    BY <1>0, <2>1, <2>2, Settled, HeldBasic, HeldBasicNext
       DEF ThrowInSplit, LeafIsFull, Size, SInv
<1>2. PICK l \in Leaves : l = node
  BY <1>1
<1>a. PICK hi : hi = DOMAIN data[node] \ LowestN(DOMAIN data[node], (LeafNodeSize + 1) \div 2)
  OBVIOUS
<1>3. PICK new \in OneOf(Free) :
        /\ kind' = [kind EXCEPT ![new] = "leaf"]
        /\ data' = Move(data, l, new, hi)
        /\ LinkAfter(l, new)
  BY <1>2, <1>a DEF ThrowInSplit
<1>4. UNCHANGED <<root, rootIsLeaf, size, leftmostLeaf, children, parent>>
  BY DEF ThrowInSplit
<1>5. /\ new \in Node /\ new \notin Allocated /\ kind[new] = "free" /\ new # l /\ new # root
      /\ l \in Node /\ l \in Allocated /\ Held[l] = DOMAIN data[l]
      /\ parent[new] = Null /\ DOMAIN data[new] = {} /\ new # Null
  <2>1. new \in Node /\ kind[new] = "free"
    BY <1>3 DEF OneOf, Free
  <2>2. new \notin Allocated /\ ~IsLeaf(new)
    BY <2>1 DEF Allocated, IsLeaf
  <2> QED
    BY <1>1, <2>1, <2>2 DEF Sound, Kinds, Top, Basic
<1>6. PICK lo : lo = LowestN(Held[l], (LeafNodeSize + 1) \div 2) /\ hi = Held[l] \ lo
  BY <1>2, <1>5, <1>a
<1>7. /\ Held[l] = lo \cup hi /\ \A y \in lo, z \in hi : y < z
      /\ \E y, z \in lo : y # z
      /\ \E y, z \in hi : y # z
      /\ First(Held[l]) \subseteq lo
  <2>1. Held[l] \in SUBSET Int /\ IsFiniteSet(Held[l])
    BY <1>1, <1>5 DEF Basic
  <2>2. LeafNodeSize \in Nat /\ LeafNodeSize >= 4 /\ LeafNodeSize =< Cardinality(Held[l])
    BY <1>1, <1>2, <1>5, SizeAssumption
  <2> QED
    BY ONLY <1>6, <2>1, <2>2, HalvesFacts
<1>8. /\ DOMAIN data'[l] = lo /\ DOMAIN data'[new] = hi
      /\ \A n \in Node \ {l, new} : data'[n] = data[n]
  <2>1. Maps(data, Value) /\ hi \subseteq DOMAIN data[l]
    BY <1>5, <1>6, Parts DEF IInv, HeapOK, SInv
  <2>2. /\ l \in Node /\ new \in Node /\ l # new /\ DOMAIN data[new] = {}
        /\ data' = Move(data, l, new, hi)
    BY <1>3, <1>5
  <2>3. /\ DOMAIN data'[l] = DOMAIN data[l] \ hi /\ DOMAIN data'[new] = hi
        /\ \A n \in Node \ {l, new} : data'[n] = data[n]
    BY ONLY <2>1, <2>2, MovedTo
  <2>4. DOMAIN data[l] \ hi = lo
    <3>1. lo \subseteq Held[l]
      BY <1>7
    <3> QED
      BY <1>5, <1>6, <3>1
  <2> QED
    BY <2>3, <2>4
<1>9. /\ \A n : n \in Allocated' <=> n \in Allocated \/ n = new
      /\ \A n : n \in Leaves' <=> n \in Leaves \/ n = new
      /\ Inner' = Inner
      /\ \A n \in Node \ {new} : kind'[n] = kind[n]
      /\ kind'[new] = "leaf"
  <2>1. kind \in [Node -> {"free", "leaf", "low", "high"}]
    BY Parts DEF IInv, HeapOK, SInv
  <2>2. /\ \A n \in Node \ {new} : kind'[n] = kind[n]
        /\ kind'[new] = "leaf"
    BY <1>3, <1>5, <2>1
  <2> QED
    BY <1>5, <2>2 DEF Allocated, Leaves, Inner, IsLeaf
<1>10. /\ Held'[l] = lo /\ Held'[new] = hi
       /\ \A n \in Node \ {l, new} : Held'[n] = Held[n]
  <2>1. Held'[l] = lo /\ Held'[new] = hi
    BY <1>1, <1>2, <1>8, <1>9 DEF Basic
  <2>2. \A n \in Node \ {l, new} : Held'[n] = Held[n]
    BY <1>4, <1>8, <1>9 DEF Held, KeysOf, IsLeaf
  <2> QED
    BY <2>1, <2>2
<1>11. PICK g : g = [h EXCEPT ![new] = 0]
  OBVIOUS
<1>12. /\ g \in [Node -> Nat] /\ g[new] = 0 /\ h[l] = 0
       /\ \A n \in Allocated : g[n] = h[n]
  BY <1>1, <1>5, <1>11 DEF Sound, Kinds, Leaves, Basic
<1>13. /\ \A n \in Node : nextLeaf'[n] = IF n = l THEN new ELSE IF n = new THEN nextLeaf[l]
                                         ELSE nextLeaf[n]
       /\ \A n \in Node : prevLeaf'[n] = IF n = new THEN l ELSE IF n = nextLeaf[l] THEN new
                                         ELSE prevLeaf[n]
       /\ rightmostLeaf' = IF rightmostLeaf = l THEN new ELSE rightmostLeaf
  <2>1. nextLeaf \in [Node -> Pointer]
    BY Parts DEF IInv, HeapOK, SInv
  <2>2. /\ nextLeaf' = [nextLeaf EXCEPT ![new] = nextLeaf[l], ![l] = new]
        /\ prevLeaf' = [n \in Node |-> IF n = new THEN l ELSE IF n = nextLeaf[l] THEN new
                                       ELSE prevLeaf[n]]
        /\ rightmostLeaf' = IF rightmostLeaf = l THEN new ELSE rightmostLeaf
    BY <1>3 DEF LinkAfter
  <2> QED
    BY <1>5, <2>1, <2>2
<1>14. Kinds(g)'
  <2>1. \A n \in Allocated' : (IsLeaf(n)' <=> g[n] = 0) /\ (kind'[n] = "low" <=> g[n] = 1)
    <3>1. \A n \in Allocated : (kind[n] = "leaf" <=> h[n] = 0) /\ (kind[n] = "low" <=> h[n] = 1)
      BY <1>1 DEF Sound, Kinds, IsLeaf
    <3> QED
      BY <1>1, <1>5, <1>9, <1>12, <3>1 DEF IsLeaf, Basic
  <2>2. \A n \in Node : IsLeaf(n)' \/ DOMAIN data'[n] = {}
    <3>1. \A n \in Node : kind[n] = "leaf" \/ DOMAIN data[n] = {}
      BY <1>1 DEF Sound, Kinds, IsLeaf
    <3>2. kind'[l] = "leaf"
      BY <1>5, <1>9 DEF Leaves, IsLeaf
    <3> QED
      BY <1>8, <1>9, <3>1, <3>2 DEF IsLeaf
  <2>3. \A n \in Node : n \in Inner' \/ DOMAIN children'[n] = {}
    BY <1>1, <1>4, <1>9 DEF Sound, Kinds
  <2>4. \A n \in Node \ Allocated' : parent'[n] = Null
    BY <1>1, <1>4, <1>9 DEF Sound, Kinds
  <2>5. \A n \in Node \ Leaves' : nextLeaf'[n] = Null /\ prevLeaf'[n] = Null
    <3>1. \A n \in Node \ Leaves : nextLeaf[n] = Null /\ prevLeaf[n] = Null
      BY <1>1 DEF Sound, Kinds
    <3>2. nextLeaf[l] = Null \/ nextLeaf[l] \in Leaves
      BY <1>1 DEF Sound, Chained, Linked, Neighbours
    <3>3. Null \notin Node
      BY <1>1 DEF Basic
    <3> QED
      BY <1>9, <1>13, <3>1, <3>2, <3>3
  <2> QED
    BY <1>12, <2>1, <2>2, <2>3, <2>4, <2>5 DEF Kinds
<1>15. Top(g)' /\ root \in Allocated /\ root \in Node
  <2>1. \A n \in Allocated : h[n] =< h[root]
    BY <1>1 DEF Sound, Top
  <2>2. /\ root' = root /\ root \in Allocated /\ parent'[root] = Null
        /\ rootIsLeaf' = rootIsLeaf /\ rootIsLeaf = IsLeaf(root)
    BY <1>1, <1>4 DEF Sound, Top
  <2>3. g[root] = h[root] /\ h[root] \in Nat
    BY <1>1, <1>12, <2>2 DEF Sound, Kinds, Basic
  <2>4. \A n \in Allocated' : g[n] =< g[root]
    BY <1>9, <1>12, <2>1, <2>3
  <2>5. IsLeaf(root)' = IsLeaf(root)
    BY <1>1, <1>5, <1>9, <2>2 DEF IsLeaf, Basic
  <2>6. rootIsLeaf' = IsLeaf(root)'
    BY <2>2, <2>5
  <2> QED
    BY <1>1, <1>9, <2>2, <2>4, <2>6 DEF Top, Basic
<1>16. \A p \in Inner : \A s \in DOMAIN children[p] :
         children[p][s] \in Allocated /\ children[p][s] # new
  BY <1>1, <1>5 DEF Sound, Family
<1>17. Family(g, {new})'
  <2>1. \A p \in Inner : p \in Allocated
    BY <1>1 DEF Basic
  <2>2. \A p \in Inner : \A s \in DOMAIN children[p] :
          parent[children[p][s]] = p /\ h[p] = h[children[p][s]] + 1
    BY <1>1 DEF Sound, Family
  <2>3. \A p \in Inner : \A s \in DOMAIN children[p] : g[p] = g[children[p][s]] + 1
    BY <1>12, <1>16, <2>1, <2>2
  <2>4. /\ \A p \in Inner : \A s, t \in DOMAIN children[p] :
             children[p][s] = children[p][t] => s = t
        /\ \A n \in Allocated :
             \/ n = root
             \/ /\ parent[n] \in Inner
                /\ \E s \in DOMAIN children[parent[n]] : children[parent[n]][s] = n
    BY <1>1 DEF Sound, Family
  <2> QED
    BY <1>4, <1>5, <1>9, <1>16, <2>2, <2>3, <2>4 DEF Family
<1>18. \A p \in Inner : \A s \in DOMAIN children[p] : s \in First(Held'[children[p][s]])
  <2> TAKE p \in Inner
  <2> TAKE s \in DOMAIN children[p]
  <2>1. s \in First(Held[children[p][s]])
    BY <1>1 DEF Sound, Exact
  <2>2. CASE children[p][s] = l
    <3>1. s \in lo /\ lo \subseteq Held[l] /\ Held[l] \in SUBSET Int
      BY <1>1, <1>5, <1>7, <2>1, <2>2 DEF Basic
    <3> QED
      BY <1>10, <2>1, <2>2, <3>1, FirstStays
  <2>3. CASE children[p][s] # l
    BY <1>1, <1>10, <1>16, <2>1, <2>3 DEF Basic
  <2> QED
    BY <2>2, <2>3
<1>19. Exact({})'
  BY <1>4, <1>9, <1>18 DEF Exact
<1>20. SplitKeys(Allocated, Held, Held', l, new, lo, hi)
  <2>1. \A n \in Allocated \ {l} : Held'[n] = Held[n]
    BY <1>1, <1>5, <1>10 DEF Basic
  <2>2. lo # {} /\ hi # {}
    BY <1>7
  <2> QED
    BY <1>7, <1>10, <2>1, <2>2 DEF SplitKeys
<1>21. Levels(g)'
  <2>1. l \in Allocated /\ new \notin Allocated /\ g[new] = h[l] /\ Layered(Allocated, h, Held)
        /\ \A n \in Allocated : g[n] = h[n]
    BY <1>1, <1>5, <1>12 DEF Sound, Levels
  <2>2. PICK A, B, K, K1 : A = Allocated /\ B = Allocated' /\ K = Held /\ K1 = Held'
    OBVIOUS
  <2>3. PICK T : \A n : n \in T <=> n \in B /\ g[n] = g[l]
    <3>1. \A n : n \in {m \in B : g[m] = g[l]} <=> n \in B /\ g[n] = g[l]
      OBVIOUS
    <3> QED
      BY ONLY <3>1
  <2>4. SplitKeys(A, K, K1, l, new, lo, hi) /\ Layered(A, h, K) /\ l \in A /\ new \notin A
        /\ g[new] = h[l] /\ (\A n \in A : g[n] = h[n]) /\ (\A n : n \in B <=> n \in A \/ n = new)
    BY <1>9, <1>20, <2>1, <2>2
  <2>5. PICK x \in lo : TRUE
    BY <1>7
  <2>6. SplitGrown(A, K, K1, l, new, x, lo, hi) /\ Fits(A, h, K, l, x)
    <3>1. K[l] \cup {x} = K[l]
      BY <1>20, <2>2 DEF SplitKeys
    <3>2. x \in K[l]
      BY <3>1
    <3> QED
      BY <1>20, <2>2, <3>1, <3>2 DEF SplitKeys, SplitGrown, Fits, Precedes
  <2>7. Splits(A, h, g, K, K1, l, new, x, lo, hi, B, T)
    BY ONLY <2>3, <2>4, <2>6 DEF Splits
  <2>8. Layered(B, g, K1)
    BY ONLY <2>7, SplitGrownLayers
  <2> QED
    BY <2>2, <2>8 DEF Levels
<1>22. root \in Leaves => l = root
  <2> SUFFICES ASSUME root \in Leaves, l # root PROVE FALSE
    OBVIOUS
  <2>1. h[l] < h[root] /\ h[root] = 0
    BY <1>1, <1>5, <1>15, RootAlone DEF Sound, Kinds, Leaves
  <2> QED
    BY <1>12, <2>1
<1>23. Chained'
  <2>1. SplitKeys(Leaves, Held, Held', l, new, lo, hi)
    BY <1>1, <1>20 DEF SplitKeys, Basic
  <2>2. Filled(Leaves, Held)
    <3>1. \A n \in Leaves : n \in Allocated /\ Held[n] \subseteq Int
      BY <1>1 DEF Basic
    <3>2. \A n \in Leaves : Held[n] # {}
      BY <1>1, <1>7, <1>22, <3>1 DEF Sound, Populated
    <3> QED
      BY <3>1, <3>2 DEF Filled
  <2>3. LinkedIn(Leaves, Leaves', l, new, nextLeaf, prevLeaf, rightmostLeaf,
                 nextLeaf', prevLeaf', rightmostLeaf')
    <3>1. \A n \in Leaves' : n \in Node
      BY <1>1 DEF Basic
    <3> QED
      BY <1>9, <1>13, <3>1 DEF LinkedIn
  <2>4. Linked(Leaves, Held, nextLeaf, prevLeaf, leftmostLeaf, rightmostLeaf)
    BY <1>1 DEF Sound, Chained
  <2>5. l \in Leaves /\ new \notin Leaves /\ Null \notin Leaves /\ new # Null
    BY <1>1, <1>2, <1>5 DEF Basic
  <2>6. Linked(Leaves', Held', nextLeaf', prevLeaf', leftmostLeaf, rightmostLeaf')
    BY ONLY <2>1, <2>2, <2>3, <2>4, <2>5, SplitLinks
  <2> QED
    BY <1>4, <2>6 DEF Chained
<1>24. Populated({})'
  <2>1. \A n \in Allocated' : n # l /\ n # new => n \in Allocated /\ Held'[n] = Held[n]
    BY <1>1, <1>9, <1>10 DEF Basic
  <2> QED
    BY <1>1, <1>4, <1>7, <1>9, <1>10, <2>1 DEF Populated, Sound
<1>25. Elements' = Elements
  <2>1. \A y : y \in Elements' <=> \E m \in Leaves' : y \in Held'[m]
    BY <1>1 DEF Elements, Basic, Leaves
  <2>2. \A y : y \in Elements <=> y \in Held[l] \/ \E m \in Leaves \ {l} : y \in Held[m]
    BY <1>1, ElementsOf
  <2>3. \A m \in Leaves \ {l} : Held'[m] = Held[m]
    BY <1>1, <1>5, <1>10 DEF Basic
  <2>4. \A y : y \in Elements' <=> y \in Elements
    BY <1>5, <1>7, <1>9, <1>10, <2>1, <2>2, <2>3
  <2> QED
    BY ONLY <2>4
<1>26. Counted'
  BY <1>1, <1>4, <1>25 DEF Counted
<1>27. SlotsHeld'
  BY <1>1, <1>4, <1>9, <1>18 DEF SlotsHeld, First, Basic
<1>28. Held'[root'] # {}
  <2>1. CASE root \in Leaves
    BY <1>4, <1>7, <1>10, <1>22, <2>1
  <2>2. CASE root \notin Leaves
    BY <1>1, <1>2, <1>4, <1>5, <1>10, <1>15, <2>2 DEF Sound, Populated, Basic
  <2> QED
    BY <2>1, <2>2
<1>29. Sound(g, {new}, {}, {})'
  <2>1. StaleOK(g, {})'
    BY DEF StaleOK
  <2> QED
    BY <1>14, <1>15, <1>17, <1>19, <1>21, <1>23, <1>24, <2>1 DEF Sound
<1>30. PICK O \in SUBSET Node, Z \in SUBSET Node : O = {new} /\ Z = {}
  BY <1>5
<1>31. Standing(g, O, Z)'
  BY <1>26, <1>27, <1>28, <1>29, <1>30 DEF Standing
<1> QED
  BY <1>12, <1>31 DEF Damaged

LEMMA ThrowDamage == ASSUME SInv, Throw PROVE Damaged'
<1>1. IInv'
  BY ThrowTypes DEF SInv
<1> QED
  BY <1>1, EarlyDamage, SplitDamage, PromotionDamage, ClearDamage DEF Throw

\* The exception leaves the call, and only a call of the client's throws.
LEMMA ThrowKeeps ==
  ASSUME OInv, Throw
  PROVE  OInv'
<1>1. ~failed /\ callsLeft < MaxCalls /\ failed' = TRUE /\ pc' = "idle" /\ UNCHANGED client
  BY DEF Throw, ThrowEarly, ThrowInSplit, ThrowInPromotion, ThrowInClear, MayThrow, Unwind
<1>2. SInv /\ IInv
  BY <1>1 DEF OInv
<1>3. IInv' /\ Damaged'
  BY <1>2, ThrowTypes, ThrowDamage
<1>4. load = <<>> /\ load' = <<>>
  <2>1. callsLeft \in Int /\ MaxCalls \in Int
    BY <1>2, CallAssumption, Parts DEF IInv, CallOK
  <2>2. callsLeft # MaxCalls
    BY <1>1, <2>1
  <2> QED
    BY <1>1, <2>2 DEF OInv, client
<1> QED
  BY <1>1, <1>3, <1>4 DEF OInv, AtRest

\* A lookup, after a failure, changes nothing.
LEMMA LookupKeeps ==
  ASSUME OInv, failed, Run, UNCHANGED failed
  PROVE  OInv'
<1>1. IInv /\ load = <<>> /\ AtRest /\ Damaged /\ (pc # "idle" => call.op \in Lookups)
  BY DEF OInv
<1>2. IInv' /\ load' = load
  BY <1>1, RunTypes, RunClient DEF client
<1>3. pc # "idle" /\ AtRest'
      /\ UNCHANGED <<tree, heap>> /\ (pc' # "idle" => call' = call)
  <2>1. CASE StartOnEmpty \/ StartSearch \/ ClearLeaf \/ ClearTree
    BY <1>1, <2>1
       DEF StartOnEmpty, StartSearch, ClearLeaf, ClearTree, Clear, Start, FindLeaf, AtRest, Lookups
  <2>2. CASE Descend
    BY <2>2 DEF Descend, AtRest
  <2>3. CASE Lookup
    BY <1>1, <2>3 DEF Lookup, AtLeaf, AtRest, Lookups
  <2>4. CASE InsertExisting \/ InsertRoom \/ SplitLeaf
    BY <1>1, <2>4 DEF InsertExisting, InsertRoom, SplitLeaf, AtLeaf, Inserts, Lookups
  <2>5. CASE PromoteNewRoot \/ PromoteRoom \/ PromoteSplit \/ FixSeparator \/ UpdateLeftmost
    BY <1>1, <2>5 DEF PromoteNewRoot, PromoteRoom, PromoteSplit, Promote, FixSeparator, Fix,
                      UpdateLeftmost, AtRest
  <2>6. CASE EraseFromRoot \/ EraseFromLeaf
    BY <1>1, <2>6 DEF EraseFromRoot, EraseFromLeaf, AtRest
  <2>7. CASE BorrowFromLeft \/ BorrowFromRight \/ MergeWithLeft \/ MergeWithRight
    BY <1>1, <2>7 DEF BorrowFromLeft, BorrowFromRight, MergeWithLeft, MergeWithRight, MustMerge,
                      Underflow, AtRest
  <2>8. CASE ParentUnderflows \/ CollapseRoot \/ ParentStands
    BY <1>1, <2>8 DEF ParentUnderflows, CollapseRoot, ParentStands, AfterMerge, AtRest
  <2>9. CASE NextElement \/ RangeErase \/ RangeFindLast \/ RangeEnd
    BY <1>1, <2>9 DEF NextElement, RangeErase, RangeFindLast, RangeEnd, EraseRange, AtRest
  <2>10. CASE Answer \/ Finish
    BY <2>10 DEF Answer, Finish, AtRest
  <2> QED
    BY <2>1, <2>2, <2>3, <2>4, <2>5, <2>6, <2>7, <2>8, <2>9, <2>10 DEF Run
<1>4. PICK h \in [Node -> Nat], O \in SUBSET Node, Z \in SUBSET Node : Standing(h, O, Z)
  BY <1>1, <1>3 DEF Damaged
<1>5. Standing(h, O, Z)'
  BY <1>3, <1>4, SameStanding
<1>6. Damaged'
  BY <1>5 DEF Damaged
<1> QED
  BY <1>1, <1>2, <1>3, <1>6 DEF OInv

LEMMA CallKeeps ==
  ASSUME OInv, failed, CallAgain, UNCHANGED failed
  PROVE  OInv'
<1>1. IInv /\ load = <<>> /\ Damaged /\ root \in Allocated /\ call'.op \in Lookups /\ Client
  BY DEF OInv, CallAgain
<1>2. IInv' /\ load' = load /\ pc' = "start" /\ UNCHANGED <<tree, heap>>
  BY <1>1, ClientStep DEF Client, Invoke
<1>3. PICK h \in [Node -> Nat], O \in SUBSET Node, Z \in SUBSET Node : Standing(h, O, Z)
  BY <1>1 DEF Damaged
<1>4. Standing(h, O, Z)'
  BY <1>2, <1>3, SameStanding
<1>5. Damaged'
  BY <1>4 DEF Damaged
<1> QED
  BY <1>1, <1>2, <1>5 DEF OInv, AtRest

LEMMA StutterKeeps ==
  ASSUME OInv, UNCHANGED oomVars
  PROVE  OInv'
<1>1. UNCHANGED <<vars, failed>> /\ UNCHANGED <<tree, heap>> /\ UNCHANGED <<pc, call, load, callsLeft>>
  BY DEF oomVars, vars, client
<1>2. IInv'
  BY <1>1, StutterTypes DEF OInv
<1>3. SInv => SInv'
  BY <1>1, NextShape
<1>4. Damaged => Damaged'
  <2>1. ASSUME NEW h, NEW O, NEW Z, Standing(h, O, Z) PROVE Standing(h, O, Z)'
    BY <1>1, <2>1, SameStanding
  <2>2. Allocated' = Allocated
    BY <1>1 DEF Allocated, heap
  <2> QED
    BY <1>1, <2>1, <2>2 DEF Damaged
<1> QED
  BY <1>1, <1>2, <1>3, <1>4 DEF OInv, AtRest

\* Until something has failed the steps are those of the tree.
LEMMA SoundKeeps ==
  ASSUME OInv, ~failed, Load \/ CallAgain \/ Run \/ Finished, UNCHANGED failed
  PROVE  OInv'
<1>1. SInv /\ [Next]_vars
  BY DEF OInv, CallAgain, Next
<1>2. SInv' /\ IInv'
  BY <1>1, NextShape DEF SInv
<1>3. load' # <<>> => callsLeft' = MaxCalls
  <2>1. CASE Load
    BY <2>1 DEF Load, OInv
  <2>2. CASE CallAgain
    BY <2>2 DEF CallAgain, Client
  <2>3. CASE Run
    BY <2>3, RunClient DEF client, OInv
  <2>4. CASE Finished
    BY <2>4 DEF Finished, vars, client
  <2> QED
    BY <2>1, <2>2, <2>3, <2>4
<1> QED
  BY <1>2, <1>3 DEF OInv

LEMMA NextKeeps == OInv /\ [OomNext]_oomVars => OInv'
<1> SUFFICES ASSUME OInv, [OomNext]_oomVars PROVE OInv'
  OBVIOUS
<1>1. CASE (Load \/ CallAgain \/ Run \/ Finished) /\ UNCHANGED failed
  <2>1. CASE ~failed
    BY <1>1, <2>1, SoundKeeps
  <2>2. CASE failed /\ Load
    BY <2>2 DEF OInv, Load
  <2>3. CASE failed /\ (CallAgain \/ Run)
    BY <1>1, <2>3, CallKeeps, LookupKeeps
  <2>4. CASE failed /\ Finished
    BY <1>1, <2>4, StutterKeeps DEF Finished, oomVars
  <2> QED
    BY <1>1, <2>1, <2>2, <2>3, <2>4
<1>2. CASE Throw
  BY <1>2, ThrowKeeps
<1>3. CASE Stopped \/ UNCHANGED oomVars
  BY <1>3, StutterKeeps DEF Stopped
<1> QED
  BY <1>1, <1>2, <1>3 DEF OomNext

LEMMA DamageHolds == OomSpec => []OInv
<1>1. OomInit => OInv
  <2> SUFFICES ASSUME OomInit PROVE OInv
    OBVIOUS
  <2>1. SInv /\ IInv /\ ~failed
    BY InitShape DEF OomInit, SInv
  <2> QED
    BY <2>1 DEF OInv, OomInit, Init
<1> QED
  BY <1>1, NextKeeps, PTL DEF OomSpec

----------------------------------------------------------------------------
(* The list of leaves and the count. *)

\* Where there are several leaves, each has elements.
LEMMA LeavesFilled ==
  ASSUME Basic, NEW h, NEW O, NEW Z, Standing(h, O, Z), NEW l \in Leaves, NEW m \in Leaves, l # m
  PROVE  Filled(Leaves, Held)
<1>1. Sound(h, O, Z, {}) /\ (O # {} => Held[root] # {})
  BY DEF Standing
<1>2. ASSUME root \in Leaves PROVE Held[root] # {}
  <2>1. h[root] = 0 /\ (\A n \in Leaves : h[n] = 0 /\ n \in Allocated)
    BY <1>1, <1>2 DEF Sound, Kinds, Basic, Leaves
  <2>2. ASSUME NEW n \in Leaves, n # root PROVE n \in O
    <3> SUFFICES ASSUME n \notin O PROVE FALSE
      OBVIOUS
    <3>1. parent[n] \in Allocated /\ h[parent[n]] = h[n] + 1
      BY <1>1, <2>1, <2>2, OwnParent DEF Sound, Basic
    <3> QED
      BY <1>1, <2>1, <2>2, <3>1 DEF Sound, Top
  <2> QED
    BY <1>1, <2>2
<1> QED
  BY <1>1, <1>2 DEF Sound, Populated, Filled, Basic

LEMMA StandingChain ==
  ASSUME Basic, NEW h, NEW O, NEW Z, Standing(h, O, Z)
  PROVE  LeafChain
<1>1. Chained
  BY DEF Standing, Sound
<1>2. /\ \A l \in Leaves : prevLeaf[l] = Null <=> l = leftmostLeaf
      /\ \A l \in Leaves : nextLeaf[l] = Null <=> l = rightmostLeaf
  BY <1>1 DEF Chained, Linked
<1>3. ASSUME NEW l \in Leaves, nextLeaf[l] # Null
      PROVE  /\ nextLeaf[l] \in Leaves
             /\ prevLeaf[nextLeaf[l]] = l
             /\ \A x \in DOMAIN data[l], y \in DOMAIN data[nextLeaf[l]] : x < y
  <2>1. PICK m : m = nextLeaf[l]
    OBVIOUS
  <2>2. Neighbours(Leaves, Held, l, m)
    BY <1>1, <1>3, <2>1 DEF Chained, Linked
  <2>3. m \in Leaves /\ l # m /\ Precedes(Held, l, m)
    BY <2>2 DEF Neighbours
  <2>4. Filled(Leaves, Held)
    BY <2>3, LeavesFilled
  <2>5. Neighbours(Leaves, Held, prevLeaf[m], m)
    <3>1. prevLeaf[m] # Null
      <4> SUFFICES ASSUME prevLeaf[m] = Null PROVE FALSE
        OBVIOUS
      <4>1. Precedes(Held, m, l)
        BY <1>1, <2>3 DEF Chained, Linked
      <4> QED
        BY <2>3, <2>4, <4>1, OrderFacts
    <3> QED
      BY <1>1, <2>3, <3>1 DEF Chained, Linked
  <2>6. prevLeaf[m] = l
    BY <2>2, <2>4, <2>5, OneNeighbour
  <2>7. DOMAIN data[l] = Held[l] /\ DOMAIN data[m] = Held[m]
    BY <2>3 DEF Basic
  <2> QED
    BY <2>1, <2>3, <2>6, <2>7 DEF Precedes
<1> QED
  BY <1>2, <1>3 DEF LeafChain

LEMMA DamageIntact == OInv => IntactOrFreed
<1> SUFFICES ASSUME OInv PROVE IntactOrFreed
  OBVIOUS
<1>1. CASE ~failed
  <2>1. SInv
    BY <1>1 DEF OInv
  <2>2. root \in Allocated
    BY <2>1 DEF SInv, Shape, Sound, Top
  <2>3. SizeExact
    BY <2>1 DEF SInv, Counted, SizeExact
  <2> QED
    BY <2>1, <2>2, <2>3, ShapeChain DEF IntactOrFreed
<1>2. CASE failed
  <2>1. Basic /\ Damaged
    BY <1>2, HeldBasic DEF OInv
  <2>2. CASE Allocated = {}
    BY <2>2 DEF IntactOrFreed
  <2>3. CASE \E h \in [Node -> Nat] : \E O, Z \in SUBSET Node : Standing(h, O, Z)
    <3>1. PICK h \in [Node -> Nat], O \in SUBSET Node, Z \in SUBSET Node : Standing(h, O, Z)
      BY <2>3
    <3>2. root \in Allocated /\ SizeExact
      BY <3>1 DEF Standing, Sound, Top, Counted, SizeExact
    <3>3. LeafChain
      BY <2>1, <3>1, StandingChain
    <3> QED
      BY <3>2, <3>3 DEF IntactOrFreed
  <2> QED
    BY <2>1, <2>2, <2>3 DEF Damaged
<1> QED
  BY <1>1, <1>2 DEF OInv

\* Whatever a call throws at, at every step: the list of the leaves is whole and in key
\* order, with the leaf that has no parent in it, and size_ counts its elements; or the
\* call was clear, which has freed every node by then.
THEOREM FailureLeavesListOrNothing == OomSpec => []IntactOrFreed
BY DamageHolds, DamageIntact, PTL

----------------------------------------------------------------------------
(* The search for an element, on the way up from its leaf. *)

\* The nodes without a place are the orphans.
LEMMA OrphansAre ==
  ASSUME Basic, NEW h, NEW O, NEW Z, Standing(h, O, Z)
  PROVE  Orphans = O
<1>1. Family(h, O) /\ Null \notin Inner
  BY DEF Standing, Sound, Basic
<1>2. \A n : n \in Orphans <=> n \in O
  BY <1>1 DEF Family, Orphans
<1> QED
  BY ONLY <1>2

\* If x belongs to c, which is not the first at its height, the separator of c, even one
\* that is stale, does not exceed x: a stale one is that of the first leaf.
LEMMA NotFirst ==
  ASSUME Basic, NEW h, NEW O, NEW Z, Standing(h, O, Z), NEW p \in Inner, NEW s \in Held[p],
         NEW c, c = children[p][s], NEW x \in Int, Covers(h, c, x),
         NEW d \in Allocated, d # c, h[d] = h[c], Held[d] # {}, Precedes(Held, d, c)
  PROVE  s =< x
<1>1. /\ Sound(h, O, Z, {}) /\ SlotsHeld /\ Z \subseteq {leftmostLeaf}
      /\ c \in Allocated /\ s \in Held[c] /\ Held[c] \in SUBSET Int /\ Held[d] \in SUBSET Int
  BY ChildFacts DEF Standing, Sound, SlotsHeld, Basic
<1>2. PICK z \in Held[c] : z =< x
  BY <1>1 DEF Covers, Level
<1>3. c # leftmostLeaf
  <2> SUFFICES ASSUME c = leftmostLeaf PROVE FALSE
    OBVIOUS
  <2>1. c \in Leaves /\ d \in Leaves
    BY <1>1 DEF Sound, Chained, Linked, Kinds, Leaves, Basic
  <2>2. Precedes(Held, c, d)
    BY <1>1, <2>1 DEF Sound, Chained, Linked
  <2> QED
    BY <1>1, <2>2, OneOrder
<1>4. s \in First(Held[c])
  BY <1>1, <1>3 DEF Sound, Exact, Basic
<1> QED
  BY <1>1, <1>2, <1>4 DEF First

\* What belongs to a child belongs to its parent.
LEMMA CoversParent ==
  ASSUME Basic, NEW h, NEW O, NEW Z, Standing(h, O, Z), NEW p \in Inner, NEW s \in Held[p],
         NEW c, c = children[p][s], NEW x \in Int, Covers(h, c, x)
  PROVE  Covers(h, p, x)
<1>1. /\ Sound(h, O, Z, {}) /\ Kinds(h) /\ Family(h, O) /\ Levels(h) /\ SlotsHeld
      /\ c \in Allocated /\ parent[c] = p /\ h[p] = h[c] + 1 /\ h[c] \in Nat /\ p \in Allocated
      /\ s \in Held[c] /\ Held[p] \in SUBSET Int
  BY ChildFacts DEF Standing, Sound, SlotsHeld, Kinds, Basic
<1> SUFFICES ASSUME NEW m \in Level(h, p) \ {p}
             PROVE  /\ Precedes(Held, p, m) => \A y \in Held[m] : x < y
                    /\ Precedes(Held, m, p) => \E y \in Held[p] : y =< x
  BY DEF Covers
<1>2. m \in Allocated /\ h[m] = h[p] /\ m # p /\ m \in Inner
  BY <1>1 DEF Level, Kinds, Basic, Leaves
<1>3. ASSUME NEW y \in Held[m]
      PROVE  \E d \in Allocated :
               /\ d # c /\ h[d] = h[c] /\ y \in Held[d]
               /\ s \in Int /\ y \in Int /\ s # y
               /\ s < y => Precedes(Held, c, d)
               /\ y < s => Precedes(Held, d, c)
  <2>1. PICK d \in Allocated : d = children[m][y] /\ parent[d] = m /\ h[m] = h[d] + 1
    BY <1>1, <1>2, ChildFacts
  <2>2. h[d] \in Nat
    BY <1>1, <2>1 DEF Kinds, Basic
  <2>3. d # c /\ h[d] = h[c] /\ y \in Held[d]
    BY <1>1, <1>2, <2>1, <2>2 DEF SlotsHeld
  <2>4. s \in Int /\ y \in Int /\ s # y /\ (s < y <=> Precedes(Held, c, d))
    BY <1>1, <2>3, SlotOrder
  <2>5. y < s <=> Precedes(Held, d, c)
    BY <1>1, <2>3, SlotOrder
  <2> QED
    BY <2>3, <2>4, <2>5
<1>4. ASSUME Precedes(Held, p, m), NEW y \in Held[m] PROVE x < y
  <2>1. s < y
    BY <1>4 DEF Precedes
  <2>2. PICK d \in Allocated : d # c /\ h[d] = h[c] /\ y \in Held[d] /\ Precedes(Held, c, d)
    BY <1>3, <2>1
  <2> QED
    BY <2>2 DEF Covers, Level
<1>5. ASSUME Precedes(Held, m, p) PROVE \E y \in Held[p] : y =< x
  <2>1. PICK y : y \in Held[m]
    BY <1>1, <1>2 DEF Sound, Populated
  <2>2. y < s
    BY <1>5, <2>1 DEF Precedes
  <2>3. PICK d \in Allocated : d # c /\ h[d] = h[c] /\ y \in Held[d] /\ Precedes(Held, d, c)
    BY <1>3, <2>1, <2>2
  <2>4. s =< x
    BY <2>3, NotFirst
  <2> QED
    BY <2>4
<1> QED
  BY <1>4, <1>5

\* find_leaf_for_key goes from the parent to the child that x belongs to.
LEMMA ChildFound ==
  ASSUME Basic, NEW h, NEW O, NEW Z, Standing(h, O, Z), NEW p \in Inner, NEW s \in Held[p],
         NEW c, c = children[p][s], NEW x \in Int, Covers(h, c, x)
  PROVE  ChildFor(p, x) = c
<1>1. /\ Family(h, O) /\ Kinds(h) /\ Levels(h) /\ SlotsHeld
      /\ c \in Allocated /\ h[p] = h[c] + 1 /\ h[c] \in Nat
      /\ s \in Held[c] /\ Held[p] \in SUBSET Int /\ IsFiniteSet(Held[p])
      /\ Held[p] = DOMAIN children[p] /\ ~IsLeaf(p)
  <2>1. p \in Allocated /\ p \notin Leaves /\ p \in Node
    BY DEF Basic
  <2> QED
    BY <2>1, ChildFacts DEF Standing, Sound, SlotsHeld, Kinds, Basic, Leaves
<1>2. ASSUME NEW t \in Held[p], children[p][t] # c
      PROVE  /\ s < t => x < t
             /\ t < s => s =< x
             /\ t # s /\ t # x
  <2>1. PICK d \in Allocated : d = children[p][t] /\ h[p] = h[d] + 1
    BY <1>1, ChildFacts
  <2>2. h[d] \in Nat
    BY <1>1, <2>1 DEF Kinds, Basic
  <2>3. d # c /\ h[d] = h[c] /\ t \in Held[d]
    BY <1>1, <1>2, <2>1, <2>2 DEF SlotsHeld
  <2>4. s \in Int /\ t \in Int /\ s # t /\ (s < t <=> Precedes(Held, c, d))
    BY <1>1, <2>3, SlotOrder
  <2>5. t < s <=> Precedes(Held, d, c)
    BY <1>1, <2>3, SlotOrder
  <2>6. s < t => x < t
    BY <2>3, <2>4 DEF Covers, Level
  <2>7. t < s => s =< x
    BY <2>3, <2>5, NotFirst
  <2> QED
    BY <2>4, <2>6, <2>7
<1> DEFINE S == Held[p]
           slot == IF x \in S THEN {x} ELSE IF Floor(S, x) # {} THEN Floor(S, x) ELSE First(S)
<1>3. \A t \in slot : t \in S /\ children[p][t] = c
  <2>1. CASE x \in S
    BY <1>2, <2>1
  <2>2. CASE x \notin S /\ Floor(S, x) # {}
    <3> SUFFICES ASSUME NEW t \in Floor(S, x), children[p][t] # c PROVE FALSE
      BY <2>2 DEF Floor
    <3>1. t \in S /\ t < x /\ (s < x => s =< t)
      BY DEF Floor
    <3> QED
      BY <1>1, <1>2, <2>2, <3>1
  <2>3. CASE x \notin S /\ Floor(S, x) = {}
    <3> SUFFICES ASSUME NEW t \in First(S), children[p][t] # c PROVE FALSE
      BY <2>3 DEF First
    <3>1. t \in S /\ t =< s
      BY DEF First
    <3>2. ~(s < x)
      BY <1>1, <2>3, HasFloor
    <3> QED
      BY <1>1, <1>2, <2>3, <3>1, <3>2
  <2> QED
    BY <2>1, <2>2, <2>3
<1>4. slot # {}
  <2>1. First(S) # {}
    BY <1>1, HasFirst
  <2> QED
    BY <2>1
<1>5. ChildFor(p, x) = children[p][CHOOSE t \in slot : TRUE]
  BY <1>1 DEF ChildFor
<1> HIDE DEF slot
<1>6. (CHOOSE t \in slot : TRUE) \in slot
  BY <1>4
<1> QED
  BY <1>3, <1>5, <1>6

\* The nodes f lead from node o down to node n, in i steps.
Path(o, n, i, f) ==
  /\ f \in [0 .. i -> Node] /\ f[0] = o /\ f[i] = n
  /\ \A j \in 0 .. i - 1 : f[j + 1] \in Kids(f[j])

\* What is at the end of a short path is below its start.
LEMMA PathInSubtree ==
  ASSUME Basic, \A m \in Node : Kids(m) \subseteq Node,
         NEW o \in Node, NEW n \in Node, NEW i \in 0 .. Cardinality(Node), NEW f, Path(o, n, i, f)
  PROVE  n \in Subtree(o)
<1> DEFINE g == CHOOSE g : g = [j \in Nat |-> IF j = 0 THEN {o}
                                             ELSE UNION {Kids(m) : m \in g[j - 1]}]
           at(j) == {m \in Node : \E e : Path(o, m, j, e)}
           C == [j \in Nat |-> at(j)]
<1>0. Cardinality(Node) \in Nat
  BY NodeAssumption, FS_CardinalityType
<1>1. Subtree(o) = {m \in Node : \E j \in 0 .. Cardinality(Node) : m \in g[j]}
  BY Zenon DEF Subtree
<1>2. at(0) = {o}
  <2>1. ASSUME NEW m \in at(0) PROVE m = o
    BY DEF Path
  <2>2. o \in at(0)
    <3>1. PICK e : e = [j \in 0 .. 0 |-> o]
      OBVIOUS
    <3>2. Path(o, o, 0, e)
      BY <3>1 DEF Path
    <3> QED
      BY <3>2
  <2> QED
    BY <2>1, <2>2
<1>3. ASSUME NEW j \in Nat, j # 0
      PROVE  at(j) = UNION {Kids(m) : m \in at(j - 1)}
  <2>1. ASSUME NEW m \in at(j) PROVE \E d \in at(j - 1) : m \in Kids(d)
    <3>1. PICK e : Path(o, m, j, e)
      OBVIOUS
    <3>2. PICK r : r = [a \in 0 .. j - 1 |-> e[a]]
      OBVIOUS
    <3>3. r \in [0 .. j - 1 -> Node] /\ \A a \in 0 .. j - 1 : r[a] = e[a]
      BY <1>3, <3>1, <3>2 DEF Path
    <3>4. r[0] = o /\ \A a \in 0 .. (j - 1) - 1 : r[a + 1] \in Kids(r[a])
      BY <1>3, <3>1, <3>3 DEF Path
    <3>5. Path(o, r[j - 1], j - 1, r) /\ r[j - 1] \in Node
      BY <1>3, <3>3, <3>4 DEF Path
    <3>6. m \in Kids(r[j - 1])
      <4>1. e[(j - 1) + 1] \in Kids(e[j - 1])
        BY <1>3, <3>1 DEF Path
      <4> QED
        BY <1>3, <3>1, <3>3, <4>1 DEF Path
    <3>7. r[j - 1] \in at(j - 1)
      BY <3>5
    <3> QED
      BY <3>6, <3>7
  <2>2. ASSUME NEW d \in at(j - 1), NEW m \in Kids(d) PROVE m \in at(j)
    <3>1. PICK e : Path(o, d, j - 1, e)
      OBVIOUS
    <3>2. m \in Node
      OBVIOUS
    <3>3. PICK r : r = [a \in 0 .. j |-> IF a = j THEN m ELSE e[a]]
      OBVIOUS
    <3>4. /\ r \in [0 .. j -> Node] /\ r[j] = m
          /\ \A a \in 0 .. j - 1 : r[a] = e[a]
      BY <1>3, <3>1, <3>2, <3>3 DEF Path
    <3>5. r[0] = o
      BY <1>3, <3>1, <3>4 DEF Path
    <3>6. ASSUME NEW a \in 0 .. j - 1 PROVE r[a + 1] \in Kids(r[a])
      <4>1. CASE a = j - 1
        BY <1>3, <3>1, <3>4, <4>1 DEF Path
      <4>2. CASE a # j - 1
        <5>1. a \in 0 .. (j - 1) - 1 /\ a + 1 \in 0 .. j - 1
          BY <1>3, <4>2
        <5> QED
          BY <3>1, <3>4, <5>1 DEF Path
      <4> QED
        BY <4>1, <4>2
    <3>7. Path(o, m, j, r)
      BY <3>4, <3>5, <3>6 DEF Path
    <3> QED
      BY <3>2, <3>7
  <2> QED
    BY <2>1, <2>2
<1>4. C = [j \in Nat |-> IF j = 0 THEN {o} ELSE UNION {Kids(m) : m \in C[j - 1]}]
  <2> SUFFICES ASSUME NEW j \in Nat
               PROVE  C[j] = IF j = 0 THEN {o} ELSE UNION {Kids(m) : m \in C[j - 1]}
    OBVIOUS
  <2> HIDE DEF at
  <2>1. CASE j = 0
    BY <1>2, <2>1
  <2>2. CASE j # 0
    <3>1. j - 1 \in Nat
      BY <2>2
    <3>2. C[j - 1] = at(j - 1) /\ C[j] = at(j)
      BY <3>1
    <3> QED
      BY <1>3, <2>2, <3>2
  <2> QED
    BY <2>1, <2>2
<1>5. g = [j \in Nat |-> IF j = 0 THEN {o} ELSE UNION {Kids(m) : m \in g[j - 1]}]
  BY <1>4
<1> HIDE DEF g
<1> DEFINE T == {j \in Nat : g[j] = C[j]}
<1>6. 0 \in T
  BY <1>4, <1>5
<1>7. ASSUME NEW j \in Nat, j \in T PROVE j + 1 \in T
  <2> HIDE DEF C
  <2>1. j + 1 \in Nat /\ j + 1 # 0 /\ (j + 1) - 1 = j /\ g[j] = C[j]
    BY <1>7
  <2>2. g[j + 1] = UNION {Kids(m) : m \in g[(j + 1) - 1]}
    BY <1>5, <2>1
  <2>3. C[j + 1] = UNION {Kids(m) : m \in C[(j + 1) - 1]}
    BY <1>4, <2>1
  <2> QED
    BY <2>1, <2>2, <2>3
<1>8. Nat \subseteq T
  <2> HIDE DEF T
  <2> QED
    BY <1>6, <1>7, SetInduction
<1>9. i \in Nat
  BY <1>0
<1>10. n \in g[i]
  <2>1. n \in at(i)
    OBVIOUS
  <2>2. g[i] = at(i)
    BY <1>8, <1>9
  <2> QED
    BY <2>1, <2>2
<1> QED
  BY <1>1, <1>10

\* The nodes f lead from leaf l up to height i.
Ascent(h, l, f, i) ==
  /\ f \in [0 .. i -> Node] /\ f[0] = l
  /\ \A j \in 0 .. i : f[j] \in Allocated /\ h[f[j]] = j
  /\ \A j \in 0 .. i - 1 : f[j] \in Kids(f[j + 1])

LEMMA AscentFromBelow ==
  ASSUME Basic, \A m \in Node : Kids(m) \subseteq Node,
         NEW h, NEW l \in Leaves, NEW i \in 0 .. Cardinality(Node), NEW f, Ascent(h, l, f, i)
  PROVE  l \in Subtree(f[i])
<1>1. Cardinality(Node) \in Nat /\ l \in Node
  BY NodeAssumption, FS_CardinalityType DEF Basic
<1>2. i \in Nat /\ i \in 0 .. i
  BY <1>1
<1>3. PICK e : e = [j \in 0 .. i |-> f[i - j]]
  OBVIOUS
<1>4. \A j \in 0 .. i : i - j \in 0 .. i /\ e[j] = f[i - j]
  BY <1>2, <1>3
<1>5. e \in [0 .. i -> Node]
  BY <1>3, <1>4 DEF Ascent
<1>6. ASSUME NEW j \in 0 .. i - 1 PROVE e[j + 1] \in Kids(e[j])
  <2>1. /\ j \in 0 .. i /\ j + 1 \in 0 .. i
        /\ i - (j + 1) \in 0 .. i - 1 /\ (i - (j + 1)) + 1 = i - j
    BY <1>2
  <2>2. f[i - (j + 1)] \in Kids(f[(i - (j + 1)) + 1])
    BY <2>1 DEF Ascent
  <2> QED
    BY <1>4, <2>1, <2>2
<1>7. e[0] = f[i] /\ e[i] = l /\ f[i] \in Node
  BY <1>2, <1>4 DEF Ascent
<1>8. Path(f[i], l, i, e)
  BY <1>5, <1>6, <1>7 DEF Path
<1> QED
  BY <1>1, <1>7, <1>8, PathInSubtree

\* From a leaf that is not below an orphan the parents lead to the root.
LEMMA AscentToRoot ==
  ASSUME Basic, \A m \in Node : Kids(m) \subseteq Node,
         NEW h, NEW O, NEW Z, Standing(h, O, Z), NEW l \in Leaves, l \notin Orphaned
  PROVE  \E f : Ascent(h, l, f, h[root]) /\ f[h[root]] = root
<1>1. /\ Sound(h, O, Z, {}) /\ Kinds(h) /\ Family(h, O) /\ Orphans = O
      /\ root \in Allocated /\ h[root] \in Nat
      /\ \A n \in Allocated : n \in Node /\ h[n] \in Nat /\ h[n] =< h[root]
  BY OrphansAre DEF Standing, Sound, Kinds, Top, Basic
<1>2. h[root] < Cardinality(Node) /\ Cardinality(Node) \in Nat /\ h[root] \in Nat
  BY <1>1, HeightBound, NodeAssumption, FS_CardinalityType
<1>3. ASSUME NEW i \in Nat, i =< h[root], NEW f, Ascent(h, l, f, i) PROVE f[i] \notin O
  <2>1. i \in 0 .. Cardinality(Node)
    <3>1. i \in Nat /\ i =< h[root]
      BY <1>3
    <3> QED
      BY ONLY <1>2, <3>1
  <2>2. l \in Subtree(f[i])
    BY <1>3, <2>1, AscentFromBelow
  <2> QED
    BY <1>1, <2>2 DEF Orphaned
<1> DEFINE T == {i \in Nat : i =< h[root] => \E f : Ascent(h, l, f, i)}
<1>4. 0 \in T
  <2>1. PICK f : f = [j \in 0 .. 0 |-> l]
    OBVIOUS
  <2>2. l \in Allocated /\ l \in Node /\ h[l] = 0
    BY <1>1 DEF Kinds, Basic, Leaves
  <2>3. Ascent(h, l, f, 0)
    BY <2>1, <2>2 DEF Ascent
  <2> QED
    BY <2>3
<1>5. ASSUME NEW i \in Nat, i \in T PROVE i + 1 \in T
  <2> SUFFICES ASSUME i + 1 =< h[root] PROVE \E f : Ascent(h, l, f, i + 1)
    OBVIOUS
  <2>1. PICK f : Ascent(h, l, f, i)
    BY <1>1, <1>5
  <2>2. f[i] \in Allocated /\ h[f[i]] = i /\ f[i] # root /\ f[i] \notin O
    BY <1>1, <1>3, <2>1 DEF Ascent
  <2>3. PICK p \in Inner : f[i] \in Kids(p) /\ h[p] = i + 1
    BY <1>1, <2>2, OwnParent DEF Kids, Basic
  <2>4. PICK e : e = [j \in 0 .. i + 1 |-> IF j = i + 1 THEN p ELSE f[j]]
    OBVIOUS
  <2>5. p \in Allocated /\ p \in Node
    BY DEF Basic
  <2>6. e[i + 1] = p /\ \A j \in 0 .. i : j \in 0 .. i + 1 /\ e[j] = f[j]
    BY <2>4
  <2>7. e \in [0 .. i + 1 -> Node]
    BY <2>1, <2>4, <2>5 DEF Ascent
  <2>8. ASSUME NEW j \in 0 .. i + 1 PROVE e[j] \in Allocated /\ h[e[j]] = j
    <3>1. j = i + 1 \/ j \in 0 .. i
      OBVIOUS
    <3> QED
      BY <2>1, <2>3, <2>5, <2>6, <3>1 DEF Ascent
  <2>9. ASSUME NEW j \in 0 .. (i + 1) - 1 PROVE e[j] \in Kids(e[j + 1])
    <3>1. CASE j = i
      BY <2>3, <2>6, <3>1
    <3>2. CASE j # i
      <4>1. j \in 0 .. i - 1 /\ j \in 0 .. i /\ j + 1 \in 0 .. i
        BY <3>2
      <4> QED
        BY <2>1, <2>6, <4>1 DEF Ascent
    <3> QED
      BY <3>1, <3>2
  <2>10. e[0] = l
    BY <2>1, <2>6 DEF Ascent
  <2>11. Ascent(h, l, e, i + 1)
    BY <2>7, <2>8, <2>9, <2>10 DEF Ascent
  <2> QED
    BY <2>11
<1> HIDE DEF T
<1>6. Nat \subseteq T
  BY <1>4, <1>5, SetInduction
<1>7. PICK f : Ascent(h, l, f, h[root])
  BY <1>1, <1>6 DEF T
<1>8. f[h[root]] = root
  <2>1. f[h[root]] \in Allocated /\ h[f[h[root]]] = h[root] /\ f[h[root]] \notin O
    BY <1>1, <1>3, <1>7 DEF Ascent
  <2> SUFFICES ASSUME f[h[root]] # root PROVE FALSE
    OBVIOUS
  <2>2. PICK p \in Inner : h[p] = h[root] + 1
    BY <1>1, <2>1, OwnParent
  <2> QED
    BY <1>1, <2>2 DEF Basic
<1> QED
  BY <1>7, <1>8

\* An element that is not below an orphan is where find_leaf_for_key looks for it.
LEMMA LeafIsFound ==
  ASSUME Basic, \A m \in Node : Kids(m) \subseteq Node,
         NEW h, NEW O, NEW Z, Standing(h, O, Z), NEW l \in Leaves, l \notin Orphaned,
         NEW x \in Held[l]
  PROVE  LeafFor(x) = l
<1> DEFINE g == CHOOSE g : g = [i \in Nat |-> IF i = 0 THEN root ELSE ChildFor(g[i - 1], x)]
<1>1. PICK f : Ascent(h, l, f, h[root]) /\ f[h[root]] = root
  BY AscentToRoot
<1>2. PICK top : top = h[root]
  OBVIOUS
<1>3. /\ Kinds(h) /\ top \in Nat /\ top < Cardinality(Node) /\ Cardinality(Node) \in Nat
      /\ x \in Int /\ Held[l] \in SUBSET Int /\ l \in Allocated /\ h[l] = 0 /\ IsLeaf(l)
  <2>1. Sound(h, O, Z, {}) /\ Kinds(h) /\ root \in Node /\ l \in Node /\ l \in Allocated
    BY DEF Standing, Sound, Top, Basic
  <2>2. h[root] < Cardinality(Node)
    BY <2>1, HeightBound
  <2> QED
    BY <1>2, <2>1, <2>2, NodeAssumption, FS_CardinalityType DEF Kinds, Leaves, Basic
<1>4. /\ f[0] = l /\ f[top] = root
      /\ \A j \in 0 .. top : f[j] \in Allocated /\ h[f[j]] = j
      /\ \A j \in 0 .. top - 1 : f[j] \in Kids(f[j + 1])
  BY <1>1, <1>2 DEF Ascent
<1>5. ASSUME NEW i \in Nat, i + 1 =< top
      PROVE  f[i + 1] \in Inner /\ \E s \in Held[f[i + 1]] : f[i] = children[f[i + 1]][s]
  <2>1. i + 1 \in 0 .. top /\ i \in 0 .. top - 1 /\ i + 1 # 0
    BY <1>3, <1>5
  <2>2. f[i + 1] \in Allocated /\ h[f[i + 1]] = i + 1 /\ f[i] \in Kids(f[i + 1])
    BY <1>4, <2>1
  <2>3. f[i + 1] \in Inner
    BY <1>3, <2>1, <2>2 DEF Kinds, Basic, Leaves
  <2> QED
    BY <2>2, <2>3 DEF Kids, Basic
<1> DEFINE T == {i \in Nat : i =< top => Covers(h, f[i], x)}
<1>6. 0 \in T
  <2>1. Covers(h, l, x)
    BY <1>3 DEF Covers, Precedes
  <2> QED
    BY <1>4, <2>1
<1>7. ASSUME NEW i \in Nat, i \in T PROVE i + 1 \in T
  <2> SUFFICES ASSUME i + 1 =< top PROVE Covers(h, f[i + 1], x)
    OBVIOUS
  <2>1. PICK c, p : c = f[i] /\ p = f[i + 1]
    OBVIOUS
  <2>2. Covers(h, c, x)
    BY <1>3, <1>7, <2>1
  <2>3. PICK s \in Held[p] : p \in Inner /\ c = children[p][s]
    BY <1>5, <2>1
  <2>4. Covers(h, p, x)
    BY <1>3, <2>2, <2>3, CoversParent
  <2> QED
    BY <2>1, <2>4
<1>8. Nat \subseteq T
  <2> HIDE DEF T
  <2> QED
    BY <1>6, <1>7, SetInduction
<1>9. ASSUME NEW i \in Nat, i + 1 =< top PROVE ChildFor(f[i + 1], x) = f[i]
  <2>1. PICK c, p : c = f[i] /\ p = f[i + 1]
    OBVIOUS
  <2>2. Covers(h, c, x)
    BY <1>3, <1>8, <1>9, <2>1
  <2>3. PICK s \in Held[p] : p \in Inner /\ c = children[p][s]
    BY <1>5, <1>9, <2>1
  <2>4. ChildFor(p, x) = c
    BY <1>3, <2>2, <2>3, ChildFound
  <2> QED
    BY <2>1, <2>4
<1> HIDE DEF T
<1> DEFINE C == [i \in Nat |-> IF i =< top THEN f[top - i] ELSE l]
<1>10. C = [i \in Nat |-> IF i = 0 THEN root ELSE ChildFor(C[i - 1], x)]
  <2> SUFFICES ASSUME NEW i \in Nat PROVE C[i] = IF i = 0 THEN root ELSE ChildFor(C[i - 1], x)
    OBVIOUS
  <2>1. CASE i = 0
    BY <1>3, <1>4, <2>1
  <2>2. CASE i # 0 /\ i =< top
    <3>1. /\ i - 1 \in Nat /\ i - 1 =< top /\ top - i \in Nat
          /\ (top - i) + 1 =< top /\ top - (i - 1) = (top - i) + 1
      BY <1>3, <2>2
    <3>2. C[i] = f[top - i] /\ C[i - 1] = f[(top - i) + 1]
      BY <2>2, <3>1
    <3> HIDE DEF C
    <3> QED
      BY <1>9, <2>2, <3>1, <3>2
  <2>3. CASE i # 0 /\ ~(i =< top)
    <3>1. i - 1 \in Nat /\ (i - 1 =< top => top - (i - 1) = 0)
      BY <1>3, <2>3
    <3>2. C[i] = l /\ C[i - 1] = l
      BY <1>4, <2>3, <3>1
    <3>3. ChildFor(l, x) = l
      BY <1>3 DEF ChildFor
    <3> HIDE DEF C
    <3> QED
      BY <2>3, <3>2, <3>3
  <2> QED
    BY <2>1, <2>2, <2>3
<1>11. g = [i \in Nat |-> IF i = 0 THEN root ELSE ChildFor(g[i - 1], x)]
  BY <1>10
<1>12. LeafFor(x) = g[Cardinality(Node)]
  BY Zenon DEF LeafFor
<1> HIDE DEF g
<1> DEFINE U == {i \in Nat : g[i] = C[i]}
<1>13. 0 \in U
  BY <1>10, <1>11
<1>14. ASSUME NEW i \in Nat, i \in U PROVE i + 1 \in U
  <2> HIDE DEF C
  <2>1. i + 1 \in Nat /\ i + 1 # 0 /\ (i + 1) - 1 = i /\ g[i] = C[i]
    BY <1>14
  <2>2. g[i + 1] = ChildFor(g[(i + 1) - 1], x)
    BY <1>11, <2>1
  <2>3. C[i + 1] = ChildFor(C[(i + 1) - 1], x)
    BY <1>10, <2>1
  <2> QED
    BY <2>1, <2>2, <2>3
<1>15. Nat \subseteq U
  <2> HIDE DEF U
  <2> QED
    BY <1>13, <1>14, SetInduction
<1>16. C[Cardinality(Node)] = l
  BY <1>3
<1> QED
  BY <1>3, <1>12, <1>15, <1>16

LEMMA DamageFinds == OInv => FindsAllButOrphans
<1> SUFFICES ASSUME OInv, AtRest
             PROVE  /\ Cardinality(Orphans) =< (IF failed THEN 1 ELSE 0)
                    /\ \A l \in Leaves \ Orphaned : \A x \in DOMAIN data[l] : LeafFor(x) = l
  BY DEF FindsAllButOrphans
<1>1. Basic /\ failed \in BOOLEAN
  BY HeldBasic DEF OInv
<1>2. \A m \in Node : Kids(m) \subseteq Node
  BY Parts DEF OInv, IInv, HeapOK, Maps, IsMap, Kids
<1>3. CASE Allocated = {}
  <2>1. Orphans = {} /\ Leaves = {}
    BY <1>1, <1>3 DEF Orphans, Basic
  <2> QED
    BY <1>1, <2>1, FS_EmptySet
<1>4. CASE Allocated # {}
  <2>1. PICK h \in [Node -> Nat], O \in SUBSET Node, Z \in SUBSET Node :
          Standing(h, O, Z) /\ (~failed => O = {})
    <3>1. CASE ~failed
      <4>1. PICK h \in [Node -> Nat] : Standing(h, {}, {})
        BY <3>1, RestStands DEF OInv
      <4> QED
        BY <4>1
    <3>2. CASE failed
      BY <1>4, <3>2 DEF OInv, Damaged
    <3> QED
      BY <3>1, <3>2
  <2>2. Orphans = O /\ \A m, n \in O : m = n
    BY <1>1, <2>1, OrphansAre DEF Standing
  <2>3. Cardinality(Orphans) =< (IF failed THEN 1 ELSE 0)
    <3>1. CASE O = {}
      BY <2>2, <3>1, FS_EmptySet
    <3>2. CASE O # {}
      <4>1. PICK o : o \in O
        BY <3>2
      <4>2. \A n : n \in O <=> n = o
        BY <2>2, <4>1
      <4>3. O = {o}
        BY ONLY <4>2
      <4>4. Cardinality(O) = 1
        BY <4>3, FS_Singleton
      <4> QED
        BY <1>1, <2>1, <2>2, <3>2, <4>4
    <3> QED
      BY <3>1, <3>2
  <2>4. ASSUME NEW l \in Leaves, l \notin Orphaned, NEW x \in DOMAIN data[l]
        PROVE  LeafFor(x) = l
    <3>1. x \in Held[l]
      BY <1>1, <2>4 DEF Basic
    <3> QED
      BY <1>1, <1>2, <2>1, <2>4, <3>1, LeafIsFound
  <2> QED
    BY <2>3, <2>4
<1> QED
  BY <1>3, <1>4

\* Between calls, after a call has thrown or before, every element but those below the one
\* node that the failed insert left without a parent is where find looks for it, although
\* the separators above the split are not brought up to date: the only ones that can be
\* stale are on the way to the first leaf, and a key below them is sought in the first
\* child anyway.
THEOREM FailureLosesOneHalf == OomSpec => []FindsAllButOrphans
BY DamageHolds, DamageFinds, PTL
=============================================================================
